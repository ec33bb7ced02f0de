----------------------------- MODULE MCThreads -----------------------------
(* The programs that synchronise threads or processes through shared       *)
(* memory, each run on its own: prog says which one is running, and the    *)
(* others stay in their initial state.                                     *)
EXTENDS WorkQueueSem, WorkQueueCond, CondSemaphore, ThreadBarrier,
        ThreadOrder, ForkThreads

VARIABLE prog

mcVars ==
  <<prog, sqVars, cqVars, csVars, barVars, phVars, cbVars, opVars, ocVars, slVars, fhVars,
    swVars>>

Programs ==
  {"wqueue_semaphores", "wqueue_condvars", "semaphore", "barrier",
   "philosophers", "copy_buffers", "order_prints", "order_calls", "shared_list",
   "forkhandlers", "synchronous_signals"}

MCInit ==
  /\ prog \in Programs
  /\ SqInit /\ CqInit /\ CsInit /\ BarInit /\ PhInit /\ CbInit /\ OpInit
  /\ OcInit /\ SlInit /\ FhInit /\ SwInit

\* Only the named program steps.
SqAlone == /\ prog = "wqueue_semaphores"
           /\ UNCHANGED <<prog, cqVars, csVars, barVars, phVars, cbVars, opVars, ocVars, slVars, fhVars, swVars>>
CqAlone == /\ prog = "wqueue_condvars"
           /\ UNCHANGED <<prog, sqVars, csVars, barVars, phVars, cbVars, opVars, ocVars, slVars, fhVars, swVars>>
CsAlone == /\ prog = "semaphore"
           /\ UNCHANGED <<prog, sqVars, cqVars, barVars, phVars, cbVars, opVars, ocVars, slVars, fhVars, swVars>>
BarAlone == /\ prog = "barrier"
            /\ UNCHANGED <<prog, sqVars, cqVars, csVars, phVars, cbVars, opVars, ocVars, slVars, fhVars, swVars>>
PhAlone == /\ prog = "philosophers"
           /\ UNCHANGED <<prog, sqVars, cqVars, csVars, barVars, cbVars, opVars, ocVars, slVars, fhVars, swVars>>
CbAlone == /\ prog = "copy_buffers"
           /\ UNCHANGED <<prog, sqVars, cqVars, csVars, barVars, phVars, opVars, ocVars, slVars, fhVars, swVars>>
OpAlone == /\ prog = "order_prints"
           /\ UNCHANGED <<prog, sqVars, cqVars, csVars, barVars, phVars, cbVars, ocVars, slVars, fhVars, swVars>>
OcAlone == /\ prog = "order_calls"
           /\ UNCHANGED <<prog, sqVars, cqVars, csVars, barVars, phVars, cbVars, opVars, slVars, fhVars, swVars>>
SlAlone == /\ prog = "shared_list"
           /\ UNCHANGED <<prog, sqVars, cqVars, csVars, barVars, phVars, cbVars, opVars, ocVars, fhVars, swVars>>
FhAlone == /\ prog = "forkhandlers"
           /\ UNCHANGED <<prog, sqVars, cqVars, csVars, barVars, phVars, cbVars, opVars, ocVars, slVars, swVars>>
SwAlone == /\ prog = "synchronous_signals"
           /\ UNCHANGED <<prog, sqVars, cqVars, csVars, barVars, phVars, cbVars, opVars, ocVars, slVars, fhVars>>

MCNext ==
  \/ SqAlone /\ SqNext
  \/ CqAlone /\ CqNext
  \/ CsAlone /\ CsNext
  \/ BarAlone /\ BarNext
  \/ PhAlone /\ PhNext
  \/ CbAlone /\ CbNext
  \/ OpAlone /\ OpNext
  \/ OcAlone /\ OcNext
  \/ SlAlone /\ SlNextStep
  \/ FhAlone /\ FhNext
  \/ SwAlone /\ SwNext

\* The scheduler runs every thread that can run: main() gets through its
\* creations, each thread through its own code.  Nothing forces a spurious
\* wake-up, a copy_buf() call or a command typed at the prompt.
MCFairness ==
  /\ \A t \in cqThreads : WF_mcVars(CqAlone /\ CqCreate(t))
  /\ WF_mcVars(CqAlone /\ CqBoss)
  /\ \A w \in Workers : WF_mcVars(CqAlone /\ CqWorker(w))
  /\ WF_mcVars(CsAlone /\ (CsLoopEnd \/ CsPostLock \/ CsPostInc \/ CsPostSignal))
  /\ \A t \in Workers : WF_mcVars(CsAlone /\ (CsCreate(t) \/ CsThread(t)))
  /\ \A t \in Workers : WF_mcVars(BarAlone /\ (BarCreate(t) \/ BarThread(t)))
  /\ \A i \in Phils : WF_mcVars(PhAlone /\ (PhCreate(i) \/ PhStep(i)))
  /\ \A t \in Workers : WF_mcVars(CbAlone /\ CbStep(t))
  /\ WF_mcVars(OpAlone /\ (OpSetup \/ \E i \in OpThreads : OpCreate(i)))
  /\ \A i \in OpThreads : WF_mcVars(OpAlone /\ OpThread(i))
  /\ WF_mcVars(OcAlone /\ (OcConstruct \/ OcJoin \/ \E m \in Methods : OcCreate(m)))
  /\ \A m \in Methods : WF_mcVars(OcAlone /\ OcThread(m))
  /\ WF_mcVars(FhAlone /\ FhMainStep) /\ WF_mcVars(FhAlone /\ FhThreadStep)
  /\ WF_mcVars(FhAlone /\ ChildHandler)
  /\ WF_mcVars(SwAlone /\ SwMainStep) /\ WF_mcVars(SwAlone /\ SwThreadStep)

MCSpec == MCInit /\ [][MCNext]_mcVars /\ MCFairness
----------------------------------------------------------------------------
\* The state of every program has its type.
MCTypeOK ==
  /\ SqTypeOK /\ CqTypeOK /\ CsTypeOK /\ BarTypeOK /\ PhTypeOK /\ CbTypeOK
  /\ OpTypeOK /\ OcTypeOK /\ SlTypeOK /\ FhTypeOK /\ SwTypeOK

\* Both work queues hand every job to exactly one worker (see SqIsJobPool and
\* CqIsJobPool), and no worker of the second pops an empty list.
MCIsJobPool == SqIsJobPool /\ CqIsJobPool /\ []CqNeverPopsEmpty

\* '1' '2' '3' '1' ... and first(), second(), third(): the semaphores force the
\* announced orders (see OpOrder and OcOrder).
MCOrders == OpOrder /\ OcOrder

\* Every thread gets through its code: jobs and posts that wait are consumed although
\* the signal is sent after the mutex is released, the barrier program ends with the
\* sum it announces, every philosopher eats, every copy_buf() returns, the ordered
\* threads all get their turn, the handlers of fork(2) let both processes leave and
\* SIGTERM reaches main() through the thread that waits for signals.
MCFinish ==
  /\ prog = "barrier" => BarFinishes
  /\ CqDrains /\ CsDrains /\ PhAllEat /\ CbReturns /\ OpGoesOn /\ OcReturns
  /\ FhEnds /\ SwQuits
=============================================================================
