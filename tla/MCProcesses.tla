---------------------------- MODULE MCProcesses ----------------------------
(* The programs whose processes synchronise through signals, pipes, locked *)
(* files, named semaphores and terminals, each run on its own.             *)
EXTENDS ForkSync, RecordLocks, SharedCounters, Signals, Terminals

VARIABLE prog

mcVars ==
  <<prog, fsVars, rwVars, mlVars, flVars, amVars, ssVars, duVars, sgVars, coVars, ptVars, rlVars, pfVars, drVars, rcVars>>

Programs ==
  {"fork_sync", "readers_vs_writers", "mandatory_locking", "file_locks", "anon_mmap",
   "shared_semaphores", "daemonize_unique", "signals", "coprocesses", "pty",
   "remote_login", "pty_fork", "do_driver", "remote_login_client"}

\* The signal programs are many; none of them runs beside another program.
SgIdle == SgStart("signal_demo")

MCInit ==
  /\ prog \in Programs
  /\ FsInit /\ RwInit /\ MlInit /\ FlInit /\ AmInit /\ SsInit /\ DuInit
  /\ CoInit /\ PtInit /\ RlInit /\ PfInit /\ DrInit /\ RcInit
  /\ IF prog = "signals" THEN SgInit ELSE SgIdle
  /\ prog # "fork_sync" => fsMethod = "pipes" /\ ~fsTty
  /\ prog # "mandatory_locking" => ~mlMand
  /\ prog # "coprocesses" => ~coStdio
  /\ prog # "pty" => ~ptIgnoreEof
  /\ prog # "pty_fork" => pfTty

FsAlone == prog = "fork_sync"
           /\ UNCHANGED <<prog, rwVars, mlVars, flVars, amVars, ssVars, duVars, sgVars, coVars, ptVars, rlVars, pfVars, drVars, rcVars>>
RwAlone == prog = "readers_vs_writers"
           /\ UNCHANGED <<prog, fsVars, mlVars, flVars, amVars, ssVars, duVars, sgVars, coVars, ptVars, rlVars, pfVars, drVars, rcVars>>
MlAlone == prog = "mandatory_locking"
           /\ UNCHANGED <<prog, fsVars, rwVars, flVars, amVars, ssVars, duVars, sgVars, coVars, ptVars, rlVars, pfVars, drVars, rcVars>>
FlAlone == prog = "file_locks"
           /\ UNCHANGED <<prog, fsVars, rwVars, mlVars, amVars, ssVars, duVars, sgVars, coVars, ptVars, rlVars, pfVars, drVars, rcVars>>
AmAlone == prog = "anon_mmap"
           /\ UNCHANGED <<prog, fsVars, rwVars, mlVars, flVars, ssVars, duVars, sgVars, coVars, ptVars, rlVars, pfVars, drVars, rcVars>>
SsAlone == prog = "shared_semaphores"
           /\ UNCHANGED <<prog, fsVars, rwVars, mlVars, flVars, amVars, duVars, sgVars, coVars, ptVars, rlVars, pfVars, drVars, rcVars>>
DuAlone == prog = "daemonize_unique"
           /\ UNCHANGED <<prog, fsVars, rwVars, mlVars, flVars, amVars, ssVars, sgVars, coVars, ptVars, rlVars, pfVars, drVars, rcVars>>
SgAlone == prog = "signals"
           /\ UNCHANGED <<prog, fsVars, rwVars, mlVars, flVars, amVars, ssVars, duVars, coVars, ptVars, rlVars, pfVars, drVars, rcVars>>
CoAlone == prog = "coprocesses"
           /\ UNCHANGED <<prog, fsVars, rwVars, mlVars, flVars, amVars, ssVars, duVars, sgVars, ptVars, rlVars, pfVars, drVars, rcVars>>
PtAlone == prog = "pty"
           /\ UNCHANGED <<prog, fsVars, rwVars, mlVars, flVars, amVars, ssVars, duVars, sgVars, coVars, rlVars, pfVars, drVars, rcVars>>
RlAlone == prog = "remote_login"
           /\ UNCHANGED <<prog, fsVars, rwVars, mlVars, flVars, amVars, ssVars, duVars, sgVars, coVars, ptVars, pfVars, drVars, rcVars>>
PfAlone == prog = "pty_fork"
           /\ UNCHANGED <<prog, fsVars, rwVars, mlVars, flVars, amVars, ssVars, duVars, sgVars, coVars, ptVars, rlVars, drVars, rcVars>>
DrAlone == prog = "do_driver"
           /\ UNCHANGED <<prog, fsVars, rwVars, mlVars, flVars, amVars, ssVars, duVars, sgVars, coVars, ptVars, rlVars, pfVars, rcVars>>
RcAlone == prog = "remote_login_client"
           /\ UNCHANGED <<prog, fsVars, rwVars, mlVars, flVars, amVars, ssVars, duVars, sgVars, coVars, ptVars, rlVars, pfVars, drVars>>

MCNext ==
  \/ FsAlone /\ FsNext
  \/ RwAlone /\ RwNext
  \/ MlAlone /\ MlNext
  \/ FlAlone /\ FlNext
  \/ AmAlone /\ AmNext
  \/ SsAlone /\ SsNext
  \/ DuAlone /\ DuNext
  \/ SgAlone /\ SgNext
  \/ CoAlone /\ CoNext
  \/ PtAlone /\ PtNext
  \/ RlAlone /\ RlNext
  \/ PfAlone /\ PfNext
  \/ DrAlone /\ DrNext
  \/ RcAlone /\ RcNext

Typed == {<<>>, <<7>>, <<1, 2>>, <<2, 3>>}

\* Every process that can run is run, time passes, and the user presses a key.  One
\* program runs in a behaviour, so that fairness of a disjunction is fairness of the
\* process of that program.
MCFairness ==
  /\ \A p \in FsProcs : WF_mcVars((FsAlone /\ FsStep(p)) \/ (AmAlone /\ AmStep(p)))
  /\ WF_mcVars((FsAlone /\ FsKey) \/ (RwAlone /\ RwWrite) \/ (MlAlone /\ MlParent)
               \/ (SgAlone /\ SgStep) \/ (CoAlone /\ CoDriver)
               \/ (PtAlone /\ PtParentStep) \/ (RlAlone /\ RlServe))
  /\ WF_mcVars((MlAlone /\ MlChild) \/ (SgAlone /\ SgDeliver) \/ (CoAlone /\ CoChild)
               \/ (PtAlone /\ PtHangUp))
  /\ WF_mcVars((SgAlone /\ SgTick) \/ (PtAlone /\ PtChildStep))
  /\ WF_mcVars((SgAlone /\ SgChild) \/ (PtAlone /\ PtChildKilled))
  /\ \A k \in RwProcs : WF_mcVars(RwAlone /\ RwReader(k))
  /\ \A c \in RlClients :
       WF_mcVars(RlAlone /\ RlForked(c)) /\ WF_mcVars(RlAlone /\ RlHangUp(c))

MCSpec == MCInit /\ [][MCNext]_mcVars /\ MCFairness

\* One program on its own, for the configurations that show where it fails.
DaemonOnly == (MCInit /\ prog = "daemonize_unique") /\ [][MCNext]_mcVars
PtyOnly == (MCInit /\ prog = "pty") /\ [][MCNext]_mcVars
PtyForkOnly == (MCInit /\ prog = "pty_fork") /\ [][MCNext]_mcVars
----------------------------------------------------------------------------
\* Processes that share a file, a counter or a semaphore take turns on it (see
\* FlWhole, AmAlternate and SsSafe).
MCTakeTurns == FlWhole /\ AmAlternate /\ SsSafe

\* What is set up for another process is set up whole or not at all: the answers
\* of a coprocess, the two ends of a terminal, the pipes of a driver, the terminal
\* of the user (see CoMatches, PfAtomic, DrWired and RcRestores).
MCWired == CoMatches /\ PfAtomic /\ DrWired /\ RcRestores

\* Nobody waits for a notification that does not come: the synchronised
\* processes all end, the writer is served if no reader failed, a driver gets its
\* answer, and the two processes of pty end each other (see FsEnds, MlEnds, AmEnds,
\* RwWriterServed, CoReplies and PtEnds).
MCWaits ==
  \/ prog = "fork_sync" /\ FsForked
  \/ prog = "mandatory_locking" /\ MlWaits
  \/ prog = "anon_mmap" /\ AmStarted
  \/ prog = "readers_vs_writers" /\ RwWaits
  \/ prog = "coprocesses" /\ CoWaits
  \/ prog = "pty" /\ PtMustEnd
MCWaited ==
  \/ prog = "fork_sync" /\ FsDone
  \/ prog = "mandatory_locking" /\ MlExited
  \/ prog = "anon_mmap" /\ AmDone
  \/ prog = "readers_vs_writers" /\ RwServed
  \/ prog = "coprocesses" /\ ~CoWaits
  \/ prog = "pty" /\ PtBothEnded
MCNotified == MCWaits ~> MCWaited

\* No signal is missed between two system calls (see SgWakes).
MCWakes == prog = "signals" => SgWakes
=============================================================================
