------------------------------ MODULE ForkSync ------------------------------
(* knowledge_based/linux_internals/fork_sync: a parent and a child take    *)
(* turns.  The three programs have the same main() and differ in how one   *)
(* process notifies the other: a byte in a pipe, a process id in a locked  *)
(* file, or a signal.  stdout is written at once on a terminal and at      *)
(* exit(3) otherwise; write_msgs() uses write(2) and is never buffered.    *)
EXTENDS Naturals, Sequences, FiniteSets
----------------------------------------------------------------------------
(* NOTIFY_INIT(), NOTIFY() and WAIT_NOTIFY() over SIGUSR1, as             *)
(* fork_sync/signals/sync.c defines them and as readers_vs_writers.c,      *)
(* mandatory_locking/locks.c and anon_mmap.c repeat them.                  *)
(*                                                                         *)
(*   flag  sig_flag of each process                                        *)
(*   pend  the processes for which SIGUSR1 is pending                      *)
(*                                                                         *)
(* SIGUSR1 is blocked except inside sigsuspend(2), so it is delivered only *)
(* there; a signal that is already pending is not queued again.  Another   *)
(* signal makes sigsuspend(2) return and the loop call it again.           *)

\* NOTIFY(): kill(pid, SIGUSR1).
Notify(pend, p) == pend' = pend \cup {p}

\* WAIT_NOTIFY(): sig_flag is 0; sigsuspend(2) runs sigusr_handler().
WaitDeliver(flag, pend, p) ==
  /\ flag[p] = 0
  /\ p \in pend
  /\ pend' = pend \ {p}
  /\ flag' = [flag EXCEPT ![p] = 1]

\* WAIT_NOTIFY(): sig_flag is set; clear it and return.
WaitReturn(flag, p) ==
  /\ flag[p] = 1
  /\ flag' = [flag EXCEPT ![p] = 0]
----------------------------------------------------------------------------
(* The two processes and their turns.                                      *)

CONSTANT Msgs   \* messages written by write_msgs(): 10 in the code

ASSUME MsgsAssumption == Msgs \in Nat

VARIABLES
  fsMethod,  \* "pipes", "record_locks" or "signals"
  fsTty,     \* is stdout a terminal?
  fsOk,      \* did TELL_WAIT() or NOTIFY_INIT() succeed?
  fsPc,      \* where each process is
  fsI,       \* the messages each process has written
  fsPipe,    \* bytes waiting in the pipe each process reads
  fsFile,    \* the process named in the temporary file
  fsLock,    \* the process write-locking the temporary file
  fsFlag,    \* sig_flag
  fsPend,    \* the processes with SIGUSR1 pending
  fsBuf,     \* each process's stdout buffer
  fsOut      \* what has reached stdout

fsSync == <<fsPipe, fsFile, fsLock, fsFlag, fsPend>>
fsVars == <<fsMethod, fsTty, fsOk, fsPc, fsI, fsSync, fsBuf, fsOut>>

FsProcs == {"parent", "child"}
FsOther(p) == IF p = "parent" THEN "child" ELSE "parent"

FsInit ==
  /\ fsMethod \in {"pipes", "record_locks", "signals"}
  /\ fsTty \in BOOLEAN
  /\ fsOk = TRUE
  /\ fsPc = [p \in FsProcs |-> IF p = "parent" THEN "init" ELSE "unborn"]
  /\ fsI = [p \in FsProcs |-> 0]
  /\ fsPipe = [p \in FsProcs |-> 0]
  /\ fsFile = "nobody"
  /\ fsLock = {}
  /\ fsFlag = [p \in FsProcs |-> 0]
  /\ fsPend = {}
  /\ fsBuf = [p \in FsProcs |-> <<>>]
  /\ fsOut = <<>>

FsGoto(p, label) == fsPc' = [fsPc EXCEPT ![p] = label]

\* printf(3).
FsPrint(p, text) ==
  IF fsTty
  THEN fsOut' = Append(fsOut, text) /\ UNCHANGED fsBuf
  ELSE fsBuf' = [fsBuf EXCEPT ![p] = Append(@, text)] /\ UNCHANGED fsOut

\* printf("Started\n"); TELL_WAIT() or NOTIFY_INIT(), whose result is ignored.
\* pipe(2) and mkstemp(3) can fail; installing the handler cannot.
FsStart ==
  /\ fsPc["parent"] = "init"
  /\ FsPrint("parent", "started")
  /\ fsOk' \in {TRUE, fsMethod = "signals"}
  /\ FsGoto("parent", "fork")
  /\ UNCHANGED <<fsMethod, fsTty, fsI, fsSync>>

\* fork(2): the child inherits the buffer; on failure the program exits.
FsFork ==
  /\ fsPc["parent"] = "fork"
  /\ \/ /\ fsPc' = [p \in FsProcs |-> IF p = "parent" THEN "wait1" ELSE "msgs"]
        /\ fsBuf' = [fsBuf EXCEPT !["child"] = fsBuf["parent"]]
     \/ /\ FsGoto("parent", "exit")
        /\ UNCHANGED fsBuf
  /\ UNCHANGED <<fsMethod, fsTty, fsOk, fsI, fsSync, fsOut>>

\* write_msgs(): one message, or the end of the loop.
FsMsgs(p) ==
  /\ fsPc[p] = "msgs"
  /\ IF fsI[p] < Msgs
     THEN /\ fsI' = [fsI EXCEPT ![p] = @ + 1]
          /\ fsOut' = Append(fsOut, p)
          /\ UNCHANGED fsPc
     ELSE /\ FsGoto(p, IF p = "child" THEN "tell1" ELSE "key")
          /\ UNCHANGED <<fsI, fsOut>>
  /\ UNCHANGED <<fsMethod, fsTty, fsOk, fsSync, fsBuf>>

\* The parent prompts and waits for a key.
FsKey ==
  /\ fsPc["parent"] = "key"
  /\ FsPrint("parent", "press")
  /\ FsGoto("parent", "tell1")
  /\ UNCHANGED <<fsMethod, fsTty, fsOk, fsI, fsSync>>

\* Where a notification is sent and where one is awaited.
FsTelling(p) == fsPc[p] \in {"tell1", "tell2"}
FsWaiting(p) == fsPc[p] \in {"wait1", "wait2"}
FsAfterTell(p) == IF fsPc[p] = "tell1" THEN "wait2" ELSE "exit"
FsAfterWait(p) == IF fsPc[p] = "wait1" THEN "msgs" ELSE "print"

\* TELL_PARENT() and TELL_CHILD(): write(2) one byte.  Without the pipes the
\* byte goes to file descriptor 0 and nobody gets it.
FsTellPipe(p) ==
  /\ fsMethod = "pipes"
  /\ FsTelling(p)
  /\ fsPipe' = [fsPipe EXCEPT ![FsOther(p)] = IF fsOk THEN @ + 1 ELSE @]
  /\ FsGoto(p, FsAfterTell(p))
  /\ UNCHANGED <<fsMethod, fsTty, fsOk, fsI, fsFile, fsLock, fsFlag, fsPend, fsBuf, fsOut>>

\* WAIT_PARENT() and WAIT_CHILD(): read(2) one byte.
FsWaitPipe(p) ==
  /\ fsMethod = "pipes"
  /\ FsWaiting(p)
  /\ fsOk => fsPipe[p] > 0
  /\ fsPipe' = [fsPipe EXCEPT ![p] = IF fsOk THEN @ - 1 ELSE @]
  /\ FsGoto(p, FsAfterWait(p))
  /\ UNCHANGED <<fsMethod, fsTty, fsOk, fsI, fsFile, fsLock, fsFlag, fsPend, fsBuf, fsOut>>

\* NOTIFY() with record locks: lock and truncate the file ...
FsTellLock(p) ==
  /\ fsMethod = "record_locks"
  /\ FsTelling(p)
  /\ fsLock = {}
  /\ fsLock' = IF fsOk THEN {p} ELSE {}
  /\ fsFile' = "nobody"
  /\ FsGoto(p, IF fsPc[p] = "tell1" THEN "write1" ELSE "write2")
  /\ UNCHANGED <<fsMethod, fsTty, fsOk, fsI, fsPipe, fsFlag, fsPend, fsBuf, fsOut>>

\* NOTIFY() that writes the id of the caller.
FsTellWriteOwn(p) ==
  /\ fsPc[p] \in {"write1", "write2"}
  /\ fsFile' = IF fsOk THEN p ELSE "nobody"
  /\ fsLock' = fsLock \ {p}
  /\ FsGoto(p, IF fsPc[p] = "write1" THEN "wait2" ELSE "exit")
  /\ UNCHANGED <<fsMethod, fsTty, fsOk, fsI, fsPipe, fsFlag, fsPend, fsBuf, fsOut>>

\* ... write the process id and unlock.
FsTellWrite(p) ==
  /\ fsPc[p] \in {"write1", "write2"}
  /\ fsFile' = IF fsOk THEN FsOther(p) ELSE "nobody"
  /\ fsLock' = fsLock \ {p}
  /\ FsGoto(p, IF fsPc[p] = "write1" THEN "wait2" ELSE "exit")
  /\ UNCHANGED <<fsMethod, fsTty, fsOk, fsI, fsPipe, fsFlag, fsPend, fsBuf, fsOut>>

\* WAIT_NOTIFY() with record locks: read the file under a read lock until it
\* names this process.  Without a file pread(2) returns -1, pid_buf[-1] is
\* written and whatever is in pid_buf is compared.
FsWaitLock(p) ==
  /\ fsMethod = "record_locks"
  /\ FsWaiting(p)
  /\ fsLock = {}
  /\ fsOk => fsFile = p
  /\ FsGoto(p, FsAfterWait(p))
  /\ UNCHANGED <<fsMethod, fsTty, fsOk, fsI, fsSync, fsBuf, fsOut>>

\* NOTIFY() and WAIT_NOTIFY() with signals.
FsTellSignal(p) ==
  /\ fsMethod = "signals"
  /\ FsTelling(p)
  /\ Notify(fsPend, FsOther(p))
  /\ FsGoto(p, FsAfterTell(p))
  /\ UNCHANGED <<fsMethod, fsTty, fsOk, fsI, fsPipe, fsFile, fsLock, fsFlag, fsBuf, fsOut>>

\* WAIT_NOTIFY() that forgets to clear sig_flag.
FsWaitSignalNoClear(p) ==
  /\ fsMethod = "signals"
  /\ FsWaiting(p)
  /\ \/ WaitDeliver(fsFlag, fsPend, p) /\ UNCHANGED fsPc
     \/ fsFlag[p] = 1 /\ FsGoto(p, FsAfterWait(p)) /\ UNCHANGED <<fsPend, fsFlag>>
  /\ UNCHANGED <<fsMethod, fsTty, fsOk, fsI, fsPipe, fsFile, fsLock, fsBuf, fsOut>>

FsWaitSignal(p) ==
  /\ fsMethod = "signals"
  /\ FsWaiting(p)
  /\ \/ WaitDeliver(fsFlag, fsPend, p) /\ UNCHANGED fsPc
     \/ WaitReturn(fsFlag, p) /\ FsGoto(p, FsAfterWait(p)) /\ UNCHANGED fsPend
  /\ UNCHANGED <<fsMethod, fsTty, fsOk, fsI, fsPipe, fsFile, fsLock, fsBuf, fsOut>>

\* "Child exiting", after which the child notifies once more, or "Parent exiting".
FsLast(p) ==
  /\ fsPc[p] = "print"
  /\ FsPrint(p, IF p = "child" THEN "child_exits" ELSE "parent_exits")
  /\ FsGoto(p, IF p = "child" THEN "tell2" ELSE "exit")
  /\ UNCHANGED <<fsMethod, fsTty, fsOk, fsI, fsSync>>

\* exit(3) flushes the buffer.
FsExit(p) ==
  /\ fsPc[p] = "exit"
  /\ fsOut' = fsOut \o fsBuf[p]
  /\ fsBuf' = [fsBuf EXCEPT ![p] = <<>>]
  /\ FsGoto(p, "done")
  /\ UNCHANGED <<fsMethod, fsTty, fsOk, fsI, fsSync>>

FsStep(p) ==
  \/ FsMsgs(p) \/ FsLast(p) \/ FsExit(p)
  \/ FsTellPipe(p) \/ FsWaitPipe(p)
  \/ FsTellLock(p) \/ FsTellWrite(p) \/ FsWaitLock(p)
  \/ FsTellSignal(p) \/ FsWaitSignal(p)

FsNext == FsStart \/ FsFork \/ FsKey \/ \E p \in FsProcs : FsStep(p)

FsSpec == FsInit /\ [][FsNext]_fsVars
----------------------------------------------------------------------------
\* What is announced on a terminal: "Child goes first", and the parent leaves
\* last.
FsScript ==
  <<"started">> \o [k \in 1..Msgs |-> "child"] \o [k \in 1..Msgs |-> "parent"]
    \o <<"press", "child_exits", "parent_exits">>

\* The processes take turns whatever the method: on a terminal the output is
\* a prefix of the script; elsewhere, where "Started" is printed by both
\* processes and the child's last line may come after the parent's, no message
\* is lost or repeated and those of the child all come before those of the parent.
FsTurns ==
  fsOk =>
    IF fsTty
    THEN fsOut = SubSeq(FsScript, 1, Len(fsOut))
    ELSE /\ \A p \in FsProcs : Cardinality({i \in DOMAIN fsOut : fsOut[i] = p}) = fsI[p]
         /\ \A i, j \in DOMAIN fsOut : fsOut[i] = "child" /\ fsOut[j] = "parent" => i < j

\* Neither process waits for a notification that was lost or consumed twice:
\* once forked, both end.
FsForked == fsOk /\ fsPc["child"] = "msgs"
FsDone == \A p \in FsProcs : fsPc[p] = "done"
FsEnds == FsForked ~> FsDone
=============================================================================
