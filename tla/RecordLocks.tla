---------------------------- MODULE RecordLocks -----------------------------
(* Four programs about locks on files.                                     *)
EXTENDS ForkSync

(* file_locks/locks.c: a parent and its child append records to one file   *)
(* through a descriptor, and so an offset, they share.  A record takes two *)
(* write(2) calls, made under a write lock on the whole file.              *)

CONSTANT Records   \* records each process writes: 200 in the code

ASSUME RecordsAssumption == Records \in Nat

VARIABLES
  flFile,  \* what was written: <<process, part>> in order
  flLock,  \* the processes holding the write lock
  flPc,    \* where each process is
  flI      \* i of each print_msgs()

flVars == <<flFile, flLock, flPc, flI>>

FlProcs == {"parent", "child"}

FlInit ==
  /\ flFile = <<>>
  /\ flLock = {}
  /\ flPc = [p \in FlProcs |-> IF p = "parent" THEN "start" ELSE "unborn"]
  /\ flI = [p \in FlProcs |-> 0]

FlGoto(p, label) == flPc' = [flPc EXCEPT ![p] = label]

\* main(): mkstemp(3) and fork(2), either of which may fail.
FlFork ==
  /\ flPc["parent"] = "start"
  /\ \/ flPc' = [p \in FlProcs |-> "lock"]
     \/ FlGoto("parent", "exited")
  /\ UNCHANGED <<flFile, flLock, flI>>

\* A lock on the first part of the record only.
FlTakeNothing(p) ==
  /\ flPc[p] = "lock"
  /\ flI[p] < Records
  /\ FlGoto(p, "name")
  /\ UNCHANGED <<flLock, flFile, flI>>

\* print_msgs(): fcntl(F_SETLKW), or its failure, which ends the loop.
FlTake(p) ==
  /\ flPc[p] = "lock"
  /\ flI[p] < Records
  /\ \/ flLock = {} /\ flLock' = {p} /\ FlGoto(p, "name")
     \/ FlGoto(p, "key") /\ UNCHANGED flLock
  /\ UNCHANGED <<flFile, flI>>

\* write(fd, name, ...).
FlName(p) ==
  /\ flPc[p] = "name"
  /\ flFile' = Append(flFile, <<p, "name">>)
  /\ FlGoto(p, "text")
  /\ UNCHANGED <<flLock, flI>>

\* write(fd, buf, ...) and un_lock().
FlText(p) ==
  /\ flPc[p] = "text"
  /\ flFile' = Append(flFile, <<p, "text">>)
  /\ flLock' = flLock \ {p}
  /\ flI' = [flI EXCEPT ![p] = @ + 1]
  /\ FlGoto(p, "lock")

\* The loop is over; getchar(3); the parent unlinks the file, which the child
\* may still have open.
FlLoopEnd(p) ==
  /\ flPc[p] = "lock"
  /\ flI[p] = Records
  /\ FlGoto(p, "key")
  /\ UNCHANGED <<flFile, flLock, flI>>

FlExit(p) ==
  /\ flPc[p] = "key"
  /\ FlGoto(p, "exited")
  /\ UNCHANGED <<flFile, flLock, flI>>

FlNext ==
  \/ FlFork
  \/ \E p \in FlProcs : FlTake(p) \/ FlName(p) \/ FlText(p) \/ FlLoopEnd(p) \/ FlExit(p)

FlSpec == FlInit /\ [][FlNext]_flVars
----------------------------------------------------------------------------
\* The records never mix: each name is followed by the text of the same
\* process, however the two processes interleave.
FlWhole ==
  \A k \in 1..Len(flFile) :
    IF k % 2 = 1
    THEN flFile[k][2] = "name"
    ELSE flFile[k] = <<flFile[k - 1][1], "text">>

-----------------------------------------------------------------------------
(* mandatory_locking/locks.c: the parent write-locks a file and notifies   *)
(* the child, which tries to read-lock it and then reads without a lock.   *)

VARIABLES
  mlPc,     \* where the parent and the child are
  mlLock,   \* the processes holding a lock on the file
  mlMand,   \* does the kernel enforce mandatory locks on this file system?
  mlFailed, \* did the parent's fcntl(F_SETLK) fail?
  mlSaid,   \* what the child reported
  mlFlag,   \* sig_flag
  mlPend    \* the processes with SIGUSR1 pending

mlVars == <<mlPc, mlLock, mlMand, mlFailed, mlSaid, mlFlag, mlPend>>

MlProcs == {"parent", "child"}

MlInit ==
  /\ mlPc = [p \in MlProcs |-> IF p = "parent" THEN "setup" ELSE "unborn"]
  /\ mlLock = {}
  /\ mlMand \in BOOLEAN
  /\ mlFailed = FALSE
  /\ mlSaid = {}
  /\ mlFlag = [p \in MlProcs |-> 0]
  /\ mlPend = {}

MlGoto(p, label) == mlPc' = [mlPc EXCEPT ![p] = label]

\* A parent that notifies before it locks.
MlSetupNotified ==
  /\ mlPc["parent"] = "setup"
  /\ mlPc' = [p \in MlProcs |-> IF p = "parent" THEN "lock" ELSE "wait"]
  /\ Notify(mlPend, "child")
  /\ UNCHANGED <<mlLock, mlMand, mlFailed, mlSaid, mlFlag>>

\* open, fstat, fchmod, write, NOTIFY_INIT() and fork(2), each of which may
\* fail and end the program.
MlSetup ==
  /\ mlPc["parent"] = "setup"
  /\ \/ mlPc' = [p \in MlProcs |-> IF p = "parent" THEN "lock" ELSE "wait"]
     \/ MlGoto("parent", "exited")
  /\ UNCHANGED <<mlLock, mlMand, mlFailed, mlSaid, mlFlag, mlPend>>

\* The parent's fcntl(F_SETLK, F_WRLCK), which may fail.
MlParentLock ==
  /\ mlPc["parent"] = "lock"
  /\ \/ mlLock = {} /\ mlLock' = {"parent"} /\ UNCHANGED mlFailed
     \/ mlFailed' = TRUE /\ UNCHANGED mlLock
  /\ MlGoto("parent", "notify")
  /\ UNCHANGED <<mlMand, mlSaid, mlFlag, mlPend>>

\* NOTIFY(f) on both paths; then exit(3) after a failure, wait(2) otherwise.
MlParentNotify ==
  /\ mlPc["parent"] = "notify"
  /\ Notify(mlPend, "child")
  /\ MlGoto("parent", IF mlFailed THEN "exited" ELSE "reap")
  /\ UNCHANGED <<mlLock, mlMand, mlFailed, mlSaid, mlFlag>>

MlParentReap ==
  /\ mlPc["parent"] = "reap"
  /\ mlPc["child"] = "exited"
  /\ MlGoto("parent", "exited")
  /\ mlLock' = mlLock \ {"parent"}
  /\ UNCHANGED <<mlMand, mlFailed, mlSaid, mlFlag, mlPend>>

\* WAIT_NOTIFY().
MlChildWait ==
  /\ mlPc["child"] = "wait"
  /\ \/ WaitDeliver(mlFlag, mlPend, "child") /\ UNCHANGED mlPc
     \/ WaitReturn(mlFlag, "child") /\ MlGoto("child", "try") /\ UNCHANGED mlPend
  /\ UNCHANGED <<mlLock, mlMand, mlFailed, mlSaid>>

\* O_NONBLOCK, then fcntl(F_SETLK, F_RDLCK): denied, or "Oops!" and exit(3).
\* Without the parent's lock the answer depends on other processes' locks.
MlChildTry ==
  /\ mlPc["child"] = "try"
  /\ \/ MlGoto("child", "read") /\ mlSaid' = mlSaid \cup {"denied"}
     \/ /\ "parent" \notin mlLock
        /\ MlGoto("child", "exited") /\ mlSaid' = mlSaid \cup {"oops"}
     \/ MlGoto("child", "exited") /\ UNCHANGED mlSaid
  /\ UNCHANGED <<mlLock, mlMand, mlFailed, mlFlag, mlPend>>

\* lseek(2), which may fail, and read(2) without a lock.  The child says that mandatory
\* locking works whatever error read(2) returns: no test of errno tells EAGAIN from the rest.
MlChildRead ==
  /\ mlPc["child"] = "read"
  /\ \/ mlSaid' = mlSaid \cup {"works"}
     \/ /\ ~mlMand \/ "parent" \notin mlLock
        /\ mlSaid' = mlSaid \cup {"doesn't work"}
     \/ UNCHANGED mlSaid
  /\ MlGoto("child", "exited")
  /\ UNCHANGED <<mlLock, mlMand, mlFailed, mlFlag, mlPend>>

MlParent == MlParentLock \/ MlParentNotify \/ MlParentReap
MlChild == MlChildWait \/ MlChildTry \/ MlChildRead

MlNext == MlSetup \/ MlParent \/ MlChild

MlSpec == MlInit /\ [][MlNext]_mlVars
----------------------------------------------------------------------------
\* When the parent got its lock it has it for as long as the child tries the file, so
\* that there is no "Oops! Read lock acquired when parent process has write lock" and
\* "mandatory locking doesn't work" is said only of a kernel that does not enforce it.
\* "seems to work" follows from any error of read(2), and is not a verdict.
MlVerdict ==
  ~mlFailed =>
    /\ mlPc["child"] \in {"try", "read"} => mlLock = {"parent"}
    /\ "oops" \notin mlSaid
    /\ "doesn't work" \in mlSaid => ~mlMand

\* The child is not left waiting, whether the parent got its lock or not.
MlWaits == mlPc["child"] = "wait"
MlExited == mlPc = [parent |-> "exited", child |-> "exited"]
MlEnds == MlWaits ~> MlExited
----------------------------------------------------------------------------
(* file_write_locks/readers_vs_writers.c: a chain of reader processes,     *)
(* each of which exits only when the reader it forked holds a read lock,   *)
(* while one writer waits for a write lock on the same file.               *)

CONSTANT Chain   \* TEST_CHILDREN: the readers forked after the first

ASSUME ChainAssumption == Chain \in Nat

VARIABLES
  rwReaders,  \* the processes holding a read lock
  rwWriter,   \* the writer: "unborn", "waiting", "locked", "failed"
  rwPc,       \* where each reader process is; reader 0 is the first process
  rwFlag,     \* sig_flag of each reader process
  rwPend      \* the processes with SIGUSR1 pending

rwVars == <<rwReaders, rwWriter, rwPc, rwFlag, rwPend>>

RwProcs == 0..Chain

RwInit ==
  /\ rwReaders = {}
  /\ rwWriter = "unborn"
  /\ rwPc = [k \in RwProcs |-> IF k = 0 THEN "start" ELSE "unborn"]
  /\ rwFlag = [k \in RwProcs |-> 0]
  /\ rwPend = {}

RwGoto(k, label) == rwPc' = [rwPc EXCEPT ![k] = label]

\* The first process: read lock, then the writer is forked; either may fail.
RwStart ==
  /\ rwPc[0] = "start"
  /\ \/ /\ rwReaders' = {0} /\ rwWriter' = "waiting"
        /\ RwGoto(0, IF Chain = 0 THEN "reading" ELSE "fork")
     \/ RwGoto(0, "exited") /\ UNCHANGED <<rwReaders, rwWriter>>
  /\ UNCHANGED <<rwFlag, rwPend>>

\* The writer: fcntl(F_SETLKW) waits until nobody holds a lock.  It exits, and
\* so unlocks, right after.
RwWrite ==
  /\ rwWriter = "waiting"
  /\ rwReaders = {}
  /\ rwWriter' = "locked"
  /\ UNCHANGED <<rwReaders, rwPc, rwFlag, rwPend>>

\* The writer's fcntl(2) fails.
RwWriteFails ==
  /\ rwWriter = "waiting"
  /\ rwWriter' = "failed"
  /\ UNCHANGED <<rwReaders, rwPc, rwFlag, rwPend>>

\* A reader forks the next one, or exits when fork(2) fails, which releases
\* its lock.
RwFork(k) ==
  /\ rwPc[k] = "fork"
  /\ \/ /\ rwPc' = [rwPc EXCEPT ![k] = "wait", ![k + 1] = "lock"]
        /\ rwFlag' = [rwFlag EXCEPT ![k + 1] = rwFlag[k]]
        /\ UNCHANGED rwReaders
     \/ /\ RwGoto(k, "exited")
        /\ rwReaders' = rwReaders \ {k}
        /\ UNCHANGED rwFlag
  /\ UNCHANGED <<rwWriter, rwPend>>

\* A reader that lets its parent go before it has the lock.
RwLockLate(k) ==
  /\ rwPc[k] = "lock"
  /\ RwGoto(k, "notify")
  /\ UNCHANGED <<rwReaders, rwWriter, rwFlag, rwPend>>

\* The new reader takes its lock beside the other readers'.  When fcntl(2)
\* fails (no locks left) it exits without a NOTIFY().
RwLock(k) ==
  /\ rwPc[k] = "lock"
  /\ \/ rwReaders' = rwReaders \cup {k} /\ RwGoto(k, "notify")
     \/ RwGoto(k, "nolock") /\ UNCHANGED rwReaders
  /\ UNCHANGED <<rwWriter, rwFlag, rwPend>>

\* NOTIFY(getppid()), then it sleeps and goes round the loop.
RwNotify(k) ==
  /\ rwPc[k] = "notify"
  /\ Notify(rwPend, k - 1)
  /\ RwGoto(k, IF k = Chain THEN "reading" ELSE "fork")
  /\ UNCHANGED <<rwReaders, rwWriter, rwFlag>>

\* WAIT_NOTIFY(), then exit(3), which releases the lock.
RwWait(k) ==
  /\ rwPc[k] = "wait"
  /\ \/ WaitDeliver(rwFlag, rwPend, k) /\ UNCHANGED <<rwPc, rwReaders>>
     \/ /\ WaitReturn(rwFlag, k)
        /\ RwGoto(k, "exited")
        /\ rwReaders' = rwReaders \ {k}
        /\ UNCHANGED rwPend
  /\ UNCHANGED rwWriter

\* The last reader returns from main().
RwEnd(k) ==
  /\ rwPc[k] = "reading"
  /\ RwGoto(k, "exited")
  /\ rwReaders' = rwReaders \ {k}
  /\ UNCHANGED <<rwWriter, rwFlag, rwPend>>

RwReader(k) == RwFork(k) \/ RwLock(k) \/ RwNotify(k) \/ RwWait(k) \/ RwEnd(k)

RwNext == RwStart \/ RwWrite \/ RwWriteFails \/ \E k \in RwProcs : RwReader(k)

RwSpec == RwInit /\ [][RwNext]_rwVars
----------------------------------------------------------------------------
\* Processes that do not exist; "nolock" is one that exited without its lock.
RwGone == {"unborn", "exited", "nolock"}

\* "there is no possible time window where no read locks are acquired": as
\* long as a reader process is left, one of them holds the lock, so the writer
\* gets it only when the whole chain is gone; and a NOTIFY() never goes to a
\* process that has exited.
RwNoWindow ==
  /\ rwWriter = "waiting" /\ (\E k \in RwProcs : rwPc[k] \notin RwGone)
       => rwReaders # {}
  /\ rwWriter = "locked" => \A k \in RwProcs : rwPc[k] \in RwGone
  /\ \A k \in RwProcs : rwPc[k] = "notify" => rwPc[k - 1] = "wait"

\* "a writer process is blatantly starved as long as readers exist", and no
\* longer: when no reader failed to get its lock, the writer gets its own.
RwWaits == rwWriter = "waiting"
RwServed == rwWriter \in {"locked", "failed"} \/ \E k \in RwProcs : rwPc[k] = "nolock"
RwWriterServed == RwWaits ~> RwServed
----------------------------------------------------------------------------
(* daemonize_unique/daemon.c: several copies of the program are started    *)
(* and daemonize(); the one that write-locks the pid file goes on, the     *)
(* others exit.  A copy that ends, or is killed, loses its lock.           *)

CONSTANT Copies   \* the processes that run the program

ASSUME CopiesAssumption == IsFiniteSet(Copies)

VARIABLES
  duPc,    \* where each copy is
  duFile,  \* the copy whose process id the lock file holds, as a set
  duLock   \* the copy holding the write lock on the file

duVars == <<duPc, duFile, duLock>>

DuInit ==
  /\ duPc = [c \in Copies |-> "fork1"]
  /\ duFile = {}
  /\ duLock = {}

DuGoto(c, label) == duPc' = [duPc EXCEPT ![c] = label]

\* daemonize(): the first fork(2).  When it fails daemonize() returns -1,
\* main() does not look, and the undaemonised process enters the main loop.
DuFork1(c) ==
  /\ duPc[c] = "fork1"
  /\ \/ DuGoto(c, "fork2")
     \/ DuGoto(c, "loop anyway")
  /\ UNCHANGED <<duFile, duLock>>

\* setsid(2), every descriptor closed, chdir(2), the second fork(2): the child
\* goes on with a new process id, or the copy exits.
DuFork2(c) ==
  /\ duPc[c] = "fork2"
  /\ \/ DuGoto(c, "signals")
     \/ DuGoto(c, "exited")
  /\ UNCHANGED <<duFile, duLock>>

\* stdin, stdout and stderr to /dev/null; handlers for SIGHUP, SIGINT, SIGTERM.
DuSignals(c) ==
  /\ duPc[c] = "signals"
  /\ \/ DuGoto(c, "lock")
     \/ DuGoto(c, "exited")
  /\ UNCHANGED <<duFile, duLock>>

\* Testing with F_GETLK first: the lock is taken in a later call.
DuLockTest(c) ==
  /\ duPc[c] = "lock"
  /\ \/ duLock = {} /\ DuGoto(c, "truncate")
     \/ duLock # {} /\ DuGoto(c, "exited")
  /\ UNCHANGED <<duFile, duLock>>

\* already_running(): open(2) the file and try F_SETLK; exit when another copy
\* has the lock or anything fails.
DuLock(c) ==
  /\ duPc[c] = "lock"
  /\ \/ duLock = {} /\ duLock' = {c} /\ DuGoto(c, "truncate")
     \/ DuGoto(c, "exited") /\ UNCHANGED duLock
  /\ UNCHANGED duFile

\* already_running(): ftruncate(2); a failure ends the copy and its lock.
DuTruncate(c) ==
  /\ duPc[c] = "truncate"
  /\ \/ duFile' = {} /\ DuGoto(c, "write") /\ UNCHANGED duLock
     \/ DuGoto(c, "exited") /\ duLock' = duLock \ {c} /\ UNCHANGED duFile

\* already_running(): write(2) of the process id; daemonize() is complete.
DuWrite(c) ==
  /\ duPc[c] = "write"
  /\ \/ duFile' = {c} /\ DuGoto(c, "loop") /\ UNCHANGED duLock
     \/ DuGoto(c, "exited") /\ duLock' = duLock \ {c} /\ UNCHANGED duFile

\* SIGTERM or SIGINT, through terminate_handler() once it is installed, or
\* SIGHUP before its handler is, or a crash: the kernel drops the lock.
DuKill(c) ==
  /\ duPc[c] # "exited"
  /\ DuGoto(c, "exited")
  /\ duLock' = duLock \ {c}
  /\ UNCHANGED duFile

DuCopy(c) ==
  DuFork1(c) \/ DuFork2(c) \/ DuSignals(c) \/ DuLock(c) \/ DuTruncate(c) \/ DuWrite(c)

DuNext == \E c \in Copies : DuCopy(c) \/ DuKill(c)

DuSpec == DuInit /\ [][DuNext]_duVars
----------------------------------------------------------------------------
\* At most one copy gets through daemonize(), and from then on the pid file
\* names it, whatever the others do and whoever was killed before.
DuOneDaemon ==
  \A c \in Copies : duPc[c] = "loop" =>
    /\ duFile = {c}
    /\ \A d \in Copies : duPc[d] = "loop" => d = c

\* "This version of daemonize ensures that only one instance of the daemon is
\* running": at most one copy serves in the loop of main().
DuOneInstance ==
  Cardinality({c \in Copies : duPc[c] \in {"loop", "loop anyway"}}) <= 1
=============================================================================
