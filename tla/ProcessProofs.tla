--------------------------- MODULE ProcessProofs ---------------------------
(* Proofs about the programs whose processes synchronise through signals,  *)
(* locked files, named semaphores, pipes and terminals: for every number   *)
(* of copies, records, rounds, instances, readers and chunks.              *)
EXTENDS MCProcesses, FiniteSetTheorems, SequenceTheorems, TLAPS

(* daemonize_unique.                                                       *)

DuType ==
  duPc \in [Copies -> {"fork1", "fork2", "signals", "lock", "truncate", "write", "loop",
                       "loop anyway", "exited"}]

\* A copy past F_SETLK has the lock, and is the last to have written the file.
DuOwns ==
  \A c \in Copies :
    /\ duPc[c] \in {"truncate", "write", "loop"} => duLock = {c}
    /\ duPc[c] = "loop" => duFile = {c}

DuInv == DuType /\ DuOwns

LEMMA DuInitInv == DuInit => DuInv
  BY DEF DuInit, DuInv, DuType, DuOwns

LEMMA DuNextInv ==
  ASSUME DuInv, [DuNext]_duVars
  PROVE  DuInv'
<1> USE DEF DuInv, DuType, DuOwns, DuGoto
<1>1. CASE UNCHANGED duVars
  BY <1>1 DEF duVars
<1>2. ASSUME NEW c \in Copies, DuFork1(c) \/ DuFork2(c) \/ DuSignals(c) PROVE DuInv'
  BY <1>2 DEF DuFork1, DuFork2, DuSignals
<1>3. ASSUME NEW c \in Copies, DuLock(c) PROVE DuInv'
  BY <1>3 DEF DuLock
<1>4. ASSUME NEW c \in Copies, DuTruncate(c) PROVE DuInv'
  BY ZenonT(60), <1>4 DEF DuTruncate
<1>5. ASSUME NEW c \in Copies, DuWrite(c) PROVE DuInv'
  BY <1>5 DEF DuWrite
<1>6. ASSUME NEW c \in Copies, DuKill(c) PROVE DuInv'
  BY <1>6 DEF DuKill
<1> QED
  BY <1>1, <1>2, <1>3, <1>4, <1>5, <1>6 DEF DuNext, DuCopy

\* Any number of copies may be started and killed at any moment: at most one
\* gets through daemonize(), and the pid file names it.
THEOREM DuIsUnique == DuSpec => []DuOneDaemon
<1>1. DuInv /\ [DuNext]_duVars => DuInv'
  BY DuNextInv
<1>2. DuInv => DuOneDaemon
  BY DEF DuInv, DuOwns, DuOneDaemon
<1> QED
  BY <1>1, <1>2, DuInitInv, PTL DEF DuSpec
----------------------------------------------------------------------------
(* mandatory_locking.                                                      *)

MlType ==
  /\ mlPc \in [MlProcs -> {"setup", "lock", "notify", "reap", "exited", "unborn", "wait",
                           "try", "read"}]
  /\ mlFlag \in [MlProcs -> {0, 1}]
  /\ mlMand \in BOOLEAN /\ mlFailed \in BOOLEAN

\* What is true when the parent has its lock: it keeps it until the child has
\* exited, and the child acts only once it was notified.
MlOrder ==
  /\ mlPc["parent"] \in {"setup", "lock", "notify", "reap", "exited"}
  /\ mlPc["child"] \in {"unborn", "wait", "try", "read", "exited"}
  /\ mlPc["parent"] = "setup" => mlPc["child"] = "unborn" /\ ~mlFailed
  /\ mlPc["parent"] \in {"setup", "lock"} => ~mlFailed
  /\ mlPc["parent"] \in {"notify", "reap"} /\ ~mlFailed => mlLock = {"parent"}
  /\ mlPc["parent"] = "exited" /\ ~mlFailed => mlPc["child"] \in {"unborn", "exited"}
  /\ "child" \in mlPend \/ mlFlag["child"] = 1 \/ mlPc["child"] \in {"try", "read"}
       => mlPc["parent"] \in {"reap", "exited"}
  /\ mlPc["child"] \in {"unborn", "wait"} => mlSaid = {}

MlInv == MlType /\ MlOrder /\ MlVerdict

LEMMA MlInitInv ==
  ASSUME MlInit
  PROVE  MlInv
<1>1. mlPc["parent"] = "setup" /\ mlPc["child"] = "unborn" /\ mlFlag["child"] = 0
  BY DEF MlInit, MlProcs
<1>2. MlType
  BY DEF MlInit, MlType, MlProcs
<1> QED
  BY <1>1, <1>2 DEF MlInit, MlInv, MlOrder, MlVerdict

LEMMA MlNextInv ==
  ASSUME MlInv, [MlNext]_mlVars
  PROVE  MlInv'
<1> USE DEF MlInv, MlType, MlOrder, MlVerdict, MlGoto, MlProcs
<1>1. CASE UNCHANGED mlVars
  BY <1>1 DEF mlVars
<1>2. CASE MlSetup
  BY <1>2 DEF MlSetup
<1>3. CASE MlParentLock
  BY <1>3 DEF MlParentLock
<1>4. CASE MlParentNotify
  BY <1>4 DEF MlParentNotify, Notify
<1>5. CASE MlParentReap
  BY <1>5 DEF MlParentReap
<1>6. CASE MlChildWait
  BY <1>6 DEF MlChildWait, WaitDeliver, WaitReturn
<1>7. CASE MlChildTry
  BY <1>7 DEF MlChildTry
<1>8. CASE MlChildRead
  BY <1>8 DEF MlChildRead
<1> QED
  BY <1>1, <1>2, <1>3, <1>4, <1>5, <1>6, <1>7, <1>8 DEF MlNext, MlParent, MlChild

\* Whenever the parent got its lock it has it while the child tries the file, and
\* a child that reads the file says so of a kernel without mandatory locking; that mandatory
\* locking works it may say for any other failure of read(2).
THEOREM MlIsRight == MlSpec => []MlVerdict
<1>1. MlInv /\ [MlNext]_mlVars => MlInv'
  BY MlNextInv
<1>2. MlInv => MlVerdict
  BY DEF MlInv
<1> QED
  BY <1>1, <1>2, MlInitInv, PTL DEF MlSpec
----------------------------------------------------------------------------
(* file_locks.                                                             *)

FlType ==
  /\ flPc \in [FlProcs -> {"start", "unborn", "lock", "name", "text", "key", "exited"}]
  /\ flFile \in Seq(FlProcs \X {"name", "text"})

\* A process between F_SETLKW and un_lock() is the only one there.
FlHeld ==
  /\ \A p \in FlProcs : p \in flLock <=> flPc[p] \in {"name", "text"}
  /\ \A p, q \in FlProcs : p \in flLock /\ q \in flLock => p = q
  /\ flPc["parent"] = "start" => flLock = {} /\ flPc["child"] = "unborn"
  /\ flLock \subseteq FlProcs

\* A record is half written just when its process has yet to write the text.
FlHalf ==
  /\ \A p \in FlProcs : flPc[p] = "text" =>
       Len(flFile) % 2 = 1 /\ flFile[Len(flFile)] = <<p, "name">>
  /\ (\A p \in FlProcs : flPc[p] # "text") => Len(flFile) % 2 = 0

FlInv == FlType /\ FlHeld /\ FlHalf /\ FlWhole

\* Odd and even follow each other.
LEMMA Parity ==
  ASSUME NEW n \in Nat
  PROVE  /\ n % 2 = 0 \/ n % 2 = 1
         /\ n % 2 = 0 => (n + 1) % 2 = 1
         /\ n % 2 = 1 => (n + 1) % 2 = 0
  OBVIOUS

\* An index of a sequence that grew is an old one or the new one.
LEMMA Grown ==
  ASSUME NEW n \in Nat, NEW k \in 1..(n + 1)
  PROVE  k \in 1..n \/ k = n + 1
  OBVIOUS

LEMMA FlInitInv == FlInit => FlInv
  BY DEF FlInit, FlInv, FlType, FlHeld, FlHalf, FlWhole, FlProcs

LEMMA FlNextInv ==
  ASSUME FlInv, [FlNext]_flVars
  PROVE  FlInv'
<1> USE DEF FlInv, FlType, FlHeld, FlHalf, FlWhole, FlGoto, FlProcs
<1>1. CASE UNCHANGED flVars
  BY <1>1 DEF flVars
<1>2. CASE FlFork
  BY <1>2 DEF FlFork
<1>3. ASSUME NEW p \in FlProcs, FlTake(p) PROVE FlInv'
  <2>1. CASE flLock = {} /\ flLock' = {p} /\ flPc' = [flPc EXCEPT ![p] = "name"]
    <3>1. UNCHANGED flFile /\ flPc[p] = "lock"
      BY <1>3 DEF FlTake
    <3>2. flPc'[p] = "name" /\ \A q \in FlProcs : q # p => flPc'[q] = flPc[q]
      BY <2>1
    <3>3. FlHeld'
      BY <2>1, <3>1, <3>2
    <3>4. FlHalf'
      BY <3>1, <3>2
    <3> QED
      BY <2>1, <3>1, <3>3, <3>4
  <2>2. CASE flPc' = [flPc EXCEPT ![p] = "key"] /\ UNCHANGED flLock
    BY <1>3, <2>2 DEF FlTake
  <2> QED
    BY <1>3, <2>1, <2>2 DEF FlTake
<1>4. ASSUME NEW p \in FlProcs, FlName(p) PROVE FlInv'
  <2>1. /\ flPc[p] = "name" /\ flPc' = [flPc EXCEPT ![p] = "text"]
        /\ flFile' = Append(flFile, <<p, "name">>) /\ UNCHANGED flLock
    BY <1>4 DEF FlName
  <2>2. Len(flFile) % 2 = 0 /\ Len(flFile) \in Nat
    BY <2>1
  <2>3. /\ flFile' \in Seq(FlProcs \X {"name", "text"}) /\ Len(flFile') = Len(flFile) + 1
        /\ flFile'[Len(flFile) + 1] = <<p, "name">>
        /\ \A k \in 1..Len(flFile) : flFile'[k] = flFile[k]
    BY <2>1
  <2>4. (Len(flFile) + 1) % 2 = 1
    BY <2>2, Parity
  <2>5. FlWhole'
    <3>1. SUFFICES ASSUME NEW k \in 1..(Len(flFile) + 1)
                   PROVE  IF k % 2 = 1 THEN flFile'[k][2] = "name"
                          ELSE flFile'[k] = <<flFile'[k - 1][1], "text">>
      BY <2>3
    <3>2. CASE k \in 1..Len(flFile)
      <4>1. k % 2 # 1 => k - 1 \in 1..Len(flFile)
        BY <2>2, <3>2
      <4> QED
        BY <2>2, <2>3, <3>2, <4>1
    <3>3. CASE k = Len(flFile) + 1
      BY <2>2, <2>3, <2>4, <3>3
    <3> QED
      BY <2>2, <3>2, <3>3, Grown
  <2>6. FlHeld'
    BY <2>1
  <2>7. FlHalf'
    BY <2>1, <2>3, <2>4
  <2> QED
    BY <2>1, <2>3, <2>5, <2>6, <2>7
<1>5. ASSUME NEW p \in FlProcs, FlText(p) PROVE FlInv'
  <2>1. /\ flPc[p] = "text" /\ flPc' = [flPc EXCEPT ![p] = "lock"]
        /\ flFile' = Append(flFile, <<p, "text">>) /\ flLock' = flLock \ {p}
    BY <1>5 DEF FlText
  <2>2. /\ Len(flFile) % 2 = 1 /\ Len(flFile) \in Nat /\ Len(flFile) >= 1
        /\ flFile[Len(flFile)] = <<p, "name">>
    BY <2>1
  <2>3. /\ flFile' \in Seq(FlProcs \X {"name", "text"}) /\ Len(flFile') = Len(flFile) + 1
        /\ flFile'[Len(flFile) + 1] = <<p, "text">>
        /\ \A k \in 1..Len(flFile) : flFile'[k] = flFile[k]
    BY <2>1
  <2>4. (Len(flFile) + 1) % 2 = 0
    BY <2>2, Parity
  <2>5. FlWhole'
    <3>1. SUFFICES ASSUME NEW k \in 1..(Len(flFile) + 1)
                   PROVE  IF k % 2 = 1 THEN flFile'[k][2] = "name"
                          ELSE flFile'[k] = <<flFile'[k - 1][1], "text">>
      BY <2>3
    <3>2. CASE k \in 1..Len(flFile)
      <4>1. k % 2 # 1 => k - 1 \in 1..Len(flFile)
        BY <2>2, <3>2
      <4> QED
        BY <2>2, <2>3, <3>2, <4>1
    <3>3. CASE k = Len(flFile) + 1
      BY SMTT(30), <2>2, <2>3, <2>4, <3>3
    <3> QED
      BY <2>2, <3>2, <3>3, Grown
  <2>6. FlHeld'
    BY <2>1
  <2>7. FlHalf'
    BY <2>1, <2>3, <2>4
  <2> QED
    BY <2>1, <2>3, <2>5, <2>6, <2>7
<1>6. ASSUME NEW p \in FlProcs, FlLoopEnd(p) \/ FlExit(p) PROVE FlInv'
  BY ZenonT(60), <1>6 DEF FlLoopEnd, FlExit
<1> QED
  BY <1>1, <1>2, <1>3, <1>4, <1>5, <1>6 DEF FlNext

\* The records of the two processes never mix, for any number of them.
THEOREM FlIsWhole == FlSpec => []FlWhole
<1>1. FlInv /\ [FlNext]_flVars => FlInv'
  BY FlNextInv
<1>2. FlInv => FlWhole
  BY DEF FlInv
<1> QED
  BY <1>1, <1>2, FlInitInv, PTL DEF FlSpec
----------------------------------------------------------------------------
(* loop() of pty.c.                                                        *)

PtType ==
  /\ ptShown \in Nat /\ ptWritten \in Nat

\* SIGTERM is blocked before fork(2) and let through only after setjmp(3); a parent
\* that ended at the end of file has seen a program that writes no more.
PtOrder ==
  /\ ptParent \in {"unblock", "feed"} => ptJmpSet
  /\ ptParent \in {"install", "block", "fork"} => ptChild = "none"
  /\ ptHow = "eof" => ~ptProgram /\ ptParent = "done"

PtInv == PtType /\ PtOrder /\ PtSafe

LEMMA PtInitInv == PtInit => PtInv
  BY DEF PtInit, PtInv, PtType, PtOrder, PtSafe

LEMMA PtNextInv ==
  ASSUME PtInv, [PtNext]_ptVars
  PROVE  PtInv'
<1> USE DEF PtInv, PtType, PtOrder, PtSafe, ptData
<1>1. CASE UNCHANGED ptVars
  BY <1>1 DEF ptVars
<1>2. CASE PtPrepare \/ PtSetJmp
  BY <1>2 DEF PtPrepare, PtSetJmp
<1>3. CASE PtShow
  BY <1>3 DEF PtShow
<1>4. CASE PtHangUp
  BY <1>4 DEF PtHangUp
<1>5. CASE PtChildReset \/ PtChildKilled
  BY <1>5 DEF PtChildReset, PtChildKilled
<1>6. CASE PtFeed
  BY <1>6 DEF PtFeed
<1>7. CASE PtProgram
  <2>1. ptHow # "eof"
    BY <1>7 DEF PtProgram
  <2>2. /\ ptParent' = ptParent /\ ptJmpSet' = ptJmpSet /\ ptShown' = ptShown
        /\ ptHow' = ptHow /\ ptChild' = ptChild
    BY <1>7 DEF PtProgram
  <2>3. ptWritten' = ptWritten \/ ptWritten' = ptWritten + 1
    BY <1>7 DEF PtProgram
  <2>4. ptWritten' \in Nat
    BY <2>3
  <2>5. (ptParent \in {"unblock", "feed"} => ptJmpSet)'
    BY <2>2
  <2> QED
    BY <2>1, <2>2, <2>4, <2>5
<1>8. CASE PtUser
  BY <1>8 DEF PtUser
<1> QED
  BY <1>1, <1>2, <1>3, <1>4, <1>5, <1>6, <1>7, <1>8 DEF PtNext, PtParentStep, PtChildStep

\* From fork(2) on the parent of pty never jumps to an environment it has not saved; before,
\* it does so only in the window between sigaction(2) and sigprocmask(2).  It ends with the
\* program only when it has shown everything.
THEOREM PtIsSafe == PtSpec => []PtSafe
<1>1. PtInv /\ [PtNext]_ptVars => PtInv'
  BY PtNextInv
<1>2. PtInv => PtSafe
  BY DEF PtInv
<1> QED
  BY <1>1, <1>2, PtInitInv, PTL DEF PtSpec
----------------------------------------------------------------------------
(* pty_fork().                                                             *)

PfReports == {"setsid", "ptys_open", "tcsetattr", "TIOCSWINSZ", "dup2 0", "dup2 1", "dup2 2"}

\* The pipe says what became of the child, and the child reports once.
PfReport ==
  /\ pfCall \in Nat \ {0}
  /\ pfChild \in {"none", "run", "killed"} => pfPipe = <<>>
  /\ pfChild = "ok" => pfPipe = <<"ok">>
  /\ pfChild = "failed" => \E r \in PfReports : pfPipe = <<r>>
  /\ pfChild \in {"none", "run", "ok", "failed", "killed"}

\* The parent waits while the child runs, and believes what the pipe says; it has the
\* read end from pipe(2) until it returns, and returns while the child runs only when its
\* read(2) was interrupted.
PfBelieves ==
  /\ pfParent \in {"open", "pipe", "fork"} => pfChild = "none"
  /\ pfChild = "run" => pfParent \in {"read", "give_up"} \/ pfErr = "unset"
  /\ pfParent \in {"open", "pipe", "fork", "read", "give_up", "ok", "failed"}
  /\ pfParent \in {"fork", "read", "give_up"} => "read" \in pfFds
  /\ pfErr = "unset" => pfParent = "failed"

PfInv == PfReport /\ PfBelieves /\ PfAtomic

LEMMA PfInitInv == PfInit => PfInv
  BY DEF PfInit, PfInv, PfReport, PfBelieves, PfAtomic

\* The calls a child can fail in.
LEMMA PfNames == \A k \in 1..Len(PfCalls) : PfCalls[k] \in PfReports
<1>1. CASE pfTty
  <2>1. PfCalls = <<"setsid", "ptys_open", "tcsetattr", "TIOCSWINSZ", "dup2 0", "dup2 1", "dup2 2">>
    BY <1>1 DEF PfCalls
  <2>2. \A k \in 1..7 : k = 1 \/ k = 2 \/ k = 3 \/ k = 4 \/ k = 5 \/ k = 6 \/ k = 7
    OBVIOUS
  <2>3. /\ Len(PfCalls) = 7
        /\ PfCalls[1] = "setsid"
        /\ PfCalls[2] = "ptys_open"
        /\ PfCalls[3] = "tcsetattr"
        /\ PfCalls[4] = "TIOCSWINSZ"
        /\ PfCalls[5] = "dup2 0"
        /\ PfCalls[6] = "dup2 1"
        /\ PfCalls[7] = "dup2 2"
    BY <2>1
  <2> QED
    BY <2>2, <2>3 DEF PfReports
<1>2. CASE ~pfTty
  <2>1. PfCalls = <<"setsid", "ptys_open", "dup2 0", "dup2 1", "dup2 2">>
    BY <1>2 DEF PfCalls
  <2>2. \A k \in 1..5 : k = 1 \/ k = 2 \/ k = 3 \/ k = 4 \/ k = 5
    OBVIOUS
  <2>3. /\ Len(PfCalls) = 5
        /\ PfCalls[1] = "setsid"
        /\ PfCalls[2] = "ptys_open"
        /\ PfCalls[3] = "dup2 0"
        /\ PfCalls[4] = "dup2 1"
        /\ PfCalls[5] = "dup2 2"
    BY <2>1
  <2> QED
    BY <2>2, <2>3 DEF PfReports
<1> QED
  BY <1>1, <1>2

LEMMA PfNextInv ==
  ASSUME PfInv, [PfNext]_pfVars
  PROVE  PfInv'
<1> USE DEF PfInv, PfReport, PfBelieves, PfAtomic
<1>1. CASE UNCHANGED pfVars
  BY <1>1 DEF pfVars
<1>2. CASE PfPrepare
  BY <1>2 DEF PfPrepare, PfFail
<1>3. CASE PfChildStep
  <2>1. /\ pfChild = "run" /\ UNCHANGED <<pfParent, pfFds, pfErr>>
        /\ pfParent \in {"read", "give_up"} \/ pfErr = "unset"
    BY <1>3 DEF PfChildStep
  <2>2. CASE PfWrite("ok", "ok") /\ UNCHANGED pfCall
    BY <2>1, <2>2 DEF PfWrite
  <2>3. CASE pfCall' = pfCall + 1 /\ UNCHANGED <<pfPipe, pfChild>>
    BY <2>1, <2>3
  <2>4. CASE pfCall \in 1..Len(PfCalls) /\ PfWrite(PfCalls[pfCall], "failed") /\ UNCHANGED pfCall
    <3>1. PfCalls[pfCall] \in PfReports
      BY <2>4, PfNames
    <3> QED
      BY <2>1, <2>4, <3>1 DEF PfWrite
  <2>5. Len(PfCalls) \in Nat
    BY DEF PfCalls
  <2>6. ~(pfCall > Len(PfCalls)) => pfCall \in 1..Len(PfCalls)
    BY <2>5
  <2> QED
    BY <1>3, <2>2, <2>3, <2>4, <2>6 DEF PfChildStep
<1>4. CASE PfKilled
  BY <1>4 DEF PfKilled
<1>5. CASE PfRead
  <2>1. pfParent = "read" /\ UNCHANGED <<pfChild, pfCall, pfPipe>>
    BY <1>5 DEF PfRead
  <2>2. CASE pfPipe = <<"ok">> /\ pfParent' = "ok" /\ pfFds' = {"master"} /\ UNCHANGED pfErr
    <3>1. pfChild = "ok"
      BY <2>2 DEF PfReports
    <3> QED
      BY <2>1, <2>2, <3>1
  <2>3. CASE pfPipe \notin {<<>>, <<"ok">>} /\ PfFail(pfPipe[1])
    <3>1. pfChild = "failed"
      BY <2>3
    <3>2. pfPipe[1] \in PfReports
      BY <3>1
    <3>3. pfPipe[1] # "none" /\ pfPipe[1] # "unset"
      BY <3>2 DEF PfReports
    <3> QED
      BY <2>1, <2>3, <3>1, <3>3 DEF PfFail
  <2>4. CASE pfPipe = <<>> /\ pfChild = "killed" /\ PfFail("EIO")
    BY <2>1, <2>4 DEF PfFail
  <2>5. CASE pfPipe = <<>> /\ pfParent' = "give_up" /\ UNCHANGED <<pfFds, pfErr>>
    BY <2>1, <2>5
  <2> QED
    BY <1>5, <2>2, <2>3, <2>4, <2>5 DEF PfRead
<1>6. CASE PfGiveUp
  BY <1>6 DEF PfGiveUp, PfFail
<1> QED
  BY <1>1, <1>2, <1>3, <1>4, <1>5, <1>6 DEF PfNext

\* pty_fork() returns in the parent only if it returns in the child, and in the child only
\* if the parent does not fail, except for a report that comes between a read(2) that a
\* signal interrupted and the close(2) after it: whichever of the calls fails, and whenever
\* the child is killed.
THEOREM PfIsAtomic == PfSpec => []PfAtomic
<1>1. PfInv /\ [PfNext]_pfVars => PfInv'
  BY PfNextInv
<1>2. PfInv => PfAtomic
  BY DEF PfInv
<1> QED
  BY <1>1, <1>2, PfInitInv, PTL DEF PfSpec
----------------------------------------------------------------------------
(* remote_login_client.c.                                                  *)

RcType ==
  /\ rcTyped \in Nat /\ rcFed \in Nat /\ rcSent \in Nat /\ rcShown \in Nat
  /\ rcFed <= rcTyped

\* The terminal is changed in prepare_terminal(); the session resets the
\* connection only after something was written to it.
RcOrder ==
  /\ rcPc = "tty" => rcTty = "original"
  /\ rcSock \in {"answering", "reset"} => rcFed > 0
  /\ rcPc = "left" => rcSock = "reset"

RcInv == RcType /\ RcOrder /\ RcRestores

LEMMA RcInitInv == RcInit => RcInv
  BY DEF RcInit, RcInv, RcType, RcOrder, RcRestores

LEMMA RcNextInv ==
  ASSUME RcInv, [RcNext]_rcVars
  PROVE  RcInv'
<1> USE DEF RcInv, RcType, RcOrder, RcRestores
<1>1. CASE UNCHANGED rcVars
  BY <1>1 DEF rcVars
<1>2. CASE RcWorld
  BY <1>2, TerminalsAssumption DEF RcWorld
<1>3. CASE PrepareTerminal
  BY <1>3 DEF PrepareTerminal
<1>4. CASE RcPoll
  BY <1>4 DEF RcPoll
<1>5. CASE RcStdin
  BY <1>5 DEF RcStdin
<1>6. CASE RcSocket
  BY <1>6 DEF RcSocket
<1> QED
  BY <1>1, <1>2, <1>3, <1>4, <1>5, <1>6 DEF RcNext, RcStep

\* The client leaves the terminal as it found it unless SIGPIPE kills it.
THEOREM RcIsRestored == RcSpec => []RcRestores
<1>1. RcInv /\ [RcNext]_rcVars => RcInv'
  BY RcNextInv
<1>2. RcInv => RcRestores
  BY DEF RcInv
<1> QED
  BY <1>1, <1>2, RcInitInv, PTL DEF RcSpec
----------------------------------------------------------------------------
(* anon_mmap.                                                              *)

AmActive(p) == amPc[p] \in {"load", "store", "print", "notify"}
AmTold(p) == p \in amPend \/ amFlag[p] = 1

AmType ==
  /\ amPc \in [AmProcs -> {"start", "unborn", "wait", "load", "store", "print", "notify", "done"}]
  /\ amFlag \in [AmProcs -> {0, 1}]
  /\ amLoad \in [AmProcs -> Nat] /\ amCounter \in Nat
  /\ amOut \in Seq(AmProcs \X Nat)
  /\ amI \in [AmProcs -> Nat]

\* One turn: a process in update() or on its way to NOTIFY(), or a signal on
\* its way, pending or in sig_flag, or nobody's turn any more.
AmTurn ==
  /\ AmActive("child") => amPc["parent"] = "wait"
  /\ AmActive("parent") => amPc["child"] = "wait"
  /\ \A p \in AmProcs : AmTold(p) =>
       /\ amPc[p] = "wait"
       /\ amPc[AmOther(p)] = "wait" \/ (p = "child" /\ amPc["parent"] = "done")
       /\ ~AmTold(AmOther(p)) /\ ~(p \in amPend /\ amFlag[p] = 1)
  /\ amPc["parent"] = "start" => amPc["child"] = "unborn"
  /\ amPc["child"] = "unborn" =>
       amPc["parent"] \in {"start", "done"} /\ Len(amOut) = 0
  /\ (\E p \in AmProcs : AmActive(p)) => \A q \in AmProcs : ~AmTold(q)

\* The child's turn begins after an even number of lines, the parent's after an
\* odd one.
AmParity ==
  /\ amPc["child"] \in {"load", "store", "print"} \/ AmTold("child") => Len(amOut) % 2 = 0
  /\ amPc["child"] = "notify" => Len(amOut) % 2 = 1
  /\ amPc["parent"] \in {"load", "store", "print"} \/ AmTold("parent") => Len(amOut) % 2 = 1
  /\ amPc["parent"] = "notify" => Len(amOut) % 2 = 0

\* The processes are in the same round, but for the parent that has just told
\* the child of the end of one.
AmRounds ==
  /\ AmActive("child") \/ AmActive("parent") \/ AmTold("parent") => amI["parent"] = amI["child"]
  /\ AmTold("child") => amI["parent"] = amI["child"] + 1
  /\ amPc["child"] = "unborn" => amI["parent"] = 0 /\ amI["child"] = 0
  /\ amPc["parent"] = "done" /\ amPc["child"] # "unborn" => amI["parent"] = Loops

\* The counter is the number of lines printed, or one ahead of it.
AmTally ==
  /\ amCounter = Len(amOut) + (IF \E p \in AmProcs : amPc[p] = "print" THEN 1 ELSE 0)
  /\ \A p \in AmProcs : amPc[p] = "store" => amLoad[p] = amCounter

AmInv == AmType /\ AmTurn /\ AmRounds /\ AmParity /\ AmTally /\ AmAlternate

LEMMA AmInitInv == AmInit => AmInv
  BY DEF AmInit, AmInv, AmType, AmTurn, AmRounds, AmParity, AmTally, AmAlternate, AmProcs, AmActive,
         AmTold, AmOther

LEMMA AmNextInv ==
  ASSUME AmInv, [AmNext]_amVars
  PROVE  AmInv'
<1> USE DEF AmInv, AmType, AmTurn, AmRounds, AmParity, AmTally, AmProcs, AmActive, AmTold, AmOther, AmGoto
<1>1. CASE UNCHANGED amVars
  BY <1>1 DEF amVars, AmAlternate
<1>2. CASE AmFork
  BY <1>2 DEF AmFork, AmBody, AmAlternate
<1>3. ASSUME NEW p \in AmProcs, AmRead(p) PROVE AmInv'
  BY <1>3 DEF AmRead, AmAlternate
<1>4. ASSUME NEW p \in AmProcs, AmStore(p) PROVE AmInv'
  BY <1>4 DEF AmStore, AmAlternate
<1>5. ASSUME NEW p \in AmProcs, AmPrint(p) PROVE AmInv'
  <2>1. /\ amPc[p] = "print" /\ amPc' = [amPc EXCEPT ![p] = "notify"]
        /\ amOut' = Append(amOut, <<p, amCounter>>)
        /\ UNCHANGED <<amCounter, amLoad, amI, amFlag, amPend>>
    BY <1>5 DEF AmPrint
  <2>2. amCounter = Len(amOut) + 1 /\ Len(amOut) \in Nat
    BY <2>1
  <2>3. /\ amOut' \in Seq(AmProcs \X Nat) /\ Len(amOut') = Len(amOut) + 1
        /\ amOut'[Len(amOut) + 1] = <<p, Len(amOut) + 1>>
        /\ \A k \in 1..Len(amOut) : amOut'[k] = amOut[k]
    BY <2>1, <2>2
  <2>4. /\ amPc'[p] = "notify" /\ amPc'[AmOther(p)] = amPc[AmOther(p)]
        /\ amPc[AmOther(p)] = "wait" /\ \A q \in AmProcs : ~AmTold(q) /\ ~AmTold(q)'
    BY <2>1
  <2>5. (Len(amOut) + 1) % 2 = (IF p = "child" THEN 1 ELSE 0)
    <3>1. Len(amOut) % 2 = (IF p = "child" THEN 0 ELSE 1)
      BY <2>1
    <3> QED
      BY <2>2, <3>1, Parity
  <2>6. AmAlternate'
    <3>1. SUFFICES ASSUME NEW k \in 1..(Len(amOut) + 1)
                   PROVE  amOut'[k] = <<IF k % 2 = 1 THEN "child" ELSE "parent", k>>
      BY <2>3 DEF AmAlternate
    <3>2. CASE k \in 1..Len(amOut)
      BY <2>3, <3>2 DEF AmAlternate
    <3>3. CASE k = Len(amOut) + 1
      BY <2>3, <2>5, <3>3
    <3> QED
      BY <2>2, <3>2, <3>3, Grown
  <2>7. AmTurn'
    BY <2>1, <2>3, <2>4
  <2>8. AmParity'
    BY <2>3, <2>4, <2>5
  <2>9. AmTally'
    BY <2>1, <2>2, <2>3, <2>4
  <2>10. AmRounds'
    BY <2>1, <2>4
  <2> QED
    BY <2>1, <2>3, <2>6, <2>7, <2>8, <2>9, <2>10
<1>6. ASSUME NEW p \in AmProcs, AmNotify(p) PROVE AmInv'
  <2>1. /\ amPc[p] = "notify" /\ amPend' = amPend \cup {AmOther(p)}
        /\ UNCHANGED <<amCounter, amLoad, amOut, amFlag>>
    BY <1>6 DEF AmNotify, Notify
  <2>2. amPc[AmOther(p)] = "wait" /\ \A q \in AmProcs : ~AmTold(q)
    BY <2>1
  <2>3. CASE p = "child"
    <3>1. amPc' = [amPc EXCEPT !["child"] = "wait"] /\ UNCHANGED amI
      BY <1>6, <2>3 DEF AmNotify
    <3> QED
      BY <2>1, <2>2, <2>3, <3>1 DEF AmAlternate
  <2>4. CASE p = "parent"
    <3>1. /\ amPc' = [amPc EXCEPT !["parent"] = IF amI["parent"] + 1 = Loops THEN "done" ELSE "wait"]
          /\ amI' = [amI EXCEPT !["parent"] = @ + 1]
      BY <1>6, <2>4 DEF AmNotify, AmBody
    <3> QED
      BY <2>1, <2>2, <2>4, <3>1 DEF AmAlternate
  <2> QED
    BY <2>3, <2>4
<1>7. ASSUME NEW p \in AmProcs, AmWait(p) PROVE AmInv'
  <2>1. UNCHANGED <<amCounter, amLoad, amOut>> /\ amPc[p] = "wait"
    BY <1>7 DEF AmWait
  <2>2. CASE WaitDeliver(amFlag, amPend, p) /\ UNCHANGED <<amPc, amI>>
    BY <2>1, <2>2 DEF WaitDeliver, AmAlternate
  <2>3. CASE WaitReturn(amFlag, p) /\ ~UNCHANGED amFlag
    <3>1. /\ amFlag[p] = 1 /\ UNCHANGED amPend /\ amFlag' \in [AmProcs -> {0, 1}]
          /\ amFlag'[p] = 0 /\ amFlag'[AmOther(p)] = amFlag[AmOther(p)]
      BY <1>7, <2>3 DEF AmWait, WaitReturn, WaitDeliver
    <3>2. \A q \in AmProcs : ~AmTold(q)'
      BY <3>1
    <3>3. CASE p = "parent"
      <4>1. amPc' = [amPc EXCEPT !["parent"] = "load"] /\ UNCHANGED amI
        BY <1>7, <2>3, <3>1, <3>3 DEF AmWait, WaitDeliver, WaitReturn
      <4> QED
        BY <2>1, <3>1, <3>2, <3>3, <4>1 DEF AmAlternate
    <3>4. CASE p = "child"
      <4>1. /\ amPc' = [amPc EXCEPT !["child"] = IF amI["child"] + 1 = Loops THEN "done" ELSE "load"]
            /\ amI' = [amI EXCEPT !["child"] = @ + 1]
        BY <1>7, <2>3, <3>1, <3>4 DEF AmWait, WaitDeliver, WaitReturn, AmBody
      <4> QED
        BY <2>1, <3>1, <3>2, <3>4, <4>1 DEF AmAlternate
    <3> QED
      BY <3>3, <3>4
  <2>4. WaitReturn(amFlag, p) => ~UNCHANGED amFlag
    BY DEF WaitReturn
  <2> QED
    BY <1>7, <2>2, <2>3, <2>4 DEF AmWait
<1> QED
  BY <1>1, <1>2, <1>3, <1>4, <1>5, <1>6, <1>7 DEF AmNext, AmStep

\* No increment is lost and the processes alternate, for any number of rounds.
THEOREM AmTakesTurns == AmSpec => []AmAlternate
<1>1. AmInv /\ [AmNext]_amVars => AmInv'
  BY AmNextInv
<1>2. AmInv => AmAlternate
  BY DEF AmInv
<1> QED
  BY <1>1, <1>2, AmInitInv, PTL DEF AmSpec
----------------------------------------------------------------------------
(* named_semaphores.                                                       *)

\* An instance between sem_open(O_EXCL) and sem_unlink(3), or stopped there.
SsOwner(n) == ssMain[n] \in {"fork1", "fork2", "reap", "left name"}

SsType ==
  /\ ssMain \in [Instances -> {"create", "fork1", "fork2", "reap", "left name", "exited"}]
  /\ ssPc \in [SsKids -> {"unborn", "open", "wait", "inside", "exited"}]
  /\ ssName \in {{}, {0}, {1}}

\* The name exists just while an instance owns it, and only that instance has
\* children at work.
SsOwned ==
  /\ \A n, m \in Instances : SsOwner(n) /\ SsOwner(m) => n = m
  /\ ssName = {} <=> \A n \in Instances : ~SsOwner(n)
  /\ \A c \in SsKids :
       /\ ssPc[c] \in {"open", "wait", "inside"} => SsOwner(c[1])
       /\ ssMain[c[1]] \in {"create", "fork1"} => ssPc[c] = "unborn"
       /\ ssMain[c[1]] = "fork2" /\ c[2] = 2 => ssPc[c] = "unborn"

\* The semaphore counts the places left inside.
SsCounted ==
  /\ \A c, d \in SsKids : ssPc[c] = "inside" /\ ssPc[d] = "inside" => c = d
  /\ \A c \in SsKids : ssPc[c] = "inside" => ssName = {0}
  /\ ssName = {0} => \E c \in SsKids : ssPc[c] = "inside"

SsInv == SsType /\ SsOwned /\ SsCounted

\* The children of an instance.
LEMMA SsKidsOf ==
  /\ \A c \in SsKids : c[1] \in Instances /\ c[2] \in {1, 2}
  /\ \A n \in Instances, k \in {1, 2} : <<n, k>> \in SsKids
  /\ \A c \in SsKids, n \in Instances, k \in {1, 2} : c[1] = n /\ c[2] = k <=> c = <<n, k>>
  BY DEF SsKids

LEMMA SsInitInv == SsInit => SsInv
  BY SsKidsOf DEF SsInit, SsInv, SsType, SsOwned, SsCounted, SsOwner

\* A step that keeps owners, the name and who is inside keeps what is said of
\* them.
LEMMA SsSame ==
  ASSUME SsOwned, SsCounted, ssName' = ssName,
         \A n \in Instances : SsOwner(n)' <=> SsOwner(n),
         \A c \in SsKids : ssPc'[c] = "inside" <=> ssPc[c] = "inside",
         \A c \in SsKids :
           /\ ssPc'[c] \in {"open", "wait", "inside"} => SsOwner(c[1])
           /\ ssMain'[c[1]] \in {"create", "fork1"} => ssPc'[c] = "unborn"
           /\ ssMain'[c[1]] = "fork2" /\ c[2] = 2 => ssPc'[c] = "unborn"
  PROVE  SsOwned' /\ SsCounted'
<1>1. SsKids' = SsKids /\ \A c \in SsKids : c[1] \in Instances
  BY DEF SsKids
<1>2. (\A n, m \in Instances : SsOwner(n) /\ SsOwner(m) => n = m)'
  BY DEF SsOwned
<1>3. (ssName = {} <=> \A n \in Instances : ~SsOwner(n))'
  BY DEF SsOwned
<1>4. SsOwned'
  BY <1>1, <1>2, <1>3 DEF SsOwned
<1>5. SsCounted'
  BY <1>1 DEF SsCounted
<1> QED
  BY <1>4, <1>5

LEMMA SsNextInv ==
  ASSUME SsInv, [SsNext]_ssVars
  PROVE  SsInv'
<1>k. SsKids' = SsKids /\ \A c \in SsKids : c[1] \in Instances
  BY DEF SsKids
<1>i. SsType /\ SsOwned /\ SsCounted
  BY DEF SsInv
<1>t. /\ ssMain \in [Instances -> {"create", "fork1", "fork2", "reap", "left name", "exited"}]
      /\ ssPc \in [SsKids -> {"unborn", "open", "wait", "inside", "exited"}]
  BY <1>i DEF SsType
<1>o. /\ \A n, m \in Instances : SsOwner(n) /\ SsOwner(m) => n = m
      /\ ssName = {} <=> \A n \in Instances : ~SsOwner(n)
  BY <1>i DEF SsOwned
<1>c. \A c \in SsKids :
        /\ ssPc[c] \in {"open", "wait", "inside"} => SsOwner(c[1])
        /\ ssMain[c[1]] \in {"create", "fork1"} => ssPc[c] = "unborn"
        /\ ssMain[c[1]] = "fork2" /\ c[2] = 2 => ssPc[c] = "unborn"
  BY <1>i DEF SsOwned
<1>1. CASE UNCHANGED ssVars
  <2>1. ssName' = ssName /\ ssMain' = ssMain /\ ssPc' = ssPc
    BY <1>1 DEF ssVars
  <2>2. SsType'
    BY <1>k, <1>i, <2>1 DEF SsType
  <2>3. \A n \in Instances : SsOwner(n)' <=> SsOwner(n)
    BY <2>1 DEF SsOwner
  <2> QED
    BY <1>i, <1>c, <2>1, <2>2, <2>3, SsSame DEF SsInv
<1>2. ASSUME NEW n \in Instances, SsCreate(n) PROVE SsInv'
  <2>1. ssMain[n] = "create" /\ ssPc' = ssPc
    BY <1>2 DEF SsCreate
  <2>2. CASE ssName = {} /\ ssName' = {1} /\ ssMain' = [ssMain EXCEPT ![n] = "fork1"]
    <3>1. \A m \in Instances : ~SsOwner(m)
      BY <1>o, <2>2
    <3>2. /\ ssMain'[n] = "fork1" /\ \A m \in Instances : m # n => ssMain'[m] = ssMain[m]
          /\ ssMain' \in [Instances -> {"create", "fork1", "fork2", "reap", "left name", "exited"}]
      BY <1>t, <2>2
    <3>3. \A c \in SsKids : ssPc[c] \in {"unborn", "exited"}
      BY <1>k, <1>t, <1>c, <3>1
    <3>4. SsOwner(n)' /\ \A m \in Instances : m # n => ~SsOwner(m)'
      BY <3>1, <3>2 DEF SsOwner
    <3>5. \A c \in SsKids :
            /\ ssMain'[c[1]] \in {"create", "fork1"} => ssPc[c] = "unborn"
            /\ ssMain'[c[1]] # "fork2"
      <4>1. SUFFICES ASSUME NEW c \in SsKids
                     PROVE  /\ ssMain'[c[1]] \in {"create", "fork1"} => ssPc[c] = "unborn"
                            /\ ssMain'[c[1]] # "fork2"
        OBVIOUS
      <4>2. ssMain[c[1]] # "fork2"
        BY <1>k, <3>1 DEF SsOwner
      <4>3. CASE c[1] = n
        BY <1>c, <2>1, <3>2, <4>3
      <4>4. CASE c[1] # n
        <5>1. ssMain'[c[1]] = ssMain[c[1]]
          BY <1>k, <3>2, <4>4
        <5> QED
          BY <1>c, <4>2, <5>1
      <4> QED
        BY <4>3, <4>4
    <3>6. SsOwned'
      BY <1>k, <2>1, <2>2, <3>3, <3>4, <3>5 DEF SsOwned
    <3>7. SsCounted'
      BY <1>k, <2>1, <2>2, <3>3 DEF SsCounted
    <3>8. SsType'
      BY <1>k, <1>t, <2>1, <2>2, <3>2 DEF SsType
    <3> QED
      BY <3>6, <3>7, <3>8 DEF SsInv
  <2>3. CASE ssMain' = [ssMain EXCEPT ![n] = "exited"] /\ ssName' = ssName
    <3>1. SsType'
      BY <1>i, <1>k, <1>t, <2>1, <2>3 DEF SsType
    <3>2. \A m \in Instances : SsOwner(m)' <=> SsOwner(m)
      BY <1>t, <2>1, <2>3 DEF SsOwner
    <3>3. \A m \in Instances :
            ssMain'[m] \in {"create", "fork1", "fork2"} => ssMain'[m] = ssMain[m]
      BY <1>t, <2>3
    <3> QED
      BY <1>i, <1>k, <1>c, <2>1, <2>3, <3>1, <3>2, <3>3, SsSame DEF SsInv
  <2> QED
    BY <1>2, <2>1, <2>2, <2>3 DEF SsCreate, SsMainGoto
<1>3. ASSUME NEW n \in Instances, SsFork(n) PROVE SsInv'
  <2>1. PICK k \in {1, 2} :
          /\ ssMain[n] = (IF k = 1 THEN "fork1" ELSE "fork2")
          /\ \/ /\ ssPc' \in {[ssPc EXCEPT ![<<n, k>>] = l] : l \in {"open", "exited"}}
                /\ ssMain' = [ssMain EXCEPT ![n] = IF k = 1 THEN "fork2" ELSE "reap"]
             \/ ssMain' = [ssMain EXCEPT ![n] = "left name"] /\ ssPc' = ssPc
          /\ ssName' = ssName
    BY <1>3 DEF SsFork, SsMainGoto
  <2>2. \A m \in Instances : SsOwner(m)' <=> SsOwner(m)
    BY <1>t, <2>1 DEF SsOwner
  <2>3. /\ <<n, k>> \in SsKids /\ <<n, k>>[1] = n /\ <<n, k>>[2] = k
        /\ \A c \in SsKids : c[1] = n /\ c[2] = k => c = <<n, k>>
    BY DEF SsKids
  <2>4. ssPc[<<n, k>>] = "unborn" /\ SsOwner(n)
    BY <1>c, <2>1, <2>3 DEF SsOwner
  <2>5. CASE ssMain' = [ssMain EXCEPT ![n] = "left name"] /\ ssPc' = ssPc
    <3>1. SsType'
      BY <1>i, <1>k, <1>t, <2>1, <2>5 DEF SsType
    <3>2. \A m \in Instances :
            ssMain'[m] \in {"create", "fork1", "fork2"} => ssMain'[m] = ssMain[m]
      BY <1>t, <2>5
    <3> QED
      BY <1>i, <1>k, <1>c, <2>1, <2>2, <2>5, <3>1, <3>2, SsSame DEF SsInv
  <2>6. ASSUME NEW l \in {"open", "exited"}, ssPc' = [ssPc EXCEPT ![<<n, k>>] = l],
               ssMain' = [ssMain EXCEPT ![n] = IF k = 1 THEN "fork2" ELSE "reap"]
        PROVE  SsInv'
    <3>1. /\ ssPc'[<<n, k>>] = l /\ \A d \in SsKids : d # <<n, k>> => ssPc'[d] = ssPc[d]
          /\ ssPc' \in [SsKids -> {"unborn", "open", "wait", "inside", "exited"}]
      BY <1>t, <2>3, <2>6
    <3>2. /\ ssMain'[n] = IF k = 1 THEN "fork2" ELSE "reap"
          /\ \A m \in Instances : m # n => ssMain'[m] = ssMain[m]
          /\ ssMain' \in [Instances -> {"create", "fork1", "fork2", "reap", "left name", "exited"}]
      BY <1>t, <2>6
    <3>3. SsType'
      BY <1>i, <1>k, <2>1, <3>1, <3>2 DEF SsType
    <3>4. \A d \in SsKids : ssPc'[d] = "inside" <=> ssPc[d] = "inside"
      BY <2>4, <3>1
    <3>5. ASSUME NEW c \in SsKids
          PROVE  /\ ssPc'[c] \in {"open", "wait", "inside"} => SsOwner(c[1])
                 /\ ssMain'[c[1]] \in {"create", "fork1"} => ssPc'[c] = "unborn"
                 /\ ssMain'[c[1]] = "fork2" /\ c[2] = 2 => ssPc'[c] = "unborn"
      <4>1. CASE c = <<n, k>>
        <5>1. c[1] = n /\ c[2] = k
          BY <2>3, <4>1
        <5>2. ssMain'[c[1]] \in {"fork2", "reap"} /\ (ssMain'[c[1]] = "fork2" => c[2] = 1)
          BY <3>2, <5>1
        <5> QED
          BY <2>4, <5>1, <5>2
      <4>2. CASE c # <<n, k>> /\ c[1] = n
        <5>1. c[2] # k /\ ssPc'[c] = ssPc[c]
          BY <2>3, <3>1, <4>2
        <5>2. ssMain'[c[1]] = "fork2" => ssMain[c[1]] = "fork1"
          BY <2>1, <3>2, <4>2
        <5> QED
          BY <1>c, <3>2, <4>2, <5>1, <5>2
      <4>3. CASE c # <<n, k>> /\ c[1] # n
        <5>1. ssMain'[c[1]] = ssMain[c[1]] /\ ssPc'[c] = ssPc[c]
          BY <1>k, <3>1, <3>2, <4>3
        <5> QED
          BY <1>c, <5>1
      <4> QED
        BY <4>1, <4>2, <4>3
    <3> QED
      BY <1>i, <2>1, <2>2, <3>3, <3>4, <3>5, SsSame DEF SsInv
  <2> QED
    BY <2>1, <2>5, <2>6
<1>4. ASSUME NEW n \in Instances, SsReap(n) PROVE SsInv'
  <2>1. /\ ssMain[n] = "reap" /\ ssMain' = [ssMain EXCEPT ![n] = "exited"]
        /\ ssName' = {} /\ ssPc' = ssPc
        /\ \A k \in {1, 2} : ssPc[<<n, k>>] \in {"exited", "lost"}
    BY <1>4 DEF SsReap, SsMainGoto
  <2>2. /\ ssMain'[n] = "exited" /\ \A m \in Instances : m # n => ssMain'[m] = ssMain[m]
        /\ ssMain' \in [Instances -> {"create", "fork1", "fork2", "reap", "left name", "exited"}]
    BY <1>t, <2>1
  <2>3. SsOwner(n)
    BY <2>1 DEF SsOwner
  <2>4. \A m \in Instances : ~SsOwner(m)'
    BY <1>o, <2>2, <2>3 DEF SsOwner
  <2>5. ASSUME NEW c \in SsKids, ssPc[c] \in {"open", "wait", "inside"} PROVE FALSE
    <3>1. c[1] = n
      BY <1>k, <1>c, <1>o, <2>3, <2>5
    <3>2. c = <<n, 1>> \/ c = <<n, 2>>
      BY <3>1 DEF SsKids
    <3> QED
      BY <2>1, <2>5, <3>2
  <2>6. SsType'
    BY <1>k, <1>t, <2>1, <2>2 DEF SsType
  <2>7. \A c \in SsKids : ssMain'[c[1]] \in {"create", "fork1", "fork2"} => ssMain'[c[1]] = ssMain[c[1]]
    BY <1>k, <2>2
  <2>8. SsOwned'
    BY <1>k, <1>c, <2>1, <2>4, <2>5, <2>7 DEF SsOwned
  <2>9. SsCounted'
    BY <1>k, <2>1, <2>5 DEF SsCounted
  <2> QED
    BY <2>6, <2>8, <2>9 DEF SsInv
<1>5. ASSUME NEW c \in SsKids, SsOpen(c) \/ SsClose(c) PROVE SsInv'
  <2>1. ssName # {} \/ ssPc[c] # "open"
    BY <1>k, <1>c, <1>o
  <2>2. PICK l \in {"wait", "exited"} :
          /\ ssPc[c] \in {"open", "wait"} /\ ssPc' = [ssPc EXCEPT ![c] = l]
          /\ ssName' = ssName /\ ssMain' = ssMain
    BY <1>5, <2>1 DEF SsOpen, SsClose, SsGoto
  <2>3. /\ ssPc'[c] = l /\ \A d \in SsKids : d # c => ssPc'[d] = ssPc[d]
        /\ ssPc' \in [SsKids -> {"unborn", "open", "wait", "inside", "exited"}]
    BY <1>t, <2>2
  <2>4. SsType'
    BY <1>i, <1>k, <2>2, <2>3 DEF SsType
  <2>5. \A d \in SsKids : ssPc'[d] = "inside" <=> ssPc[d] = "inside"
    BY <2>2, <2>3
  <2>6. \A m \in Instances : SsOwner(m)' <=> SsOwner(m)
    BY <2>2 DEF SsOwner
  <2>7. \A d \in SsKids :
          /\ ssPc'[d] \in {"open", "wait", "inside"} => ssPc[d] \in {"open", "wait", "inside"}
          /\ ssPc[d] = "unborn" => ssPc'[d] = "unborn"
    BY <2>2, <2>3
  <2> QED
    BY <1>i, <1>c, <2>2, <2>4, <2>5, <2>6, <2>7, SsSame DEF SsInv
<1>6. ASSUME NEW c \in SsKids, SsWait(c) PROVE SsInv'
  <2>1. ssPc[c] = "wait" /\ ssMain' = ssMain
    BY <1>6 DEF SsWait
  <2>2. \A m \in Instances : SsOwner(m)' <=> SsOwner(m)
    BY <2>1 DEF SsOwner
  <2>3. CASE (\E v \in ssName : v > 0 /\ ssName' = {v - 1}) /\ ssPc' = [ssPc EXCEPT ![c] = "inside"]
    <3>1. ssName = {1} /\ ssName' = {0}
      <4>1. PICK v \in ssName : v > 0 /\ ssName' = {v - 1}
        BY <2>3
      <4>2. ssName = {1} /\ v = 1
        <5>1. CASE ssName = {}
          BY <4>1, <5>1
        <5>2. CASE ssName = {0}
          BY <4>1, <5>2
        <5>3. CASE ssName = {1}
          BY <4>1, <5>3
        <5> QED
          BY <1>i, <5>1, <5>2, <5>3 DEF SsType
      <4> QED
        BY <4>1, <4>2
    <3>2. /\ ssPc'[c] = "inside" /\ \A d \in SsKids : d # c => ssPc'[d] = ssPc[d]
          /\ ssPc' \in [SsKids -> {"unborn", "open", "wait", "inside", "exited"}]
      BY <1>t, <2>3
    <3>3. ssName # {0} /\ ssName # {} /\ ssName' # {}
      BY <3>1
    <3>4. \A d \in SsKids : ssPc[d] # "inside"
      BY <1>i, <3>3 DEF SsCounted
    <3>5. SsCounted'
      BY <1>k, <3>1, <3>2, <3>4 DEF SsCounted
    <3>6. \A d \in SsKids :
            /\ ssPc'[d] \in {"open", "wait", "inside"} => ssPc[d] \in {"open", "wait", "inside"}
            /\ ssPc[d] = "unborn" => ssPc'[d] = "unborn"
      BY <2>1, <3>2
    <3>7. SsOwned'
      BY <1>k, <1>c, <1>o, <2>1, <2>2, <3>3, <3>6 DEF SsOwned
    <3>8. SsType'
      BY <1>k, <1>t, <2>1, <3>1, <3>2 DEF SsType
    <3> QED
      BY <3>5, <3>7, <3>8 DEF SsInv
  <2>4. CASE ssName' = ssName /\ ssPc' = ssPc
    <3>1. SsType'
      BY <1>i, <1>k, <2>1, <2>4 DEF SsType
    <3> QED
      BY <1>i, <1>c, <2>1, <2>2, <2>4, <3>1, SsSame DEF SsInv
  <2> QED
    BY <1>6, <2>3, <2>4 DEF SsWait, SsGoto
<1>7. ASSUME NEW c \in SsKids, SsPost(c) PROVE SsInv'
  <2>1. /\ ssPc[c] = "inside" /\ ssPc' = [ssPc EXCEPT ![c] = "wait"] /\ ssMain' = ssMain
        /\ ssName' = {v + 1 : v \in ssName}
    BY <1>7 DEF SsPost, SsGoto
  <2>2. ssName = {0}
    BY <1>i, <2>1 DEF SsCounted
  <2>3. ssName' = {1}
    BY <2>1, <2>2
  <2>4. /\ ssPc'[c] = "wait" /\ \A d \in SsKids : d # c => ssPc'[d] = ssPc[d]
        /\ ssPc' \in [SsKids -> {"unborn", "open", "wait", "inside", "exited"}]
    BY <1>t, <2>1
  <2>5. \A d \in SsKids : ssPc'[d] # "inside"
    BY <1>i, <2>1, <2>4 DEF SsCounted
  <2>6. ssName # {} /\ ssName' # {} /\ ssName' # {0}
    BY <2>2, <2>3
  <2>7. SsCounted'
    BY <1>k, <2>5, <2>6 DEF SsCounted
  <2>8. \A m \in Instances : SsOwner(m)' <=> SsOwner(m)
    BY <2>1 DEF SsOwner
  <2>9. \A d \in SsKids :
          /\ ssPc'[d] \in {"open", "wait", "inside"} => ssPc[d] \in {"open", "wait", "inside"}
          /\ ssPc[d] = "unborn" => ssPc'[d] = "unborn"
    BY <2>1, <2>4
  <2>10. SsOwned'
    BY <1>k, <1>c, <1>o, <2>1, <2>6, <2>8, <2>9 DEF SsOwned
  <2>11. SsType'
    BY <1>k, <1>t, <2>1, <2>3, <2>4 DEF SsType
  <2> QED
    BY <2>7, <2>10, <2>11 DEF SsInv
<1> QED
  BY <1>1, <1>2, <1>3, <1>4, <1>5, <1>6, <1>7 DEF SsNext

\* A set without two different elements has at most one.
LEMMA AtMostOne ==
  ASSUME NEW S, \A x, y \in S : x = y
  PROVE  Cardinality(S) <= 1 /\ (S # {} => Cardinality(S) = 1)
<1>1. CASE S = {}
  BY <1>1, FS_EmptySet
<1>2. CASE S # {}
  <2>1. PICK x \in S : TRUE
    BY <1>2
  <2>2. S = {x}
    BY <2>1
  <2> QED
    BY <2>2, FS_Singleton
<1> QED
  BY <1>1, <1>2

\* Any number of instances started beside or after each other keep apart.
THEOREM SsIsSafe == SsSpec => []SsSafe
<1>1. SsInv /\ [SsNext]_ssVars => SsInv'
  BY SsNextInv
<1>2. SsInv => SsSafe
  <2>1. ASSUME SsInv PROVE SsSafe
    <3> DEFINE In == {c \in SsKids : ssPc[c] = "inside"}
    <3> DEFINE Own == {n \in Instances : ssMain[n] \notin {"create", "exited"}}
    <3>1. \A c \in SsKids : ssPc[c] # "lost"
      BY <2>1 DEF SsInv, SsType
    <3>2. \A c, d \in In : c = d
      BY <2>1 DEF SsInv, SsCounted
    <3>3. \A n \in Instances : n \in Own <=> SsOwner(n)
      BY <2>1 DEF SsInv, SsType, SsOwner
    <3>6. (\A n, m \in Own : n = m) /\ (ssName # {} => Own # {})
      BY <2>1, <3>3 DEF SsInv, SsOwned
    <3>4. Cardinality(In) <= 1
      BY <3>2, AtMostOne
    <3>5. ssName # {} => Cardinality(Own) = 1
      BY <3>6, AtMostOne
    <3> QED
      BY <3>1, <3>4, <3>5 DEF SsSafe
  <2> QED
    BY <2>1
<1> QED
  BY <1>1, <1>2, SsInitInv, PTL DEF SsSpec
----------------------------------------------------------------------------
(* readers_vs_writers.                                                     *)

RwLabels ==
  {"start", "unborn", "fork", "lock", "notify", "wait", "reading", "exited", "nolock"}

RwType == rwPc \in [RwProcs -> RwLabels] /\ rwFlag \in [RwProcs -> {0, 1}]

\* A reader was told by the next one, whether it has noticed or not.
RwTold(k) == k \in rwPend \/ rwFlag[k] = 1

\* The chain: who holds a lock, who stands behind whom, and who may go.
RwChain ==
  \A k \in RwProcs :
    /\ rwPc[k] \in {"fork", "notify", "wait", "reading"} => k \in rwReaders
    /\ rwPc[k] \in {"lock", "notify"} => k # 0 /\ rwPc[k - 1] = "wait"
    /\ rwPc[k] \in {"fork", "wait"} => k < Chain
    /\ rwPc[k] = "start" => k = 0
    /\ rwPc[k] \in {"start", "unborn", "fork", "lock", "notify"} =>
         \A j \in RwProcs : j > k => rwPc[j] = "unborn"
    /\ RwTold(k) => rwPc[k] = "wait" /\ rwPc[k + 1] \in {"fork", "wait", "reading", "exited"}
    /\ ~(k \in rwPend /\ rwFlag[k] = 1)

\* The writer exists once the first reader has its lock, and it gets its own
\* only after all readers.
RwWriterLast ==
  /\ (\E k \in RwProcs : rwPc[k] = "start") => rwWriter = "unborn"
  /\ rwWriter = "locked" => \A k \in RwProcs : rwPc[k] \in RwGone

RwInv == RwType /\ RwChain /\ RwWriterLast

LEMMA RwInitInv == RwInit => RwInv
  BY ChainAssumption
     DEF RwInit, RwInv, RwType, RwLabels, RwChain, RwTold, RwWriterLast, RwProcs, RwGone

\* While a reader process is left, a read lock is held.
LEMMA RwCovered ==
  ASSUME RwInv, rwWriter # "unborn", NEW k \in RwProcs, rwPc[k] \notin RwGone
  PROVE  rwReaders # {}
<1>1. rwPc[k] \in {"fork", "lock", "notify", "wait", "reading"}
  BY DEF RwInv, RwType, RwLabels, RwWriterLast, RwGone
<1>2. CASE rwPc[k] = "lock"
  <2>1. k - 1 \in RwProcs /\ rwPc[k - 1] = "wait"
    BY <1>2, ChainAssumption DEF RwInv, RwChain, RwProcs
  <2> QED
    BY <2>1 DEF RwInv, RwChain
<1> QED
  BY <1>1, <1>2 DEF RwInv, RwChain

LEMMA RwNextInv ==
  ASSUME RwInv, [RwNext]_rwVars
  PROVE  RwInv'
<1>0. Chain \in Nat /\ RwProcs = 0..Chain /\ RwProcs' = 0..Chain
  BY ChainAssumption DEF RwProcs
<1>t. rwPc \in [0..Chain -> RwLabels] /\ rwFlag \in [0..Chain -> {0, 1}]
  BY <1>0 DEF RwInv, RwType
<1>c. \A k \in 0..Chain :
        /\ rwPc[k] \in {"fork", "notify", "wait", "reading"} => k \in rwReaders
        /\ rwPc[k] \in {"lock", "notify"} => k # 0 /\ rwPc[k - 1] = "wait"
        /\ rwPc[k] \in {"fork", "wait"} => k < Chain
        /\ rwPc[k] = "start" => k = 0
        /\ rwPc[k] \in {"start", "unborn", "fork", "lock", "notify"} =>
             \A j \in 0..Chain : j > k => rwPc[j] = "unborn"
        /\ RwTold(k) => rwPc[k] = "wait" /\ rwPc[k + 1] \in {"fork", "wait", "reading", "exited"}
        /\ ~(k \in rwPend /\ rwFlag[k] = 1)
  BY <1>0 DEF RwInv, RwChain
<1>w. /\ (\E k \in 0..Chain : rwPc[k] = "start") => rwWriter = "unborn"
      /\ rwWriter = "locked" => \A k \in 0..Chain : rwPc[k] \in RwGone
  BY <1>0 DEF RwInv, RwWriterLast
<1>1. CASE UNCHANGED rwVars
  BY <1>1 DEF rwVars, RwInv, RwType, RwChain, RwTold, RwWriterLast
<1>2. CASE RwStart
  <2>1. rwPc[0] = "start" /\ rwFlag' = rwFlag /\ rwPend' = rwPend
    BY <1>2 DEF RwStart
  <2>2. \A k \in 0..Chain : k # 0 => rwPc[k] = "unborn"
    BY <1>0, <1>c, <2>1
  <2>3. PICK l \in {"reading", "fork", "exited"} :
          /\ rwPc' = [rwPc EXCEPT ![0] = l]
          /\ l = "exited" => rwReaders' = rwReaders /\ rwWriter' = rwWriter
          /\ l # "exited" => rwReaders' = {0} /\ rwWriter' = "waiting"
          /\ l = "fork" => Chain # 0
    BY <1>2 DEF RwStart, RwGoto
  <2>4. rwPc'[0] = l /\ \A k \in 0..Chain : k # 0 => rwPc'[k] = "unborn"
    BY <1>0, <1>t, <2>2, <2>3
  <2>5. RwType'
    BY <1>0, <1>t, <2>1, <2>3 DEF RwType, RwLabels
  <2>6. \A k \in 0..Chain : ~RwTold(k) /\ ~RwTold(k)'
    BY <1>0, <1>c, <2>1, <2>2 DEF RwTold
  <2>7. RwChain'
    BY <1>0, <2>3, <2>4, <2>6 DEF RwChain, RwTold
  <2>8. RwWriterLast'
    BY <1>0, <1>w, <2>1, <2>3, <2>4 DEF RwWriterLast
  <2> QED
    BY <2>5, <2>7, <2>8 DEF RwInv
<1>3. CASE RwWrite \/ RwWriteFails
  <2>1. rwWriter = "waiting" /\ UNCHANGED <<rwReaders, rwPc, rwFlag, rwPend>>
    BY <1>3 DEF RwWrite, RwWriteFails
  <2>2. rwWriter' = "locked" => rwReaders = {}
    BY <1>3 DEF RwWrite, RwWriteFails
  <2>3. RwType' /\ RwChain'
    BY <2>1 DEF RwInv, RwType, RwChain, RwTold
  <2>4. RwWriterLast'
    BY <1>0, <1>w, <2>1, <2>2, RwCovered DEF RwWriterLast
  <2> QED
    BY <2>3, <2>4 DEF RwInv
<1>4. ASSUME NEW k \in 0..Chain, RwFork(k) PROVE RwInv'
  <2>1. /\ rwPc[k] = "fork" /\ rwWriter' = rwWriter /\ rwPend' = rwPend /\ k < Chain
        /\ k \in rwReaders /\ ~RwTold(k) /\ rwFlag[k] = 0
        /\ \A j \in 0..Chain : j > k => rwPc[j] = "unborn" /\ ~RwTold(j)
    BY <1>0, <1>t, <1>c, <1>4 DEF RwFork, RwTold
  <2>2. CASE /\ rwPc' = [rwPc EXCEPT ![k] = "wait", ![k + 1] = "lock"]
             /\ rwFlag' = [rwFlag EXCEPT ![k + 1] = rwFlag[k]]
             /\ rwReaders' = rwReaders
    <3>1. /\ rwPc'[k] = "wait" /\ rwPc'[k + 1] = "lock" /\ k + 1 \in 0..Chain
          /\ \A j \in 0..Chain : j # k /\ j # k + 1 => rwPc'[j] = rwPc[j]
      BY <1>0, <1>t, <2>1, <2>2
    <3>2. RwType'
      BY <1>0, <1>t, <2>1, <2>2 DEF RwType, RwLabels
    <3>3. \A j \in 0..Chain : (RwTold(j)' <=> RwTold(j)) /\ ~(j \in rwPend /\ rwFlag[j] = 1)'
      BY <1>0, <1>t, <1>c, <2>1, <2>2, <3>1 DEF RwTold
    <3>4. RwChain'
      <4>1. SUFFICES ASSUME NEW j \in 0..Chain
                     PROVE
              /\ rwPc'[j] \in {"fork", "notify", "wait", "reading"} => j \in rwReaders
              /\ rwPc'[j] \in {"lock", "notify"} => j # 0 /\ rwPc'[j - 1] = "wait"
              /\ rwPc'[j] \in {"fork", "wait"} => j < Chain
              /\ rwPc'[j] = "start" => j = 0
              /\ rwPc'[j] \in {"start", "unborn", "fork", "lock", "notify"} =>
                   \A i \in 0..Chain : i > j => rwPc'[i] = "unborn"
              /\ RwTold(j) =>
                   rwPc'[j] = "wait" /\ rwPc'[j + 1] \in {"fork", "wait", "reading", "exited"}
        BY <1>0, <2>2, <3>3 DEF RwChain
      <4>2. CASE j = k
        BY <2>1, <3>1, <4>2
      <4>3. CASE j = k + 1
        BY <1>0, <2>1, <3>1, <4>3
      <4>4. CASE j > k + 1
        BY <1>0, <1>c, <2>1, <3>1, <4>4
      <4>5. CASE j < k
        <5>1. rwPc[j] \notin {"start", "unborn", "fork", "lock", "notify"}
          BY <1>0, <1>c, <2>1, <4>5
        <5>2. rwPc'[j] = rwPc[j] /\ (j + 1 # k => rwPc'[j + 1] = rwPc[j + 1])
          BY <1>0, <3>1, <4>5
        <5> QED
          BY <1>0, <1>c, <2>1, <3>1, <4>5, <5>1, <5>2
      <4> QED
        BY <1>0, <4>2, <4>3, <4>4, <4>5
    <3>5. RwWriterLast'
      BY <1>0, <1>w, <2>1, <3>1 DEF RwWriterLast, RwGone
    <3> QED
      BY <3>2, <3>4, <3>5 DEF RwInv
  <2>3. CASE rwPc' = [rwPc EXCEPT ![k] = "exited"] /\ rwReaders' = rwReaders \ {k} /\ rwFlag' = rwFlag
    <3>1. rwPc'[k] = "exited" /\ \A j \in 0..Chain : j # k => rwPc'[j] = rwPc[j]
      BY <1>0, <1>t, <2>3
    <3>2. RwType'
      BY <1>0, <1>t, <2>3 DEF RwType, RwLabels
    <3>3. \A j \in 0..Chain : RwTold(j)' <=> RwTold(j)
      BY <2>1, <2>3 DEF RwTold
    <3>4. RwChain'
      BY <1>0, <1>c, <2>1, <2>3, <3>1, <3>3 DEF RwChain
    <3>5. RwWriterLast'
      BY <1>0, <1>w, <2>1, <3>1 DEF RwWriterLast, RwGone
    <3> QED
      BY <3>2, <3>4, <3>5 DEF RwInv
  <2> QED
    BY <1>4, <2>2, <2>3 DEF RwFork, RwGoto
<1>5. ASSUME NEW k \in 0..Chain, RwLock(k) PROVE RwInv'
  <2>1. /\ rwPc[k] = "lock" /\ rwWriter' = rwWriter /\ rwPend' = rwPend /\ rwFlag' = rwFlag
        /\ k # 0 /\ rwPc[k - 1] = "wait" /\ ~RwTold(k) /\ ~RwTold(k - 1)
        /\ \A j \in 0..Chain : j > k => rwPc[j] = "unborn"
    BY <1>0, <1>t, <1>c, <1>5 DEF RwLock
  <2>2. PICK l \in {"notify", "nolock"} :
          /\ rwPc' = [rwPc EXCEPT ![k] = l]
          /\ rwReaders' = IF l = "notify" THEN rwReaders \cup {k} ELSE rwReaders
    BY <1>5 DEF RwLock, RwGoto
  <2>3. rwPc'[k] = l /\ \A j \in 0..Chain : j # k => rwPc'[j] = rwPc[j]
    BY <1>0, <1>t, <2>2
  <2>4. RwType'
    BY <1>0, <1>t, <2>1, <2>2 DEF RwType, RwLabels
  <2>5. \A j \in 0..Chain : RwTold(j)' <=> RwTold(j)
    BY <2>1 DEF RwTold
  <2>6. RwChain'
    BY <1>0, <1>c, <2>1, <2>2, <2>3, <2>5 DEF RwChain
  <2>7. RwWriterLast'
    BY <1>0, <1>w, <2>1, <2>3 DEF RwWriterLast, RwGone
  <2> QED
    BY <2>4, <2>6, <2>7 DEF RwInv
<1>6. ASSUME NEW k \in 0..Chain, RwNotify(k) PROVE RwInv'
  <2>1. /\ rwPc[k] = "notify" /\ rwWriter' = rwWriter /\ rwPend' = rwPend \cup {k - 1}
        /\ rwFlag' = rwFlag /\ rwReaders' = rwReaders
        /\ k # 0 /\ rwPc[k - 1] = "wait" /\ ~RwTold(k) /\ ~RwTold(k - 1) /\ k \in rwReaders
        /\ \A j \in 0..Chain : j > k => rwPc[j] = "unborn"
    BY <1>0, <1>t, <1>c, <1>6 DEF RwNotify, Notify
  <2>2. PICK l \in {"reading", "fork"} :
          rwPc' = [rwPc EXCEPT ![k] = l] /\ (l = "fork" => k # Chain)
    BY <1>6 DEF RwNotify, RwGoto
  <2>3. rwPc'[k] = l /\ \A j \in 0..Chain : j # k => rwPc'[j] = rwPc[j]
    BY <1>0, <1>t, <2>2
  <2>4. RwType'
    BY <1>0, <1>t, <2>1, <2>2 DEF RwType, RwLabels
  <2>5. \A j \in 0..Chain : j # k - 1 => (RwTold(j)' <=> RwTold(j)) /\ (j \in rwPend' <=> j \in rwPend)
    BY <2>1 DEF RwTold
  <2>6. RwChain'
    BY <1>0, <1>c, <2>1, <2>2, <2>3, <2>5 DEF RwChain, RwTold
  <2>7. RwWriterLast'
    BY <1>0, <1>w, <2>1, <2>3 DEF RwWriterLast, RwGone
  <2> QED
    BY <2>4, <2>6, <2>7 DEF RwInv
<1>7. ASSUME NEW k \in 0..Chain, RwWait(k) \/ RwEnd(k) PROVE RwInv'
  <2>1. rwPc[k] \in {"wait", "reading"} /\ rwWriter' = rwWriter
    BY <1>7 DEF RwWait, RwEnd
  <2>2. CASE WaitDeliver(rwFlag, rwPend, k) /\ rwPc' = rwPc /\ rwReaders' = rwReaders
    <3>1. rwPend' = rwPend \ {k} /\ rwFlag' = [rwFlag EXCEPT ![k] = 1] /\ RwTold(k)
      BY <2>2 DEF WaitDeliver, RwTold
    <3>2. \A j \in 0..Chain : (RwTold(j)' <=> RwTold(j)) /\ ~(j \in rwPend /\ rwFlag[j] = 1)'
      BY <1>t, <1>c, <3>1 DEF RwTold
    <3>3. RwType'
      BY <1>0, <1>t, <2>2, <3>1 DEF RwType
    <3>4. RwChain'
      BY <1>0, <1>c, <2>2, <3>2 DEF RwChain
    <3>5. RwWriterLast'
      BY <1>0, <1>w, <2>1, <2>2 DEF RwWriterLast
    <3> QED
      BY <3>3, <3>4, <3>5 DEF RwInv
  <2>3. CASE /\ rwPc' = [rwPc EXCEPT ![k] = "exited"] /\ rwReaders' = rwReaders \ {k}
             /\ rwPend' = rwPend
             /\ \/ rwPc[k] = "wait" /\ WaitReturn(rwFlag, k)
                \/ rwPc[k] = "reading" /\ rwFlag' = rwFlag
    <3>1. rwPc'[k] = "exited" /\ \A j \in 0..Chain : j # k => rwPc'[j] = rwPc[j]
      BY <1>0, <1>t, <2>3
    <3>2. RwType'
      BY <1>0, <1>t, <2>3 DEF RwType, RwLabels, WaitReturn
    <3>3. /\ ~RwTold(k)'
          /\ \A j \in 0..Chain : j # k => (RwTold(j)' <=> RwTold(j)) /\ rwFlag'[j] = rwFlag[j]
      <4>1. CASE rwPc[k] = "wait" /\ WaitReturn(rwFlag, k)
        <5>1. rwFlag[k] = 1 /\ rwFlag' = [rwFlag EXCEPT ![k] = 0]
          BY <4>1 DEF WaitReturn
        <5> QED
          BY <1>t, <1>c, <2>3, <5>1 DEF RwTold
      <4>2. CASE rwPc[k] = "reading" /\ rwFlag' = rwFlag
        BY <1>c, <2>3, <4>2 DEF RwTold
      <4> QED
        BY <2>3, <4>1, <4>2
    <3>4. k + 1 \in 0..Chain => rwPc[k + 1] \notin {"lock", "notify"}
      BY <1>0, <1>t, <1>c, <2>3 DEF RwTold, WaitReturn
    <3>5. RwChain'
      BY <1>0, <1>c, <2>1, <2>3, <3>1, <3>3, <3>4 DEF RwChain, RwTold
    <3>6. RwWriterLast'
      BY <1>0, <1>w, <2>1, <3>1 DEF RwWriterLast, RwGone
    <3> QED
      BY <3>2, <3>5, <3>6 DEF RwInv
  <2> QED
    BY <1>7, <2>2, <2>3 DEF RwWait, RwEnd, RwGoto
<1> QED
  BY <1>0, <1>1, <1>2, <1>3, <1>4, <1>5, <1>6, <1>7 DEF RwNext, RwReader

\* There is no moment without a read lock while a reader process is left, and a
\* NOTIFY() finds its process, however long the chain.
THEOREM RwHasNoWindow == RwSpec => []RwNoWindow
<1>1. RwInv /\ [RwNext]_rwVars => RwInv'
  BY RwNextInv
<1>2. RwInv => RwNoWindow
  BY RwCovered DEF RwInv, RwChain, RwWriterLast, RwNoWindow
<1> QED
  BY <1>1, <1>2, RwInitInv, PTL DEF RwSpec
----------------------------------------------------------------------------
(* coprocesses.                                                            *)

CoType ==
  /\ coAsked \in Seq(CoTyped) /\ coAnswered \in Seq(Seq(Int))
  /\ coTo \in Seq(CoTyped) /\ coFrom \in Seq(Seq(Int)) /\ coReply \in Seq(Seq(Int))
  /\ coBuff \in Seq(Int) /\ Len(coBuff) <= 2
  /\ coDriver \in {"input", "answer", "failed", "done"}
  /\ coChild \in {"read", "write", "gone"}

\* What a line must be answered with.
CoRight(l, r) == (coStdio \/ Len(l) = 2) => r = Answer(l)

\* Between two lines nothing is on its way; while the driver waits for the
\* answer to a line, the line, the reply or the answer is.
CoFlow ==
  /\ coDriver = "input" =>
       /\ Len(coAsked) = Len(coAnswered) /\ coTo = <<>> /\ coFrom = <<>>
       /\ coChild # "write"
  /\ coDriver = "answer" =>
       /\ Len(coAsked) = Len(coAnswered) + 1
       /\ \/ coTo = <<coAsked[Len(coAsked)]>> /\ coFrom = <<>> /\ coChild # "write"
          \/ /\ coTo = <<>> /\ coFrom = <<>> /\ coChild # "read"
             /\ Len(coReply) = 1 /\ CoRight(coAsked[Len(coAsked)], coReply[1])
          \/ /\ coTo = <<>> /\ coChild # "write"
             /\ Len(coFrom) = 1 /\ CoRight(coAsked[Len(coAsked)], coFrom[1])
  /\ Len(coAsked) - Len(coAnswered) \in {0, 1}

CoInv == CoType /\ CoFlow /\ CoMatches

LEMMA CoInitInv == CoInit => CoInv
<1> SUFFICES ASSUME CoInit PROVE CoInv
  OBVIOUS
<1>1. /\ coAsked = <<>> /\ coAnswered = <<>> /\ coTo = <<>> /\ coFrom = <<>>
      /\ coReply = <<>> /\ coBuff = <<>> /\ coDriver = "input" /\ coChild = "read"
  BY DEF CoInit
<1> QED
  BY <1>1 DEF CoInv, CoType, CoFlow, CoMatches

\* An answer is a sequence of at most one number; two operands are not mixed
\* with those of an earlier line.
LEMMA CoAnswers ==
  ASSUME NEW l \in CoTyped, NEW old \in Seq(Int), Len(old) <= 2
  PROVE  /\ l \in Seq(Int) /\ Len(l) <= 2
         /\ Overlaid(old, l) \in Seq(Int) /\ Len(Overlaid(old, l)) <= 2
         /\ Len(l) = 2 => Overlaid(old, l) = l
         /\ \A b \in Seq(Int) : Answer(b) \in Seq(Int)
<1>1. l \in Seq(Int) /\ Len(l) <= 2 /\ Len(l) \in Nat /\ Len(old) \in Nat
  BY CoAssumption
<1>2. CASE Len(l) < Len(old)
  <2>1. /\ SubSeq(old, Len(l) + 1, Len(old)) \in Seq(Int)
        /\ Len(SubSeq(old, Len(l) + 1, Len(old))) = Len(old) - Len(l)
    BY <1>1, <1>2
  <2> QED
    BY <1>1, <1>2, <2>1 DEF Overlaid, Answer, Invalid
<1>3. CASE ~(Len(l) < Len(old))
  BY <1>1, <1>3 DEF Overlaid, Answer, Invalid
<1> QED
  BY <1>1, <1>2, <1>3

\* The only element of a sequence of length one is its head.
LEMMA OneLong ==
  ASSUME NEW S, NEW s \in Seq(S), Len(s) = 1
  PROVE  Tail(s) = <<>> /\ Head(s) = s[1] /\ s[1] \in S
<1>1. Tail(s) \in Seq(S) /\ Len(Tail(s)) = 0
  OBVIOUS
<1>2. Tail(s) = <<>>
  BY <1>1, EmptySeq
<1> QED
  BY SMTT(30), <1>2

LEMMA CoNextInv ==
  ASSUME CoInv, [CoNext]_coVars
  PROVE  CoInv'
<1>t. CoType /\ CoFlow /\ CoMatches
  BY DEF CoInv
<1>l. Len(coAsked) \in Nat /\ Len(coAnswered) \in Nat
  BY <1>t DEF CoType
<1>a. DOMAIN coAnswered = 1..Len(coAnswered)
  BY <1>t DEF CoType
<1>1. CASE UNCHANGED coVars
  BY <1>1 DEF coVars, CoInv, CoType, CoFlow, CoMatches, CoRight
<1>2. ASSUME NEW l \in CoTyped, CoWrite(l) PROVE CoInv'
  <2>1. coDriver = "input" /\ UNCHANGED <<coStdio, coFrom, coChild, coBuff, coReply, coAnswered>>
    BY <1>2 DEF CoWrite
  <2>2. CASE coDriver' = "failed" /\ coTo' = coTo /\ coAsked' = coAsked
    BY <1>t, <2>1, <2>2 DEF CoInv, CoType, CoFlow, CoMatches
  <2>3. CASE coChild # "gone" /\ coDriver' = "answer" /\ coTo' = Append(coTo, l)
             /\ coAsked' = Append(coAsked, l)
    <3>1. coTo = <<>> /\ coFrom = <<>> /\ Len(coAsked) = Len(coAnswered) /\ coChild = "read"
      BY <1>t, <2>1, <2>3 DEF CoType, CoFlow
    <3>2. /\ coAsked' \in Seq(CoTyped) /\ Len(coAsked') = Len(coAsked) + 1
          /\ coAsked'[Len(coAsked')] = l
          /\ \A i \in 1..Len(coAsked) : coAsked'[i] = coAsked[i]
      BY <1>t, <2>3 DEF CoType
    <3>3. coTo' = <<l>> /\ coTo' \in Seq(CoTyped)
      BY <2>3, <3>1
    <3>4. CoType'
      BY <1>t, <2>1, <2>3, <3>2, <3>3 DEF CoType
    <3>5. CoFlow'
      BY <1>l, <2>1, <2>3, <3>1, <3>2, <3>3 DEF CoFlow
    <3>6. CoMatches'
      <4>1. coAnswered' = coAnswered /\ coStdio' = coStdio
        BY <2>1
      <4>2. \A i \in DOMAIN coAnswered : i \in 1..Len(coAsked) /\ coAsked'[i] = coAsked[i]
        BY <1>a, <3>1, <3>2
      <4>3. Len(coAnswered') <= Len(coAsked') /\ Len(coAsked') - Len(coAnswered') <= 1
        BY <1>l, <3>1, <3>2, <4>1
      <4> QED
        BY <1>t, <4>1, <4>2, <4>3 DEF CoMatches
    <3> QED
      BY <3>4, <3>5, <3>6 DEF CoInv
  <2> QED
    BY <1>2, <2>2, <2>3 DEF CoWrite
<1>3. CASE CoRead
  <2>1. coDriver = "answer" /\ UNCHANGED <<coStdio, coTo, coChild, coBuff, coReply, coAsked>>
    BY <1>3 DEF CoRead
  <2>2. CASE /\ coFrom # <<>> /\ coAnswered' = Append(coAnswered, Head(coFrom))
             /\ coFrom' = Tail(coFrom) /\ coDriver' = "input"
    <3>1. /\ Len(coAsked) = Len(coAnswered) + 1 /\ coTo = <<>> /\ coChild # "write"
          /\ Len(coFrom) = 1 /\ CoRight(coAsked[Len(coAsked)], coFrom[1])
      BY <1>t, <2>1, <2>2 DEF CoFlow, CoType
    <3>2. coFrom' = <<>> /\ Head(coFrom) = coFrom[1] /\ coFrom[1] \in Seq(Int)
      <4>1. coFrom \in Seq(Seq(Int))
        BY <1>t DEF CoType
      <4> QED
        BY <2>2, <3>1, <4>1, OneLong
    <3>3. /\ coAnswered' \in Seq(Seq(Int)) /\ Len(coAnswered') = Len(coAnswered) + 1
          /\ coAnswered'[Len(coAsked)] = coFrom[1]
          /\ \A i \in 1..Len(coAnswered) : coAnswered'[i] = coAnswered[i]
      BY <1>t, <2>2, <3>1, <3>2 DEF CoType
    <3>4. CoType'
      BY <1>t, <2>1, <2>2, <3>2, <3>3 DEF CoType
    <3>5. CoFlow'
      BY <1>l, <2>1, <2>2, <3>1, <3>2, <3>3 DEF CoFlow
    <3>6. CoMatches'
      <4>1. DOMAIN coAnswered' = 1..(Len(coAnswered) + 1)
        BY <3>3
      <4>2. ASSUME NEW i \in 1..(Len(coAnswered) + 1), (coStdio \/ Len(coAsked[i]) = 2)
            PROVE  coAnswered'[i] = Answer(coAsked[i])
        <5>1. CASE i \in 1..Len(coAnswered)
          BY <1>t, <1>a, <3>3, <4>2, <5>1 DEF CoMatches
        <5>2. CASE i = Len(coAsked)
          BY <3>1, <3>3, <4>2, <5>2 DEF CoRight
        <5> QED
          BY <1>l, <3>1, <5>1, <5>2
      <4>3. Len(coAnswered') <= Len(coAsked) /\ Len(coAsked) - Len(coAnswered') <= 1
        BY <1>l, <3>1, <3>3
      <4> QED
        BY <2>1, <4>1, <4>2, <4>3 DEF CoMatches
    <3> QED
      BY <3>4, <3>5, <3>6 DEF CoInv
  <2>3. CASE coDriver' = "failed" /\ coAnswered' = coAnswered /\ coFrom' = coFrom
    BY <1>t, <2>1, <2>3 DEF CoInv, CoType, CoFlow, CoMatches
  <2> QED
    BY <1>3, <2>2, <2>3 DEF CoRead
<1>4. CASE CoEnd
  BY <1>t, <1>4 DEF CoEnd, CoInv, CoType, CoFlow, CoMatches
<1>5. CASE ChildRead
  <2>1. coChild = "read" /\ UNCHANGED <<coStdio, coFrom, coOpen, coDriver, coAsked, coAnswered>>
    BY <1>5 DEF ChildRead
  <2>2. CoMatches'
    BY <1>t, <2>1 DEF CoMatches
  <2>3. CASE /\ coTo # <<>> /\ coTo' = Tail(coTo) /\ coChild' = "write"
             /\ coBuff' \in {Head(coTo), IF coStdio THEN Head(coTo) ELSE Overlaid(coBuff, Head(coTo))}
             /\ coReply' = <<Answer(coBuff')>>
    <3>1. Head(coTo) \in CoTyped /\ Tail(coTo) \in Seq(CoTyped)
      BY <1>t, <2>3 DEF CoType
    <3>2. coBuff \in Seq(Int) /\ Len(coBuff) <= 2
      BY <1>t DEF CoType
    <3>3. /\ coBuff' \in Seq(Int) /\ Len(coBuff') <= 2 /\ Answer(coBuff') \in Seq(Int)
          /\ coStdio \/ Len(Head(coTo)) = 2 => coBuff' = Head(coTo)
      BY <2>3, <3>1, <3>2, CoAnswers
    <3>4. coReply' \in Seq(Seq(Int)) /\ Len(coReply') = 1 /\ coReply'[1] = Answer(coBuff')
      BY <2>3, <3>3
    <3>5. CoRight(Head(coTo), coReply'[1])
      BY <3>3, <3>4 DEF CoRight
    <3>6. CoType'
      BY <1>t, <2>1, <2>3, <3>1, <3>3, <3>4 DEF CoType
    <3>7. CASE coDriver = "answer"
      <4>1. /\ Len(coAsked) = Len(coAnswered) + 1
            /\ coTo = <<coAsked[Len(coAsked)]>> /\ coFrom = <<>>
        BY <1>t, <2>1, <2>3, <3>7 DEF CoFlow
      <4>2. Head(coTo) = coAsked[Len(coAsked)] /\ Tail(coTo) = <<>>
        BY <4>1
      <4>3. CoRight(coAsked[Len(coAsked)], coReply[1])'
        BY <2>1, <3>5, <4>2 DEF CoRight
      <4> QED
        BY <1>t, <2>1, <2>2, <2>3, <3>4, <3>6, <3>7, <4>1, <4>2, <4>3 DEF CoInv, CoFlow, CoRight
    <3>8. CASE coDriver # "answer"
      BY <1>t, <2>1, <2>2, <2>3, <3>6, <3>8 DEF CoInv, CoFlow
    <3> QED
      BY <3>7, <3>8
  <2>4. CASE coChild' = "gone" /\ UNCHANGED <<coTo, coBuff, coReply>> /\ coTo = <<>>
    <3>1. CoType'
      BY <1>t, <2>1, <2>4 DEF CoType
    <3>2. CoFlow'
      BY <1>t, <2>1, <2>4 DEF CoFlow, CoRight
    <3> QED
      BY <2>2, <3>1, <3>2 DEF CoInv
  <2> QED
    BY <1>5, <2>3, <2>4 DEF ChildRead
<1>6. CASE ChildWrite
  <2>1. /\ coChild = "write" /\ coReply' = <<>>
        /\ UNCHANGED <<coStdio, coTo, coOpen, coDriver, coBuff, coAsked, coAnswered>>
    BY <1>6 DEF ChildWrite
  <2>2. CoMatches'
    BY <1>t, <2>1 DEF CoMatches
  <2>3. CASE coDriver \in {"failed", "done"} /\ coChild' = "gone" /\ coFrom' = coFrom
    BY <1>t, <2>1, <2>2, <2>3 DEF CoInv, CoType, CoFlow
  <2>4. CASE coDriver \notin {"failed", "done"} /\ coChild' = "read" /\ coFrom' = coFrom \o coReply
    <3>1. /\ coDriver = "answer" /\ Len(coAsked) = Len(coAnswered) + 1
          /\ coTo = <<>> /\ coFrom = <<>>
          /\ Len(coReply) = 1 /\ CoRight(coAsked[Len(coAsked)], coReply[1])
      BY <1>t, <2>1, <2>4 DEF CoFlow, CoType
    <3>2. coFrom' = coReply /\ coReply \in Seq(Seq(Int))
      BY <1>t, <2>4, <3>1 DEF CoType
    <3>3. CoType'
      BY <1>t, <2>1, <2>4, <3>2 DEF CoType
    <3>4. CoFlow'
      BY <1>l, <2>1, <2>4, <3>1, <3>2 DEF CoFlow, CoRight
    <3> QED
      BY <2>2, <3>3, <3>4 DEF CoInv
  <2> QED
    BY <1>6, <2>3, <2>4 DEF ChildWrite
<1>7. CASE ChildDies
  <2>1. /\ coChild' = "gone" /\ coChild # "gone"
        /\ UNCHANGED <<coStdio, coTo, coFrom, coOpen, coDriver, coBuff, coReply, coAsked, coAnswered>>
    BY <1>7 DEF ChildDies
  <2>2. CoMatches'
    BY <1>t, <2>1 DEF CoMatches
  <2>3. CoType'
    BY <1>t, <2>1 DEF CoType
  <2>4. CoFlow'
    BY <1>t, <2>1 DEF CoFlow, CoRight
  <2> QED
    BY <2>2, <2>3, <2>4 DEF CoInv
<1> QED
  BY <1>1, <1>2, <1>3, <1>4, <1>5, <1>6, <1>7 DEF CoNext, CoDriver, CoChild

\* Every line is answered in order, and a line with two operands with their
\* sum, whatever the earlier lines left in the buffer of the coprocess and
\* whenever the coprocess dies.
THEOREM CoIsMatched == CoSpec => []CoMatches
<1>1. CoInv /\ [CoNext]_coVars => CoInv'
  BY CoNextInv
<1>2. CoInv => CoMatches
  BY DEF CoInv
<1> QED
  BY <1>1, <1>2, CoInitInv, PTL DEF CoSpec
----------------------------------------------------------------------------
(* The remote login daemon.                                                *)

RlType ==
  /\ DOMAIN rlHold = RlClients /\ rlHold = [c \in RlClients |-> rlHold[c]]
  /\ rlKid \in [RlClients -> {"none", "run", "zombie", "gone"}]

\* The daemon is at the client of accept_client() and has forked a kid for it.
RlServing(c) == rlCur = c /\ rlDaemon \in {"close", "wait"}

\* Who has a descriptor of the connection of client c: besides those who serve c,
\* a process has it only if the daemon leaked it.
RlOwns(c) ==
  /\ Daemon \in rlHold[c] => c \in rlLeaked \/ (rlCur = c /\ rlDaemon \in {"fork", "close"})
  /\ \A d \in RlClients \ {c} :
       Kid(d) \in rlHold[c] \/ Grand(d) \in rlHold[c] => c \in rlLeaked

\* A kid that runs was not waited for yet and keeps the port from a new daemon,
\* so that a kid that ends is the one its own daemon waits for.
RlBorn(c) ==
  /\ rlKid[c] = "run" => /\ Kid(c) \in rlPort
                         /\ rlDaemon # "down" => RlServing(c) \/ c \in rlMissed
  /\ rlKid[c] = "zombie" => RlServing(c) \/ c \in rlMissed

RlInv ==
  /\ RlType
  /\ rlDaemon # "down" => Daemon \in rlPort
  /\ rlDaemon = "down" => \A c \in RlClients : rlKid[c] # "zombie"
  /\ \A c \in RlClients : RlOwns(c) /\ RlBorn(c)

\* The processes are all different.
LEMMA RlNames ==
  ASSUME NEW c, NEW d
  PROVE  /\ Daemon # Kid(c) /\ Daemon # Grand(c) /\ Kid(c) # Grand(d)
         /\ c # d => Kid(c) # Kid(d) /\ Grand(c) # Grand(d)
<1>1. Len(Daemon) = 1 /\ Len(Kid(c)) = 2 /\ Len(Grand(c)) = 2
  BY DEF Daemon, Kid, Grand
<1>2. Kid(c)[1] = "kid" /\ Grand(d)[1] = "grand" /\ Kid(c)[2] = c /\ Kid(d)[2] = d
      /\ Grand(c)[2] = c /\ Grand(d)[2] = d
  BY DEF Kid, Grand
<1> QED
  BY <1>1, <1>2

LEMMA RlInitInv == RlInit => RlInv
  BY DEF RlInit, RlInv, RlType, RlOwns, RlBorn

LEMMA RlNextInv ==
  ASSUME RlInv, [RlNext]_rlVars
  PROVE  RlInv'
<1>t. RlType
  BY DEF RlInv
<1>d. /\ rlDaemon # "down" => Daemon \in rlPort
      /\ rlDaemon = "down" => \A c \in RlClients : rlKid[c] # "zombie"
  BY DEF RlInv
<1>o. \A c \in RlClients : RlOwns(c)
  BY DEF RlInv
<1>b. \A c \in RlClients : RlBorn(c)
  BY DEF RlInv
<1>1. CASE UNCHANGED rlVars
  BY <1>1 DEF rlVars, RlInv, RlType, RlOwns, RlBorn, RlServing
<1>2. CASE RlStart
  <2>1. /\ rlDaemon = "down" /\ UNCHANGED <<rlLeaked, rlMissed, rlCur, rlKid, rlHold>>
        /\ \/ rlPort = {} /\ rlDaemon' = "accept" /\ rlPort' = {Daemon}
           \/ UNCHANGED <<rlDaemon, rlPort>>
    BY <1>2 DEF RlStart
  <2>2. CASE rlPort = {} /\ rlDaemon' = "accept" /\ rlPort' = {Daemon}
    <3>1. \A c \in RlClients : rlKid[c] \notin {"run", "zombie"}
      BY <1>d, <1>b, <2>1, <2>2 DEF RlBorn
    <3>2. \A c \in RlClients : RlOwns(c)'
      BY <1>o, <2>1, <2>2 DEF RlOwns
    <3> QED
      BY <1>t, <2>1, <2>2, <3>1, <3>2 DEF RlInv, RlType, RlBorn
  <2>3. CASE UNCHANGED <<rlDaemon, rlPort>>
    BY <1>t, <1>d, <1>o, <1>b, <2>1, <2>3 DEF RlInv, RlType, RlOwns, RlBorn, RlServing
  <2> QED
    BY <2>1, <2>2, <2>3
<1>3. CASE \E c \in RlClients : RlConnect(c) \/ RlLeave(c)
  <2>1. UNCHANGED <<rlDaemon, rlCur, rlKid, rlHold, rlPort, rlLeaked, rlMissed>>
    BY <1>3 DEF RlConnect, RlLeave
  <2> QED
    BY <1>t, <1>d, <1>o, <1>b, <2>1 DEF RlInv, RlType, RlOwns, RlBorn, RlServing
<1>4. CASE RlAccept
  <2>1. /\ rlDaemon = "accept" /\ rlDaemon' = "fork" /\ rlHold' = [rlHold EXCEPT ![rlCur'] = {Daemon}]
        /\ UNCHANGED <<rlKid, rlPort, rlLeaked, rlMissed>>
    BY <1>4 DEF RlAccept
  <2>2. ASSUME NEW c \in RlClients PROVE RlOwns(c)'
    <3>1. CASE c = rlCur'
      BY <1>t, <2>1, <3>1, RlNames DEF RlOwns, RlType
    <3>2. CASE c # rlCur'
      BY <1>t, <1>o, <2>1, <3>2 DEF RlOwns, RlType
    <3> QED
      BY <3>1, <3>2
  <2>3. \A c \in RlClients : RlBorn(c)'
    BY <1>b, <2>1 DEF RlBorn, RlServing
  <2>4. RlType'
    BY <1>t, <2>1 DEF RlType
  <2> QED
    BY <1>d, <2>1, <2>2, <2>3, <2>4 DEF RlInv
<1>5. CASE RlFork
  <2>1. rlDaemon = "fork" /\ rlMissed' = rlMissed
    BY <1>5 DEF RlFork
  <2>2. CASE /\ rlDaemon' = "close" /\ rlKid' = [rlKid EXCEPT ![rlCur] = "run"]
             /\ RlInherit(Daemon, Kid(rlCur)) /\ UNCHANGED <<rlCur, rlLeaked>>
    <3>1. rlPort' = rlPort \cup {Kid(rlCur)}
      BY <1>d, <2>1, <2>2 DEF RlInherit
    <3>2. \A c \in RlClients : rlHold'[c] =
             IF Daemon \in rlHold[c] THEN rlHold[c] \cup {Kid(rlCur)} ELSE rlHold[c]
      BY <2>2 DEF RlInherit
    <3>3. ASSUME NEW c \in RlClients PROVE RlOwns(c)'
      <4>1. Daemon \in rlHold'[c] => c \in rlLeaked \/ rlCur = c
        BY <1>o, <3>2, RlNames DEF RlOwns
      <4>2. ASSUME NEW d \in RlClients \ {c}, Kid(d) \in rlHold'[c] \/ Grand(d) \in rlHold'[c]
            PROVE  c \in rlLeaked
        <5>1. CASE Kid(d) \in rlHold[c] \/ Grand(d) \in rlHold[c]
          BY <1>o, <5>1 DEF RlOwns
        <5>2. CASE Daemon \in rlHold[c] /\ d = rlCur
          BY <1>o, <5>2 DEF RlOwns
        <5>3. Grand(d) # Kid(rlCur) /\ (d # rlCur => Kid(d) # Kid(rlCur))
          BY RlNames
        <5> QED
          BY <3>2, <4>2, <5>1, <5>2, <5>3
      <4> QED
        BY <2>2, <4>1, <4>2 DEF RlOwns
    <3>4. ASSUME NEW c \in RlClients PROVE RlBorn(c)'
      BY <1>t, <1>b, <2>1, <2>2, <3>1 DEF RlBorn, RlServing, RlType
    <3>5. RlType'
      BY <1>t, <2>2 DEF RlType, RlInherit
    <3> QED
      BY <1>d, <2>1, <2>2, <3>1, <3>3, <3>4, <3>5 DEF RlInv
  <2>3. CASE /\ rlDaemon' = "accept" /\ rlLeaked' = rlLeaked \cup {rlCur}
             /\ UNCHANGED <<rlKid, rlHold, rlPort>>
    BY <1>t, <1>d, <1>o, <1>b, <2>1, <2>3 DEF RlInv, RlType, RlOwns, RlBorn, RlServing
  <2> QED
    BY <1>5, <2>2, <2>3 DEF RlFork
<1>6. CASE RlClose
  <2>1. /\ rlDaemon = "close" /\ rlDaemon' = "wait" /\ rlHold' = [rlHold EXCEPT ![rlCur] = @ \ {Daemon}]
        /\ UNCHANGED <<rlCur, rlKid, rlPort, rlLeaked, rlMissed>>
    BY <1>6 DEF RlClose
  <2>2. \A c \in RlClients : /\ rlHold'[c] \subseteq rlHold[c]
                             /\ c = rlCur => Daemon \notin rlHold'[c]
    BY <1>t, <2>1 DEF RlType
  <2>3. \A c \in RlClients : RlOwns(c)'
    BY <1>o, <2>1, <2>2 DEF RlOwns
  <2>4. \A c \in RlClients : RlBorn(c)'
    BY <1>b, <2>1 DEF RlBorn, RlServing
  <2>5. RlType'
    BY <1>t, <2>1 DEF RlType
  <2> QED
    BY <1>d, <2>1, <2>3, <2>4, <2>5 DEF RlInv
<1>7. CASE RlWait
  <2>1. /\ rlDaemon = "wait" /\ rlDaemon' = "accept" /\ rlKid' = [rlKid EXCEPT ![rlCur] = "gone"]
        /\ UNCHANGED <<rlHold, rlPort, rlLeaked, rlMissed>>
    BY <1>7 DEF RlWait
  <2>2. \A c \in RlClients : RlOwns(c)'
    BY <1>o, <2>1 DEF RlOwns
  <2>3. \A c \in RlClients : RlBorn(c)'
    BY <1>t, <1>b, <2>1 DEF RlBorn, RlServing, RlType
  <2>4. RlType'
    BY <1>t, <2>1 DEF RlType
  <2> QED
    BY <1>d, <2>1, <2>2, <2>3, <2>4 DEF RlInv
<1>e. ASSUME NEW p, rlHold' = [c \in RlClients |-> rlHold[c] \ {p}], rlLeaked' = rlLeaked,
             \/ rlDaemon' = rlDaemon /\ rlCur' = rlCur
             \/ p = Daemon
      PROVE  \A c \in RlClients : RlOwns(c)'
  <2>1. \A c \in RlClients : rlHold'[c] = rlHold[c] \ {p}
    BY <1>e
  <2> QED
    BY <1>o, <1>e, <2>1 DEF RlOwns
<1>8. CASE RlDaemonEnds /\ UNCHANGED <<rlLeaked, rlMissed>>
  <2>1. /\ rlDaemon' = "down" /\ rlHold' = [c \in RlClients |-> rlHold[c] \ {Daemon}]
        /\ rlPort' = rlPort \ {Daemon}
        /\ rlKid' = [c \in RlClients |-> IF rlKid[c] = "zombie" THEN "gone" ELSE rlKid[c]]
    BY <1>8 DEF RlDaemonEnds, RlDrop
  <2>2. \A c \in RlClients : RlOwns(c)'
    BY <1>e, <1>8, <2>1
  <2>3. \A c \in RlClients : rlKid'[c] # "zombie" /\ (rlKid'[c] = "run" => rlKid[c] = "run")
    BY <2>1
  <2>4. \A c \in RlClients : RlBorn(c)'
    BY <1>b, <2>1, <2>3, RlNames DEF RlBorn
  <2>5. RlType'
    BY <1>t, <2>1 DEF RlType
  <2> QED
    BY <2>1, <2>2, <2>3, <2>4, <2>5 DEF RlInv
<1>9. CASE RlHup
  <2>1. CASE /\ rlDaemon = "wait" /\ rlDaemon' = "accept" /\ rlMissed' = rlMissed \cup {rlCur}
             /\ UNCHANGED <<rlKid, rlHold, rlPort, rlLeaked>>
    BY <1>t, <1>d, <1>o, <1>b, <2>1 DEF RlInv, RlType, RlOwns, RlBorn, RlServing
  <2> QED
    BY <1>8, <1>9, <2>1 DEF RlHup
<1>10. CASE RlTerm
  BY <1>8, <1>10 DEF RlTerm
<1>11. ASSUME NEW c \in RlClients, RlKidFork(c) PROVE RlInv'
  <2>1. /\ rlPort \subseteq rlPort' /\ UNCHANGED <<rlDaemon, rlCur, rlKid, rlLeaked, rlMissed>>
        /\ \A d \in RlClients : rlHold'[d] =
             IF Kid(c) \in rlHold[d] THEN rlHold[d] \cup {Grand(c)} ELSE rlHold[d]
    BY <1>11 DEF RlKidFork, RlInherit
  <2>2. ASSUME NEW d \in RlClients PROVE RlOwns(d)'
    <3>1. Daemon \in rlHold'[d] => Daemon \in rlHold[d]
      BY <2>1, RlNames
    <3>2. ASSUME NEW e \in RlClients \ {d}, Kid(e) \in rlHold'[d] \/ Grand(e) \in rlHold'[d]
          PROVE  d \in rlLeaked
      <4>1. Kid(e) \in rlHold[d] \/ Grand(e) \in rlHold[d]
        BY <2>1, <3>2, RlNames
      <4> QED
        BY <1>o, <4>1 DEF RlOwns
    <3> QED
      BY <1>o, <2>1, <3>1, <3>2 DEF RlOwns
  <2>3. \A d \in RlClients : RlBorn(d)'
    BY <1>b, <2>1 DEF RlBorn, RlServing
  <2>4. RlType'
    BY <1>t, <1>11, <2>1 DEF RlType, RlKidFork, RlInherit
  <2> QED
    BY <1>d, <2>1, <2>2, <2>3, <2>4 DEF RlInv
<1>12. ASSUME NEW c \in RlClients, RlKidExit(c) PROVE RlInv'
  <2>1. /\ rlKid[c] = "run" /\ rlHold' = [d \in RlClients |-> rlHold[d] \ {Kid(c)}]
        /\ rlPort' = rlPort \ {Kid(c)}
        /\ rlKid' = [rlKid EXCEPT ![c] = IF rlDaemon = "down" THEN "gone" ELSE "zombie"]
        /\ UNCHANGED <<rlDaemon, rlCur, rlLeaked, rlMissed>>
    BY <1>12 DEF RlKidExit, RlDrop
  <2>2. \A d \in RlClients : RlOwns(d)'
    BY <1>e, <2>1
  <2>3. \A d \in RlClients : d # c => rlKid'[d] = rlKid[d] /\ Kid(d) # Kid(c)
    BY <1>t, <2>1, RlNames DEF RlType
  <2>4. rlKid'[c] = IF rlDaemon = "down" THEN "gone" ELSE "zombie"
    BY <1>t, <2>1 DEF RlType
  <2>5. \A d \in RlClients : RlBorn(d)'
    BY <1>b, <2>1, <2>3, <2>4 DEF RlBorn, RlServing
  <2>6. RlType'
    BY <1>t, <2>1 DEF RlType
  <2>7. rlDaemon' # "down" => Daemon \in rlPort'
    BY <1>d, <2>1, RlNames
  <2>8. rlDaemon' = "down" => \A d \in RlClients : rlKid'[d] # "zombie"
    BY <1>d, <2>1, <2>3, <2>4
  <2> QED
    BY <2>2, <2>5, <2>6, <2>7, <2>8 DEF RlInv
<1>13. ASSUME NEW c \in RlClients, RlSetup(c) \/ RlLogout(c) PROVE RlInv'
  <2>1. UNCHANGED <<rlDaemon, rlCur, rlKid, rlLeaked, rlMissed>>
    BY <1>13 DEF RlSetup, RlLogout
  <2>2. CASE UNCHANGED <<rlHold, rlPort>>
    BY <1>t, <1>d, <1>o, <1>b, <2>1, <2>2 DEF RlInv, RlType, RlOwns, RlBorn, RlServing
  <2>3. CASE RlDrop(Grand(c))
    <3>1. rlHold' = [d \in RlClients |-> rlHold[d] \ {Grand(c)}] /\ rlPort' = rlPort \ {Grand(c)}
      BY <2>3 DEF RlDrop
    <3>2. \A d \in RlClients : RlOwns(d)'
      BY <1>e, <2>1, <3>1
    <3>3. \A d \in RlClients : RlBorn(d)'
      BY <1>b, <2>1, <3>1, RlNames DEF RlBorn, RlServing
    <3>4. RlType'
      BY <1>t, <2>1, <3>1 DEF RlType
    <3> QED
      BY <1>d, <2>1, <3>1, <3>2, <3>3, <3>4, RlNames DEF RlInv
  <2> QED
    BY <1>13, <2>2, <2>3 DEF RlSetup, RlLogout
<1> QED
  BY <1>1, <1>2, <1>3, <1>4, <1>5, <1>6, <1>7, <1>9, <1>10, <1>11, <1>12, <1>13
     DEF RlNext, RlServe, RlForked

\* No session has a descriptor of the connection of another client and no kid stays a
\* zombie, whatever the number of clients and daemons, except where fork(2) failed or
\* SIGHUP interrupted waitpid(2).
THEOREM RlIsApart == RlSpec => []RlApart
<1>1. RlInv /\ [RlNext]_rlVars => RlInv'
  BY RlNextInv
<1>2. RlInv => RlApart
  BY DEF RlInv, RlOwns, RlBorn, RlServing, RlApart
<1> QED
  BY <1>1, <1>2, RlInitInv, PTL DEF RlSpec
----------------------------------------------------------------------------
(* do_driver() of pty.c.                                                   *)

\* The pipe ends that are left after each call, and the table after the first k.
DrPtyLeft ==
  << DrPipes, {"ptd_r", "ptd_w", "dtp_r"}, {"ptd_w", "dtp_r"}, {"ptd_w", "dtp_r"},
     {"dtp_r"}, {"dtp_r"}, {} >>
DrPtyHas(t, k) ==
  /\ t \in [{"stdin", "stdout"} \cup DrPtyLeft[k + 1] -> DrPipes \cup {"tty"}]
  /\ \A d \in DrPtyLeft[k + 1] : t[d] = d
  /\ t["stdout"] = (IF k >= 3 THEN "ptd_w" ELSE "tty")
  /\ t["stdin"] = (IF k >= 5 THEN "dtp_r" ELSE "tty")

DrDriverLeft ==
  << DrPipes, {"ptd_r", "dtp_r", "dtp_w"}, {"ptd_r", "dtp_w"}, {"ptd_r", "dtp_w"},
     {"dtp_w"}, {"dtp_w"}, {} >>
DrDriverHas(t, k) ==
  /\ t \in [{"stdin", "stdout"} \cup DrDriverLeft[k + 1] -> DrPipes \cup {"tty"}]
  /\ \A d \in DrDriverLeft[k + 1] : t[d] = d
  /\ t["stdin"] = (IF k >= 3 THEN "ptd_r" ELSE "tty")
  /\ t["stdout"] = (IF k >= 5 THEN "dtp_w" ELSE "tty")

DrType ==
  /\ drAt \in [pty : 0..6, driver : -1..6]
  /\ drEnd \in [pty : {"run", "ok", "failed"}, driver : {"run", "ok", "failed"}]
DrInv ==
  /\ DrType
  /\ drAt.driver = -1 => drAt.pty = 0 /\ drEnd.driver = "run" /\ drEnd.pty # "ok"
  /\ drEnd.pty # "failed" => DrPtyHas(drPty, drAt.pty)
  /\ drEnd.driver # "failed" /\ drAt.driver # -1 => DrDriverHas(drDriver, drAt.driver)
  /\ drEnd.pty = "ok" => drAt.pty = 6
  /\ drEnd.driver = "ok" => drAt.driver = 6

LEMMA DrBegins == DrPtyHas(DrStart, 0)
<1>1. DrPtyLeft[1] = DrPipes
  BY DEF DrPtyLeft
<1>2. "stdin" \notin DrPipes /\ "stdout" \notin DrPipes
  BY DEF DrPipes
<1>3. DrStart \in [{"stdin", "stdout"} \cup DrPipes -> DrPipes \cup {"tty"}]
  BY DEF DrStart
<1>4. /\ \A d \in DrPipes : DrStart[d] = d
      /\ DrStart["stdin"] = "tty" /\ DrStart["stdout"] = "tty"
  BY <1>2 DEF DrStart
<1> QED
  BY <1>1, <1>3, <1>4 DEF DrPtyHas

\* After fork(2) the driver has the same table.
LEMMA DrForks ==
  ASSUME NEW t, DrPtyHas(t, 0)
  PROVE  DrDriverHas(t, 0)
<1>1. DrPtyLeft[1] = DrPipes /\ DrDriverLeft[1] = DrPipes
  BY DEF DrPtyLeft, DrDriverLeft
<1> QED
  BY <1>1 DEF DrPtyHas, DrDriverHas

\* The call after the k-th takes the table on.
LEMMA DrPtyGoesOn ==
  ASSUME NEW t, NEW k \in 0..5, DrPtyHas(t, k)
  PROVE  DrPtyHas(DrCall(t, DrPtyCalls[k + 1]), k + 1)
<1>1. CASE k = 0
  BY <1>1 DEF DrCall, DrPtyCalls, DrPtyHas, DrPtyLeft, DrPipes
<1>2. CASE k = 1
  BY <1>2 DEF DrCall, DrPtyCalls, DrPtyHas, DrPtyLeft, DrPipes
<1>3. CASE k = 2
  BY <1>3 DEF DrCall, DrPtyCalls, DrPtyHas, DrPtyLeft, DrPipes
<1>4. CASE k = 3
  BY <1>4 DEF DrCall, DrPtyCalls, DrPtyHas, DrPtyLeft, DrPipes
<1>5. CASE k = 4
  BY <1>5 DEF DrCall, DrPtyCalls, DrPtyHas, DrPtyLeft, DrPipes
<1>6. CASE k = 5
  BY <1>6 DEF DrCall, DrPtyCalls, DrPtyHas, DrPtyLeft, DrPipes
<1> QED
  BY <1>1, <1>2, <1>3, <1>4, <1>5, <1>6

LEMMA DrDriverGoesOn ==
  ASSUME NEW t, NEW k \in 0..5, DrDriverHas(t, k)
  PROVE  DrDriverHas(DrCall(t, DrDriverCalls[k + 1]), k + 1)
<1>1. CASE k = 0
  BY <1>1 DEF DrCall, DrDriverCalls, DrDriverHas, DrDriverLeft, DrPipes
<1>2. CASE k = 1
  BY <1>2 DEF DrCall, DrDriverCalls, DrDriverHas, DrDriverLeft, DrPipes
<1>3. CASE k = 2
  BY <1>3 DEF DrCall, DrDriverCalls, DrDriverHas, DrDriverLeft, DrPipes
<1>4. CASE k = 3
  BY <1>4 DEF DrCall, DrDriverCalls, DrDriverHas, DrDriverLeft, DrPipes
<1>5. CASE k = 4
  BY <1>5 DEF DrCall, DrDriverCalls, DrDriverHas, DrDriverLeft, DrPipes
<1>6. CASE k = 5
  BY <1>6 DEF DrCall, DrDriverCalls, DrDriverHas, DrDriverLeft, DrPipes
<1> QED
  BY <1>1, <1>2, <1>3, <1>4, <1>5, <1>6

\* After the last call only the two ends are left.
LEMMA DrFinishes ==
  ASSUME NEW t
  PROVE  /\ DrPtyHas(t, 6) => t = DrEnds("dtp_r", "ptd_w")
         /\ DrDriverHas(t, 6) => t = DrEnds("ptd_r", "dtp_w")
<1>1. DrPtyLeft[7] = {} /\ DrDriverLeft[7] = {}
  BY DEF DrPtyLeft, DrDriverLeft
<1>2. ASSUME DrPtyHas(t, 6) PROVE t = DrEnds("dtp_r", "ptd_w")
  <2>1. t["stdin"] = "dtp_r" /\ t["stdout"] = "ptd_w"
    BY <1>2 DEF DrPtyHas
  <2>2. t \in [{"stdin", "stdout"} \cup DrPtyLeft[7] -> DrPipes \cup {"tty"}]
    BY <1>2 DEF DrPtyHas
  <2>3. t \in [{"stdin", "stdout"} -> DrPipes \cup {"tty"}]
    BY <1>1, <2>2
  <2> QED
    BY <2>1, <2>3 DEF DrEnds
<1>3. ASSUME DrDriverHas(t, 6) PROVE t = DrEnds("ptd_r", "dtp_w")
  <2>1. t["stdin"] = "ptd_r" /\ t["stdout"] = "dtp_w"
    BY <1>3 DEF DrDriverHas
  <2>2. t \in [{"stdin", "stdout"} \cup DrDriverLeft[7] -> DrPipes \cup {"tty"}]
    BY <1>3 DEF DrDriverHas
  <2>3. t \in [{"stdin", "stdout"} -> DrPipes \cup {"tty"}]
    BY <1>1, <2>2
  <2> QED
    BY <2>1, <2>3 DEF DrEnds
<1> QED
  BY <1>2, <1>3

LEMMA DrInitInv == DrInit => DrInv
<1> SUFFICES ASSUME DrInit PROVE DrInv
  OBVIOUS
<1>1. drAt.pty = 0 /\ drAt.driver = -1 /\ drEnd.pty = "run" /\ drEnd.driver = "run" /\ DrType
  BY DEF DrInit, DrType
<1>2. DrPtyHas(drPty, 0)
  BY DrBegins DEF DrInit
<1> QED
  BY <1>1, <1>2 DEF DrInv

LEMMA DrNextInv ==
  ASSUME DrInv, [DrNext]_drVars
  PROVE  DrInv'
<1>t. DrType
  BY DEF DrInv
<1>1. CASE UNCHANGED drVars
  BY <1>1 DEF drVars, DrInv, DrType
<1>2. CASE DrFork
  <2>1. drAt.driver = -1 /\ drEnd.pty = "run" /\ drAt.pty = 0 /\ drEnd.driver = "run"
        /\ DrPtyHas(drPty, 0)
    BY <1>2 DEF DrFork, DrInv
  <2>2. CASE drDriver' = drPty /\ drAt' = [drAt EXCEPT !.driver = 0] /\ UNCHANGED <<drPty, drEnd>>
    <3>1. drAt'.pty = 0 /\ drAt'.driver = 0 /\ DrType'
      BY <1>t, <2>1, <2>2 DEF DrType
    <3>2. DrPtyHas(drPty', 0) /\ DrDriverHas(drDriver', 0)
      BY <2>1, <2>2, DrForks
    <3> QED
      BY <2>1, <2>2, <3>1, <3>2 DEF DrInv
  <2>3. CASE drEnd' = [drEnd EXCEPT !.pty = "failed"] /\ UNCHANGED <<drDriver, drAt>>
    <3>1. drEnd'.pty = "failed" /\ drEnd'.driver = drEnd.driver /\ DrType'
      BY <1>t, <2>3 DEF DrType
    <3> QED
      BY <2>1, <2>3, <3>1 DEF DrInv
  <2> QED
    BY <1>2, <2>2, <2>3 DEF DrFork
<1>3. CASE DrPtyStep
  <2>1. drAt.driver # -1 /\ drEnd.pty = "run" /\ drDriver' = drDriver /\ DrPtyHas(drPty, drAt.pty)
    BY <1>3 DEF DrPtyStep, DrInv
  <2>2. drEnd.driver # "failed" => DrDriverHas(drDriver, drAt.driver)
    BY <2>1 DEF DrInv
  <2>3. drEnd.driver = "ok" => drAt.driver = 6
    BY DEF DrInv
  <2>4. Len(DrPtyCalls) = 6
    BY DEF DrPtyCalls
  <2>5. CASE drAt.pty = 6 /\ drEnd' = [drEnd EXCEPT !.pty = "ok"] /\ UNCHANGED <<drPty, drAt>>
    <3>1. drEnd'.pty = "ok" /\ drEnd'.driver = drEnd.driver /\ DrType'
      BY <1>t, <2>5 DEF DrType
    <3> QED
      BY <2>1, <2>2, <2>3, <2>5, <3>1 DEF DrInv
  <2>6. CASE /\ drAt.pty # 6 /\ drPty' = DrCall(drPty, DrPtyCalls[drAt.pty + 1])
             /\ drAt' = [drAt EXCEPT !.pty = @ + 1] /\ UNCHANGED drEnd
    <3>1. drAt.pty \in 0..5
      BY <1>t, <2>6 DEF DrType
    <3>2. drAt'.pty = drAt.pty + 1 /\ drAt'.driver = drAt.driver /\ DrType'
      BY <1>t, <2>6, <3>1 DEF DrType
    <3>3. DrPtyHas(drPty', drAt.pty + 1)
      BY <2>1, <2>6, <3>1, DrPtyGoesOn
    <3> QED
      BY <2>1, <2>2, <2>3, <2>6, <3>2, <3>3 DEF DrInv
  <2>7. CASE drEnd' = [drEnd EXCEPT !.pty = "failed"] /\ UNCHANGED drAt
    <3>1. drEnd'.pty = "failed" /\ drEnd'.driver = drEnd.driver /\ DrType'
      BY <1>t, <2>7 DEF DrType
    <3> QED
      BY <2>1, <2>2, <2>3, <2>7, <3>1 DEF DrInv
  <2> QED
    BY <1>3, <2>4, <2>5, <2>6, <2>7 DEF DrPtyStep
<1>4. CASE DrDriverStep
  <2>1. /\ drAt.driver # -1 /\ drEnd.driver = "run" /\ drPty' = drPty
        /\ DrDriverHas(drDriver, drAt.driver)
    BY <1>4 DEF DrDriverStep, DrInv
  <2>2. drEnd.pty # "failed" => DrPtyHas(drPty, drAt.pty)
    BY DEF DrInv
  <2>3. drEnd.pty = "ok" => drAt.pty = 6
    BY DEF DrInv
  <2>4. Len(DrDriverCalls) = 6
    BY DEF DrDriverCalls
  <2>5. CASE drAt.driver = 6 /\ drEnd' = [drEnd EXCEPT !.driver = "ok"] /\ UNCHANGED <<drDriver, drAt>>
    <3>1. drEnd'.driver = "ok" /\ drEnd'.pty = drEnd.pty /\ DrType'
      BY <1>t, <2>5 DEF DrType
    <3> QED
      BY <2>1, <2>2, <2>3, <2>5, <3>1 DEF DrInv
  <2>6. CASE /\ drAt.driver < 6 /\ drDriver' = DrCall(drDriver, DrDriverCalls[drAt.driver + 1])
             /\ drAt' = [drAt EXCEPT !.driver = @ + 1] /\ UNCHANGED drEnd
    <3>1. drAt.driver \in 0..5
      BY <1>t, <2>1, <2>6 DEF DrType
    <3>2. drAt'.driver = drAt.driver + 1 /\ drAt'.pty = drAt.pty /\ DrType'
      BY <1>t, <2>6, <3>1 DEF DrType
    <3>3. DrDriverHas(drDriver', drAt.driver + 1)
      BY <2>1, <2>6, <3>1, DrDriverGoesOn
    <3>4. drAt'.driver # -1
      BY <3>1, <3>2
    <3> QED
      BY <2>1, <2>2, <2>3, <2>6, <3>2, <3>3, <3>4 DEF DrInv
  <2>7. CASE drEnd' = [drEnd EXCEPT !.driver = "failed"] /\ UNCHANGED drAt
    <3>1. drEnd'.driver = "failed" /\ drEnd'.pty = drEnd.pty /\ DrType'
      BY <1>t, <2>7 DEF DrType
    <3> QED
      BY <2>1, <2>2, <2>3, <2>7, <3>1 DEF DrInv
  <2> QED
    BY <1>4, <2>4, <2>5, <2>6, <2>7 DEF DrDriverStep
<1> QED
  BY <1>1, <1>2, <1>3, <1>4 DEF DrNext

\* Whatever call fails on either side, a process that got through has its two ends
\* and no other descriptor of the pipes.
THEOREM DrIsWired == DrSpec => []DrWired
<1>1. DrInv /\ [DrNext]_drVars => DrInv'
  BY DrNextInv
<1>2. ASSUME DrInv PROVE DrWired
  <2>1. drEnd.pty = "ok" => drPty = DrEnds("dtp_r", "ptd_w")
    BY <1>2, DrFinishes DEF DrInv
  <2>2. drEnd.driver = "ok" => drDriver = DrEnds("ptd_r", "dtp_w")
    BY <1>2, DrFinishes DEF DrInv
  <2> QED
    BY <2>1, <2>2 DEF DrWired, DrEnds
<1> QED
  BY <1>1, <1>2, DrInitInv, PTL DEF DrSpec
----------------------------------------------------------------------------
(* fork_sync: the parent and the child take turns.                          *)

FsTexts == {"started", "press", "child_exits", "parent_exits"}
FsLabels == {"init", "fork", "unborn", "wait1", "wait2", "msgs", "key", "tell1", "tell2",
             "write1", "write2", "print", "exit", "done"}
FsType ==
  /\ fsMethod \in {"pipes", "record_locks", "signals"} /\ fsTty \in BOOLEAN /\ fsOk \in BOOLEAN
  /\ fsPc \in [FsProcs -> FsLabels]
  /\ fsI \in [FsProcs -> 0..Msgs]
  /\ fsPipe \in [FsProcs -> {0, 1}] /\ fsFlag \in [FsProcs -> {0, 1}]
  /\ fsFile \in {"nobody", "parent", "child"} /\ fsPend \subseteq FsProcs
  /\ (fsPc["parent"] = "init" => fsOk)
  /\ \A p \in FsProcs : fsPc[p] \in {"write1", "write2"} => fsMethod = "record_locks"
  /\ fsBuf \in [FsProcs -> Seq(FsTexts)] /\ fsOut \in Seq(FsTexts \cup FsProcs)

\* A notification for p is on its way, by whatever method: exactly one, or none.
FsToken(p) ==
  /\ fsMethod = "pipes" => fsPipe[p] = 1
  /\ fsMethod = "record_locks" => fsFile = p
  /\ fsMethod = "signals" => \/ p \in fsPend /\ fsFlag[p] = 0
                             \/ p \notin fsPend /\ fsFlag[p] = 1
FsNone(p) ==
  /\ fsMethod = "pipes" => fsPipe[p] = 0
  /\ fsMethod = "record_locks" => fsFile # p
  /\ fsMethod = "signals" => p \notin fsPend /\ fsFlag[p] = 0
FsSilent == \A p \in FsProcs : FsNone(p)

\* The phases of a run: who may act, and whom a notification is under way for.
FsAt(c, p) == fsPc["child"] \in c /\ fsPc["parent"] \in p
FsWrote(c, p) == fsI["child"] = c /\ fsI["parent"] = p
FsLone == FsAt({"unborn"}, {"init", "fork", "exit", "done"}) /\ FsWrote(0, 0) /\ FsSilent
FsChildFirst ==
  /\ FsAt({"msgs", "tell1", "write1"}, {"wait1"}) /\ FsSilent
  /\ fsI["parent"] = 0 /\ (fsPc["child"] # "msgs" => fsI["child"] = Msgs)
FsToParent ==
  FsAt({"wait2"}, {"wait1"}) /\ FsWrote(Msgs, 0) /\ FsToken("parent") /\ FsNone("child")
FsParentNext ==
  /\ FsAt({"wait2"}, {"msgs", "key", "tell1", "write1"}) /\ FsNone("child")
  /\ fsMethod # "record_locks" => FsNone("parent")
  /\ fsI["child"] = Msgs /\ (fsPc["parent"] # "msgs" => fsI["parent"] = Msgs)
FsToChild ==
  FsAt({"wait2"}, {"wait2"}) /\ FsWrote(Msgs, Msgs) /\ FsToken("child") /\ FsNone("parent")
FsChildLeaves ==
  /\ FsAt({"print", "tell2", "write2"}, {"wait2"}) /\ FsNone("parent") /\ FsWrote(Msgs, Msgs)
  /\ fsMethod # "record_locks" => FsNone("child")
FsToParentAgain ==
  FsAt({"exit", "done"}, {"wait2"}) /\ FsToken("parent") /\ FsWrote(Msgs, Msgs)
FsParentLast == FsAt({"exit", "done"}, {"print", "exit", "done"}) /\ FsWrote(Msgs, Msgs)
FsPhase ==
  \/ FsLone \/ FsChildFirst \/ FsToParent \/ FsParentNext \/ FsToChild
  \/ FsChildLeaves \/ FsToParentAgain \/ FsParentLast

\* On a terminal: how much of the script was announced.
FsLength(n) ==
  LET c == fsPc["child"]  p == fsPc["parent"] IN
    /\ p = "init" => n = 0
    /\ c = "unborn" /\ p # "init" => n = 1
    /\ p \in {"wait1", "msgs", "key"} => n = 1 + fsI["child"] + fsI["parent"]
    /\ p \in {"tell1", "write1"} => n = 2 * Msgs + 2
    /\ p = "wait2" /\ c \in {"wait2", "print"} => n = 2 * Msgs + 2
    /\ p = "wait2" /\ c \notin {"wait2", "print"} => n = 2 * Msgs + 3
    /\ p = "print" => n = 2 * Msgs + 3
    /\ p \in {"exit", "done"} /\ c # "unborn" => n = 2 * Msgs + 4
FsAnnounced ==
  fsTty => /\ \A p \in FsProcs : fsBuf[p] = <<>>
           /\ FsLength(Len(fsOut))
           /\ \A i \in 1..Len(fsOut) : fsOut[i] = FsScript[i]

FsCounted ==
  ~fsTty => /\ \A p \in FsProcs : Cardinality({i \in DOMAIN fsOut : fsOut[i] = p}) = fsI[p]
            /\ \A i, j \in DOMAIN fsOut : fsOut[i] = "child" /\ fsOut[j] = "parent" => i < j

FsInv == FsType /\ (fsOk => FsPhase /\ FsAnnounced /\ FsCounted)

\* Two sequences one behind the other.
LEMMA JoinAt ==
  ASSUME NEW S, NEW s \in Seq(S), NEW t \in Seq(S), NEW u, u = s \o t
  PROVE  /\ u \in Seq(S) /\ Len(u) = Len(s) + Len(t)
         /\ \A i \in 1..Len(s) : u[i] = s[i]
         /\ \A i \in 1..Len(t) : u[Len(s) + i] = t[i]
<1>0. Len(s) \in Nat /\ Len(t) \in Nat
  OBVIOUS
<1>1. /\ u \in Seq(S) /\ Len(u) = Len(s) + Len(t)
      /\ \A i \in 1..(Len(s) + Len(t)) : u[i] = IF i <= Len(s) THEN s[i] ELSE t[i - Len(s)]
  BY ConcatProperties
<1>2. ASSUME NEW i \in 1..Len(t) PROVE u[Len(s) + i] = t[i]
  <2>1. Len(s) + i \in 1..(Len(s) + Len(t)) /\ ~(Len(s) + i <= Len(s)) /\ (Len(s) + i) - Len(s) = i
    BY <1>0
  <2> QED
    BY <1>1, <2>1
<1>3. ASSUME NEW i \in 1..Len(s) PROVE u[i] = s[i]
  BY <1>0, <1>1
<1> QED
  BY <1>1, <1>2, <1>3

\* The script, line by line.
LEMMA FsScriptAt ==
  /\ FsScript \in Seq(FsTexts \cup FsProcs) /\ Len(FsScript) = 2 * Msgs + 4
  /\ FsScript[1] = "started"
  /\ \A i \in 2..(Msgs + 1) : FsScript[i] = "child"
  /\ \A i \in (Msgs + 2)..(2 * Msgs + 1) : FsScript[i] = "parent"
  /\ FsScript[2 * Msgs + 2] = "press" /\ FsScript[2 * Msgs + 3] = "child_exits"
  /\ FsScript[2 * Msgs + 4] = "parent_exits"
<1> DEFINE T == FsTexts \cup FsProcs
           a == <<"started">>
           b == [k \in 1..Msgs |-> "child"]
           c == [k \in 1..Msgs |-> "parent"]
           d == <<"press", "child_exits", "parent_exits">>
<1>m. Msgs \in Nat
  BY MsgsAssumption
<1>1. b \in Seq(T) /\ Len(b) = Msgs /\ c \in Seq(T) /\ Len(c) = Msgs
  BY <1>m DEF FsProcs
<1>2. a \in Seq(T) /\ Len(a) = 1 /\ d \in Seq(T) /\ Len(d) = 3
  BY DEF FsTexts
<1>3. /\ a[1] = "started" /\ d[1] = "press" /\ d[2] = "child_exits" /\ d[3] = "parent_exits"
      /\ \A k \in 1..Msgs : b[k] = "child" /\ c[k] = "parent"
  OBVIOUS
<1> DEFINE ab == a \o b
           abc == ab \o c
<1>4. FsScript = abc \o d
  BY DEF FsScript
<1>p. ab = a \o b
  OBVIOUS
<1>q. abc = ab \o c
  OBVIOUS
<1>a. a \in Seq(T)
  BY <1>2
<1>b. b \in Seq(T)
  BY <1>1
<1>c. c \in Seq(T)
  BY <1>1
<1>d. d \in Seq(T)
  BY <1>2
<1> HIDE DEF T, a, b, c, d, ab, abc
<1>5. /\ ab \in Seq(T) /\ Len(ab) = 1 + Msgs /\ ab[1] = a[1]
      /\ \A i \in 1..Msgs : ab[1 + i] = b[i]
  <2>1. /\ ab \in Seq(T) /\ Len(ab) = Len(a) + Len(b)
        /\ \A i \in 1..Len(a) : ab[i] = a[i]
        /\ \A i \in 1..Len(b) : ab[Len(a) + i] = b[i]
    BY <1>p, <1>a, <1>b, JoinAt
  <2> QED
    BY <1>1, <1>2, <2>1
<1>6. /\ abc \in Seq(T) /\ Len(abc) = 1 + 2 * Msgs
      /\ \A i \in 1..(1 + Msgs) : abc[i] = ab[i]
      /\ \A i \in 1..Msgs : abc[1 + Msgs + i] = c[i]
  <2>1. /\ abc \in Seq(T) /\ Len(abc) = Len(ab) + Len(c)
        /\ \A i \in 1..Len(ab) : abc[i] = ab[i]
        /\ \A i \in 1..Len(c) : abc[Len(ab) + i] = c[i]
    <3>1. ab \in Seq(T)
      BY <1>5
    <3> QED
      BY <1>q, <3>1, <1>c, JoinAt
  <2> QED
    BY <1>m, <1>1, <1>5, <2>1
<1>7. /\ FsScript \in Seq(T) /\ Len(FsScript) = 2 * Msgs + 4
      /\ \A i \in 1..(1 + 2 * Msgs) : FsScript[i] = abc[i]
      /\ \A i \in 1..3 : FsScript[1 + 2 * Msgs + i] = d[i]
  <2>1. /\ FsScript \in Seq(T) /\ Len(FsScript) = Len(abc) + Len(d)
        /\ \A i \in 1..Len(abc) : FsScript[i] = abc[i]
        /\ \A i \in 1..Len(d) : FsScript[Len(abc) + i] = d[i]
    <3>1. abc \in Seq(T)
      BY <1>6
    <3> QED
      BY <1>4, <3>1, <1>d, JoinAt
  <2> QED
    BY <1>m, <1>2, <1>6, <2>1
<1>8. /\ FsScript[2 * Msgs + 2] = d[1] /\ FsScript[2 * Msgs + 3] = d[2]
      /\ FsScript[2 * Msgs + 4] = d[3]
  <2>1. /\ FsScript[1 + 2 * Msgs + 1] = d[1] /\ FsScript[1 + 2 * Msgs + 2] = d[2]
        /\ FsScript[1 + 2 * Msgs + 3] = d[3]
    BY <1>7
  <2>2. /\ 1 + 2 * Msgs + 1 = 2 * Msgs + 2 /\ 1 + 2 * Msgs + 2 = 2 * Msgs + 3
        /\ 1 + 2 * Msgs + 3 = 2 * Msgs + 4
    BY <1>m
  <2> QED
    BY <2>1, <2>2
<1>9. FsScript[1] = "started"
  <2>1. 1 \in 1..(1 + 2 * Msgs) /\ 1 \in 1..(1 + Msgs)
    BY <1>m
  <2> QED
    BY <1>3, <1>5, <1>6, <1>7, <2>1
<1>10. ASSUME NEW i \in 2..(Msgs + 1) PROVE FsScript[i] = "child"
  <2>1. PICK k \in 1..Msgs : i = 1 + k
    <3>1. i - 1 \in 1..Msgs /\ i = 1 + (i - 1)
      BY <1>m
    <3> QED
      BY <3>1
  <2>2. i \in 1..(1 + 2 * Msgs) /\ i \in 1..(1 + Msgs)
    BY <1>m
  <2> QED
    BY SMTT(30), <1>3, <1>5, <1>6, <1>7, <2>1, <2>2
<1>11. ASSUME NEW i \in (Msgs + 2)..(2 * Msgs + 1) PROVE FsScript[i] = "parent"
  <2>1. PICK k \in 1..Msgs : i = 1 + Msgs + k
    <3>1. i - (1 + Msgs) \in 1..Msgs /\ i = 1 + Msgs + (i - (1 + Msgs))
      BY <1>m
    <3> QED
      BY <3>1
  <2>2. i \in 1..(1 + 2 * Msgs)
    BY <1>m
  <2> QED
    BY <1>3, <1>6, <1>7, <2>1, <2>2
<1> QED
  BY <1>3, <1>7, <1>8, <1>9, <1>10, <1>11 DEF T

\* A step that leaves the pipes, the file and the signals alone leaves the
\* notifications alone.
LEMMA FsSame ==
  ASSUME UNCHANGED <<fsMethod, fsSync>>, NEW q
  PROVE  (FsToken(q)' <=> FsToken(q)) /\ (FsNone(q)' <=> FsNone(q))
  BY DEF fsSync, FsToken, FsNone

LEMMA FsInitInv == FsInit => FsInv
<1> SUFFICES ASSUME FsInit PROVE FsInv
  OBVIOUS
<1>m. Msgs \in Nat
  BY MsgsAssumption
<1>1. fsOk = TRUE /\ fsTty \in BOOLEAN
  BY DEF FsInit
<1>2. /\ fsMethod \in {"pipes", "record_locks", "signals"}
      /\ fsPc = [p \in FsProcs |-> IF p = "parent" THEN "init" ELSE "unborn"]
      /\ fsI = [p \in FsProcs |-> 0] /\ fsPipe = [p \in FsProcs |-> 0]
      /\ fsFile = "nobody" /\ fsLock = {} /\ fsFlag = [p \in FsProcs |-> 0] /\ fsPend = {}
      /\ fsBuf = [p \in FsProcs |-> <<>>] /\ fsOut = <<>>
  BY DEF FsInit
<1>3. /\ fsPc["parent"] = "init" /\ fsPc["child"] = "unborn"
      /\ \A p \in FsProcs : fsI[p] = 0 /\ fsPipe[p] = 0 /\ fsFlag[p] = 0 /\ fsBuf[p] = <<>>
      /\ Len(fsOut) = 0
  BY <1>2 DEF FsProcs
<1>4. FsType
  BY <1>m, <1>1, <1>2 DEF FsType, FsLabels
<1>5. FsPhase
  <2>1. \A p \in FsProcs : p # "nobody"
    BY DEF FsProcs
  <2> QED
    BY <1>2, <1>3, <2>1 DEF FsPhase, FsLone, FsAt, FsWrote, FsSilent, FsNone, FsProcs
<1>6. FsAnnounced
  BY <1>3 DEF FsAnnounced, FsLength
<1>7. FsCounted
  <2>1. \A p \in FsProcs : {i \in DOMAIN fsOut : fsOut[i] = p} = {}
    BY <1>2
  <2> QED
    BY <1>2, <1>3, <2>1, FS_EmptySet DEF FsCounted
<1> QED
  BY <1>4, <1>5, <1>6, <1>7 DEF FsInv

\* What one more element changes.
LEMMA OneMore ==
  ASSUME NEW S, NEW s \in Seq(S), NEW x \in S, NEW u, u = Append(s, x)
  PROVE  /\ u \in Seq(S) /\ Len(u) = Len(s) + 1 /\ u[Len(s) + 1] = x
         /\ Len(s) \in Nat /\ DOMAIN s = 1..Len(s) /\ DOMAIN u = 1..(Len(s) + 1)
         /\ \A i \in 1..Len(s) : u[i] = s[i]
  OBVIOUS

\* One more line of the script.
LEMMA FsOneMoreLine ==
  ASSUME FsType, FsAnnounced, fsTty, NEW x \in FsTexts \cup FsProcs, fsOut' = Append(fsOut, x),
         UNCHANGED <<fsTty, fsBuf>>, x = FsScript[Len(fsOut) + 1],
         Len(fsOut') = Len(fsOut) + 1 => FsLength(Len(fsOut))'
  PROVE  FsAnnounced'
<1>0. fsOut \in Seq(FsTexts \cup FsProcs)
  BY DEF FsType
<1>1. /\ Len(fsOut') = Len(fsOut) + 1 /\ fsOut'[Len(fsOut) + 1] = x /\ Len(fsOut) \in Nat
      /\ \A i \in 1..Len(fsOut) : fsOut'[i] = fsOut[i]
  BY <1>0, OneMore
<1>2. /\ \A p \in FsProcs : fsBuf[p] = <<>>
      /\ \A i \in 1..Len(fsOut) : fsOut[i] = FsScript[i]
  BY DEF FsAnnounced
<1>3. ASSUME NEW i \in 1..Len(fsOut') PROVE fsOut'[i] = FsScript[i]
  <2>1. CASE i \in 1..Len(fsOut)
    BY <1>1, <1>2, <2>1
  <2>2. CASE i = Len(fsOut) + 1
    BY <1>1, <2>2
  <2> QED
    BY <1>1, <2>1, <2>2
<1>4. FsScript' = FsScript
  BY DEF FsScript
<1> QED
  BY <1>1, <1>2, <1>3, <1>4 DEF FsAnnounced

\* Nothing is printed: only the position in the script matters.
LEMMA FsNoLine ==
  ASSUME FsAnnounced, FsCounted, UNCHANGED <<fsTty, fsI, fsBuf, fsOut>>,
         fsTty => FsLength(Len(fsOut))'
  PROVE  FsAnnounced' /\ FsCounted'
<1>1. FsScript' = FsScript
  BY DEF FsScript
<1>2. FsAnnounced'
  BY <1>1 DEF FsAnnounced
<1>3. FsCounted'
  BY DEF FsCounted
<1> QED
  BY <1>2, <1>3

\* A text that goes into the buffer of p, off the terminal.
LEMMA FsBuffered ==
  ASSUME FsType, FsCounted, ~fsTty, NEW p \in FsProcs, NEW x \in FsTexts,
         fsBuf' = [fsBuf EXCEPT ![p] = Append(@, x)], UNCHANGED <<fsTty, fsI, fsOut>>
  PROVE  FsAnnounced' /\ FsCounted' /\ fsBuf' \in [FsProcs -> Seq(FsTexts)]
<1>1. fsBuf \in [FsProcs -> Seq(FsTexts)]
  BY DEF FsType
<1>2. Append(fsBuf[p], x) \in Seq(FsTexts)
  BY <1>1
<1>3. fsBuf' \in [FsProcs -> Seq(FsTexts)]
  BY <1>1, <1>2
<1> QED
  BY <1>3 DEF FsCounted, FsAnnounced

\* printf(3) keeps to the script on a terminal, and elsewhere writes nothing yet.
LEMMA FsPrints ==
  ASSUME FsType, FsAnnounced, FsCounted, NEW p \in FsProcs, NEW x \in FsTexts, FsPrint(p, x),
         UNCHANGED <<fsTty, fsI>>, fsTty => x = FsScript[Len(fsOut) + 1],
         fsTty /\ Len(fsOut') = Len(fsOut) + 1 => FsLength(Len(fsOut))'
  PROVE  /\ FsAnnounced' /\ FsCounted' /\ fsBuf' \in [FsProcs -> Seq(FsTexts)]
         /\ fsOut' \in Seq(FsTexts \cup FsProcs)
<1>0. /\ fsOut \in Seq(FsTexts \cup FsProcs) /\ fsBuf \in [FsProcs -> Seq(FsTexts)]
      /\ fsTty \in BOOLEAN
  BY DEF FsType
<1>1. CASE fsTty
  <2>1. fsOut' = Append(fsOut, x) /\ fsBuf' = fsBuf
    BY <1>1 DEF FsPrint
  <2>2. fsOut' \in Seq(FsTexts \cup FsProcs)
    BY <1>0, <2>1
  <2>3. FsAnnounced'
    BY <1>1, <2>1, FsOneMoreLine
  <2>4. FsCounted'
    BY <1>1 DEF FsCounted
  <2> QED
    BY <1>0, <2>1, <2>2, <2>3, <2>4
<1>2. CASE ~fsTty
  <2>1. fsBuf' = [fsBuf EXCEPT ![p] = Append(@, x)] /\ fsOut' = fsOut
    BY <1>2 DEF FsPrint
  <2> QED
    BY <1>0, <1>2, <2>1, FsBuffered
<1> QED
  BY <1>1, <1>2

\* No text is the name of a process.
LEMMA FsTextsAreNot == \A x \in FsTexts : x \notin FsProcs
  BY DEF FsTexts, FsProcs

\* exit(3) writes the buffer, in which no message of write_msgs() ever is.
LEMMA FsFlushes ==
  ASSUME FsType, FsAnnounced, FsCounted, NEW p \in FsProcs, fsOut' = fsOut \o fsBuf[p],
         fsBuf' = [fsBuf EXCEPT ![p] = <<>>], UNCHANGED <<fsTty, fsI>>,
         fsTty /\ fsOut' = fsOut => FsLength(Len(fsOut))'
  PROVE  FsAnnounced' /\ FsCounted'
<1>0. /\ fsOut \in Seq(FsTexts \cup FsProcs) /\ fsBuf[p] \in Seq(FsTexts)
      /\ fsTty \in BOOLEAN /\ fsBuf \in [FsProcs -> Seq(FsTexts)]
  BY DEF FsType
<1>1. CASE fsTty
  <2>1. fsBuf[p] = <<>> /\ \A q \in FsProcs : fsBuf[q] = <<>>
    BY <1>1 DEF FsAnnounced
  <2>2. fsOut' = fsOut
    BY <1>0, <2>1
  <2>3. \A q \in FsProcs : fsBuf'[q] = <<>>
    BY <1>0, <2>1
  <2>4. FsScript' = FsScript
    BY DEF FsScript
  <2>5. FsAnnounced'
    BY <1>1, <2>2, <2>3, <2>4 DEF FsAnnounced
  <2> QED
    BY <1>1, <2>5 DEF FsCounted
<1>2. CASE ~fsTty
  <2> DEFINE b == fsBuf[p]
             T == FsTexts \cup FsProcs
  <2>1. b \in Seq(T)
    <3>1. \A i \in 1..Len(b) : b[i] \in T
      BY <1>0
    <3> QED
      BY <1>0, <3>1
  <2>2. fsOut \in Seq(T)
    BY <1>0
  <2>3. fsOut' = fsOut \o b
    OBVIOUS
  <2>4. b \in Seq(FsTexts)
    BY <1>0
  <2> HIDE DEF b, T
  <2>5. /\ fsOut' \in Seq(T) /\ Len(fsOut') = Len(fsOut) + Len(b)
        /\ \A i \in 1..Len(fsOut) : fsOut'[i] = fsOut[i]
        /\ \A i \in 1..Len(b) : fsOut'[Len(fsOut) + i] = b[i]
    BY <2>1, <2>2, <2>3, JoinAt
  <2>6. /\ Len(fsOut) \in Nat /\ Len(b) \in Nat /\ DOMAIN fsOut = 1..Len(fsOut)
        /\ \A i \in 1..Len(b) : b[i] \in FsTexts
    BY <2>2, <2>4
  <2>7. DOMAIN fsOut' = 1..(Len(fsOut) + Len(b))
    BY <2>5
  <2>8. ASSUME NEW i \in DOMAIN fsOut', fsOut'[i] \in FsProcs
        PROVE  i \in DOMAIN fsOut /\ fsOut'[i] = fsOut[i]
    <3>1. CASE i \in 1..Len(fsOut)
      BY <2>5, <2>6, <3>1
    <3>2. CASE i \notin 1..Len(fsOut)
      <4>1. i - Len(fsOut) \in 1..Len(b) /\ Len(fsOut) + (i - Len(fsOut)) = i
        <5>1. i \in 1..(Len(fsOut) + Len(b)) /\ i \notin 1..Len(fsOut)
          BY <2>7, <3>2
        <5>2. Len(fsOut) \in Nat /\ Len(b) \in Nat
          BY <2>6
        <5> QED
          BY ONLY <5>1, <5>2
      <4>2. fsOut'[i] \in FsTexts
        BY <2>5, <2>6, <4>1
      <4> QED
        BY <2>8, <4>2, FsTextsAreNot
    <3> QED
      BY <3>1, <3>2
  <2>9. \A i \in DOMAIN fsOut : i \in DOMAIN fsOut' /\ fsOut'[i] = fsOut[i]
    <3>1. Len(fsOut) \in Nat /\ Len(b) \in Nat /\ DOMAIN fsOut = 1..Len(fsOut)
      BY <2>6
    <3>2. \A i \in 1..Len(fsOut) : i \in 1..(Len(fsOut) + Len(b))
      BY ONLY <3>1
    <3> QED
      BY <2>5, <2>7, <3>1, <3>2
  <2>10. ASSUME NEW q \in FsProcs
         PROVE  {i \in DOMAIN fsOut' : fsOut'[i] = q} = {i \in DOMAIN fsOut : fsOut[i] = q}
    BY <2>8, <2>9
  <2>11. "child" \in FsProcs /\ "parent" \in FsProcs
    BY DEF FsProcs
  <2>12. FsCounted'
    BY <1>2, <2>8, <2>10, <2>11 DEF FsCounted
  <2> QED
    BY <1>2, <2>12 DEF FsAnnounced
<1> QED
  BY <1>1, <1>2

\* write_msgs() adds one message, and never one of the child after one of the parent.
LEMMA FsWritesOne ==
  ASSUME FsType, FsAnnounced, FsCounted, NEW p \in FsProcs, fsOut' = Append(fsOut, p),
         fsI' = [fsI EXCEPT ![p] = @ + 1], UNCHANGED <<fsTty, fsBuf>>,
         p = "child" => fsI["parent"] = 0,
         fsTty => p = FsScript[Len(fsOut) + 1],
         fsTty /\ Len(fsOut') = Len(fsOut) + 1 => FsLength(Len(fsOut))'
  PROVE  FsAnnounced' /\ FsCounted'
<1> DEFINE T == FsTexts \cup FsProcs
           S(q) == {i \in DOMAIN fsOut : fsOut[i] = q}
<1>0. fsOut \in Seq(T) /\ fsTty \in BOOLEAN /\ fsI \in [FsProcs -> 0..Msgs] /\ Msgs \in Nat
  BY MsgsAssumption DEF FsType
<1>1. CASE fsTty
  <2>1. FsAnnounced'
    BY <1>1, FsOneMoreLine
  <2> QED
    BY <1>1, <2>1 DEF FsCounted
<1>2. CASE ~fsTty
  <2>1. /\ Len(fsOut') = Len(fsOut) + 1 /\ fsOut'[Len(fsOut) + 1] = p /\ Len(fsOut) \in Nat
        /\ DOMAIN fsOut = 1..Len(fsOut) /\ DOMAIN fsOut' = 1..(Len(fsOut) + 1)
        /\ \A i \in 1..Len(fsOut) : fsOut'[i] = fsOut[i]
    BY <1>0, OneMore
  <2>2. \A q \in FsProcs : Cardinality(S(q)) = fsI[q] /\ fsI[q] \in Nat
    BY <1>0, <1>2 DEF FsCounted
  <2>3. ASSUME NEW q \in FsProcs PROVE IsFiniteSet(S(q))
    <3>1. IsFiniteSet(1..Len(fsOut)) /\ S(q) \subseteq 1..Len(fsOut)
      BY <2>1, FS_Interval
    <3> QED
      BY <3>1, FS_Subset
  <2>4. S(p)' = S(p) \cup {Len(fsOut) + 1} /\ Len(fsOut) + 1 \notin S(p)
    BY <2>1
  <2>5. ASSUME NEW q \in FsProcs, q # p PROVE S(q)' = S(q)
    BY <2>1, <2>5
  <2>6. \A q \in FsProcs : fsI'[q] = IF q = p THEN fsI[q] + 1 ELSE fsI[q]
    BY <1>0
  <2>7. Cardinality(S(p)') = Cardinality(S(p)) + 1
    BY <2>3, <2>4, FS_AddElement
  <2>8. \A q \in FsProcs : Cardinality(S(q)') = fsI'[q]
    BY <2>2, <2>5, <2>6, <2>7
  <2>9. ASSUME p = "child", NEW j \in DOMAIN fsOut', fsOut'[j] = "parent" PROVE FALSE
    <3>1. j \in S("parent")
      BY <2>1, <2>9
    <3>2. Cardinality(S("parent")) = 0 /\ IsFiniteSet(S("parent"))
      BY <2>2, <2>3, <2>9 DEF FsProcs
    <3> QED
      BY <3>1, <3>2, FS_EmptySet
  <2>10. ASSUME NEW i \in DOMAIN fsOut', NEW j \in DOMAIN fsOut',
                fsOut'[i] = "child", fsOut'[j] = "parent"
         PROVE  i < j
    <3>1. p = "parent"
      BY <2>9, <2>10 DEF FsProcs
    <3>2. i \in DOMAIN fsOut /\ fsOut[i] = "child" /\ i < Len(fsOut) + 1
      BY <2>1, <2>10, <3>1
    <3>3. CASE j = Len(fsOut) + 1
      BY <3>2, <3>3
    <3>4. CASE j \in DOMAIN fsOut
      BY <1>2, <2>1, <2>10, <3>2, <3>4 DEF FsCounted
    <3> QED
      BY <2>1, <3>3, <3>4
  <2>11. FsCounted'
    BY <2>8, <2>10 DEF FsCounted
  <2> QED
    BY <1>2, <2>11 DEF FsAnnounced
<1> QED
  BY <1>0, <1>1, <1>2

\* The phases by what they say of the notifications, for the steps that send or
\* take none.
LEMMA FsQuiet ==
  ASSUME UNCHANGED <<fsMethod, fsSync>>
  PROVE  /\ FsSilent' <=> FsSilent
         /\ FsToken("parent")' <=> FsToken("parent")
         /\ FsNone("parent")' <=> FsNone("parent")
         /\ FsNone("child")' <=> FsNone("child")
  BY FsSame DEF FsSilent

\* What printf(3) leaves in the buffers and on the output.
LEMMA FsPrintTypes ==
  ASSUME FsType, NEW p \in FsProcs, NEW x \in FsTexts, FsPrint(p, x)
  PROVE  fsBuf' \in [FsProcs -> Seq(FsTexts)] /\ fsOut' \in Seq(FsTexts \cup FsProcs)
<1>1. fsBuf \in [FsProcs -> Seq(FsTexts)] /\ fsOut \in Seq(FsTexts \cup FsProcs)
  BY DEF FsType
<1>2. Append(fsBuf[p], x) \in Seq(FsTexts) /\ Append(fsOut, x) \in Seq(FsTexts \cup FsProcs)
  BY <1>1
<1> QED
  BY <1>1, <1>2 DEF FsPrint

LEMMA FsStartInv == FsInv /\ FsStart => FsInv'
<1> SUFFICES ASSUME FsInv, FsStart PROVE FsInv'
  OBVIOUS
<1>t. FsType /\ fsPc \in [FsProcs -> FsLabels] /\ fsMethod \in {"pipes", "record_locks", "signals"}
  BY DEF FsInv, FsType
<1>1. /\ fsPc["parent"] = "init" /\ FsPrint("parent", "started") /\ fsOk' \in BOOLEAN
      /\ fsPc' = [fsPc EXCEPT !["parent"] = "fork"] /\ UNCHANGED <<fsMethod, fsTty, fsI, fsSync>>
  BY <1>t DEF FsStart, FsGoto
<1>2. fsOk /\ FsPhase /\ FsAnnounced /\ FsCounted
  BY <1>t, <1>1 DEF FsInv, FsType
<1>3. fsPc'["parent"] = "fork" /\ fsPc'["child"] = fsPc["child"]
  BY <1>t, <1>1 DEF FsProcs
<1>4. FsLone
  BY <1>1, <1>2 DEF FsPhase, FsLone, FsChildFirst, FsToParent, FsParentNext, FsToChild,
                    FsChildLeaves, FsToParentAgain, FsParentLast, FsAt
<1>5. FsPhase'
  BY <1>1, <1>3, <1>4, FsQuiet DEF FsPhase, FsLone, FsAt, FsWrote
<1>6. fsPc["child"] = "unborn"
  BY <1>4 DEF FsLone, FsAt
<1>7. fsTty => Len(fsOut) = 0
  BY <1>1, <1>2 DEF FsAnnounced, FsLength
<1>8. fsTty => "started" = FsScript[Len(fsOut) + 1]
  BY <1>7, FsScriptAt
<1>9. fsTty /\ Len(fsOut') = Len(fsOut) + 1 => FsLength(Len(fsOut))'
  BY <1>3, <1>6, <1>7 DEF FsLength
<1>10. /\ FsAnnounced' /\ FsCounted' /\ fsBuf' \in [FsProcs -> Seq(FsTexts)]
       /\ fsOut' \in Seq(FsTexts \cup FsProcs)
  <2>1. "parent" \in FsProcs /\ "started" \in FsTexts
    BY DEF FsProcs, FsTexts
  <2> QED
    BY <1>t, <1>1, <1>2, <1>8, <1>9, <2>1, FsPrints
<1>11. FsType'
  <2>1. fsPc' \in [FsProcs -> FsLabels]
    BY <1>t, <1>1 DEF FsLabels
  <2> QED
    BY <1>t, <1>1, <1>3, <1>10, <2>1 DEF FsType, fsSync
<1> QED
  BY <1>5, <1>10, <1>11 DEF FsInv

LEMMA FsForkInv == FsInv /\ FsFork => FsInv'
<1> SUFFICES ASSUME FsInv, FsFork PROVE FsInv'
  OBVIOUS
<1>t. /\ FsType /\ fsPc \in [FsProcs -> FsLabels] /\ fsOk \in BOOLEAN
      /\ fsBuf \in [FsProcs -> Seq(FsTexts)]
  BY DEF FsInv, FsType
<1>p. "parent" \in FsProcs /\ "child" \in FsProcs /\ \A q \in FsProcs : q = "parent" \/ q = "child"
  BY DEF FsProcs
<1>1. fsPc["parent"] = "fork" /\ UNCHANGED <<fsMethod, fsTty, fsOk, fsI, fsSync, fsOut>>
  BY DEF FsFork
<1>2. \/ /\ fsPc' = [p \in FsProcs |-> IF p = "parent" THEN "wait1" ELSE "msgs"]
         /\ fsBuf' = [fsBuf EXCEPT !["child"] = fsBuf["parent"]]
      \/ fsPc' = [fsPc EXCEPT !["parent"] = "exit"] /\ fsBuf' = fsBuf
  BY DEF FsFork, FsGoto
<1>3. \/ fsPc'["parent"] = "wait1" /\ fsPc'["child"] = "msgs"
      \/ fsPc'["parent"] = "exit" /\ fsPc'["child"] = fsPc["child"]
  BY <1>t, <1>p, <1>2
<1>4. fsPc' \in [FsProcs -> FsLabels] /\ fsBuf' \in [FsProcs -> Seq(FsTexts)]
  BY <1>t, <1>p, <1>2 DEF FsLabels
<1>5. FsType'
  BY <1>t, <1>p, <1>1, <1>3, <1>4 DEF FsType, fsSync
<1>6. ASSUME fsOk PROVE FsPhase' /\ FsAnnounced' /\ FsCounted'
  <2>1. FsPhase /\ FsAnnounced /\ FsCounted
    BY <1>6 DEF FsInv
  <2>2. FsLone
    BY <1>1, <2>1 DEF FsPhase, FsLone, FsChildFirst, FsToParent, FsParentNext, FsToChild,
                      FsChildLeaves, FsToParentAgain, FsParentLast, FsAt
  <2>3. fsPc["child"] = "unborn" /\ fsI["child"] = 0 /\ fsI["parent"] = 0 /\ FsSilent
    BY <2>2 DEF FsLone, FsAt, FsWrote
  <2>4. FsPhase'
    BY <1>1, <1>3, <2>3, FsQuiet DEF FsPhase, FsLone, FsChildFirst, FsAt, FsWrote
  <2>5. fsTty => Len(fsOut) = 1 /\ \A p \in FsProcs : fsBuf'[p] = <<>>
    <3>1. fsTty => Len(fsOut) = 1 /\ \A p \in FsProcs : fsBuf[p] = <<>>
      BY <1>1, <2>1, <2>3 DEF FsAnnounced, FsLength
    <3> QED
      BY <1>t, <1>p, <1>2, <3>1
  <2>6. fsTty => FsLength(Len(fsOut))'
    BY <1>1, <1>3, <2>3, <2>5 DEF FsLength
  <2>7. FsScript' = FsScript
    BY DEF FsScript
  <2> QED
    BY <1>1, <2>1, <2>4, <2>5, <2>6, <2>7 DEF FsAnnounced, FsCounted
<1> QED
  BY <1>1, <1>5, <1>6 DEF FsInv

LEMMA FsMsgsInv == ASSUME FsInv, NEW p \in FsProcs, FsMsgs(p) PROVE FsInv'
<1>t. /\ FsType /\ fsPc \in [FsProcs -> FsLabels] /\ fsOk \in BOOLEAN /\ Msgs \in Nat
      /\ fsI \in [FsProcs -> 0..Msgs] /\ fsOut \in Seq(FsTexts \cup FsProcs) /\ fsTty \in BOOLEAN
  BY MsgsAssumption DEF FsInv, FsType
<1>p. "parent" \in FsProcs /\ "child" \in FsProcs /\ (p = "parent" \/ p = "child")
  BY DEF FsProcs
<1>1. fsPc[p] = "msgs" /\ UNCHANGED <<fsMethod, fsTty, fsOk, fsSync, fsBuf>>
  BY DEF FsMsgs
<1>2. CASE fsI[p] < Msgs
  <2>1. /\ fsI' = [fsI EXCEPT ![p] = @ + 1] /\ fsOut' = Append(fsOut, p) /\ fsPc' = fsPc
    BY <1>2 DEF FsMsgs
  <2>2. /\ fsI'[p] = fsI[p] + 1 /\ \A q \in FsProcs : q # p => fsI'[q] = fsI[q]
    BY <1>t, <2>1
  <2>3. fsI' \in [FsProcs -> 0..Msgs]
    BY <1>t, <1>2, <2>1
  <2>4. fsOut' \in Seq(FsTexts \cup FsProcs)
    BY <1>t, <2>1
  <2>5. FsType'
    BY <1>t, <1>1, <2>1, <2>3, <2>4 DEF FsType, fsSync
  <2>6. ASSUME fsOk PROVE FsPhase' /\ FsAnnounced' /\ FsCounted'
    <3>1. FsPhase /\ FsAnnounced /\ FsCounted
      BY <2>6 DEF FsInv
    <3>2. \/ FsChildFirst /\ p = "child" /\ fsPc["parent"] = "wait1" /\ fsI["parent"] = 0
          \/ FsParentNext /\ p = "parent" /\ fsPc["child"] = "wait2" /\ fsI["child"] = Msgs
      BY <1>p, <1>1, <3>1 DEF FsPhase, FsLone, FsChildFirst, FsToParent, FsParentNext, FsToChild,
                              FsChildLeaves, FsToParentAgain, FsParentLast, FsAt
    <3>3. FsPhase'
      BY <1>p, <1>1, <2>1, <2>2, <3>2, FsQuiet DEF FsPhase, FsChildFirst, FsParentNext, FsAt
    <3>4. fsTty => Len(fsOut) = 1 + fsI["child"] + fsI["parent"]
      BY <1>1, <3>1, <3>2 DEF FsAnnounced, FsLength
    <3>5. fsI["child"] \in 0..Msgs /\ fsI["parent"] \in 0..Msgs
      BY <1>t, <1>p
    <3>6. fsTty => p = FsScript[Len(fsOut) + 1]
      <4>1. CASE p = "child"
        <5>1. fsTty => Len(fsOut) + 1 \in 2..(Msgs + 1)
          BY <1>t, <1>2, <3>2, <3>4, <3>5, <4>1
        <5> QED
          BY <4>1, <5>1, FsScriptAt
      <4>2. CASE p = "parent"
        <5>1. fsTty => Len(fsOut) + 1 \in (Msgs + 2)..(2 * Msgs + 1)
          BY <1>t, <1>2, <3>2, <3>4, <3>5, <4>2
        <5> QED
          BY <4>2, <5>1, FsScriptAt
      <4> QED
        BY <1>p, <4>1, <4>2
    <3>7. fsTty /\ Len(fsOut') = Len(fsOut) + 1 => FsLength(Len(fsOut))'
      <4>1. fsI'["child"] + fsI'["parent"] = fsI["child"] + fsI["parent"] + 1
        BY <1>p, <2>2, <3>5
      <4>2. fsPc'["parent"] \in {"wait1", "msgs"} /\ fsPc'["child"] # "unborn"
        BY <1>p, <1>1, <2>1, <3>2
      <4>3. fsI'["child"] \in Int /\ fsI'["parent"] \in Int
        BY <1>p, <2>3
      <4>4. fsTty /\ Len(fsOut') = Len(fsOut) + 1
              => Len(fsOut') = 1 + fsI'["child"] + fsI'["parent"]
        BY SMTT(30), <3>4, <3>5, <4>1, <4>3
      <4> QED
        BY <4>2, <4>4 DEF FsLength
    <3>8. FsAnnounced' /\ FsCounted'
      BY <1>t, <1>1, <2>1, <3>1, <3>2, <3>6, <3>7, FsWritesOne
    <3> QED
      BY <3>3, <3>8
  <2> QED
    BY <1>1, <2>5, <2>6 DEF FsInv
<1>3. CASE ~(fsI[p] < Msgs)
  <2>1. /\ fsPc' = [fsPc EXCEPT ![p] = IF p = "child" THEN "tell1" ELSE "key"]
        /\ UNCHANGED <<fsI, fsOut>>
    BY <1>3 DEF FsMsgs, FsGoto
  <2>2. fsI[p] = Msgs
    BY <1>t, <1>3
  <2>3. /\ fsPc'[p] = (IF p = "child" THEN "tell1" ELSE "key")
        /\ \A q \in FsProcs : q # p => fsPc'[q] = fsPc[q]
    BY <1>t, <2>1
  <2>4. fsPc' \in [FsProcs -> FsLabels]
    BY <1>t, <2>1 DEF FsLabels
  <2>5. FsType'
    BY <1>t, <1>p, <1>1, <2>1, <2>3, <2>4 DEF FsType, fsSync
  <2>6. ASSUME fsOk PROVE FsPhase' /\ FsAnnounced' /\ FsCounted'
    <3>1. FsPhase /\ FsAnnounced /\ FsCounted
      BY <2>6 DEF FsInv
    <3>2. \/ FsChildFirst /\ p = "child" /\ fsPc["parent"] = "wait1" /\ fsI["parent"] = 0
          \/ FsParentNext /\ p = "parent" /\ fsPc["child"] = "wait2" /\ fsI["child"] = Msgs
      BY <1>p, <1>1, <3>1 DEF FsPhase, FsLone, FsChildFirst, FsToParent, FsParentNext, FsToChild,
                              FsChildLeaves, FsToParentAgain, FsParentLast, FsAt
    <3>3. FsPhase'
      BY <1>p, <1>1, <2>1, <2>2, <2>3, <3>2, FsQuiet DEF FsPhase, FsChildFirst, FsParentNext, FsAt
    <3>4. fsTty => Len(fsOut) = 1 + fsI["child"] + fsI["parent"]
      BY <1>1, <3>1, <3>2 DEF FsAnnounced, FsLength
    <3>5. fsPc'["parent"] \in {"wait1", "key"} /\ fsPc'["child"] # "unborn"
      BY <1>p, <2>3, <3>2
    <3>6. fsTty => FsLength(Len(fsOut))'
      BY <2>1, <3>4, <3>5 DEF FsLength
    <3> QED
      BY <1>1, <2>1, <3>1, <3>3, <3>6, FsNoLine
  <2> QED
    BY <1>1, <2>5, <2>6 DEF FsInv
<1> QED
  BY <1>2, <1>3

LEMMA FsKeyInv == FsInv /\ FsKey => FsInv'
<1> SUFFICES ASSUME FsInv, FsKey PROVE FsInv'
  OBVIOUS
<1>t. /\ FsType /\ fsPc \in [FsProcs -> FsLabels] /\ fsOk \in BOOLEAN /\ Msgs \in Nat
      /\ fsBuf \in [FsProcs -> Seq(FsTexts)] /\ fsOut \in Seq(FsTexts \cup FsProcs)
      /\ fsTty \in BOOLEAN
  BY MsgsAssumption DEF FsInv, FsType
<1>p. "parent" \in FsProcs /\ "child" \in FsProcs /\ "press" \in FsTexts
  BY DEF FsProcs, FsTexts
<1>1. /\ fsPc["parent"] = "key" /\ FsPrint("parent", "press")
      /\ fsPc' = [fsPc EXCEPT !["parent"] = "tell1"]
      /\ UNCHANGED <<fsMethod, fsTty, fsOk, fsI, fsSync>>
  BY DEF FsKey, FsGoto
<1>2. fsPc'["parent"] = "tell1" /\ fsPc'["child"] = fsPc["child"] /\ fsPc' \in [FsProcs -> FsLabels]
  BY <1>t, <1>p, <1>1 DEF FsLabels
<1>3. fsBuf' \in [FsProcs -> Seq(FsTexts)] /\ fsOut' \in Seq(FsTexts \cup FsProcs)
  BY <1>t, <1>p, <1>1, FsPrintTypes
<1>4. FsType'
  BY <1>t, <1>1, <1>2, <1>3 DEF FsType, fsSync
<1>5. ASSUME fsOk PROVE FsPhase' /\ FsAnnounced' /\ FsCounted'
  <2>1. FsPhase /\ FsAnnounced /\ FsCounted
    BY <1>5 DEF FsInv
  <2>2. FsParentNext /\ fsPc["child"] = "wait2" /\ fsI["child"] = Msgs /\ fsI["parent"] = Msgs
    BY <1>1, <2>1 DEF FsPhase, FsLone, FsChildFirst, FsToParent, FsParentNext, FsToChild,
                      FsChildLeaves, FsToParentAgain, FsParentLast, FsAt
  <2>3. FsPhase'
    BY <1>1, <1>2, <2>2, FsQuiet DEF FsPhase, FsParentNext, FsAt
  <2>4. fsTty => Len(fsOut) = 1 + Msgs + Msgs
    BY <1>1, <2>1, <2>2 DEF FsAnnounced, FsLength
  <2>5. fsTty => Len(fsOut) + 1 = 2 * Msgs + 2
    BY <1>t, <2>4
  <2>6. fsTty => "press" = FsScript[Len(fsOut) + 1]
    BY <2>5, FsScriptAt
  <2>7. fsTty /\ Len(fsOut') = Len(fsOut) + 1 => FsLength(Len(fsOut))'
    BY <1>2, <2>2, <2>5 DEF FsLength
  <2>8. FsAnnounced' /\ FsCounted'
    BY <1>t, <1>p, <1>1, <2>1, <2>6, <2>7, FsPrints
  <2> QED
    BY <2>3, <2>8
<1> QED
  BY <1>1, <1>4, <1>5 DEF FsInv

LEMMA FsLastInv == ASSUME FsInv, NEW p \in FsProcs, FsLast(p) PROVE FsInv'
<1> DEFINE x == IF p = "child" THEN "child_exits" ELSE "parent_exits"
<1>t. /\ FsType /\ fsPc \in [FsProcs -> FsLabels] /\ fsOk \in BOOLEAN /\ Msgs \in Nat
      /\ fsBuf \in [FsProcs -> Seq(FsTexts)] /\ fsOut \in Seq(FsTexts \cup FsProcs)
      /\ fsTty \in BOOLEAN
  BY MsgsAssumption DEF FsInv, FsType
<1>p. "parent" \in FsProcs /\ "child" \in FsProcs /\ (p = "parent" \/ p = "child") /\ x \in FsTexts
  BY DEF FsProcs, FsTexts
<1>1. /\ fsPc[p] = "print" /\ FsPrint(p, x)
      /\ fsPc' = [fsPc EXCEPT ![p] = IF p = "child" THEN "tell2" ELSE "exit"]
      /\ UNCHANGED <<fsMethod, fsTty, fsOk, fsI, fsSync>>
  BY DEF FsLast, FsGoto
<1>2. /\ fsPc'[p] = (IF p = "child" THEN "tell2" ELSE "exit") /\ fsPc' \in [FsProcs -> FsLabels]
      /\ \A q \in FsProcs : q # p => fsPc'[q] = fsPc[q]
  BY <1>t, <1>1 DEF FsLabels
<1>3. fsBuf' \in [FsProcs -> Seq(FsTexts)] /\ fsOut' \in Seq(FsTexts \cup FsProcs)
  BY <1>t, <1>p, <1>1, FsPrintTypes
<1>4. FsType'
  BY <1>t, <1>p, <1>1, <1>2, <1>3 DEF FsType, fsSync
<1>x. (p = "child" => x = "child_exits") /\ (p = "parent" => x = "parent_exits")
  OBVIOUS
<1> HIDE DEF x
<1>5. ASSUME fsOk PROVE FsPhase' /\ FsAnnounced' /\ FsCounted'
  <2>1. FsPhase /\ FsAnnounced /\ FsCounted
    BY <1>5 DEF FsInv
  <2>2. \/ FsChildLeaves /\ p = "child" /\ fsPc["parent"] = "wait2"
        \/ FsParentLast /\ p = "parent" /\ fsPc["child"] \in {"exit", "done"}
    BY <1>p, <1>1, <2>1 DEF FsPhase, FsLone, FsChildFirst, FsToParent, FsParentNext, FsToChild,
                            FsChildLeaves, FsToParentAgain, FsParentLast, FsAt
  <2>3. FsPhase'
    BY <1>p, <1>1, <1>2, <2>2, FsQuiet DEF FsPhase, FsChildLeaves, FsParentLast, FsAt, FsWrote
  <2>4. /\ fsTty /\ p = "child" => Len(fsOut) = 2 * Msgs + 2
        /\ fsTty /\ p = "parent" => Len(fsOut) = 2 * Msgs + 3
    BY <1>p, <1>1, <2>1, <2>2 DEF FsAnnounced, FsLength
  <2>5. /\ fsTty /\ p = "child" => Len(fsOut) + 1 = 2 * Msgs + 3
        /\ fsTty /\ p = "parent" => Len(fsOut) + 1 = 2 * Msgs + 4
    <3>1. CASE p = "child"
      BY <1>t, <2>4, <3>1
    <3>2. CASE p = "parent"
      BY <1>t, <2>4, <3>2
    <3> QED
      BY <1>p, <3>1, <3>2
  <2>6. fsTty => x = FsScript[Len(fsOut) + 1]
    BY <1>p, <1>x, <2>5, FsScriptAt
  <2>7. fsTty /\ Len(fsOut') = Len(fsOut) + 1 => FsLength(Len(fsOut))'
    BY <1>p, <1>2, <2>2, <2>5 DEF FsLength
  <2>8. FsAnnounced' /\ FsCounted'
    BY <1>t, <1>p, <1>1, <2>1, <2>6, <2>7, FsPrints
  <2> QED
    BY <2>3, <2>8
<1> QED
  BY <1>1, <1>4, <1>5 DEF FsInv

LEMMA FsExitInv == ASSUME FsInv, NEW p \in FsProcs, FsExit(p) PROVE FsInv'
<1>t. /\ FsType /\ fsPc \in [FsProcs -> FsLabels] /\ fsOk \in BOOLEAN
      /\ fsBuf \in [FsProcs -> Seq(FsTexts)] /\ fsOut \in Seq(FsTexts \cup FsProcs)
      /\ fsTty \in BOOLEAN
  BY DEF FsInv, FsType
<1>p. "parent" \in FsProcs /\ "child" \in FsProcs /\ (p = "parent" \/ p = "child")
  BY DEF FsProcs
<1>1. /\ fsPc[p] = "exit" /\ fsOut' = fsOut \o fsBuf[p] /\ fsBuf' = [fsBuf EXCEPT ![p] = <<>>]
      /\ fsPc' = [fsPc EXCEPT ![p] = "done"]
      /\ UNCHANGED <<fsMethod, fsTty, fsOk, fsI, fsSync>>
  BY DEF FsExit, FsGoto
<1>2. /\ fsPc'[p] = "done" /\ fsPc' \in [FsProcs -> FsLabels]
      /\ \A q \in FsProcs : q # p => fsPc'[q] = fsPc[q]
  BY <1>t, <1>1 DEF FsLabels
<1>3. fsBuf' \in [FsProcs -> Seq(FsTexts)] /\ fsOut' \in Seq(FsTexts \cup FsProcs)
  <2>1. fsBuf[p] \in Seq(FsTexts \cup FsProcs)
    <3>1. fsBuf[p] \in Seq(FsTexts) /\ \A i \in 1..Len(fsBuf[p]) : fsBuf[p][i] \in FsTexts
      BY <1>t
    <3> QED
      BY <3>1
  <2>2. <<>> \in Seq(FsTexts)
    OBVIOUS
  <2> QED
    BY <1>t, <1>1, <2>1, <2>2
<1>4. FsType'
  BY <1>t, <1>p, <1>1, <1>2, <1>3 DEF FsType, fsSync
<1>5. ASSUME fsOk PROVE FsPhase' /\ FsAnnounced' /\ FsCounted'
  <2>1. FsPhase /\ FsAnnounced /\ FsCounted
    BY <1>5 DEF FsInv
  <2>2. \/ FsLone /\ p = "parent" /\ fsPc["child"] = "unborn"
        \/ FsToParentAgain /\ p = "child" /\ fsPc["parent"] = "wait2"
        \/ FsParentLast
    BY <1>p, <1>1, <2>1 DEF FsPhase, FsLone, FsChildFirst, FsToParent, FsParentNext, FsToChild,
                            FsChildLeaves, FsToParentAgain, FsParentLast, FsAt
  <2>3. FsPhase'
    BY <1>p, <1>1, <1>2, <2>2, FsQuiet
       DEF FsPhase, FsLone, FsToParentAgain, FsParentLast, FsAt, FsWrote
  <2>4. fsTty => FsLength(Len(fsOut))
    BY <2>1 DEF FsAnnounced
  <2>5. fsTty /\ fsOut' = fsOut => FsLength(Len(fsOut))'
    BY <1>p, <1>1, <1>2, <2>2, <2>4 DEF FsLength, FsParentLast, FsAt
  <2>6. FsAnnounced' /\ FsCounted'
    BY <1>t, <1>1, <2>1, <2>5, FsFlushes
  <2> QED
    BY <2>3, <2>6
<1> QED
  BY <1>1, <1>4, <1>5 DEF FsInv

\* Who may be about to notify, and what is under way then: nothing.
LEMMA FsTellers ==
  ASSUME FsPhase, NEW p \in FsProcs, fsPc[p] \in {"tell1", "tell2", "write1", "write2"}
  PROVE  \/ /\ FsChildFirst /\ p = "child" /\ fsPc[p] \in {"tell1", "write1"}
            /\ fsPc["parent"] = "wait1" /\ FsWrote(Msgs, 0)
            /\ FsNone("parent") /\ FsNone("child")
         \/ /\ FsParentNext /\ p = "parent" /\ fsPc[p] \in {"tell1", "write1"}
            /\ fsPc["child"] = "wait2" /\ FsWrote(Msgs, Msgs)
            /\ FsNone("child") /\ (fsMethod # "record_locks" => FsNone("parent"))
         \/ /\ FsChildLeaves /\ p = "child" /\ fsPc[p] \in {"tell2", "write2"}
            /\ fsPc["parent"] = "wait2" /\ FsWrote(Msgs, Msgs)
            /\ FsNone("parent") /\ (fsMethod # "record_locks" => FsNone("child"))
<1>1. "parent" \in FsProcs /\ "child" \in FsProcs /\ (p = "parent" \/ p = "child")
  BY DEF FsProcs
<1> QED
  BY <1>1 DEF FsPhase, FsLone, FsChildFirst, FsToParent, FsParentNext, FsToChild,
              FsChildLeaves, FsToParentAgain, FsParentLast, FsAt, FsWrote, FsSilent

\* Who waits and finds a notification, and who else then finds none.
LEMMA FsTakers ==
  ASSUME FsPhase, NEW p \in FsProcs, FsWaiting(p), ~FsNone(p)
  PROVE  \/ FsToParent /\ p = "parent" /\ fsPc[p] = "wait1" /\ FsNone("child")
         \/ FsToChild /\ p = "child" /\ fsPc[p] = "wait2" /\ FsNone("parent")
         \/ FsToParentAgain /\ p = "parent" /\ fsPc[p] = "wait2"
<1>1. "parent" \in FsProcs /\ "child" \in FsProcs /\ (p = "parent" \/ p = "child")
  BY DEF FsProcs
<1> QED
  BY <1>1 DEF FsPhase, FsLone, FsChildFirst, FsToParent, FsParentNext, FsToChild, FsWaiting,
              FsChildLeaves, FsToParentAgain, FsParentLast, FsAt, FsWrote, FsSilent

\* A step that only moves p and its notifications keeps the invariant when it
\* keeps the phases and the place in the script.
LEMMA FsOnlyMoves ==
  ASSUME FsInv, UNCHANGED <<fsMethod, fsTty, fsOk, fsI, fsBuf, fsOut>>, FsType',
         fsOk => FsPhase', fsOk /\ FsLength(Len(fsOut)) => FsLength(Len(fsOut))'
  PROVE  FsInv'
<1>1. ASSUME fsOk PROVE FsAnnounced' /\ FsCounted'
  <2>1. FsAnnounced /\ FsCounted
    BY <1>1 DEF FsInv
  <2>2. fsTty => FsLength(Len(fsOut))
    BY <2>1 DEF FsAnnounced
  <2> QED
    BY <1>1, <2>1, <2>2, FsNoLine
<1> QED
  BY <1>1 DEF FsInv

\* The notification is out: p waits or leaves.
LEMMA FsTold ==
  ASSUME FsInv, NEW p \in FsProcs, fsPc[p] \in {"tell1", "tell2", "write1", "write2"},
         fsPc' = [fsPc EXCEPT ![p] = IF fsPc[p] \in {"tell1", "write1"} THEN "wait2" ELSE "exit"],
         UNCHANGED <<fsMethod, fsTty, fsOk, fsI, fsBuf, fsOut>>,
         fsOk => FsToken(FsOther(p))' /\ (fsPc[p] \in {"tell1", "write1"} => FsNone(p)'),
         fsPipe' \in [FsProcs -> {0, 1}], fsFlag' \in [FsProcs -> {0, 1}],
         fsFile' \in {"nobody", "parent", "child"}, fsPend' \subseteq FsProcs
  PROVE  FsInv'
<1>t. FsType /\ fsPc \in [FsProcs -> FsLabels]
  BY DEF FsInv, FsType
<1>p. /\ "parent" \in FsProcs /\ "child" \in FsProcs /\ (p = "parent" \/ p = "child")
      /\ (p = "parent" => FsOther(p) = "child") /\ (p = "child" => FsOther(p) = "parent")
  BY DEF FsProcs, FsOther
<1>1. /\ fsPc'[p] = (IF fsPc[p] \in {"tell1", "write1"} THEN "wait2" ELSE "exit")
      /\ \A q \in FsProcs : q # p => fsPc'[q] = fsPc[q]
      /\ fsPc' \in [FsProcs -> FsLabels]
  BY <1>t DEF FsLabels
<1>2. FsType'
  BY <1>t, <1>p, <1>1 DEF FsType
<1>3. ASSUME fsOk PROVE FsPhase' /\ (FsLength(Len(fsOut)) => FsLength(Len(fsOut))')
  <2>1. FsPhase
    BY <1>3 DEF FsInv
  <2>2. \/ /\ p = "child" /\ fsPc[p] \in {"tell1", "write1"}
           /\ fsPc["parent"] = "wait1" /\ FsWrote(Msgs, 0)
        \/ /\ p = "parent" /\ fsPc[p] \in {"tell1", "write1"}
           /\ fsPc["child"] = "wait2" /\ FsWrote(Msgs, Msgs)
        \/ /\ p = "child" /\ fsPc[p] \in {"tell2", "write2"}
           /\ fsPc["parent"] = "wait2" /\ FsWrote(Msgs, Msgs)
    BY <2>1, FsTellers
  <2>3. FsPhase'
    BY <1>p, <1>1, <1>3, <2>2 DEF FsPhase, FsToParent, FsToChild, FsToParentAgain, FsAt, FsWrote
  <2>4. FsLength(Len(fsOut)) => FsLength(Len(fsOut))'
    BY <1>p, <1>1, <2>2 DEF FsLength
  <2> QED
    BY <2>3, <2>4
<1> QED
  BY <1>2, <1>3, FsOnlyMoves

\* The notification has been taken: p goes on.
LEMMA FsTook ==
  ASSUME FsInv, NEW p \in FsProcs, FsWaiting(p),
         fsPc' = [fsPc EXCEPT ![p] = FsAfterWait(p)],
         UNCHANGED <<fsMethod, fsTty, fsOk, fsI, fsBuf, fsOut>>,
         fsOk => ~FsNone(p) /\ (fsMethod # "record_locks" => FsNone(p)')
                 /\ (FsNone(FsOther(p)) => FsNone(FsOther(p))'),
         fsPipe' \in [FsProcs -> {0, 1}], fsFlag' \in [FsProcs -> {0, 1}],
         fsFile' \in {"nobody", "parent", "child"}, fsPend' \subseteq FsProcs
  PROVE  FsInv'
<1>t. FsType /\ fsPc \in [FsProcs -> FsLabels]
  BY DEF FsInv, FsType
<1>p. /\ "parent" \in FsProcs /\ "child" \in FsProcs /\ (p = "parent" \/ p = "child")
      /\ (p = "parent" => FsOther(p) = "child") /\ (p = "child" => FsOther(p) = "parent")
  BY DEF FsProcs, FsOther
<1>1. /\ fsPc'[p] = (IF fsPc[p] = "wait1" THEN "msgs" ELSE "print")
      /\ \A q \in FsProcs : q # p => fsPc'[q] = fsPc[q]
      /\ fsPc' \in [FsProcs -> FsLabels]
  BY <1>t DEF FsLabels, FsAfterWait
<1>2. FsType'
  BY <1>t, <1>p, <1>1 DEF FsType
<1>3. ASSUME fsOk PROVE FsPhase' /\ (FsLength(Len(fsOut)) => FsLength(Len(fsOut))')
  <2>1. FsPhase
    BY <1>3 DEF FsInv
  <2>2. \/ FsToParent /\ p = "parent" /\ fsPc[p] = "wait1" /\ FsNone("child")
        \/ FsToChild /\ p = "child" /\ fsPc[p] = "wait2" /\ FsNone("parent")
        \/ FsToParentAgain /\ p = "parent" /\ fsPc[p] = "wait2"
    BY <1>3, <2>1, FsTakers
  <2>3. FsPhase'
    BY <1>p, <1>1, <1>3, <2>2
       DEF FsPhase, FsToParent, FsToChild, FsToParentAgain, FsParentNext, FsChildLeaves,
           FsParentLast, FsAt, FsWrote
  <2>4. FsLength(Len(fsOut)) => FsLength(Len(fsOut))'
    BY <1>p, <1>1, <2>2 DEF FsLength, FsToParent, FsToChild, FsToParentAgain, FsAt, FsWrote
  <2> QED
    BY <2>3, <2>4
<1> QED
  BY <1>2, <1>3, FsOnlyMoves

LEMMA FsTellPipeInv == ASSUME FsInv, NEW p \in FsProcs, FsTellPipe(p) PROVE FsInv'
<1> DEFINE o == FsOther(p)
<1>t. /\ fsPipe \in [FsProcs -> {0, 1}] /\ fsFlag \in [FsProcs -> {0, 1}]
      /\ fsFile \in {"nobody", "parent", "child"} /\ fsPend \subseteq FsProcs /\ fsOk \in BOOLEAN
  BY DEF FsInv, FsType
<1>p. /\ o \in FsProcs /\ o # p /\ (p = "parent" => o = "child") /\ (p = "child" => o = "parent")
      /\ (p = "parent" \/ p = "child")
  BY DEF FsProcs, FsOther
<1>1. /\ fsMethod = "pipes" /\ fsPc[p] \in {"tell1", "tell2"}
      /\ fsPipe' = [fsPipe EXCEPT ![o] = IF fsOk THEN @ + 1 ELSE @]
      /\ UNCHANGED <<fsMethod, fsTty, fsOk, fsI, fsFile, fsLock, fsFlag, fsPend, fsBuf, fsOut>>
  BY DEF FsTellPipe, FsTelling
<1>2. fsPc' = [fsPc EXCEPT ![p] = IF fsPc[p] \in {"tell1", "write1"} THEN "wait2" ELSE "exit"]
  BY <1>1 DEF FsTellPipe, FsAfterTell, FsGoto
<1> HIDE DEF o
<1>3. ASSUME fsOk PROVE FsNone(o) /\ FsNone(p)
  <2>1. FsPhase
    BY <1>3 DEF FsInv
  <2> QED
    BY <1>p, <1>1, <2>1, FsTellers
<1>4. fsPipe'[p] = fsPipe[p] /\ fsPipe'[o] = IF fsOk THEN fsPipe[o] + 1 ELSE fsPipe[o]
  BY <1>t, <1>p, <1>1
<1>5. fsOk => fsPipe[o] = 0 /\ fsPipe[p] = 0
  BY <1>1, <1>3 DEF FsNone
<1>6. fsOk => FsToken(o)' /\ FsNone(p)'
  BY <1>1, <1>4, <1>5 DEF FsToken, FsNone
<1>7. fsPipe' \in [FsProcs -> {0, 1}]
  BY <1>t, <1>p, <1>1, <1>5
<1> QED
  BY <1>t, <1>1, <1>2, <1>6, <1>7, FsTold DEF o

LEMMA FsWaitPipeInv == ASSUME FsInv, NEW p \in FsProcs, FsWaitPipe(p) PROVE FsInv'
<1> DEFINE o == FsOther(p)
<1>t. /\ fsPipe \in [FsProcs -> {0, 1}] /\ fsFlag \in [FsProcs -> {0, 1}]
      /\ fsFile \in {"nobody", "parent", "child"} /\ fsPend \subseteq FsProcs /\ fsOk \in BOOLEAN
  BY DEF FsInv, FsType
<1>p. o \in FsProcs /\ o # p
  BY DEF FsProcs, FsOther
<1>1. /\ fsMethod = "pipes" /\ FsWaiting(p) /\ (fsOk => fsPipe[p] > 0)
      /\ fsPipe' = [fsPipe EXCEPT ![p] = IF fsOk THEN @ - 1 ELSE @]
      /\ UNCHANGED <<fsMethod, fsTty, fsOk, fsI, fsFile, fsLock, fsFlag, fsPend, fsBuf, fsOut>>
      /\ fsPc' = [fsPc EXCEPT ![p] = FsAfterWait(p)]
  BY DEF FsWaitPipe, FsGoto
<1> HIDE DEF o
<1>2. fsPipe'[o] = fsPipe[o] /\ fsPipe'[p] = IF fsOk THEN fsPipe[p] - 1 ELSE fsPipe[p]
  BY <1>t, <1>p, <1>1
<1>3. fsOk => fsPipe[p] = 1 /\ fsPipe'[p] = 0
  BY <1>t, <1>1, <1>2
<1>4. fsOk => ~FsNone(p) /\ FsNone(p)' /\ (FsNone(o) => FsNone(o)')
  BY <1>1, <1>2, <1>3 DEF FsNone
<1>5. fsPipe' \in [FsProcs -> {0, 1}]
  BY <1>t, <1>p, <1>1, <1>3
<1> QED
  BY <1>t, <1>1, <1>4, <1>5, FsTook DEF o

LEMMA FsTellLockInv == ASSUME FsInv, NEW p \in FsProcs, FsTellLock(p) PROVE FsInv'
<1>t. /\ FsType /\ fsPc \in [FsProcs -> FsLabels] /\ fsOk \in BOOLEAN
  BY DEF FsInv, FsType
<1>p. /\ "parent" \in FsProcs /\ "child" \in FsProcs /\ (p = "parent" \/ p = "child")
      /\ "parent" # "nobody" /\ "child" # "nobody"
  BY DEF FsProcs
<1>1. /\ fsMethod = "record_locks" /\ fsPc[p] \in {"tell1", "tell2"} /\ fsFile' = "nobody"
      /\ fsPc' = [fsPc EXCEPT ![p] = IF fsPc[p] = "tell1" THEN "write1" ELSE "write2"]
      /\ UNCHANGED <<fsMethod, fsTty, fsOk, fsI, fsPipe, fsFlag, fsPend, fsBuf, fsOut>>
  BY DEF FsTellLock, FsTelling, FsGoto
<1>2. /\ fsPc'[p] = (IF fsPc[p] = "tell1" THEN "write1" ELSE "write2")
      /\ \A q \in FsProcs : q # p => fsPc'[q] = fsPc[q]
      /\ fsPc' \in [FsProcs -> FsLabels]
  BY <1>t, <1>1 DEF FsLabels
<1>3. FsType'
  BY <1>t, <1>p, <1>1, <1>2 DEF FsType
<1>4. FsNone("parent")' /\ FsNone("child")' /\ FsSilent'
  BY <1>p, <1>1 DEF FsNone, FsSilent, FsProcs
<1>5. ASSUME fsOk PROVE FsPhase' /\ (FsLength(Len(fsOut)) => FsLength(Len(fsOut))')
  <2>1. FsPhase
    BY <1>5 DEF FsInv
  <2>2. \/ /\ p = "child" /\ fsPc[p] = "tell1" /\ fsPc["parent"] = "wait1" /\ FsWrote(Msgs, 0)
        \/ /\ p = "parent" /\ fsPc[p] = "tell1" /\ fsPc["child"] = "wait2" /\ FsWrote(Msgs, Msgs)
        \/ /\ p = "child" /\ fsPc[p] = "tell2" /\ fsPc["parent"] = "wait2" /\ FsWrote(Msgs, Msgs)
    BY <1>1, <2>1, FsTellers
  <2>3. FsPhase'
    BY <1>p, <1>1, <1>2, <1>4, <2>2
       DEF FsPhase, FsChildFirst, FsParentNext, FsChildLeaves, FsAt, FsWrote
  <2>4. FsLength(Len(fsOut)) => FsLength(Len(fsOut))'
    BY <1>p, <1>1, <1>2, <2>2 DEF FsLength
  <2> QED
    BY <2>3, <2>4
<1> QED
  BY <1>1, <1>3, <1>5, FsOnlyMoves

LEMMA FsTellWriteInv == ASSUME FsInv, NEW p \in FsProcs, FsTellWrite(p) PROVE FsInv'
<1> DEFINE o == FsOther(p)
<1>t. /\ fsPipe \in [FsProcs -> {0, 1}] /\ fsFlag \in [FsProcs -> {0, 1}]
      /\ fsFile \in {"nobody", "parent", "child"} /\ fsPend \subseteq FsProcs /\ fsOk \in BOOLEAN
      /\ \A q \in FsProcs : fsPc[q] \in {"write1", "write2"} => fsMethod = "record_locks"
  BY DEF FsInv, FsType
<1>p. o \in {"parent", "child"} /\ o # p
  BY DEF FsProcs, FsOther
<1>1. /\ fsPc[p] \in {"write1", "write2"} /\ fsFile' = IF fsOk THEN o ELSE "nobody"
      /\ UNCHANGED <<fsMethod, fsTty, fsOk, fsI, fsPipe, fsFlag, fsPend, fsBuf, fsOut>>
  BY DEF FsTellWrite
<1>2. fsPc' = [fsPc EXCEPT ![p] = IF fsPc[p] \in {"tell1", "write1"} THEN "wait2" ELSE "exit"]
  BY <1>1 DEF FsTellWrite, FsGoto
<1>3. fsMethod = "record_locks"
  BY <1>t, <1>1
<1> HIDE DEF o
<1>4. fsOk => FsToken(o)' /\ FsNone(p)'
  BY <1>p, <1>1, <1>3 DEF FsToken, FsNone
<1>5. fsFile' \in {"nobody", "parent", "child"}
  BY <1>p, <1>1
<1> QED
  BY <1>t, <1>1, <1>2, <1>4, <1>5, FsTold DEF o

LEMMA FsWaitLockInv == ASSUME FsInv, NEW p \in FsProcs, FsWaitLock(p) PROVE FsInv'
<1>t. /\ fsPipe \in [FsProcs -> {0, 1}] /\ fsFlag \in [FsProcs -> {0, 1}]
      /\ fsFile \in {"nobody", "parent", "child"} /\ fsPend \subseteq FsProcs /\ fsOk \in BOOLEAN
  BY DEF FsInv, FsType
<1>1. /\ fsMethod = "record_locks" /\ FsWaiting(p) /\ (fsOk => fsFile = p)
      /\ UNCHANGED <<fsMethod, fsTty, fsOk, fsI, fsSync, fsBuf, fsOut>>
      /\ fsPc' = [fsPc EXCEPT ![p] = FsAfterWait(p)]
  BY DEF FsWaitLock, FsGoto
<1>2. fsOk => ~FsNone(p) /\ (FsNone(FsOther(p)) => FsNone(FsOther(p))')
  BY <1>1, FsSame DEF FsNone, FsOther
<1>3. UNCHANGED <<fsPipe, fsFile, fsFlag, fsPend>>
  BY <1>1 DEF fsSync
<1> QED
  BY <1>t, <1>1, <1>2, <1>3, FsTook

LEMMA FsTellSignalInv == ASSUME FsInv, NEW p \in FsProcs, FsTellSignal(p) PROVE FsInv'
<1> DEFINE o == FsOther(p)
<1>t. /\ fsPipe \in [FsProcs -> {0, 1}] /\ fsFlag \in [FsProcs -> {0, 1}]
      /\ fsFile \in {"nobody", "parent", "child"} /\ fsPend \subseteq FsProcs /\ fsOk \in BOOLEAN
  BY DEF FsInv, FsType
<1>p. /\ o \in FsProcs /\ o # p /\ (p = "parent" => o = "child") /\ (p = "child" => o = "parent")
      /\ (p = "parent" \/ p = "child")
  BY DEF FsProcs, FsOther
<1>1. /\ fsMethod = "signals" /\ fsPc[p] \in {"tell1", "tell2"} /\ fsPend' = fsPend \cup {o}
      /\ UNCHANGED <<fsMethod, fsTty, fsOk, fsI, fsPipe, fsFile, fsLock, fsFlag, fsBuf, fsOut>>
  BY DEF FsTellSignal, FsTelling, Notify
<1>2. fsPc' = [fsPc EXCEPT ![p] = IF fsPc[p] \in {"tell1", "write1"} THEN "wait2" ELSE "exit"]
  BY <1>1 DEF FsTellSignal, FsAfterTell, FsGoto
<1> HIDE DEF o
<1>3. ASSUME fsOk PROVE FsNone(o) /\ FsNone(p)
  <2>1. FsPhase
    BY <1>3 DEF FsInv
  <2> QED
    BY <1>p, <1>1, <2>1, FsTellers
<1>4. fsOk => o \notin fsPend /\ p \notin fsPend /\ fsFlag[o] = 0 /\ fsFlag[p] = 0
  BY <1>1, <1>3 DEF FsNone
<1>5. fsOk => FsToken(o)' /\ FsNone(p)'
  BY <1>p, <1>1, <1>4 DEF FsToken, FsNone
<1>6. fsPend' \subseteq FsProcs
  BY <1>t, <1>p, <1>1
<1> QED
  BY <1>t, <1>1, <1>2, <1>5, <1>6, FsTold DEF o

LEMMA FsWaitSignalInv == ASSUME FsInv, NEW p \in FsProcs, FsWaitSignal(p) PROVE FsInv'
<1> DEFINE o == FsOther(p)
<1>t. /\ FsType /\ fsPipe \in [FsProcs -> {0, 1}] /\ fsFlag \in [FsProcs -> {0, 1}]
      /\ fsFile \in {"nobody", "parent", "child"} /\ fsPend \subseteq FsProcs /\ fsOk \in BOOLEAN
  BY DEF FsInv, FsType
<1>p. /\ o \in FsProcs /\ o # p /\ (p = "parent" => o = "child") /\ (p = "child" => o = "parent")
      /\ (p = "parent" \/ p = "child")
  BY DEF FsProcs, FsOther
<1>1. /\ fsMethod = "signals" /\ FsWaiting(p)
      /\ UNCHANGED <<fsMethod, fsTty, fsOk, fsI, fsPipe, fsFile, fsLock, fsBuf, fsOut>>
  BY DEF FsWaitSignal
<1>2. CASE WaitDeliver(fsFlag, fsPend, p) /\ fsPc' = fsPc
  <2>1. /\ fsFlag[p] = 0 /\ p \in fsPend /\ fsPend' = fsPend \ {p}
        /\ fsFlag' = [fsFlag EXCEPT ![p] = 1]
    BY <1>2 DEF WaitDeliver
  <2> HIDE DEF o
  <2>2. fsFlag'[p] = 1 /\ fsFlag'[o] = fsFlag[o] /\ fsFlag' \in [FsProcs -> {0, 1}]
    BY <1>t, <1>p, <2>1
  <2>3. FsType'
    BY <1>t, <1>1, <1>2, <2>1, <2>2 DEF FsType
  <2>4. ~FsNone(p) /\ FsToken(p)' /\ (FsNone(o) => FsNone(o)')
    BY <1>p, <1>1, <2>1, <2>2 DEF FsToken, FsNone
  <2>5. ASSUME fsOk PROVE FsPhase'
    <3>1. FsPhase
      BY <2>5 DEF FsInv
    <3>2. \/ FsToParent /\ p = "parent" /\ fsPc[p] = "wait1" /\ FsNone("child")
          \/ FsToChild /\ p = "child" /\ fsPc[p] = "wait2" /\ FsNone("parent")
          \/ FsToParentAgain /\ p = "parent" /\ fsPc[p] = "wait2"
      BY <1>1, <2>4, <3>1, FsTakers
    <3> QED
      BY <1>p, <1>1, <1>2, <2>4, <3>2
         DEF FsPhase, FsToParent, FsToChild, FsToParentAgain, FsAt, FsWrote
  <2>6. FsLength(Len(fsOut)) => FsLength(Len(fsOut))'
    BY <1>1, <1>2 DEF FsLength
  <2> QED
    BY <1>1, <2>3, <2>5, <2>6, FsOnlyMoves
<1>3. CASE WaitReturn(fsFlag, p) /\ FsGoto(p, FsAfterWait(p)) /\ fsPend' = fsPend
  <2>1. /\ fsFlag[p] = 1 /\ fsFlag' = [fsFlag EXCEPT ![p] = 0]
        /\ fsPc' = [fsPc EXCEPT ![p] = FsAfterWait(p)]
    BY <1>3 DEF WaitReturn, FsGoto
  <2> HIDE DEF o
  <2>2. fsFlag'[p] = 0 /\ fsFlag'[o] = fsFlag[o] /\ fsFlag' \in [FsProcs -> {0, 1}]
    BY <1>t, <1>p, <2>1
  <2>3. ~FsNone(p) /\ (FsNone(o) => FsNone(o)')
    BY <1>p, <1>1, <1>3, <2>1, <2>2 DEF FsNone
  <2>4. ASSUME fsOk PROVE FsNone(p)'
    <3>1. FsPhase
      BY <2>4 DEF FsInv
    <3>2. FsToken(p)
      BY <1>p, <1>1, <2>3, <3>1, FsTakers DEF FsToParent, FsToChild, FsToParentAgain
    <3> QED
      BY <1>1, <1>3, <2>1, <2>2, <3>2 DEF FsToken, FsNone
  <2> QED
    BY <1>t, <1>1, <1>3, <2>1, <2>2, <2>3, <2>4, FsTook DEF o
<1> QED
  BY <1>2, <1>3 DEF FsWaitSignal

LEMMA FsNextInv == FsInv /\ [FsNext]_fsVars => FsInv'
<1> SUFFICES ASSUME FsInv, [FsNext]_fsVars PROVE FsInv'
  OBVIOUS
<1>1. CASE FsStart
  BY <1>1, FsStartInv
<1>2. CASE FsFork
  BY <1>2, FsForkInv
<1>3. CASE FsKey
  BY <1>3, FsKeyInv
<1>4. ASSUME NEW p \in FsProcs, FsStep(p) PROVE FsInv'
  <2>1. CASE FsMsgs(p) \/ FsLast(p) \/ FsExit(p)
    BY <2>1, FsMsgsInv, FsLastInv, FsExitInv
  <2>2. CASE FsTellPipe(p) \/ FsWaitPipe(p)
    BY <2>2, FsTellPipeInv, FsWaitPipeInv
  <2>3. CASE FsTellLock(p) \/ FsTellWrite(p) \/ FsWaitLock(p)
    BY <2>3, FsTellLockInv, FsTellWriteInv, FsWaitLockInv
  <2>4. CASE FsTellSignal(p) \/ FsWaitSignal(p)
    BY <2>4, FsTellSignalInv, FsWaitSignalInv
  <2> QED
    BY <1>4, <2>1, <2>2, <2>3, <2>4 DEF FsStep
<1>5. CASE UNCHANGED fsVars
  <2>1. /\ UNCHANGED <<fsMethod, fsTty, fsOk, fsPc, fsI, fsSync, fsBuf, fsOut>>
    BY <1>5 DEF fsVars
  <2>2. FsType'
    BY <2>1 DEF FsInv, FsType, fsSync
  <2>3. FsPhase => FsPhase'
    BY <2>1, FsSame DEF FsPhase, FsLone, FsChildFirst, FsToParent, FsParentNext, FsToChild, FsSilent,
              FsChildLeaves, FsToParentAgain, FsParentLast, FsAt, FsWrote
  <2>4. FsLength(Len(fsOut)) => FsLength(Len(fsOut))'
    BY <2>1 DEF FsLength
  <2> QED
    BY <2>1, <2>2, <2>3, <2>4, FsOnlyMoves DEF FsInv
<1> QED
  BY <1>1, <1>2, <1>3, <1>4, <1>5 DEF FsNext

\* A sequence that agrees with a longer one from the start is its beginning.
LEMMA Beginning ==
  ASSUME NEW S, NEW s \in Seq(S), NEW t \in Seq(S), Len(s) <= Len(t),
         \A i \in 1..Len(s) : s[i] = t[i]
  PROVE  s = SubSeq(t, 1, Len(s))
<1>0. Len(s) \in Nat /\ Len(t) \in Nat
  OBVIOUS
<1>1. \A i \in 1..Len(s) : t[i] \in S
  BY <1>0
<1>2. /\ SubSeq(t, 1, Len(s)) \in Seq(S)
      /\ Len(SubSeq(t, 1, Len(s))) = IF 1 <= Len(s) THEN Len(s) - 1 + 1 ELSE 0
      /\ \A i \in 1..(Len(s) - 1 + 1) : SubSeq(t, 1, Len(s))[i] = t[1 + i - 1]
  BY <1>0, <1>1, SubSeqProperties
<1>3. Len(SubSeq(t, 1, Len(s))) = Len(s)
  BY <1>0, <1>2
<1>4. \A i \in 1..Len(s) : s[i] = SubSeq(t, 1, Len(s))[i]
  BY <1>0, <1>2
<1> QED
  BY <1>2, <1>3, <1>4, SeqEqual

\* The parent and the child take turns by each of the three methods, for any
\* number of messages: on a terminal the output is a prefix of the announced
\* script; elsewhere no message is lost or repeated and the child's come first.
THEOREM FsTakesTurns == FsSpec => []FsTurns
<1>1. FsInv => FsTurns
  <2> SUFFICES ASSUME FsInv, fsOk
               PROVE  IF fsTty
                      THEN fsOut = SubSeq(FsScript, 1, Len(fsOut))
                      ELSE FsCounted
    BY DEF FsTurns, FsCounted
  <2>1. FsAnnounced /\ FsCounted /\ FsPhase
    BY DEF FsInv
  <2>2. ASSUME fsTty PROVE fsOut = SubSeq(FsScript, 1, Len(fsOut))
    <3> DEFINE T == FsTexts \cup FsProcs
               n == Len(fsOut)
    <3>1. fsOut \in Seq(T) /\ n \in Nat /\ Msgs \in Nat /\ fsI["child"] \in 0..Msgs
          /\ fsI["parent"] \in 0..Msgs
      BY MsgsAssumption DEF FsInv, FsType, FsProcs
    <3>2. FsScript \in Seq(T) /\ Len(FsScript) = 2 * Msgs + 4
      BY FsScriptAt
    <3>3. FsLength(n) /\ \A i \in 1..n : fsOut[i] = FsScript[i]
      BY <2>1, <2>2 DEF FsAnnounced
    <3>4. n <= 2 * Msgs + 4
      BY <2>1, <3>1, <3>3
         DEF FsLength, FsPhase, FsLone, FsChildFirst, FsToParent, FsParentNext, FsToChild,
             FsChildLeaves, FsToParentAgain, FsParentLast, FsAt
    <3> HIDE DEF T, n
    <3>5. n \in 0..Len(FsScript)
      BY <3>1, <3>2, <3>4
    <3>6. Len(fsOut) <= Len(FsScript)
      BY <3>1, <3>2, <3>5 DEF n
    <3>7. \A i \in 1..Len(fsOut) : fsOut[i] = FsScript[i]
      BY <3>3 DEF n
    <3> QED
      BY <3>1, <3>2, <3>6, <3>7, Beginning
  <2> QED
    BY <2>1, <2>2
<1> QED
  BY <1>1, FsInitInv, FsNextInv, PTL DEF FsSpec
----------------------------------------------------------------------------
(* The programs of MCProcesses, each run on its own.                       *)

\* A step of MCProcesses is a step of each program, or leaves it alone.
LEMMA MCStep ==
  ASSUME [MCNext]_mcVars
  PROVE  /\ [FlNext]_flVars /\ [AmNext]_amVars /\ [SsNext]_ssVars
         /\ [CoNext]_coVars /\ [PfNext]_pfVars /\ [DrNext]_drVars /\ [RcNext]_rcVars
  BY DEF MCNext, mcVars, FsAlone, RwAlone, MlAlone, FlAlone, AmAlone, SsAlone, DuAlone, SgAlone,
         CoAlone, PtAlone, RlAlone, PfAlone, DrAlone, RcAlone

LEMMA MCPrograms ==
  MCSpec => FlSpec /\ AmSpec /\ SsSpec /\ CoSpec /\ PfSpec /\ DrSpec /\ RcSpec
<1>1. MCInit => FlInit /\ AmInit /\ SsInit /\ CoInit /\ PfInit /\ DrInit /\ RcInit
  BY DEF MCInit
<1> QED
  BY <1>1, MCStep, PTL DEF MCSpec, FlSpec, AmSpec, SsSpec, CoSpec, PfSpec, DrSpec, RcSpec

\* The two writers, the counter's processes and the copies of the program with the
\* named semaphore all take turns.
THEOREM MCTakesTurns == MCSpec => []MCTakeTurns
<1>1. FlWhole /\ AmAlternate /\ SsSafe => MCTakeTurns
  BY DEF MCTakeTurns
<1> QED
  BY <1>1, MCPrograms, FlIsWhole, AmTakesTurns, SsIsSafe, PTL

\* The coprocess, pty_fork(), do_driver() and the client of the remote login set up
\* whole what they set up.
THEOREM MCIsWired == MCSpec => []MCWired
<1>1. CoMatches /\ PfAtomic /\ DrWired /\ RcRestores => MCWired
  BY DEF MCWired
<1> QED
  BY <1>1, MCPrograms, CoIsMatched, PfIsAtomic, DrIsWired, RcIsRestored, PTL
=============================================================================
