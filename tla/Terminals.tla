------------------------------ MODULE Terminals ------------------------------
(* knowledge_based/linux_internals/pseudo_terminals: the remote login daemon   *)
(* (remote_login.c) and its client (remote_login_client.c), pty_fork() of      *)
(* pty_lib.c, and do_driver() and loop() of pty.c; and the coprocesses.        *)
EXTENDS Integers, Sequences, FiniteSets, SequencesExt

CONSTANTS
  RlClients,  \* the clients of the remote login daemon
  RlStarts,   \* bound: how often the daemon is started
  RlHups,     \* bound: SIGHUPs sent to it
  RcChunks    \* bound: chunks typed, and chunks sent by the login session

ASSUME TerminalsAssumption ==
  /\ IsFiniteSet(RlClients) /\ RlStarts \in Nat /\ RlHups \in Nat /\ RcChunks \in Nat
----------------------------------------------------------------------------
(* remote_login.c.  The processes are the daemon, the kid forked for a client *)
(* and the grandchild that becomes its session.  Who has a descriptor of a    *)
(* connection, or of the listening socket, hands it down at fork(2).          *)
VARIABLES
  rlDaemon,  \* "down", "accept", "fork", "close", "wait"
  rlCur,     \* the client of accept_client()
  rlPeer,    \* each client: "away", "queued", "taken", "refused", "left"
  rlQueue,   \* the backlog
  rlKid,     \* each client's kid: "none", "run", "zombie", "gone"
  rlGrand,   \* each client's grandchild: "none", "setup", "session", "gone"
  rlHold,    \* the processes that hold a descriptor of each connection
  rlPort,    \* the processes that hold the listening socket
  rlLeaked,  \* the connections of which accept_client() returned -1
  rlMissed,  \* the kids whose waitpid(2) was interrupted
  rlCount    \* how often the daemon was started and got SIGHUP

rlVars == <<rlDaemon, rlCur, rlPeer, rlQueue, rlKid, rlGrand, rlHold, rlPort, rlLeaked,
            rlMissed, rlCount>>

Daemon == <<"daemon">>
Kid(c) == <<"kid", c>>
Grand(c) == <<"grand", c>>

RlInit ==
  /\ rlDaemon = "down" /\ rlCur = "nobody" /\ rlQueue = <<>>
  /\ rlPeer = [c \in RlClients |-> "away"]
  /\ rlKid = [c \in RlClients |-> "none"] /\ rlGrand = [c \in RlClients |-> "none"]
  /\ rlHold = [c \in RlClients |-> {}] /\ rlPort = {}
  /\ rlLeaked = {} /\ rlMissed = {} /\ rlCount = [starts |-> 0, hups |-> 0]

\* The end of process p closes its descriptors.  With the last holder of the listening
\* socket go the clients in the backlog.
RlDrop(p) ==
  /\ rlHold' = [c \in RlClients |-> rlHold[c] \ {p}]
  /\ rlPort' = rlPort \ {p}
  /\ IF rlPort = {p}
     THEN /\ rlQueue' = <<>>
          /\ rlPeer' = [c \in RlClients |-> IF c \in ToSet(rlQueue) THEN "refused" ELSE rlPeer[c]]
     ELSE UNCHANGED <<rlQueue, rlPeer>>

\* fork(2): the new process has what its parent has.
RlInherit(parent, child) ==
  /\ rlHold' = [c \in RlClients |->
                  IF parent \in rlHold[c] THEN rlHold[c] \cup {child} ELSE rlHold[c]]
  /\ rlPort' = IF parent \in rlPort THEN rlPort \cup {child} ELSE rlPort
  /\ UNCHANGED <<rlPeer, rlQueue>>

\* The end of the daemon: what it did not wait for is waited for by init.
RlDaemonEnds ==
  /\ rlDaemon' = "down" /\ rlCur' = "nobody" /\ RlDrop(Daemon)
  /\ rlKid' = [c \in RlClients |-> IF rlKid[c] = "zombie" THEN "gone" ELSE rlKid[c]]

\* daemonize(), and socket(2), bind(2) and listen(2) of main().  The lock of
\* already_running() belongs to the process and went with the last daemon; the port is
\* taken as long as a process has the socket of an earlier daemon.
RlStart ==
  /\ rlDaemon = "down" /\ rlCount.starts < RlStarts
  /\ rlCount' = [rlCount EXCEPT !.starts = @ + 1]
  /\ \/ /\ rlPort = {}
        /\ rlDaemon' = "accept" /\ rlPort' = {Daemon}
     \/ UNCHANGED <<rlDaemon, rlPort>>
  /\ UNCHANGED <<rlLeaked, rlMissed, rlCur, rlPeer, rlQueue, rlKid, rlGrand, rlHold>>

\* A client connects; it waits in the backlog even when no daemon accepts any more.
RlConnect(c) ==
  /\ rlPeer[c] = "away"
  /\ IF rlPort = {}
     THEN rlPeer' = [rlPeer EXCEPT ![c] = "refused"] /\ UNCHANGED rlQueue
     ELSE rlPeer' = [rlPeer EXCEPT ![c] = "queued"] /\ rlQueue' = Append(rlQueue, c)
  /\ UNCHANGED <<rlDaemon, rlCur, rlKid, rlGrand, rlHold, rlPort, rlLeaked, rlMissed, rlCount>>

\* A client that is logged in leaves.
RlLeave(c) ==
  /\ rlPeer[c] = "taken" /\ rlPeer' = [rlPeer EXCEPT ![c] = "left"]
  /\ UNCHANGED <<rlDaemon, rlCur, rlQueue, rlKid, rlGrand, rlHold, rlPort, rlLeaked, rlMissed,
                 rlCount>>

\* accept(2) of main().
RlAccept ==
  /\ rlDaemon = "accept" /\ rlQueue # <<>>
  /\ rlCur' = Head(rlQueue) /\ rlQueue' = Tail(rlQueue) /\ rlDaemon' = "fork"
  /\ rlPeer' = [rlPeer EXCEPT ![rlCur'] = "taken"]
  /\ rlHold' = [rlHold EXCEPT ![rlCur'] = {Daemon}]
  /\ UNCHANGED <<rlKid, rlGrand, rlPort, rlLeaked, rlMissed, rlCount>>

\* fork(2) of accept_client(): when it fails, clientfd stays open.
RlFork ==
  /\ rlDaemon = "fork"
  /\ \/ /\ rlDaemon' = "close" /\ rlKid' = [rlKid EXCEPT ![rlCur] = "run"]
        /\ RlInherit(Daemon, Kid(rlCur)) /\ UNCHANGED <<rlCur, rlLeaked>>
     \/ /\ rlDaemon' = "accept" /\ rlLeaked' = rlLeaked \cup {rlCur} /\ rlCur' = "nobody"
        /\ UNCHANGED <<rlKid, rlHold, rlPort, rlPeer, rlQueue>>
  /\ UNCHANGED <<rlGrand, rlMissed, rlCount>>

\* A parent that does not close clientfd.
RlCloseNot ==
  /\ rlDaemon = "close" /\ rlDaemon' = "wait"
  /\ UNCHANGED <<rlCur, rlPeer, rlQueue, rlKid, rlGrand, rlHold, rlPort, rlLeaked, rlMissed,
                 rlCount>>

\* close(clientfd) in the parent.
RlClose ==
  /\ rlDaemon = "close" /\ rlDaemon' = "wait"
  /\ rlHold' = [rlHold EXCEPT ![rlCur] = @ \ {Daemon}]
  /\ UNCHANGED <<rlCur, rlPeer, rlQueue, rlKid, rlGrand, rlPort, rlLeaked, rlMissed, rlCount>>

\* waitpid(2), and back to accept(2).
RlWait ==
  /\ rlDaemon = "wait" /\ rlKid[rlCur] = "zombie"
  /\ rlDaemon' = "accept" /\ rlCur' = "nobody" /\ rlKid' = [rlKid EXCEPT ![rlCur] = "gone"]
  /\ UNCHANGED <<rlPeer, rlQueue, rlGrand, rlHold, rlPort, rlLeaked, rlMissed, rlCount>>

\* SIGHUP, "rehashing...": sa_flags is 0, so that a call that blocks is not restarted.
\* accept(2) that fails ends the daemon, waitpid(2) that fails leaves the kid.
RlHup ==
  /\ rlDaemon # "down" /\ rlCount.hups < RlHups
  /\ rlCount' = [rlCount EXCEPT !.hups = @ + 1]
  /\ \/ rlDaemon = "accept" /\ rlQueue = <<>> /\ RlDaemonEnds /\ UNCHANGED rlMissed
     \/ /\ rlDaemon = "wait" /\ rlKid[rlCur] = "run"
        /\ rlDaemon' = "accept" /\ rlMissed' = rlMissed \cup {rlCur} /\ rlCur' = "nobody"
        /\ UNCHANGED <<rlPeer, rlQueue, rlKid, rlHold, rlPort>>
  /\ UNCHANGED <<rlGrand, rlLeaked>>

\* terminate_handler(), on SIGTERM or SIGINT.
RlTerm ==
  /\ rlDaemon # "down" /\ RlDaemonEnds
  /\ UNCHANGED <<rlGrand, rlLeaked, rlMissed, rlCount>>

\* The kid: fork(2), whether it succeeds or not, and exit(3).
RlKidFork(c) ==
  /\ rlKid[c] = "run" /\ rlGrand[c] = "none" /\ rlGrand' = [rlGrand EXCEPT ![c] = "setup"]
  /\ RlInherit(Kid(c), Grand(c))
  /\ UNCHANGED <<rlDaemon, rlCur, rlKid, rlLeaked, rlMissed, rlCount>>
RlKidExit(c) ==
  /\ rlKid[c] = "run" /\ RlDrop(Kid(c))
  /\ rlKid' = [rlKid EXCEPT ![c] = IF rlDaemon = "down" THEN "gone" ELSE "zombie"]
  /\ UNCHANGED <<rlDaemon, rlCur, rlGrand, rlLeaked, rlMissed, rlCount>>

\* The grandchild: dup2(2) twice and execl(3) of pty with login, or exit(3) when one of
\* them fails.
RlSetup(c) ==
  /\ rlGrand[c] = "setup"
  /\ \/ /\ rlGrand' = [rlGrand EXCEPT ![c] = "session"]
        /\ UNCHANGED <<rlHold, rlPort, rlQueue, rlPeer>>
     \/ rlGrand' = [rlGrand EXCEPT ![c] = "gone"] /\ RlDrop(Grand(c))
  /\ UNCHANGED <<rlDaemon, rlCur, rlKid, rlLeaked, rlMissed, rlCount>>

\* The session ends: the user logs out, or pty reads the end of its input.
RlLogout(c) ==
  /\ rlGrand[c] = "session" /\ rlGrand' = [rlGrand EXCEPT ![c] = "gone"] /\ RlDrop(Grand(c))
  /\ UNCHANGED <<rlDaemon, rlCur, rlKid, rlLeaked, rlMissed, rlCount>>

RlServe == RlAccept \/ RlFork \/ RlClose \/ RlWait
RlForked(c) == RlKidFork(c) \/ RlKidExit(c) \/ RlSetup(c)
RlHangUp(c) == rlPeer[c] = "left" /\ RlLogout(c)
RlNext ==
  \/ RlStart \/ RlServe \/ RlHup \/ RlTerm
  \/ \E c \in RlClients : RlConnect(c) \/ RlLeave(c) \/ RlForked(c) \/ RlLogout(c)

RlSpec == RlInit /\ [][RlNext]_rlVars

\* A session has no descriptor of another client's connection, and "we won't leave zombie
\* processes around" (remote_login.c:260); the exceptions are the connections whose
\* fork(2) failed and the kids whose waitpid(2) a SIGHUP interrupted.
RlApart ==
  \A c \in RlClients :
    /\ \A d \in RlClients \ {c} :
         Kid(d) \in rlHold[c] \/ Grand(d) \in rlHold[c] =>
           c \in rlLeaked
    /\ rlKid[c] = "zombie" => (rlCur = c /\ rlDaemon \in {"close", "wait"}) \/ c \in rlMissed

\* A client in the backlog is taken unless the daemon ends; and a connection that the
\* client left is closed on this side too, unless its fork(2) failed.
RlPending(c) == rlPeer[c] \in {"queued", "left"}
RlSettled(c) ==
  CASE rlPeer[c] = "queued" -> rlDaemon = "down"
    [] rlPeer[c] = "left" -> rlHold[c] = {} \/ c \in rlLeaked
    [] OTHER -> TRUE
RlServed == \A c \in RlClients : RlPending(c) ~> RlSettled(c)
----------------------------------------------------------------------------
(* pty_fork().  The child reports the call that failed (its errno), or the *)
(* success, through a pipe.                                                *)
VARIABLES
  pfParent,  \* "open", "pipe", "fork", "read", "give_up", "ok", "failed"
  pfChild,   \* "none", "run", "ok", "failed", "killed"
  pfCall,    \* the next of the child's calls
  pfTty,     \* slave_termios and slave_winsize are given
  pfPipe,    \* what the pipe holds
  pfFds,     \* the descriptors of the parent
  pfErr      \* the errno pty_fork() returns in the parent

pfVars == <<pfParent, pfChild, pfCall, pfTty, pfPipe, pfFds, pfErr>>

PfInit ==
  /\ pfParent = "open" /\ pfChild = "none" /\ pfCall = 1 /\ pfTty \in BOOLEAN
  /\ pfPipe = <<>> /\ pfFds = {} /\ pfErr = "none"

\* The calls of the child, in their order.
PfCalls ==
  IF pfTty
  THEN <<"setsid", "ptys_open", "tcsetattr", "TIOCSWINSZ", "dup2 0", "dup2 1", "dup2 2">>
  ELSE <<"setsid", "ptys_open", "dup2 0", "dup2 1", "dup2 2">>

\* errout, pipeout0 and pipeout1: everything open is closed.
PfFail(err) == pfParent' = "failed" /\ pfFds' = {} /\ pfErr' = err

\* ptym_open(), pipe(2) and fork(2), and the failure of each.
PfPrepare ==
  /\ \/ /\ pfParent = "open" /\ UNCHANGED pfChild
        /\ \/ pfParent' = "pipe" /\ pfFds' = {"master"} /\ UNCHANGED pfErr
           \/ PfFail("open")
     \/ /\ pfParent = "pipe" /\ UNCHANGED pfChild
        /\ \/ pfParent' = "fork" /\ pfFds' = pfFds \cup {"read", "write"} /\ UNCHANGED pfErr
           \/ PfFail("pipe")
     \/ /\ pfParent = "fork"
        /\ \/ /\ pfParent' = "read" /\ pfFds' = pfFds \ {"write"} /\ pfChild' = "run"
              /\ UNCHANGED pfErr
           \/ PfFail("fork") /\ UNCHANGED pfChild
  /\ UNCHANGED <<pfCall, pfTty, pfPipe>>

\* The child's write(2) of a report; SIGPIPE ends it when the parent has given up.
PfWrite(report, end) ==
  IF "read" \in pfFds THEN pfPipe' = <<report>> /\ pfChild' = end
  ELSE pfChild' = "killed" /\ UNCHANGED pfPipe

\* A child that does not look at what its last dup2(2) returns.
PfChildStepBlind ==
  /\ pfChild = "run"
  /\ IF pfCall > Len(PfCalls)
     THEN PfWrite("ok", "ok") /\ UNCHANGED pfCall
     ELSE \/ pfCall' = pfCall + 1 /\ UNCHANGED <<pfPipe, pfChild>>
          \/ /\ UNCHANGED pfCall
             /\ PfWrite(PfCalls[pfCall], IF PfCalls[pfCall] = "dup2 2" THEN "ok" ELSE "failed")
  /\ UNCHANGED <<pfParent, pfTty, pfFds, pfErr>>

\* The child: the next call, or childout when it fails; at the end the report of success.
PfChildStep ==
  /\ pfChild = "run"
  /\ IF pfCall > Len(PfCalls)
     THEN PfWrite("ok", "ok") /\ UNCHANGED pfCall
     ELSE \/ pfCall' = pfCall + 1 /\ UNCHANGED <<pfPipe, pfChild>>
          \/ PfWrite(PfCalls[pfCall], "failed") /\ UNCHANGED pfCall
  /\ UNCHANGED <<pfParent, pfTty, pfFds, pfErr>>

\* Somebody kills the child before it has reported.
PfKilled ==
  /\ pfChild = "run" /\ pfChild' = "killed"
  /\ UNCHANGED <<pfParent, pfCall, pfTty, pfPipe, pfFds, pfErr>>

\* read(2) in the parent: the report, the end of the file when there is none, or a failure
\* when a signal that the caller catches interrupts the wait.
PfRead ==
  /\ pfParent = "read"
  /\ \/ pfPipe = <<"ok">> /\ pfParent' = "ok" /\ pfFds' = {"master"} /\ UNCHANGED pfErr
     \/ pfPipe \notin {<<>>, <<"ok">>} /\ PfFail(pfPipe[1])
     \/ pfPipe = <<>> /\ pfChild = "killed" /\ PfFail("EIO")
     \/ pfPipe = <<>> /\ pfParent' = "give_up" /\ UNCHANGED <<pfFds, pfErr>>
  /\ UNCHANGED <<pfChild, pfCall, pfTty, pfPipe>>

\* pipeout0 after a read(2) that failed: nobody has set err_code.
PfGiveUp ==
  /\ pfParent = "give_up" /\ PfFail("unset")
  /\ UNCHANGED <<pfChild, pfCall, pfTty, pfPipe>>

PfNext == PfPrepare \/ PfChildStep \/ PfKilled \/ PfRead \/ PfGiveUp

PfSpec == PfInit /\ [][PfNext]_pfVars

\* The parent returns the pid only if the child returns; the child returns only if the
\* parent does not fail, unless it reported after the parent's read(2) was interrupted and
\* before the parent closed the pipe (the errno is then one that nobody has set); and a
\* parent that fails keeps no descriptor.
PfAtomic ==
  /\ pfParent = "ok" => pfChild = "ok" /\ pfFds = {"master"}
  /\ pfChild = "ok" => pfParent \in {"read", "give_up", "ok"} \/ pfErr = "unset"
  /\ pfParent = "failed" => pfFds = {} /\ pfErr # "none"

\* "strong atomicity guarantee: it only returns twice if both the parent and the child
\* succeeded" (README.md of pseudo_terminals): the child of a parent that failed does not
\* return.
PfStrong == pfParent = "failed" => pfChild # "ok"
----------------------------------------------------------------------------
(* do_driver() of pty.c.  The table of descriptors of pty and of the driver:  *)
(* a name of the code, and the end of the pipe behind it.  "ptd" is           *)
(* pty_to_driver, "dtp" driver_to_pty.                                        *)
VARIABLES
  drPty,     \* the descriptors of pty, and
  drDriver,  \* those of the driver
  drAt,      \* the calls each of the two has made; the driver -1 before fork(2)
  drEnd      \* each of them: "run", "ok" or "failed"

drVars == <<drPty, drDriver, drAt, drEnd>>

\* <<"close", d>> closes d; <<"dup", d, s>> is dup2(d, s).  The driver's calls, and those
\* of pty.
DrDriverCalls ==
  << <<"close", "ptd_w">>, <<"close", "dtp_r">>, <<"dup", "ptd_r", "stdin">>,
     <<"close", "ptd_r">>, <<"dup", "dtp_w", "stdout">>, <<"close", "dtp_w">> >>
DrPtyCalls ==
  << <<"close", "dtp_w">>, <<"close", "ptd_r">>, <<"dup", "ptd_w", "stdout">>,
     <<"close", "ptd_w">>, <<"dup", "dtp_r", "stdin">>, <<"close", "dtp_r">> >>

DrPipes == {"ptd_r", "ptd_w", "dtp_r", "dtp_w"}
DrStart == [d \in DrPipes \cup {"stdin", "stdout"} |-> IF d \in DrPipes THEN d ELSE "tty"]

DrInit ==
  /\ drPty = DrStart /\ drDriver = [d \in {} |-> "tty"]
  /\ drAt = [pty |-> 0, driver |-> -1] /\ drEnd = [pty |-> "run", driver |-> "run"]

DrCall(table, call) ==
  IF call[1] = "close" THEN [d \in DOMAIN table \ {call[2]} |-> table[d]]
  ELSE [table EXCEPT ![call[3]] = table[call[2]]]

\* fork(2), which may fail.
DrFork ==
  /\ drAt.driver = -1 /\ drEnd.pty = "run"
  /\ \/ drDriver' = drPty /\ drAt' = [drAt EXCEPT !.driver = 0] /\ UNCHANGED <<drPty, drEnd>>
     \/ /\ drEnd' = [drEnd EXCEPT !.pty = "failed"]
        /\ drPty' = [d \in DOMAIN drPty \ DrPipes |-> drPty[d]] /\ UNCHANGED <<drDriver, drAt>>

\* dtpout: pty closes the pipes, and main() exits.
DrPtyStep ==
  /\ drAt.driver # -1 /\ drEnd.pty = "run" /\ UNCHANGED drDriver
  /\ IF drAt.pty = Len(DrPtyCalls)
     THEN drEnd' = [drEnd EXCEPT !.pty = "ok"] /\ UNCHANGED <<drPty, drAt>>
     ELSE \/ /\ drPty' = DrCall(drPty, DrPtyCalls[drAt.pty + 1])
             /\ drAt' = [drAt EXCEPT !.pty = @ + 1] /\ UNCHANGED drEnd
          \/ /\ drEnd' = [drEnd EXCEPT !.pty = "failed"]
             /\ drPty' = [d \in {} |-> "tty"] /\ UNCHANGED drAt

\* The driver's side ends with execlp(3); what fails ends the process.
DrDriverStep ==
  /\ drAt.driver # -1 /\ drEnd.driver = "run" /\ UNCHANGED drPty
  /\ \/ /\ drAt.driver = Len(DrDriverCalls) /\ drEnd' = [drEnd EXCEPT !.driver = "ok"]
        /\ UNCHANGED <<drDriver, drAt>>
     \/ /\ drAt.driver < Len(DrDriverCalls) /\ drAt' = [drAt EXCEPT !.driver = @ + 1]
        /\ drDriver' = DrCall(drDriver, DrDriverCalls[drAt.driver + 1]) /\ UNCHANGED drEnd
     \/ /\ drEnd' = [drEnd EXCEPT !.driver = "failed"]
        /\ drDriver' = [d \in {} |-> "tty"] /\ UNCHANGED drAt

DrNext == DrFork \/ DrPtyStep \/ DrDriverStep

DrSpec == DrInit /\ [][DrNext]_drVars

\* A table with nothing but the two standard descriptors.
DrEnds(in, out) == [d \in {"stdin", "stdout"} |-> IF d = "stdin" THEN in ELSE out]

\* Each of the two ends up with exactly the ends it needs: what one writes the other
\* reads, and when one of them is gone nobody else holds the other end of its pipe, so
\* that the other one reads an end of file.
DrWired ==
  /\ drEnd.pty = "ok" => drPty = DrEnds("dtp_r", "ptd_w")
  /\ drEnd.driver = "ok" => drDriver = DrEnds("ptd_r", "dtp_w")
  /\ drEnd.pty = "ok" /\ drEnd.driver = "failed" => ~\E d \in DOMAIN drPty : drPty[d] = "dtp_w"
----------------------------------------------------------------------------
(* remote_login_client.c.  Chunks go both ways; poll(2) reports stdin and the *)
(* socket, and what it reported is handled one after the other.               *)
VARIABLES
  rcPc,      \* "tty", "poll", "stdin", "socket", "left", "error", "killed"
  rcRevents, \* what poll(2) reported: sets of events of stdin and of the socket
  rcTyped,   \* chunks typed, and
  rcFed,     \* those written to the socket
  rcSent,    \* chunks the session sent, and
  rcShown,   \* those written to stdout
  rcEof,     \* the end of stdin
  rcSock,    \* "open", "closed" by the session, "answering" a chunk sent to it, "reset"
  rcTty      \* "original" or "raw"

rcVars == <<rcPc, rcRevents, rcTyped, rcFed, rcSent, rcShown, rcEof, rcSock, rcTty>>

RcInit ==
  /\ rcPc = "tty" /\ rcRevents = [stdin |-> {}, socket |-> {}]
  /\ rcTyped = 0 /\ rcFed = 0 /\ rcSent = 0 /\ rcShown = 0
  /\ rcEof = FALSE /\ rcSock = "open" /\ rcTty = "original"

\* The user types or ends the input; the session sends, closes, and answers with a reset
\* when a chunk reaches it after that.
RcWorld ==
  /\ \/ /\ ~rcEof /\ \/ rcTyped < RcChunks /\ rcTyped' = rcTyped + 1 /\ UNCHANGED rcEof
                     \/ rcEof' = TRUE /\ UNCHANGED rcTyped
        /\ UNCHANGED <<rcSent, rcSock>>
     \/ /\ rcSock = "open" /\ UNCHANGED <<rcTyped, rcEof>>
        /\ \/ rcSent < RcChunks /\ rcSent' = rcSent + 1 /\ UNCHANGED rcSock
           \/ rcSock' = "closed" /\ UNCHANGED rcSent
     \/ /\ rcSock = "answering" /\ rcSock' = "reset" /\ UNCHANGED <<rcTyped, rcEof, rcSent>>
  /\ UNCHANGED <<rcPc, rcRevents, rcFed, rcShown, rcTty>>

\* prepare_terminal(): tty_atexit() is registered before the terminal is changed.
PrepareTerminal ==
  /\ rcPc = "tty"
  /\ \/ rcPc' = "poll" /\ rcTty' = "raw"
     \/ rcPc' = "error" /\ UNCHANGED rcTty
  /\ UNCHANGED <<rcRevents, rcTyped, rcFed, rcSent, rcShown, rcEof, rcSock>>

\* poll(2) in loop(): an error or a hangup ends the loop before anything is read.
RcPoll ==
  /\ rcPc = "poll"
  /\ LET stdin == IF rcFed < rcTyped \/ rcEof THEN {"in"} ELSE {}
         socket == (IF rcShown < rcSent \/ rcSock # "open" THEN {"in"} ELSE {})
                   \cup (IF rcSock = "reset" THEN {"hup"} ELSE {})
     IN /\ stdin # {} \/ socket # {}
        /\ IF "hup" \in socket
           THEN rcPc' = "left" /\ rcTty' = "original" /\ UNCHANGED rcRevents
           ELSE rcPc' = "stdin" /\ rcRevents' = [stdin |-> stdin, socket |-> socket] /\ UNCHANGED rcTty
  /\ UNCHANGED <<rcTyped, rcFed, rcSent, rcShown, rcEof, rcSock>>

\* handle_event(&pollfds[0]): at the end of stdin nothing is written.  A write(2) to a
\* socket that was reset since poll(2) raises SIGPIPE, which is not handled.
RcStdin ==
  /\ rcPc = "stdin"
  /\ IF rcRevents.stdin = {} \/ rcFed = rcTyped
     THEN rcPc' = "socket" /\ UNCHANGED <<rcFed, rcSock>>
     ELSE /\ rcFed' = rcTyped
          /\ rcPc' = IF rcSock = "reset" THEN "killed" ELSE "socket"
          /\ rcSock' = IF rcSock = "closed" THEN "answering" ELSE rcSock
  /\ UNCHANGED <<rcRevents, rcTyped, rcSent, rcShown, rcEof, rcTty>>

\* handle_event(&pollfds[1]); after the session closed, read(2) returns 0 and nothing is
\* written; from a socket that was reset it fails.
RcSocket ==
  /\ rcPc = "socket"
  /\ IF rcRevents.socket = {} \/ rcSock # "reset" \/ rcShown < rcSent
     THEN /\ rcPc' = "poll" /\ UNCHANGED rcTty
          /\ rcShown' = IF rcRevents.socket = {} THEN rcShown ELSE rcSent
     ELSE rcPc' = "error" /\ rcTty' = "original" /\ UNCHANGED rcShown
  /\ UNCHANGED <<rcRevents, rcTyped, rcFed, rcSent, rcEof, rcSock>>

RcStep == PrepareTerminal \/ RcPoll \/ RcStdin \/ RcSocket
RcNext == RcStep \/ RcWorld

RcSpec == RcInit /\ [][RcNext]_rcVars

\* The user's terminal is as it was when the client ends by itself, and what the session
\* sent before it closed is lost only when the user typed on; only a reset that comes
\* between poll(2) and write(2) kills the client and leaves the terminal raw.
RcRestores ==
  /\ rcPc \in {"left", "error"} => rcTty = "original"
  /\ rcPc = "killed" => rcSock = "reset" /\ rcRevents.stdin # {}
  /\ rcPc = "left" /\ rcShown < rcSent => rcFed > 0 /\ rcSock = "reset"
----------------------------------------------------------------------------
(* knowledge_based/linux_internals/pseudo_terminals/pty.c, loop(): the parent  *)
(* copies what a program writes to its terminal to stdout, the child copies    *)
(* stdin to the terminal, and each ends the other with SIGTERM.  The parent    *)
(* leaves through longjmp() in its signal handler.  What is copied is counted  *)
(* in chunks; chunk i is the i-th one.                                         *)

CONSTANTS
  PtChunks  \* bound: chunks the program writes, and chunks typed

ASSUME PtAssumption == PtChunks \in Nat

VARIABLES
  ptIgnoreEof,  \* the -i option
  ptParent,     \* where the parent stands
  ptChild,      \* where the child stands
  ptJmpSet,     \* jmp_env was filled by setjmp()
  ptPending,    \* who SIGTERM is pending for
  ptProgram,    \* the program has the terminal open
  ptWritten,    \* chunks the program wrote
  ptShown,      \* chunks copied to stdout
  ptTyped,      \* chunks typed
  ptEof,        \* end of file on stdin
  ptFed,        \* chunks copied to the terminal
  ptHow         \* how the parent ended

ptVars == <<ptIgnoreEof, ptParent, ptChild, ptJmpSet, ptPending, ptProgram, ptWritten,
            ptShown, ptTyped, ptEof, ptFed, ptHow>>

ptData == <<ptProgram, ptWritten, ptShown, ptTyped, ptEof, ptFed>>

\* loop() is called: SIGTERM still has its default action.
PtInit ==
  /\ ptIgnoreEof \in BOOLEAN
  /\ ptParent = "install" /\ ptChild = "none" /\ ptJmpSet = FALSE /\ ptPending = {}
  /\ ptProgram = TRUE /\ ptWritten = 0 /\ ptShown = 0 /\ ptTyped = 0 /\ ptEof = FALSE
  /\ ptFed = 0 /\ ptHow = "none"

PtEnded == {"done", "wild", "killed"}

\* sigaction(2), sigprocmask(2) and fork(2), which leaves the handler installed and
\* SIGTERM blocked in both processes; when it fails, loop() returns 0.
PtPrepare ==
  /\ \/ ptParent = "install" /\ ptParent' = "block" /\ UNCHANGED <<ptChild, ptHow>>
     \/ ptParent = "block" /\ ptParent' = "fork" /\ UNCHANGED <<ptChild, ptHow>>
     \/ ptParent = "fork" /\ ptParent' = "setjmp" /\ ptChild' = "reset" /\ UNCHANGED ptHow
     \/ ptParent = "fork" /\ ptParent' = "done" /\ ptHow' = "fork" /\ UNCHANGED ptChild
  /\ UNCHANGED <<ptIgnoreEof, ptJmpSet, ptPending, ptData>>

\* sigprocmask(2) first and then setjmp().
PtSetJmpLate ==
  /\ \/ ptParent = "setjmp" /\ ptParent' = "feed" /\ UNCHANGED ptJmpSet
     \/ ptParent = "feed" /\ ~ptJmpSet /\ ptJmpSet' = TRUE /\ UNCHANGED ptParent
  /\ UNCHANGED <<ptIgnoreEof, ptChild, ptPending, ptData, ptHow>>

\* setjmp() and then sigprocmask(2) in the parent.
PtSetJmp ==
  /\ \/ ptParent = "setjmp" /\ ptParent' = "unblock" /\ ptJmpSet' = TRUE
     \/ ptParent = "unblock" /\ ptParent' = "feed" /\ UNCHANGED ptJmpSet
  /\ UNCHANGED <<ptIgnoreEof, ptChild, ptPending, ptData, ptHow>>

\* feed(fd_master, STDOUT_FILENO): the next chunk; when the program has closed
\* the terminal and all is read, an end of file (EIO on Linux): kill(pid,
\* SIGTERM), and loop() returns.
PtShow ==
  /\ ptParent = "feed"
  /\ \/ ptShown < ptWritten /\ ptShown' = ptShown + 1 /\ UNCHANGED <<ptParent, ptPending, ptHow>>
     \/ /\ ptShown = ptWritten /\ ~ptProgram
        /\ ptParent' = "done" /\ ptHow' = "eof" /\ UNCHANGED ptShown
        /\ ptPending' = IF ptChild = "done" THEN ptPending ELSE ptPending \cup {"child"}
  /\ UNCHANGED <<ptIgnoreEof, ptChild, ptJmpSet, ptProgram, ptWritten, ptTyped, ptEof, ptFed>>

\* SIGTERM while it is not blocked: before sigaction(2) it ends pty; then sigterm_hdr()
\* calls longjmp() to jmp_env, and the parent returns without a word to the child.
PtHangUp ==
  /\ ptParent \in {"install", "block", "feed"} /\ "parent" \in ptPending
  /\ ptPending' = ptPending \ {"parent"}
  /\ ptParent' = CASE ptParent = "install" -> "killed"
                   [] ptParent # "install" /\ ptJmpSet -> "done"
                   [] OTHER -> "wild"
  /\ ptHow' = IF ptParent = "feed" THEN "signal" ELSE "early"
  /\ UNCHANGED <<ptIgnoreEof, ptChild, ptJmpSet, ptData>>

\* The child takes the default action back and only then unblocks SIGTERM.
PtChildReset ==
  /\ \/ ptChild = "reset" /\ ptChild' = "unblock"
     \/ ptChild = "unblock" /\ ptChild' = "copy"
  /\ UNCHANGED <<ptIgnoreEof, ptParent, ptJmpSet, ptPending, ptData, ptHow>>

\* SIGTERM ends the child.
PtChildKilled ==
  /\ ptChild = "copy" /\ "child" \in ptPending
  /\ ptPending' = ptPending \ {"child"} /\ ptChild' = "done"
  /\ UNCHANGED <<ptIgnoreEof, ptParent, ptJmpSet, ptData, ptHow>>

\* feed(STDIN_FILENO, fd_master); the child ends at the end of file, or with an
\* error when nobody has the terminal open, and tells its parent unless -i is
\* given.  After the parent has ended, getppid(2) is another process.
PtFeed ==
  /\ ptChild = "copy"
  /\ \/ ptFed < ptTyped /\ ptFed' = ptFed + 1 /\ UNCHANGED <<ptChild, ptPending>>
     \/ /\ (ptFed = ptTyped /\ ptEof) \/ (ptFed < ptTyped /\ ~ptProgram)
        /\ ptChild' = "done" /\ UNCHANGED ptFed
        /\ ptPending' = IF ptIgnoreEof \/ ptParent \in PtEnded THEN ptPending
                        ELSE ptPending \cup {"parent"}
  /\ UNCHANGED <<ptIgnoreEof, ptParent, ptJmpSet, ptProgram, ptWritten, ptShown, ptTyped, ptEof, ptHow>>

\* The program writes, or ends; the end of the parent hangs up its terminal.
PtProgram ==
  /\ ptProgram
  /\ \/ ptWritten < PtChunks /\ ptWritten' = ptWritten + 1 /\ UNCHANGED ptProgram
     \/ ptProgram' = FALSE /\ UNCHANGED ptWritten
  /\ UNCHANGED <<ptIgnoreEof, ptParent, ptChild, ptJmpSet, ptPending, ptShown, ptTyped, ptEof, ptFed, ptHow>>

\* The user types, ends the input, or sends SIGTERM to pty himself.
PtUser ==
  /\ \/ ~ptEof /\ ptTyped < PtChunks /\ ptTyped' = ptTyped + 1 /\ UNCHANGED <<ptEof, ptPending>>
     \/ ~ptEof /\ ptEof' = TRUE /\ UNCHANGED <<ptTyped, ptPending>>
     \/ /\ ptParent \notin PtEnded /\ ptPending' = ptPending \cup {"parent"}
        /\ UNCHANGED <<ptTyped, ptEof>>
  /\ UNCHANGED <<ptIgnoreEof, ptParent, ptChild, ptJmpSet, ptProgram, ptWritten, ptShown, ptFed, ptHow>>

PtParentStep == PtPrepare \/ PtSetJmp \/ PtShow
PtChildStep == PtChildReset \/ PtFeed
PtNext == PtParentStep \/ PtHangUp \/ PtChildStep \/ PtChildKilled \/ PtProgram \/ PtUser

PtSpec == PtInit /\ [][PtNext]_ptVars
----------------------------------------------------------------------------
\* Whenever SIGTERM comes after fork(2), the parent does not jump to an environment it has
\* not saved: only in the window between sigaction(2) and sigprocmask(2), lines 308 to 314,
\* it does.  And a parent that ends because the program did has shown everything the
\* program wrote.
PtSafe ==
  /\ ptParent = "wild" => ptHow = "early" /\ ptChild = "none"
  /\ ptHow = "eof" => ptShown = ptWritten

\* "This ensures that the parent does not receive the signal before it even
\* calls setjmp(3)" (pty.c:382): the handler never jumps before that.
PtGuarded == ptParent # "wild"

\* "The parent would block forever in the call to read(2)" (pty.c:367) does not
\* happen: a child that reached the end of its input ends its parent unless -i is
\* given, and a parent that saw the program end ends its child.
PtMustEnd == (ptChild = "done" /\ ~ptIgnoreEof) \/ ptHow = "eof"
PtBothEnded == ptChild = "done" /\ ptParent = "done"
PtEnds == PtMustEnd ~> PtBothEnded
----------------------------------------------------------------------------
(* knowledge_based/linux_internals/coprocesses: driver.c sends each line it    *)
(* reads to a coprocess and prints the answer; cproc.c adds two numbers, with  *)
(* read(2) and write(2) or with stdio in line-buffered mode.  A line is a      *)
(* sequence of its operands; what is no pair of numbers is answered with an    *)
(* error.                                                                      *)

CONSTANTS
  CoTyped,  \* the lines a user may type: sequences of operands
  CoLines   \* bound: lines typed

ASSUME CoAssumption ==
  CoLines \in Nat /\ CoTyped \subseteq Seq(Int) /\ \A l \in CoTyped : Len(l) <= 2

VARIABLES
  coStdio,   \* the coprocess was compiled with USE_STDIO
  coTo,      \* driver_to_cproc: lines
  coFrom,    \* cproc_to_driver: answers
  coOpen,    \* the driver's write end is open
  coDriver,  \* where the driver stands
  coChild,   \* where the coprocess stands
  coBuff,    \* the coprocess's input buffer, as sscanf(3) sees it
  coReply,   \* what the coprocess is about to write
  coAsked,   \* the lines the driver sent
  coAnswered \* the answers the driver printed

coVars == <<coStdio, coTo, coFrom, coOpen, coDriver, coChild, coBuff, coReply, coAsked, coAnswered>>

\* The answer "Invalid arguments."; a sum is a sequence of one number.
Invalid == <<>>

CoInit ==
  /\ coStdio \in BOOLEAN
  /\ coTo = <<>> /\ coFrom = <<>> /\ coOpen = TRUE /\ coDriver = "input" /\ coChild = "read"
  /\ coBuff = <<>> /\ coReply = <<>> /\ coAsked = <<>> /\ coAnswered = <<>>

\* fgets() and write(2).  SIGPIPE is ignored: to a coprocess that is gone the
\* write fails and the driver exits.
CoWrite(l) ==
  /\ coDriver = "input" /\ Len(coAsked) < CoLines
  /\ IF coChild = "gone"
     THEN coDriver' = "failed" /\ coOpen' = FALSE /\ UNCHANGED <<coTo, coAsked>>
     ELSE /\ coDriver' = "answer" /\ coTo' = Append(coTo, l) /\ coAsked' = Append(coAsked, l)
          /\ UNCHANGED coOpen
  /\ UNCHANGED <<coStdio, coFrom, coChild, coBuff, coReply, coAnswered>>

\* read(2) of the answer; an end of file means that the coprocess died.
CoRead ==
  /\ coDriver = "answer"
  /\ \/ /\ coFrom # <<>>
        /\ coAnswered' = Append(coAnswered, Head(coFrom)) /\ coFrom' = Tail(coFrom)
        /\ coDriver' = "input" /\ UNCHANGED coOpen
     \/ /\ coFrom = <<>> /\ coChild = "gone"
        /\ coDriver' = "failed" /\ coOpen' = FALSE /\ UNCHANGED <<coAnswered, coFrom>>
  /\ UNCHANGED <<coStdio, coTo, coChild, coBuff, coReply, coAsked>>

\* End of file on stdin: main_loop() returns and the pipe is closed.
CoEnd ==
  /\ coDriver = "input" /\ coDriver' = "done" /\ coOpen' = FALSE
  /\ UNCHANGED <<coStdio, coTo, coFrom, coChild, coBuff, coReply, coAsked, coAnswered>>

\* read(2) puts the line over what the buffer held, and sscanf(3) goes on into
\* the rest of it: a line without two operands may find the ones of an
\* earlier line.  fgets() ends the line with a null character.
Overlaid(old, l) == IF Len(l) < Len(old) THEN l \o SubSeq(old, Len(l) + 1, Len(old)) ELSE l
Answer(b) == IF Len(b) = 2 THEN <<b[1] + b[2]>> ELSE Invalid

ChildRead ==
  /\ coChild = "read"
  /\ \/ /\ coTo # <<>> /\ coTo' = Tail(coTo) /\ coChild' = "write"
        /\ coBuff' \in {Head(coTo), IF coStdio THEN Head(coTo) ELSE Overlaid(coBuff, Head(coTo))}
        /\ coReply' = <<Answer(coBuff')>>
     \/ /\ coTo = <<>> /\ ~coOpen /\ coChild' = "gone" /\ UNCHANGED <<coTo, coBuff, coReply>>
  /\ UNCHANGED <<coStdio, coFrom, coOpen, coDriver, coAsked, coAnswered>>

\* write(2), or printf(3) of a line in line-buffered mode.  Without the call
\* of setvbuf(3) the answer would stay in the buffer.
ChildWrite ==
  /\ coChild = "write" /\ coReply' = <<>>
  /\ IF coDriver \in {"failed", "done"}
     THEN coChild' = "gone" /\ UNCHANGED coFrom
     ELSE coChild' = "read" /\ coFrom' = coFrom \o coReply
  /\ UNCHANGED <<coStdio, coTo, coOpen, coDriver, coBuff, coAsked, coAnswered>>

\* The coprocess is killed, wherever it is.
ChildDies ==
  /\ coChild # "gone" /\ coChild' = "gone"
  /\ UNCHANGED <<coStdio, coTo, coFrom, coOpen, coDriver, coBuff, coReply, coAsked, coAnswered>>

CoDriver == CoRead \/ CoEnd \/ \E l \in CoTyped : CoWrite(l)
CoChild == ChildRead \/ ChildWrite
CoNext == CoDriver \/ CoChild \/ ChildDies

CoSpec == CoInit /\ [][CoNext]_coVars
----------------------------------------------------------------------------
\* The answers come back one per line and in order, and a line with two
\* operands is answered with their sum, whatever was in the buffer before; with
\* stdio every line is answered as it should be.
CoMatches ==
  /\ Len(coAnswered) <= Len(coAsked) /\ Len(coAsked) - Len(coAnswered) <= 1
  /\ \A i \in DOMAIN coAnswered :
       (coStdio \/ Len(coAsked[i]) = 2) => coAnswered[i] = Answer(coAsked[i])

\* "the driver process will block waiting for the reply from the coprocess -
\* deadlock!" (cproc.c:61) does not happen: a driver that waits for an answer
\* gets it or learns that the coprocess is gone.
CoWaits == coDriver = "answer"
CoReplies == CoWaits ~> ~CoWaits
=============================================================================
