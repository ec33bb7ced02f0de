------------------------------ MODULE OpenServer ------------------------------
(* knowledge_based/linux_internals/open_server: a server that opens files for  *)
(* its clients and passes the descriptors back.  As a daemon (Od) it serves    *)
(* all clients from one edge-triggered epoll(7) loop; as a child process (Of)  *)
(* it serves the one request of the client that forked it.  A request names a  *)
(* file that can be opened ("file"), one that cannot ("missing"), or one whose *)
(* name holds a blank: after which comes a number ("numbered"), so that the    *)
(* server takes the first word for the name and the number for the mode (if    *)
(* that file cannot be opened, it is "missing"), or something else ("blank"),  *)
(* a bad request which it does not answer.                                     *)
EXTENDS Integers, Sequences, FiniteSets

CONSTANTS
  OdClients,  \* the clients of the daemon
  OdAsks      \* bound: requests per client

ASSUME OdAssumption == OdAsks \in Nat

VARIABLES
  odBacklog,  \* connections waiting for accept(2)
  odReg,      \* clients in the epoll set
  odReady,    \* edges not reported yet
  odEvents,   \* what epoll_wait(2) returned and main_loop() has not handled
  odCurrent,  \* the answer being sent: <<client, answer>>, or <<>>
  odOpened,   \* how many descriptors of opened files the daemon holds
  odSignals,  \* signals pending on the signal descriptor
  odDaemon,   \* "run", "left" (leave()) or "killed"
  odPc,       \* per client: where it stands
  odAsk,      \* per client: the request under way
  odInput,    \* per client: a request waits in its socket
  odReply,    \* per client: the answer in its socket
  odLog,      \* per client: the requests answered, each with its answer
  ofClient,   \* where the forking client stands
  ofChild,    \* where its server stands
  ofAsk,      \* its request
  ofInput,    \* the request waits in the socket
  ofReply,    \* the answer in the socket
  ofLog       \* its requests with what serv_open() returned

odVars == <<odBacklog, odReg, odReady, odEvents, odCurrent, odOpened, odSignals, odDaemon,
            odPc, odAsk, odInput, odReply, odLog>>
ofVars == <<ofClient, ofChild, ofAsk, ofInput, ofReply, ofLog>>
odDaemonSide == <<odEvents, odCurrent, odOpened, odDaemon>>
odClientSide == <<odPc, odAsk, odLog>>

Asks == {"file", "missing", "numbered", "blank"}
\* serve_client_request(), handle_request(): sscanf(3), then send_fd() of the file or,
\* when the name was misread, of another one, or send_errno(), or nothing.
AnswersTo(ask) ==
  CASE ask = "file" -> {"fd"}
    [] ask = "missing" -> {"errno"}
    [] ask = "numbered" -> {"other"}
    [] OTHER -> {}
Descriptors(answer) == IF answer \in {"fd", "other"} THEN 1 ELSE 0

OdInit ==
  /\ odBacklog = <<>> /\ odReg = {} /\ odReady = {} /\ odEvents = {} /\ odCurrent = <<>>
  /\ odOpened = 0 /\ odSignals = {} /\ odDaemon = "run"
  /\ odPc = [c \in OdClients |-> "start"] /\ odAsk = [c \in OdClients |-> "none"]
  /\ odInput = [c \in OdClients |-> FALSE] /\ odReply = [c \in OdClients |-> "none"]
  /\ odLog = [c \in OdClients |-> <<>>]

Gone(c) == odPc[c] = "gone"
OdGoes(c, at) == odPc' = [odPc EXCEPT ![c] = at]
Edge(c) == odReady' = IF c \in odReg THEN odReady \cup {c} ELSE odReady

\* serv_connect().
OdConnect(c) ==
  /\ odPc[c] = "start"
  /\ IF odDaemon = "run"
     THEN OdGoes(c, "idle") /\ odBacklog' = Append(odBacklog, c) /\ odReady' = odReady \cup {"sock"}
     ELSE OdGoes(c, "gone") /\ UNCHANGED <<odBacklog, odReady>>
  /\ UNCHANGED <<odReg, odDaemonSide, odSignals, odAsk, odInput, odReply, odLog>>

\* serv_open(), the request.  To a daemon that is gone it raises SIGPIPE.
OdRequest(c, ask) ==
  /\ odPc[c] = "idle" /\ Len(odLog[c]) < OdAsks
  /\ IF odDaemon = "run"
     THEN /\ OdGoes(c, "await") /\ odAsk' = [odAsk EXCEPT ![c] = ask]
          /\ odInput' = [odInput EXCEPT ![c] = TRUE] /\ Edge(c)
     ELSE OdGoes(c, "gone") /\ UNCHANGED <<odAsk, odInput, odReady>>
  /\ UNCHANGED <<odBacklog, odReg, odDaemonSide, odSignals, odReply, odLog>>

\* serv_open(), recv_fd(): the answer, or an error because the daemon is gone.
OdReceive(c) ==
  /\ odPc[c] = "await" /\ (odReply[c] # "none" \/ odDaemon # "run")
  /\ odLog' = [odLog EXCEPT ![c] = Append(@, <<odAsk[c], odReply[c]>>)]
  /\ odReply' = [odReply EXCEPT ![c] = "none"] /\ odAsk' = [odAsk EXCEPT ![c] = "none"]
  /\ OdGoes(c, "idle")
  /\ UNCHANGED <<odBacklog, odReg, odReady, odDaemonSide, odSignals, odInput>>

\* The client has no more files, or is interrupted anywhere: an edge too.
OdLeave(c) ==
  /\ odPc[c] \in {"idle", "await"}
  /\ OdGoes(c, "gone") /\ Edge(c)
  /\ UNCHANGED <<odBacklog, odReg, odDaemonSide, odSignals, odAsk, odInput, odReply, odLog>>

\* SIGHUP or SIGTERM for the daemon; SIGINT is treated like the latter.
OdSignal(s) ==
  /\ odDaemon = "run"
  /\ odSignals' = odSignals \cup {s} /\ odReady' = odReady \cup {"sig"}
  /\ UNCHANGED <<odBacklog, odReg, odDaemonSide, odClientSide, odInput, odReply>>

\* epoll_wait(2): the edges of descriptors that have something to report; a
\* client that is gone is reported as hung up.
Reportable(fd) ==
  CASE fd = "sock" -> odBacklog # <<>>
    [] fd = "sig" -> odSignals # {}
    [] OTHER -> odInput[fd] \/ Gone(fd)
OdWait ==
  /\ odDaemon = "run" /\ odEvents = {} /\ odCurrent = <<>>
  /\ odEvents' = {<<fd, fd \in OdClients /\ Gone(fd)>> : fd \in {f \in odReady : Reportable(f)}}
  /\ odEvents' # {} /\ odReady' = {}
  /\ UNCHANGED <<odBacklog, odReg, odCurrent, odOpened, odDaemon, odSignals, odClientSide,
                 odInput, odReply>>

Handles(e) == odDaemon = "run" /\ odCurrent = <<>> /\ e \in odEvents
Handled(e) == odEvents' = odEvents \ {e}

\* A client hung up: it leaves the epoll set; its descriptor stays open.
OdHangUp(e) ==
  /\ Handles(e) /\ e[2] /\ Handled(e)
  /\ odReg' = odReg \ {e[1]}
  /\ UNCHANGED <<odBacklog, odReady, odCurrent, odOpened, odDaemon, odSignals, odClientSide,
                 odInput, odReply>>

\* handle_event() of the signal descriptor: one signal is read, the one with
\* the lowest number, and leave() removes the name and exits.
OdTakeSignal(e) ==
  /\ Handles(e) /\ e[1] = "sig" /\ Handled(e)
  /\ LET s == IF "HUP" \in odSignals THEN "HUP" ELSE "TERM" IN
       /\ odSignals' = odSignals \ {s}
       /\ odDaemon' = IF s = "TERM" THEN "left" ELSE odDaemon
  /\ UNCHANGED <<odBacklog, odReg, odReady, odCurrent, odOpened, odClientSide, odInput, odReply>>

\* handle_event() of the socket: one connection is accepted.
OdAccept(e) ==
  /\ Handles(e) /\ e[1] = "sock" /\ Handled(e)
  /\ LET c == Head(odBacklog) IN
       /\ odBacklog' = Tail(odBacklog) /\ odReg' = odReg \cup {c}
       /\ odReady' = IF odInput[c] \/ Gone(c) THEN odReady \cup {c} ELSE odReady
  /\ UNCHANGED <<odCurrent, odOpened, odDaemon, odSignals, odClientSide, odInput, odReply>>

\* handle_client_request() up to the answer.
OdServe(e) ==
  /\ Handles(e) /\ e[1] \in OdClients /\ ~e[2] /\ Handled(e)
  /\ LET c == e[1] IN
       IF odInput[c] /\ AnswersTo(odAsk[c]) # {}
       THEN \E answer \in AnswersTo(odAsk[c]) :
              odCurrent' = <<c, answer>> /\ odOpened' = odOpened + Descriptors(answer)
       ELSE UNCHANGED <<odCurrent, odOpened>>
  /\ odInput' = [odInput EXCEPT ![e[1]] = FALSE]
  /\ UNCHANGED <<odBacklog, odReg, odReady, odDaemon, odSignals, odClientSide, odReply>>

\* send_fd() or send_errno(), then the daemon's own descriptor is closed.  To a
\* client that is gone it raises SIGPIPE, which the daemon does not handle.
OdAnswerKeeps ==
  /\ odDaemon = "run" /\ odCurrent # <<>>
  /\ IF Gone(odCurrent[1])
     THEN odDaemon' = "killed" /\ UNCHANGED odReply
     ELSE odReply' = [odReply EXCEPT ![odCurrent[1]] = odCurrent[2]] /\ UNCHANGED odDaemon
  /\ odCurrent' = <<>>
  /\ UNCHANGED <<odOpened, odBacklog, odReg, odReady, odEvents, odSignals, odClientSide, odInput>>
OdAnswer ==
  /\ odDaemon = "run" /\ odCurrent # <<>>
  /\ IF Gone(odCurrent[1])
     THEN odDaemon' = "killed" /\ UNCHANGED odReply
     ELSE odReply' = [odReply EXCEPT ![odCurrent[1]] = odCurrent[2]] /\ UNCHANGED odDaemon
  /\ odOpened' = odOpened - Descriptors(odCurrent[2])
  /\ odCurrent' = <<>>
  /\ UNCHANGED <<odBacklog, odReg, odReady, odEvents, odSignals, odClientSide, odInput>>

OdStep ==
  OdWait \/ OdAnswer
  \/ \E e \in odEvents : OdHangUp(e) \/ OdTakeSignal(e) \/ OdAccept(e) \/ OdServe(e)
OdNext ==
  \/ OdStep
  \/ \E s \in {"HUP", "TERM"} : OdSignal(s)
  \/ \E c \in OdClients :
       OdConnect(c) \/ OdReceive(c) \/ OdLeave(c) \/ \E ask \in Asks : OdRequest(c, ask)

OfInit ==
  /\ ofClient = "idle" /\ ofChild = "none" /\ ofAsk = "none" /\ ofInput = FALSE
  /\ ofReply = "none" /\ ofLog = <<>>

\* serv_open() of fork_exec: a socket pair and a child to execute the server.
OfFork(ask) ==
  /\ ofClient = "idle" /\ Len(ofLog) < OdAsks
  /\ ofAsk' = ask /\ ofClient' = "send" /\ ofChild' = "exec"
  /\ UNCHANGED <<ofInput, ofReply, ofLog>>

\* execl(2), which may fail.
OfExec ==
  /\ ofChild = "exec" /\ ofChild' \in {"recv", "gone"}
  /\ UNCHANGED <<ofClient, ofAsk, ofInput, ofReply, ofLog>>

\* The request; to a child that is gone it raises SIGPIPE.
OfSend ==
  /\ ofClient = "send"
  /\ IF ofChild = "gone" THEN ofClient' = "killed" /\ UNCHANGED ofInput
     ELSE ofClient' = "await" /\ ofInput' = TRUE
  /\ UNCHANGED <<ofChild, ofAsk, ofReply, ofLog>>

\* The loop of the server: recvmsg(2), handle_request(), and the end when the
\* client has closed its side.
OfServe ==
  /\ ofChild = "recv"
  /\ \/ /\ ofInput /\ ofInput' = FALSE
        /\ ofReply' \in IF AnswersTo(ofAsk) = {} THEN {ofReply} ELSE AnswersTo(ofAsk)
        /\ UNCHANGED ofChild
     \/ ~ofInput /\ ofClient \in {"wait", "killed"} /\ ofChild' = "gone" /\ UNCHANGED <<ofInput, ofReply>>
  /\ UNCHANGED <<ofClient, ofAsk, ofLog>>

\* recv_fd(): the answer, or an error because the child is gone; then close(2).
OfReceive ==
  /\ ofClient = "await" /\ (ofReply # "none" \/ ofChild = "gone")
  /\ ofLog' = Append(ofLog, <<ofAsk, ofReply>>) /\ ofReply' = "none" /\ ofClient' = "wait"
  /\ UNCHANGED <<ofChild, ofAsk, ofInput>>

\* waitpid(2).
OfReap ==
  /\ ofClient = "wait" /\ ofChild = "gone"
  /\ ofClient' = "idle" /\ ofChild' = "none" /\ ofAsk' = "none" /\ ofInput' = FALSE
  /\ UNCHANGED <<ofReply, ofLog>>

OfStep == OfExec \/ OfSend \/ OfServe \/ OfReceive \/ OfReap
OfNext == OfStep \/ \E ask \in Asks : OfFork(ask)

OdSpec == OdInit /\ [][OdNext]_odVars
OfSpec == OfInit /\ [][OfNext]_ofVars
----------------------------------------------------------------------------
\* A client gets the descriptor of the file it asked for, or an error for one
\* that cannot be opened, and never the answer to another request, whatever the
\* order in which the clients' requests come; only a name with a blank and a number
\* gets the descriptor of another file, the one sscanf(3) makes of it.  The error of
\* a server that is gone is told apart.  The daemon keeps no descriptor of a file it
\* opened.
OdRight == \A c \in OdClients : \A i \in DOMAIN odLog[c] :
             odLog[c][i][2] \in AnswersTo(odLog[c][i][1]) \cup {"none"}
OfRight == \A i \in DOMAIN ofLog : ofLog[i][2] \in AnswersTo(ofLog[i][1]) \cup {"none"}
OpenAnswers == OdRight /\ (odCurrent = <<>> => odOpened = 0) /\ OfRight

\* A request that reached the server is answered, unless the client goes away or the
\* daemon does, or its name holds a blank and no number after it.  It reaches the
\* daemon once the client is accepted, or when it is the next to be accepted and the
\* edge of the socket is still there: of two connections that come with one edge the
\* second stays in the backlog, and its client waits until another one connects.
OdHeard(c) ==
  \/ c \in odReg
  \/ /\ odBacklog # <<>> /\ Head(odBacklog) = c
     /\ "sock" \in odReady \/ \E e \in odEvents : e[1] = "sock"
OdAsked(c) == odPc[c] = "await" /\ odAsk[c] # "blank" /\ OdHeard(c)
OdAnswered(c) == odPc[c] # "await"
OfAsked == ofClient = "await" /\ ofAsk # "blank"
OfAnswered == ofClient = "idle"
OpenReplies ==
  /\ \A c \in OdClients : OdAsked(c) ~> OdAnswered(c)
  /\ OfAsked ~> OfAnswered
=============================================================================
