------------------------------- MODULE EchoPair -------------------------------
(* knowledge_based/linux_internals/client_server: an echo server and its      *)
(* clients, over FIFOs or over UNIX domain sockets behind the same interface. *)
(* A pipe or a socket holds whole messages; one read(2) takes all of them.    *)
EXTENDS Integers, Sequences, SequencesExt

CONSTANTS
  EcClients,  \* the client processes, each with a process id of its own
  EcLines     \* bound: lines typed at one client

ASSUME EcAssumption == EcLines \in Nat

VARIABLES
  ecKind,   \* "fifo" or "unix"
  ecFiles,  \* the names in the file system
  ecReq,    \* connection requests not taken yet: the main FIFO, or the backlog
  ecEnds,   \* the open ends of the channels
  ecEver,   \* the ends that were ever opened: what open(2) of a FIFO waits for
  ecUp,     \* per client: the messages on their way to the server
  ecDown,   \* per client: the messages on their way back
  ecPc,     \* per client: where it stands
  ecSent,   \* per client: the lines sent; line i is the message i
  ecGot,    \* per client: the messages received
  ecServer, \* where the server stands
  ecPeer,   \* the client the server accepted, or "nobody"
  ecBuf     \* the server's buffer

ecVars == <<ecKind, ecFiles, ecReq, ecEnds, ecEver, ecUp, ecDown, ecPc, ecSent, ecGot,
            ecServer, ecPeer, ecBuf>>

QUIT == 0
Main == <<"server", "main">>
OwnFiles(c) == IF ecKind = "fifo" THEN {<<c, "r">>, <<c, "w">>} ELSE {<<c, "socket">>}
\* The ends each side holds: "up" leads to the server, "down" to the client.
ClientEnds(c) == {<<c, "up", "wr">>, <<c, "down", "rd">>}
ServerEnds(c) == {<<c, "up", "rd">>, <<c, "down", "wr">>}
\* How a server ends; "left" is the exit that leaves its FIFO (see SrvSignal).
ServerEnded == {"done", "left", "failed", "killed"}

EcInit ==
  /\ ecKind \in {"fifo", "unix"}
  /\ ecFiles = {} /\ ecReq = <<>> /\ ecEnds = {} /\ ecEver = {}
  /\ ecUp = [c \in EcClients |-> <<>>] /\ ecDown = [c \in EcClients |-> <<>>]
  /\ ecPc = [c \in EcClients |-> "start"]
  /\ ecSent = [c \in EcClients |-> 0] /\ ecGot = [c \in EcClients |-> <<>>]
  /\ ecServer = "start" /\ ecPeer = "nobody" /\ ecBuf = <<>>

Opens(ends) == ecEnds' = ecEnds \cup ends /\ ecEver' = ecEver \cup ends
Closes(ends) == ecEnds' = ecEnds \ ends /\ UNCHANGED ecEver
Goes(c, at) == ecPc' = [ecPc EXCEPT ![c] = at]
ChannelsSame == UNCHANGED <<ecUp, ecDown, ecSent, ecGot>>
ServerSame == UNCHANGED <<ecKind, ecServer, ecPeer, ecBuf>>
ClientsSame == UNCHANGED <<ecKind, ecPc, ecSent, ecGot>>

\* connect_to(), the client's own names: create_fifos(), or unlink(2), bind(2)
\* and chmod(2) of the socket.
CliCreate(c) ==
  /\ ecPc[c] = "start" /\ Goes(c, "request")
  /\ ecFiles' = ecFiles \cup OwnFiles(c)
  /\ UNCHANGED <<ecReq, ecEnds, ecEver>> /\ ChannelsSame /\ ServerSame

\* The process id into the main FIFO.  A FIFO nobody reads takes it as well.
CliRequestFifo(c) ==
  /\ ecPc[c] = "request" /\ ecKind = "fifo"
  /\ IF Main \in ecFiles
     THEN Goes(c, "open1") /\ ecReq' = Append(ecReq, c) /\ UNCHANGED ecFiles
     ELSE Goes(c, "failed") /\ ecFiles' = ecFiles \ OwnFiles(c) /\ UNCHANGED ecReq
  /\ UNCHANGED <<ecEnds, ecEver>> /\ ChannelsSame /\ ServerSame

\* connect(2): both directions are open before the server accepts.  When it
\* fails the client's name stays in the file system.
Listening == ecServer \notin ServerEnded \cup {"start", "made", "opened"}
CliConnectUnix(c) ==
  /\ ecPc[c] = "request" /\ ecKind = "unix"
  /\ IF Listening
     THEN /\ Goes(c, "connected") /\ ecReq' = Append(ecReq, c)
          /\ Opens(ClientEnds(c) \cup ServerEnds(c))
     ELSE Goes(c, "failed") /\ UNCHANGED <<ecReq, ecEnds, ecEver>>
  /\ UNCHANGED ecFiles /\ ChannelsSame /\ ServerSame

\* open_fifos(ochan, 1): open(2) blocks until the other end was opened; the
\* read end first.
CliOpenWriteFirst(c) ==
  /\ \/ ecPc[c] = "open1" /\ Opens({<<c, "up", "wr">>}) /\ Goes(c, "open2")
     \/ /\ ecPc[c] = "open2" /\ <<c, "up", "rd">> \in ecEver
        /\ Opens({<<c, "down", "rd">>}) /\ Goes(c, "open3")
  /\ UNCHANGED <<ecFiles, ecReq>> /\ ChannelsSame /\ ServerSame
CliOpen(c) ==
  /\ \/ ecPc[c] = "open1" /\ Opens({<<c, "down", "rd">>}) /\ Goes(c, "open2")
     \/ /\ ecPc[c] = "open2" /\ <<c, "down", "wr">> \in ecEver
        /\ Opens({<<c, "up", "wr">>}) /\ Goes(c, "open3")
  /\ UNCHANGED <<ecFiles, ecReq>> /\ ChannelsSame /\ ServerSame

\* Both ends are open: the names are not needed any more.
CliOpenedKeeps(c) ==
  /\ ecPc[c] = "open3" /\ <<c, "up", "rd">> \in ecEver
  /\ Goes(c, "connected")
  /\ UNCHANGED <<ecFiles, ecReq, ecEnds, ecEver>> /\ ChannelsSame /\ ServerSame
CliOpened(c) ==
  /\ ecPc[c] = "open3" /\ <<c, "up", "rd">> \in ecEver
  /\ Goes(c, "connected") /\ ecFiles' = ecFiles \ OwnFiles(c)
  /\ UNCHANGED <<ecReq, ecEnds, ecEver>> /\ ChannelsSame /\ ServerSame

\* setup_signals().
CliSetup(c) ==
  /\ ecPc[c] = "connected" /\ Goes(c, "type")
  /\ UNCHANGED <<ecFiles, ecReq, ecEnds, ecEver>> /\ ChannelsSame /\ ServerSame

\* send_info() to a server that has closed its end raises SIGPIPE.
CliSends(c, m, at) ==
  IF <<c, "up", "rd">> \in ecEnds
  THEN ecUp' = [ecUp EXCEPT ![c] = Append(@, m)] /\ Goes(c, at)
  ELSE UNCHANGED ecUp /\ Goes(c, "killed")

\* A line from stdin.
CliLine(c) ==
  /\ ecPc[c] = "type" /\ ecSent[c] < EcLines
  /\ CliSends(c, ecSent[c] + 1, "recv")
  /\ IF ecPc'[c] = "killed" THEN Closes(ClientEnds(c)) /\ UNCHANGED ecSent
     ELSE UNCHANGED <<ecEnds, ecEver>> /\ ecSent' = [ecSent EXCEPT ![c] = @ + 1]
  /\ UNCHANGED <<ecFiles, ecReq, ecDown, ecGot>> /\ ServerSame

\* recv_info(): what there is, or nothing when the server is gone.
CliRecv(c) ==
  /\ ecPc[c] = "recv"
  /\ ecDown[c] # <<>> \/ <<c, "down", "wr">> \notin ecEnds
  /\ ecGot' = [ecGot EXCEPT ![c] = @ \o ecDown[c]]
  /\ ecDown' = [ecDown EXCEPT ![c] = <<>>]
  /\ Goes(c, "type")
  /\ UNCHANGED <<ecFiles, ecReq, ecEnds, ecEver, ecUp, ecSent>> /\ ServerSame

\* The quit message, from main() or from shutdown_handler(); SIGPIPE has no handler.
CliSendsQuit(c, at) ==
  /\ CliSends(c, QUIT, at)
  /\ IF ecPc'[c] = "killed" THEN Closes(ClientEnds(c)) ELSE UNCHANGED <<ecEnds, ecEver>>
  /\ UNCHANGED <<ecFiles, ecReq, ecDown, ecSent, ecGot>> /\ ServerSame

\* End of file on stdin.
CliEof(c) == ecPc[c] = "type" /\ CliSendsQuit(c, "goodbye")

\* SIGINT or SIGTERM once the handlers are set up: shutdown_handler() tells the server to
\* quit, although main() may have done so; the other of the two signals interrupts it.
CliSignal(c) ==
  \/ ecPc[c] \in {"type", "recv", "goodbye"} /\ CliSendsQuit(c, "leaving")
  \/ ecPc[c] = "leaving" /\ CliSendsQuit(c, "leaving again")

\* disconnect_from() and exit.  A signal in the middle of it, over FIFOs, sends the quit
\* message once more and frees the names twice.
CliLeave(c) ==
  /\ ecPc[c] \in {"goodbye", "leaving", "leaving again"}
  /\ \/ Goes(c, "done") /\ UNCHANGED ecUp
     \/ ecPc[c] # "leaving again" /\ ecKind = "fifo" /\ CliSends(c, QUIT, "killed")
  /\ Closes(ClientEnds(c))
  /\ ecFiles' = IF ecKind = "fifo" THEN ecFiles \ OwnFiles(c) ELSE ecFiles
  /\ UNCHANGED <<ecReq, ecDown, ecSent, ecGot>> /\ ServerSame

\* A signal before that kills the client where it is.
CliKilled(c) ==
  /\ ecPc[c] \in {"start", "request", "open1", "open2", "open3", "connected"}
  /\ Goes(c, "killed") /\ Closes(ClientEnds(c))
  /\ UNCHANGED <<ecFiles, ecReq>> /\ ChannelsSame /\ ServerSame

\* The process is gone: its ends are closed, and so are those of the
\* connections that wait in the backlog.
SrvExit(at) ==
  /\ ecServer' = at
  /\ Closes(UNION {ServerEnds(c) : c \in EcClients})
  /\ ecFiles' = IF ecKind = "fifo" /\ at \in {"done", "failed"} THEN ecFiles \ {Main} ELSE ecFiles

\* new_server(): over FIFOs mkfifo(2), fopen(3) and strdup(3), of which the last two may
\* fail; the socket's name is removed and bound.
SrvCreate ==
  /\ \/ /\ ecServer = "start" /\ ecFiles' = ecFiles \cup {Main} /\ UNCHANGED <<ecEnds, ecEver>>
        /\ ecServer' = IF ecKind = "fifo" THEN "made" ELSE "accept"
     \/ /\ ecServer = "made" /\ ecServer' = "opened" /\ UNCHANGED <<ecFiles, ecEnds, ecEver>>
     \/ /\ ecServer = "opened" /\ ecServer' = "accept" /\ UNCHANGED <<ecFiles, ecEnds, ecEver>>
     \/ /\ ecServer \in {"made", "opened"} /\ SrvExit("failed")
  /\ UNCHANGED <<ecReq, ecUp, ecDown, ecPeer, ecBuf>> /\ ClientsSame

\* accept_client() over FIFOs: the process id, then the FIFOs it names, the
\* write end first.
SrvAcceptFifo ==
  /\ ecKind = "fifo"
  /\ \/ /\ ecServer = "accept" /\ ecReq # <<>>
        /\ ecPeer' = Head(ecReq) /\ ecReq' = Tail(ecReq) /\ ecServer' = "open1"
        /\ UNCHANGED <<ecEnds, ecEver>>
     \/ /\ ecServer = "open1" /\ Opens({<<ecPeer, "down", "wr">>})
        /\ ecServer' = "open2" /\ UNCHANGED <<ecPeer, ecReq>>
     \/ /\ ecServer = "open2" /\ <<ecPeer, "down", "rd">> \in ecEver
        /\ Opens({<<ecPeer, "up", "rd">>})
        /\ ecServer' = "open3" /\ UNCHANGED <<ecPeer, ecReq>>
     \/ /\ ecServer = "open3" /\ <<ecPeer, "up", "wr">> \in ecEver
        /\ ecServer' = "recv" /\ UNCHANGED <<ecEnds, ecEver, ecPeer, ecReq>>
  /\ UNCHANGED <<ecFiles, ecUp, ecDown, ecBuf>> /\ ClientsSame

\* accept_client() over a socket: the client's name is checked and removed; a
\* name older than STALE_TIME is refused and the server ends.
SrvAcceptUnix ==
  /\ ecKind = "unix" /\ ecServer = "accept" /\ ecReq # <<>>
  /\ ecPeer' = Head(ecReq) /\ ecReq' = Tail(ecReq)
  /\ \/ ecServer' = "recv" /\ UNCHANGED <<ecEnds, ecEver>>
     \/ ecServer' = "failed" /\ Closes(UNION {ServerEnds(c) : c \in EcClients})
  /\ ecFiles' = ecFiles \ OwnFiles(ecPeer')
  /\ UNCHANGED <<ecUp, ecDown, ecBuf>> /\ ClientsSame

\* recv_info() in main(): a message that is exactly the quit message ends the
\* server, and so does the end of the channel.
SrvRecvAgain ==
  /\ ecServer = "recv"
  /\ IF ecUp[ecPeer] # <<>>
     THEN /\ ecBuf' = ecUp[ecPeer]
          /\ IF ecBuf' = <<QUIT>> THEN SrvExit("done")
             ELSE ecServer' = "send" /\ UNCHANGED <<ecEnds, ecEver, ecFiles>>
     ELSE <<ecPeer, "up", "wr">> \notin ecEnds /\ SrvExit("done") /\ UNCHANGED ecBuf
  /\ UNCHANGED <<ecReq, ecUp, ecDown, ecPeer>> /\ ClientsSame
SrvRecv ==
  /\ ecServer = "recv"
  /\ IF ecUp[ecPeer] # <<>>
     THEN /\ ecBuf' = ecUp[ecPeer] /\ ecUp' = [ecUp EXCEPT ![ecPeer] = <<>>]
          /\ IF ecBuf' = <<QUIT>> THEN SrvExit("done")
             ELSE ecServer' = "send" /\ UNCHANGED <<ecEnds, ecEver, ecFiles>>
     ELSE <<ecPeer, "up", "wr">> \notin ecEnds /\ SrvExit("done") /\ UNCHANGED <<ecBuf, ecUp>>
  /\ UNCHANGED <<ecReq, ecDown, ecPeer>> /\ ClientsSame

\* The echo.  To a client that is gone it raises SIGPIPE, and the server dies
\* without destroy_server().
SrvSend ==
  /\ ecServer = "send"
  /\ IF <<ecPeer, "down", "rd">> \in ecEnds
     THEN /\ ecDown' = [ecDown EXCEPT ![ecPeer] = @ \o ecBuf]
          /\ ecServer' = "recv" /\ ecBuf' = <<>> /\ UNCHANGED <<ecEnds, ecEver, ecFiles>>
     ELSE SrvExit("killed") /\ UNCHANGED <<ecDown, ecBuf>>
  /\ UNCHANGED <<ecReq, ecUp, ecPeer>> /\ ClientsSame

\* SIGINT or SIGTERM: shutdown_handler().  Before fopen(3) the one with FIFOs closes a
\* stream that is not there, and crashes; before strdup(3) it has no name to unlink.
SrvSignal ==
  /\ ecServer \notin ServerEnded
  /\ SrvExit(CASE ecServer \in {"start", "made"} /\ ecKind = "fifo" -> "killed"
               [] ecServer = "opened" -> "left"
               [] OTHER -> "done")
  /\ UNCHANGED <<ecReq, ecUp, ecDown, ecPeer, ecBuf>> /\ ClientsSame

EcClient(c) ==
  CliCreate(c) \/ CliRequestFifo(c) \/ CliConnectUnix(c) \/ CliOpen(c) \/ CliOpened(c)
  \/ CliSetup(c) \/ CliRecv(c) \/ CliLeave(c)
EcServer == SrvCreate \/ SrvAcceptFifo \/ SrvAcceptUnix \/ SrvRecv \/ SrvSend
EcNext ==
  \/ EcServer \/ SrvSignal
  \/ \E c \in EcClients :
       EcClient(c) \/ CliLine(c) \/ CliEof(c) \/ CliSignal(c) \/ CliKilled(c)

EcSpec == EcInit /\ [][EcNext]_ecVars
----------------------------------------------------------------------------
AllSent(c) == [i \in 1..ecSent[c] |-> i]

\* What a client sent, on its way there and back, in order.
Messages(c) ==
  ecGot[c] \o ecDown[c] \o (IF ecServer = "send" THEN ecBuf ELSE <<>>) \o ecUp[c]

\* Every client gets back its own lines, each once and in the order it sent
\* them; and as long as the server serves it none is missing, and after the last
\* line there are only quit messages.
EcEcho ==
  /\ \A c \in EcClients : IsPrefix(ecGot[c], AllSent(c))
  /\ ecServer \in {"recv", "send"} =>
       /\ IsPrefix(AllSent(ecPeer), Messages(ecPeer))
       /\ \A i \in (ecSent[ecPeer] + 1)..Len(Messages(ecPeer)) : Messages(ecPeer)[i] = QUIT

\* Where a client stands that has opened both ends of its FIFOs.
EcOpened == {"connected", "type", "recv", "goodbye", "leaving", "leaving again", "done"}

\* The names go away: a client's as soon as both ends of its FIFOs are open, or
\* once the server has checked its socket; the main FIFO with its server, unless a signal
\* ends it between fopen(3) and strdup(3), lines 35 to 41 of api.c ("left").
EcClean ==
  /\ \A c \in EcClients : ecKind = "fifo" /\ ecPc[c] \in EcOpened => OwnFiles(c) \cap ecFiles = {}
  /\ (ecKind = "unix" /\ ecServer \in {"recv", "send"}) => OwnFiles(ecPeer) \cap ecFiles = {}
  /\ (ecKind = "fifo" /\ ecServer \in {"done", "failed"}) => Main \notin ecFiles

\* "destroy_server() - Destroys the central point of contact used by new clients to
\* connect to the server" (client_server/README.md): a server that shutdown_handler()
\* ended through destroy_server() leaves no FIFO.
EcDestroyed == ecKind = "fifo" /\ ecServer \in {"done", "left"} => Main \notin ecFiles

\* "we must be careful with the order in which we call open(2) to avoid
\* deadlocks" (client_server/README.md): a server that took a client's request, or has
\* something to echo, and the client wait for each other only until the user can type;
\* unless the server ends, or the client was killed while it connected.
EcBusy == ecServer \in {"open1", "open2", "open3", "recv", "send"}
EcFree ==
  \/ ecServer \in ServerEnded
  \/ \E c \in EcClients : ecPeer = c /\ ecPc[c] \in {"type", "killed"}
EcServes == EcBusy ~> EcFree
=============================================================================
