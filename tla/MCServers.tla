---------------------------- MODULE MCServers ----------------------------
(* The servers and their clients, the network simulator and the routing table, *)
(* each on its own.                                                            *)
EXTENDS EchoPair, EpollEcho, OpenServer, Networking

VARIABLE prog

mcVars ==
  <<prog, ecVars, epVars, osVars, odVars, ofVars, upVars, kaVars, wsVars, nlVars, rtVars>>

Programs ==
  {"client_server", "epoll_multithreaded", "ep_oneshot", "open_server", "fork_exec",
   "udp_ping", "tcp_keepalive", "web_server", "netsimul", "rtable"}

MCInit ==
  /\ prog \in Programs
  /\ EcInit /\ EpInit /\ OsInit /\ OdInit /\ OfInit /\ UpInit /\ KaInit /\ WsInit
  /\ NlInit /\ RtInit
  /\ prog # "client_server" => ecKind = "fifo"
  /\ prog # "web_server" => wsDisk = [f \in WsFiles |-> 0]

EcAlone == prog = "client_server"
           /\ UNCHANGED <<prog, epVars, osVars, odVars, ofVars, upVars, kaVars, wsVars, nlVars, rtVars>>
EpAlone == prog = "epoll_multithreaded"
           /\ UNCHANGED <<prog, ecVars, osVars, odVars, ofVars, upVars, kaVars, wsVars, nlVars, rtVars>>
OsAlone == prog = "ep_oneshot"
           /\ UNCHANGED <<prog, ecVars, epVars, odVars, ofVars, upVars, kaVars, wsVars, nlVars, rtVars>>
OdAlone == prog = "open_server"
           /\ UNCHANGED <<prog, ecVars, epVars, osVars, ofVars, upVars, kaVars, wsVars, nlVars, rtVars>>
OfAlone == prog = "fork_exec"
           /\ UNCHANGED <<prog, ecVars, epVars, osVars, odVars, upVars, kaVars, wsVars, nlVars, rtVars>>
UpAlone == prog = "udp_ping"
           /\ UNCHANGED <<prog, ecVars, epVars, osVars, odVars, ofVars, kaVars, wsVars, nlVars, rtVars>>
KaAlone == prog = "tcp_keepalive"
           /\ UNCHANGED <<prog, ecVars, epVars, osVars, odVars, ofVars, upVars, wsVars, nlVars, rtVars>>
WsAlone == prog = "web_server"
           /\ UNCHANGED <<prog, ecVars, epVars, osVars, odVars, ofVars, upVars, kaVars, nlVars, rtVars>>
NlAlone == prog = "netsimul"
           /\ UNCHANGED <<prog, ecVars, epVars, osVars, odVars, ofVars, upVars, kaVars, wsVars, rtVars>>
RtAlone == prog = "rtable"
           /\ UNCHANGED <<prog, ecVars, epVars, osVars, odVars, ofVars, upVars, kaVars, wsVars, nlVars>>

MCNext ==
  \/ EcAlone /\ EcNext
  \/ EpAlone /\ EpNext
  \/ OsAlone /\ OsNext
  \/ OdAlone /\ OdNext
  \/ OfAlone /\ OfNext
  \/ UpAlone /\ UpNext
  \/ KaAlone /\ KaNext
  \/ WsAlone /\ WsNext
  \/ NlAlone /\ NlNext
  \/ RtAlone /\ RtNext

\* The server of the program that runs, and the client or the consumer it serves.
MCServer ==
  \/ EcAlone /\ EcServer
  \/ OsAlone /\ OsDispatcher
  \/ OdAlone /\ OdStep
  \/ OfAlone /\ OfStep
  \/ KaAlone /\ KaServer
  \/ WsAlone /\ WsServer
MCClient(c) ==
  \/ c \in EcClients /\ EcAlone /\ EcClient(c)
  \/ c \in OdClients /\ OdAlone /\ OdReceive(c)
  \/ OsAlone /\ OsConsume

\* Every process that can run does; the users, whether they type a line, end their input or
\* send a signal, and whoever kills are free.  One program
\* runs in a behaviour, so that fairness of a disjunction is fairness of the process
\* of that program.
MCFair ==
  /\ WF_mcVars(MCServer)
  /\ \A c \in EcClients \cup OdClients : WF_mcVars(MCClient(c))

MCSpec == MCInit /\ [][MCNext]_mcVars /\ MCFair

\* client_server alone, for NewServer.cfg, which checks EcDestroyed.
EcOnly == (prog = "client_server" /\ MCInit) /\ [][MCNext]_mcVars

\* udp_ping alone, for the run that checks UpCorresponds.
UpOnly == (prog = "udp_ping" /\ MCInit) /\ [][MCNext]_mcVars
----------------------------------------------------------------------------
\* What goes through a program comes out of it whole: no line, chunk or datagram
\* is lost, repeated, or given to another client (client_server, epoll, the
\* one-shot buffer, udp_ping).
MCDelivers == EcEcho /\ EpKeeps /\ OsPassesOn /\ UpGenuine

\* What comes over the network is taken for what it is: the request of the client
\* that sent it, the frame with its own header, the longest prefix that matches
\* (web_server, netsimul, rtable).
MCGenuine == WsOwn /\ NlGenuine /\ RtLongest

\* Who waits for an answer gets it: the consumer of the one-shot buffer its
\* input, the client of the open server its descriptor, the client of the web
\* server its page; a client that closed is forgotten; and a server over FIFOs or
\* sockets that has begun with a client comes to its end (see OsFires,
\* OpenReplies, WsReplies, KaForgets and EcServes).
MCAsked(c) ==
  \/ prog = "open_server" /\ OdAsked(c)
  \/ prog = "web_server" /\ WsAsked(c)
  \/ prog = "tcp_keepalive" /\ KaLeft(c)
  \/ prog = "ep_oneshot" /\ OsWaits
  \/ prog = "fork_exec" /\ OfAsked
  \/ prog = "client_server" /\ EcBusy
MCAnswered(c) ==
  \/ prog = "open_server" /\ OdAnswered(c)
  \/ prog = "web_server" /\ WsAnswered(c)
  \/ prog = "tcp_keepalive" /\ KaRemoved(c)
  \/ prog = "ep_oneshot" /\ OsFired
  \/ prog = "fork_exec" /\ OfAnswered
  \/ prog = "client_server" /\ EcFree
MCServed == \A c \in OdClients \cap WsClients \cap KaClients : MCAsked(c) ~> MCAnswered(c)
=============================================================================
