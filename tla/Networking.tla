----------------------------- MODULE Networking ------------------------------
(* The programs under knowledge_based/networking that keep state: the epoll *)
(* server with keepalives, the web server, the link layer of the network    *)
(* simulator, the routing table and the UDP ping.                           *)
EXTENDS Integers, Sequences, FiniteSets, Bags, SequencesExt

CONSTANTS
  KaClients,  \* the clients of tcp_keepalive/server.c
  KaSends,    \* bound: chunks each of them sends
  WsClients,  \* the clients of web_server/webserver.c, served in any order
  WsFiles,    \* the files they ask for
  NlFrames,   \* bound: frames written to the link
  NlMax,      \* ETHERNET_FRAME_MAX_LEN, in units of the header's length
  RtWidth,    \* bits of an address: 32 in the code
  RtDests,    \* the next hops
  RtOps       \* bound: commands typed

ASSUME NetworkingAssumption ==
  /\ IsFiniteSet(KaClients) /\ "mainsock" \notin KaClients /\ KaSends \in Nat
  /\ IsFiniteSet(WsClients) /\ IsFiniteSet(WsFiles)
  /\ WsFiles \cap {"bad", "zero", "page", "mixed", "lost", "none"} = {}
  /\ NlFrames \in Nat /\ NlMax \in Nat \ {0, 1}
  /\ RtWidth \in Nat \ {0} /\ RtOps \in Nat /\ RtDests \subseteq Nat
----------------------------------------------------------------------------
(* tcp_keepalive/server.c.  A chunk is "data" or "quit", the line QUIT.     *)
VARIABLES
  kaPeer,   \* the client's side: "none", "up", "closed", "vanished"
  kaConn,   \* the server's: "none", "waiting", "open", "unwatched", "reset", "closed"
  kaSent,   \* the chunks each client sent
  kaRead,   \* how many of them the server has received
  kaEcho,   \* the chunks sent back to each client
  kaBatch,  \* the events of eventsbuff still to be handled
  kaBuf,    \* readbuff between recv() and send(): who it is from and what it holds
  kaLife    \* "serving", or "killed" by SIGPIPE

kaVars == <<kaPeer, kaConn, kaSent, kaRead, kaEcho, kaBatch, kaBuf, kaLife>>

KaInit ==
  /\ kaPeer = [c \in KaClients |-> "none"]
  /\ kaConn = [c \in KaClients |-> "none"]
  /\ kaSent = [c \in KaClients |-> <<>>]
  /\ kaRead = [c \in KaClients |-> 0]
  /\ kaEcho = [c \in KaClients |-> <<>>]
  /\ kaBatch = {} /\ kaBuf = <<>> /\ kaLife = "serving"

\* The clients connect, send, close, or vanish without a word (a broken network).
\* What was sent to a client and not read before it closed is answered with a reset.
KaClient(c) ==
  /\ \/ /\ kaPeer[c] = "none" /\ kaLife = "serving"
        /\ kaPeer' = [kaPeer EXCEPT ![c] = "up"]
        /\ kaConn' = [kaConn EXCEPT ![c] = "waiting"]
        /\ UNCHANGED kaSent
     \/ /\ kaPeer[c] = "up" /\ kaConn[c] # "closed" /\ Len(kaSent[c]) < KaSends
        /\ \E m \in {"data", "quit"} : kaSent' = [kaSent EXCEPT ![c] = Append(@, m)]
        /\ UNCHANGED <<kaPeer, kaConn>>
     \/ /\ kaPeer[c] = "up"
        /\ \E p \in {"closed", "vanished"} : kaPeer' = [kaPeer EXCEPT ![c] = p]
        /\ UNCHANGED <<kaConn, kaSent>>
     \/ /\ kaPeer[c] = "closed" /\ kaConn[c] = "open" /\ kaEcho[c] # <<>>
        /\ kaConn' = [kaConn EXCEPT ![c] = "reset"]
        /\ UNCHANGED <<kaPeer, kaSent>>
  /\ UNCHANGED <<kaRead, kaEcho, kaBatch, kaBuf, kaLife>>

\* The descriptors that need attention: a reset one is reported with EPOLLHUP.
KaReady(c) ==
  \/ kaConn[c] = "open" /\ (kaRead[c] < Len(kaSent[c]) \/ kaPeer[c] = "closed")
  \/ kaConn[c] = "reset"
KaEvents ==
  {[fd |-> c, ev |-> IF kaConn[c] = "reset" THEN "hup" ELSE "in"] :
     c \in {d \in KaClients : KaReady(d)}}
  \cup {[fd |-> "mainsock", ev |-> "in"] : c \in {d \in KaClients : kaConn[d] = "waiting"}}

\* epoll_wait(2), once all events of the last call were handled.
KaWait ==
  /\ kaLife = "serving" /\ kaBatch = {} /\ kaBuf = <<>>
  /\ KaEvents # {} /\ kaBatch' = KaEvents
  /\ UNCHANGED <<kaPeer, kaConn, kaSent, kaRead, kaEcho, kaBuf, kaLife>>

\* accept_new_client(): when setsockopt(2) or epoll_ctl(2) fails it returns and the
\* descriptor stays open with nobody watching it.
KaAccept ==
  /\ kaLife = "serving" /\ kaBuf = <<>>
  /\ \E e \in kaBatch : e.fd = "mainsock" /\ kaBatch' = kaBatch \ {e}
  /\ \E c \in KaClients, r \in {"open", "unwatched"} :
       kaConn[c] = "waiting" /\ kaConn' = [kaConn EXCEPT ![c] = r]
  /\ UNCHANGED <<kaPeer, kaSent, kaRead, kaEcho, kaBuf, kaLife>>

\* remove_client().
KaRemove(c) == kaConn' = [kaConn EXCEPT ![c] = "closed"]

\* A test for QUIT anywhere in what was received.
KaQuitInside(received) == "quit" \in ToSet(received)

\* handle_client_req(): the line QUIT is recognised when nothing else came with it.
KaQuit(received) == received = <<"quit">>

\* The loop of main() handles one event.  recv(2) takes all that has arrived; from a
\* connection that was reset in the meantime it may fail, and the event is dropped.
KaHandle(c) ==
  /\ kaLife = "serving" /\ kaBuf = <<>>
  /\ \E e \in kaBatch :
       /\ e.fd = c /\ kaBatch' = kaBatch \ {e}
       /\ LET received == SubSeq(kaSent[c], kaRead[c] + 1, Len(kaSent[c])) IN
          \/ /\ e.ev = "hup" \/ (received = <<>> /\ kaConn[c] = "open")
             /\ KaRemove(c) /\ UNCHANGED <<kaRead, kaBuf>>
          \/ /\ e.ev = "in" /\ kaConn[c] = "reset" /\ UNCHANGED <<kaConn, kaRead, kaBuf>>
          \/ /\ e.ev = "in" /\ received # <<>>
             /\ kaRead' = [kaRead EXCEPT ![c] = Len(kaSent[c])]
             /\ IF KaQuit(received)
                THEN KaRemove(c) /\ UNCHANGED kaBuf
                ELSE kaBuf' = <<c, received>> /\ UNCHANGED kaConn
  /\ UNCHANGED <<kaPeer, kaSent, kaEcho, kaLife>>

\* send(2): to a connection that was reset it fails, or raises SIGPIPE, which nobody
\* handles.
KaSend ==
  /\ kaBuf # <<>> /\ kaLife = "serving" /\ kaBuf' = <<>>
  /\ \/ kaConn[kaBuf[1]] = "open"
        /\ kaEcho' = [kaEcho EXCEPT ![kaBuf[1]] = @ \o kaBuf[2]] /\ UNCHANGED kaLife
     \/ kaConn[kaBuf[1]] = "reset" /\ kaLife' \in {"serving", "killed"} /\ UNCHANGED kaEcho
  /\ UNCHANGED <<kaPeer, kaConn, kaSent, kaRead, kaBatch>>

KaServer == KaWait \/ KaAccept \/ KaSend \/ \E c \in KaClients : KaHandle(c)
KaNext == KaServer \/ \E c \in KaClients : KaClient(c)

KaSpec == KaInit /\ [][KaNext]_kaVars

\* Every client gets back what it sent, in order, and nothing of another one; a client
\* that is still there is dropped only after a QUIT that came alone, and every such QUIT
\* is obeyed.  The server dies only of a client that closed with echoes unread.
KaKeeps ==
  /\ \A c \in KaClients :
       /\ IsPrefix(kaEcho[c], kaSent[c])
       /\ kaBuf = <<>> /\ kaConn[c] = "open" => Len(kaEcho[c]) = kaRead[c]
       /\ kaConn[c] = "closed" /\ kaPeer[c] = "up" =>
            SubSeq(kaSent[c], Len(kaEcho[c]) + 1, kaRead[c]) = <<"quit">>
  /\ kaLife = "killed" =>
       \E c \in KaClients : kaConn[c] = "reset" /\ kaEcho[c] # <<>>

\* A client that closes its connection is removed in the end, if it was accepted and
\* watched.  One that vanishes is not: the server sets the times of the keepalives and
\* never SO_KEEPALIVE.
KaLeft(c) == kaPeer[c] = "closed" /\ kaConn[c] = "open"
KaRemoved(c) == kaConn[c] = "closed" \/ kaLife = "killed"
KaForgets == \A c \in KaClients : KaLeft(c) ~> KaRemoved(c)
----------------------------------------------------------------------------
(* web_server/webserver.c.  A request is the word GET and a file name, two   *)
(* units that recv(2) may cut between or inside; buff has room for two units *)
(* and keeps what recv(2) does not overwrite, so that a unit cut inside is   *)
(* "mixed" with what was there before.                                       *)
VARIABLES
  wsPeer,   \* each client: "away", "here" or "gone"
  wsAsk,    \* what it asks for: <<>>, <<"GET", f>> or <<"bad", "bad">>
  wsBuff,   \* buff
  wsPath,   \* path_buff: a file of WsFiles, or "lost", the name of none
  wsServed, \* the client being served, or "nobody"
  wsPc,     \* where handle_client() is
  wsGot,    \* the units the only recv(2) for each client returned
  wsReply,  \* what was sent to each client
  wsDisk,   \* the version of each file, 0 when it does not exist
  wsLen,    \* the version stat(2) saw
  wsLife    \* "serving", or "killed" by SIGPIPE

wsVars == <<wsPeer, wsAsk, wsBuff, wsPath, wsServed, wsPc, wsGot, wsReply, wsDisk, wsLen,
            wsLife>>

WsInit ==
  /\ wsPeer = [c \in WsClients |-> "away"]
  /\ wsAsk = [c \in WsClients |-> <<>>]
  /\ wsBuff = <<"zero", "zero">> /\ wsPath = "lost"
  /\ wsServed = "nobody" /\ wsPc = "accept"
  /\ wsGot = [c \in WsClients |-> 0]
  /\ wsReply = [c \in WsClients |-> <<>>]
  /\ wsDisk \in [WsFiles -> {0, 1}] /\ wsLen = 0 /\ wsLife = "serving"

\* Clients come with a request, or with none, and may leave at any time; somebody
\* changes or removes a file.
WsWorld ==
  /\ wsLife = "serving"
  /\ \/ \E c \in WsClients :
          /\ wsPeer[c] = "away" /\ wsPeer' = [wsPeer EXCEPT ![c] = "here"]
          /\ \E r \in {<<>>, <<"bad", "bad">>} \cup {<<"GET", f>> : f \in WsFiles} :
               wsAsk' = [wsAsk EXCEPT ![c] = r]
          /\ UNCHANGED wsDisk
     \/ \E c \in WsClients :
          /\ wsPeer[c] = "here" /\ wsPeer' = [wsPeer EXCEPT ![c] = "gone"]
          /\ UNCHANGED <<wsAsk, wsDisk>>
     \/ \E f \in WsFiles, v \in {0, 2} :
          /\ wsDisk[f] = 1 /\ wsDisk' = [wsDisk EXCEPT ![f] = v]
          /\ UNCHANGED <<wsPeer, wsAsk>>
  /\ UNCHANGED <<wsBuff, wsPath, wsServed, wsPc, wsGot, wsReply, wsLen, wsLife>>

\* accept(2).
WsAccept ==
  /\ wsPc = "accept" /\ wsPc' = "recv" /\ wsLife = "serving"
  /\ \E c \in WsClients :
       /\ wsPeer[c] # "away" /\ wsReply[c] = <<>> /\ wsServed' = c
  /\ UNCHANGED <<wsPeer, wsAsk, wsBuff, wsPath, wsGot, wsReply, wsDisk, wsLen, wsLife>>

\* recv(2) returns the first n units, and maybe a part of the next one; nothing when the
\* client sent nothing and left.  A failure closes the connection.
WsRecv ==
  /\ wsPc = "recv"
  /\ LET c == wsServed IN
     \/ /\ wsPeer[c] = "gone" \/ wsAsk[c] # <<>>
        /\ \E n \in 0..Len(wsAsk[c]), cut \in BOOLEAN :
             /\ cut => n < Len(wsAsk[c])
             /\ wsAsk[c] # <<>> => n > 0 \/ cut
             /\ wsGot' = [wsGot EXCEPT ![c] = n]
             /\ wsBuff' = [i \in 1..2 |-> CASE i <= n -> wsAsk[c][i]
                                            [] i = n + 1 /\ cut -> "mixed"
                                            [] OTHER -> wsBuff[i]]
        /\ wsPc' = "parse" /\ UNCHANGED wsReply
     \/ /\ wsPeer[c] = "gone" /\ wsReply' = [wsReply EXCEPT ![c] = << <<"closed">> >>]
        /\ wsPc' = "accept" /\ UNCHANGED <<wsGot, wsBuff>>
  /\ UNCHANGED <<wsPeer, wsAsk, wsPath, wsServed, wsDisk, wsLen, wsLife>>

\* send(2): the first to a client that left is answered with a reset, and one after
\* the reset raises SIGPIPE.
WsSend(what, next) ==
  LET first == wsReply[wsServed] = <<>> IN
  \/ /\ wsReply' = [wsReply EXCEPT ![wsServed] = Append(@, what)]
     /\ wsPc' = next /\ UNCHANGED wsLife
  \/ /\ wsPeer[wsServed] = "gone" /\ ~first
     /\ wsLife' = "killed" /\ UNCHANGED <<wsReply, wsPc>>

\* sscanf(3): the names it may read in buff, or "none".  What begins with a part of a
\* word, or with a page, may read like GET; the name after it is that of buff, or some
\* word when that is mixed, or part of a page or of another request.
WsNames ==
  IF wsBuff[1] \in {"zero", "bad"} \/ wsBuff[2] = "zero" THEN {"none"}
  ELSE (IF wsBuff[2] \in WsFiles THEN {wsBuff[2]} ELSE WsFiles \cup {"lost", "none"})
       \cup (IF wsBuff[1] = "GET" THEN {} ELSE {"none"})

\* sscanf(3) and stat(2), and the answers 400 and 404.
WsParse ==
  /\ wsPc = "parse" /\ wsLife = "serving"
  /\ \E f \in WsNames :
       \/ /\ f = "none" /\ WsSend(<<"400">>, "accept") /\ UNCHANGED <<wsPath, wsLen>>
       \/ /\ f # "none" /\ wsPath' = f
          /\ IF f = "lost" \/ wsDisk[f] = 0
             THEN WsSend(<<"404">>, "accept") /\ UNCHANGED wsLen
             ELSE wsLen' = wsDisk[f] /\ wsPc' = "open" /\ UNCHANGED <<wsReply, wsLife>>
  /\ UNCHANGED <<wsPeer, wsAsk, wsBuff, wsServed, wsGot, wsDisk>>

\* fopen(3), and the header, put together in buff.
WsOpen ==
  /\ wsPc = "open" /\ wsLife = "serving"
  /\ IF wsDisk[wsPath] = 0
     THEN WsSend(<<"404">>, "accept")
     ELSE WsSend(<<"header", wsPath, wsLen>>, "body")
  /\ UNCHANGED <<wsPeer, wsAsk, wsBuff, wsPath, wsServed, wsGot, wsDisk, wsLen>>

\* fread(3) into buff; the open file may be another version by now, or be removed and
\* still be read.
WsBody ==
  /\ wsPc = "body" /\ wsLife = "serving"
  /\ \E v \in {wsDisk[wsPath], wsLen} \ {0} : WsSend(<<"body", wsPath, v>>, "accept")
  /\ wsBuff' = <<"page", "page">>
  /\ UNCHANGED <<wsPeer, wsAsk, wsPath, wsServed, wsGot, wsDisk, wsLen>>

WsServer == WsAccept \/ WsRecv \/ WsParse \/ WsOpen \/ WsBody
WsNext == WsWorld \/ WsServer

WsSpec == WsInit /\ [][WsNext]_wsVars

\* A client whose request recv(2) got whole is sent the file it asked for and no other
\* one: what is left in buff, a part of a word or an old page come in only when recv(2)
\* returned less than the request.  The header tells the length of the body unless the
\* file changed.  Only a client that leaves between two parts of its answer ends the server.
WsOwn ==
  /\ \A c \in WsClients : \A i \in DOMAIN wsReply[c] :
       wsReply[c][i][1] \in {"header", "body"} =>
         wsAsk[c] = <<"GET", wsReply[c][i][2]>> \/ wsGot[c] < 2
  /\ \A c \in WsClients :
       Len(wsReply[c]) = 2 =>
         LET h == wsReply[c][1] IN
         wsReply[c][2][3] = h[3] \/ wsDisk[h[2]] # h[3]
  /\ wsLife = "killed" => wsPeer[wsServed] = "gone" /\ wsReply[wsServed] # <<>>

\* A client that stays is answered, whoever left before it, unless somebody keeps the
\* only thread waiting for a request, or the server was killed.
WsAsked(c) == wsPeer[c] = "here" /\ wsAsk[c] # <<>>
WsAnswered(c) ==
  \/ wsReply[c] # <<>> \/ wsPeer[c] = "gone" \/ wsLife = "killed"
  \/ wsPc = "recv" /\ wsAsk[wsServed] = <<>>
WsReplies == \A c \in WsClients : WsAsked(c) ~> WsAnswered(c)
----------------------------------------------------------------------------
(* netsimul: endsystem.cpp writes frames into a FIFO, LinkLayer reads them.  *)
(* A frame is as many units as it is long; its first unit is its header, and *)
(* a frame of one unit is below ETHERNET_FRAME_MIN_LEN.  A unit of its data  *)
(* is "plain", or reads like the header of a frame to this interface.        *)
VARIABLES
  nlSent,   \* the frames written: their destination, length and data
  nlFifo,   \* the units in the FIFO: <<frame, number of the unit>>
  nlReads   \* what each read(2) returned, and whether it was taken for a frame

nlVars == <<nlSent, nlFifo, nlReads>>

NlInit == nlSent = <<>> /\ nlFifo = <<>> /\ nlReads = <<>>

\* send_frame(): one write(2), short enough to be atomic.
SendFrame ==
  /\ Len(nlSent) < NlFrames
  /\ \E d \in {"me", "other"}, n \in 1..NlMax, t \in {"plain", "header"} :
       /\ nlSent' = Append(nlSent, [dst |-> d, len |-> n, data |-> t])
       /\ nlFifo' = nlFifo \o [k \in 1..n |-> <<Len(nlSent) + 1, k>>]
  /\ UNCHANGED nlReads

\* parse_frame() that does not look at the preamble.
ParseFrameAny(units) == TRUE

\* parse_frame(): a preamble is where the first unit of a frame has it, and in data that
\* reads like one; the CRC is not looked at.
ParseFrame(units) == units[1][2] = 1 \/ nlSent[units[1][1]].data = "header"

\* The destination in the bytes that follow.
DstMac(units) == IF units[1][2] = 1 THEN nlSent[units[1][1]].dst ELSE "me"

\* One round of enter_main_loop(): up to a buffer full is read at once.
EnterMainLoop ==
  /\ nlFifo # <<>>
  /\ LET n == IF Len(nlFifo) < NlMax THEN Len(nlFifo) ELSE NlMax
         units == SubSeq(nlFifo, 1, n)
         taken == n >= 2 /\ ParseFrame(units) /\ DstMac(units) = "me"
     IN /\ nlReads' = Append(nlReads, [units |-> units, taken |-> taken])
        /\ nlFifo' = SubSeq(nlFifo, n + 1, Len(nlFifo))
  /\ UNCHANGED nlSent

NlNext == SendFrame \/ EnterMainLoop

NlSpec == NlInit /\ [][NlNext]_nlVars

\* What is taken for a frame is a frame sent to this interface, whole and taken once,
\* unless a read began inside a frame, at data that reads like a header.  A frame for
\* this interface is missed only when it was read behind another one, or was too short
\* and alone.
NlGenuine ==
  /\ \A i \in DOMAIN nlReads : nlReads[i].taken =>
       LET f == nlReads[i].units[1][1] IN
       \/ nlReads[i].units[1][2] > 1 /\ nlSent[f].data = "header"
       \/ /\ nlSent[f].dst = "me"
          /\ \A k \in 1..nlSent[f].len : nlReads[i].units[k] = <<f, k>>
          /\ \A j \in DOMAIN nlReads :
               j # i /\ nlReads[j].taken => nlReads[j].units[1] # <<f, 1>>
  /\ \A f \in DOMAIN nlSent :
       \/ nlSent[f].dst = "other"
       \/ \E k \in DOMAIN nlFifo : nlFifo[k] = <<f, 1>>
       \/ \E i \in DOMAIN nlReads : \E k \in DOMAIN nlReads[i].units :
            /\ nlReads[i].units[k] = <<f, 1>>
            /\ k > 1 \/ nlReads[i].taken \/ nlReads[i].units = << <<f, 1>> >>
----------------------------------------------------------------------------
(* routing/rtable.c.  A node of the trie is named by the bits on the way to  *)
(* it; the root always exists and has a destination.                         *)
VARIABLES
  rtDest,    \* the nodes: dest, or -1 when is_end is 0
  rtGateway, \* the destination of the prefix of length 0, as typed last
  rtRoutes,  \* the routes typed, the last one for each prefix of length 1 or more
  rtTyped    \* the number of commands typed

rtVars == <<rtDest, rtGateway, rtRoutes, rtTyped>>

RtInit ==
  /\ rtDest = [n \in {<< >>} |-> 0] /\ rtGateway = 0 /\ rtRoutes = {} /\ rtTyped = 0

\* An address is its bits, the highest first.  A mask is the number of the bit it has:
\* 1 << 31 is mask 1, and RtWidth + 1 is what is left when that bit was shifted out, 0.
RtAddrs == [1..RtWidth -> {0, 1}]

\* !!(ip & curr_mask).
RtBit(ip, mask) == IF mask = RtWidth + 1 THEN 0 ELSE ip[mask]

\* Where a walk from the root is when curr_mask is mask.
RtNode(ip, mask) == [k \in 1..(mask - 1) |-> RtBit(ip, k)]

\* set_defl_gateway().
SetDeflGateway(d) ==
  /\ rtDest' = [rtDest EXCEPT ![<< >>] = d] /\ rtGateway' = d
  /\ UNCHANGED rtRoutes

\* mask_lim of add_entry(): shifting by more than the width is avoided.
MaskLim(cidr) == IF cidr < RtWidth THEN cidr + 1 ELSE RtWidth + 1

\* add_entry(): both loops; the nodes made have is_end = 0, the last one gets dest.
AddEntry(ip, cidr, d) ==
  LET node == RtNode(ip, MaskLim(cidr))
      made == {RtNode(ip, mask) : mask \in 1..MaskLim(cidr)}
      bits == [k \in 1..(IF cidr < RtWidth THEN cidr ELSE RtWidth) |-> ip[k]]
  IN /\ rtDest' = [n \in DOMAIN rtDest \cup made |->
                     IF n = node THEN d
                     ELSE IF n \in DOMAIN rtDest THEN rtDest[n] ELSE -1]
     /\ IF bits = << >>
        THEN rtGateway' = d /\ UNCHANGED rtRoutes
        ELSE /\ rtRoutes' = {r \in rtRoutes : r[1] # bits} \cup {<<bits, d>>}
             /\ UNCHANGED rtGateway

\* lookup(): as far down as there are nodes; last_word is the last one with is_end.
Lookup(ip) ==
  LET passed == {mask \in 1..(RtWidth + 2) :
                   \A m \in 1..mask : RtNode(ip, m) \in DOMAIN rtDest}
      words == {mask \in passed : rtDest[RtNode(ip, mask)] # -1}
      last_word == CHOOSE mask \in words : \A m \in words : m <= mask
  IN rtDest[RtNode(ip, last_word)]

\* main(): a command D or I; a mask above the width is taken for the width.
RtCommand ==
  /\ rtTyped < RtOps /\ rtTyped' = rtTyped + 1
  /\ \E d \in RtDests :
       \/ SetDeflGateway(d)
       \/ \E ip \in RtAddrs, cidr \in 0..(RtWidth + 1) : AddEntry(ip, cidr, d)

RtNext == RtCommand

RtSpec == RtInit /\ [][RtNext]_rtVars

\* "As usual, longest prefix matching is used": the next hop is that of the longest
\* prefix typed that matches, whatever the order in which they were typed, or the
\* gateway.
RtLongest ==
  \A ip \in RtAddrs :
    LET matching == {r \in rtRoutes : \A j \in DOMAIN r[1] : r[1][j] = ip[j]}
    IN IF matching = {} THEN Lookup(ip) = rtGateway
       ELSE \E r \in matching :
              /\ \A q \in matching : Len(q[1]) <= Len(r[1])
              /\ Lookup(ip) = r[2]
----------------------------------------------------------------------------
(* knowledge_based/networking/udp_ping: a client that sends PING datagrams and *)
(* waits up to TIMEOUT_SECS for each reply, and a server that answers PONG.    *)
(* Datagrams may be lost, duplicated, delayed and reordered.  A datagram       *)
(* carries its text only; the model notes the number of the ping it stems from *)
(* (Stray for another text, Foreign for a PONG of somebody else).              *)
CONSTANTS
  PING_MESSAGES,  \* pings per run of the client
  UpCopies        \* bound: duplicates and stray datagrams

ASSUME UpAssumption == PING_MESSAGES \in Nat /\ UpCopies \in Nat

VARIABLES
  upAt,     \* the ping under way
  upPc,     \* where the client stands
  upTo,     \* datagrams on their way to the server
  upBack,   \* datagrams on their way to the client
  upSocket, \* datagrams in the client's socket
  upRes,    \* what select(2) returned
  upLog,    \* per ping: what was printed, and the ping whose reply was taken
  upExtra   \* duplicates and strays so far

upVars == <<upAt, upPc, upTo, upBack, upSocket, upRes, upLog, upExtra>>

One(d) == SetToBag({d})
Stray == 0
Foreign == -1
Strays == {Stray, Foreign}
Printed(what, reply) == [what |-> what, reply |-> reply]

UpInit ==
  /\ upAt = 1 /\ upPc = "send" /\ upTo = EmptyBag /\ upBack = EmptyBag /\ upSocket = EmptyBag
  /\ upRes = 0 /\ upLog = [i \in 1..PING_MESSAGES |-> Printed("nothing", 0)] /\ upExtra = 0

\* sendto(2), which may fail: the loop goes on with the next ping.
UpSend ==
  /\ upPc = "send" /\ upAt <= PING_MESSAGES
  /\ \/ upTo' = upTo (+) One(upAt) /\ upPc' = "select" /\ UNCHANGED <<upAt, upLog>>
     \/ upLog' = [upLog EXCEPT ![upAt] = Printed("unsent", 0)] /\ upAt' = upAt + 1 /\ UNCHANGED <<upTo, upPc>>
  /\ UNCHANGED <<upBack, upSocket, upRes, upExtra>>

\* select(2): something to read, the timeout while there is nothing, or an error.
UpSelect ==
  /\ upPc = "select"
  /\ upRes' \in {IF upSocket = EmptyBag THEN 0 ELSE 1, -1}
  /\ upPc' = "result"
  /\ UNCHANGED <<upAt, upTo, upBack, upSocket, upLog, upExtra>>

\* The outcome of this ping is printed and the next one is sent.  recvfrom(2) may
\* fail too; it does not ask who sent the datagram.
UpResult ==
  /\ upPc = "result" /\ upPc' = "send" /\ upAt' = upAt + 1
  /\ \/ upRes = 0 /\ upLog' = [upLog EXCEPT ![upAt] = Printed("TIMEOUT", 0)] /\ UNCHANGED upSocket
     \/ upRes # 0 /\ upLog' = [upLog EXCEPT ![upAt] = Printed("error", 0)] /\ UNCHANGED upSocket
     \/ /\ upRes = 1
        /\ \E d \in DOMAIN upSocket :
             /\ upSocket' = upSocket (-) One(d)
             /\ upLog' = [upLog EXCEPT ![upAt] = Printed(IF d = Stray THEN "unexpected" ELSE "rtt", d)]
  /\ UNCHANGED <<upTo, upBack, upRes, upExtra>>

\* The server: a PING is answered, another text is ignored.
UpServe ==
  /\ \E d \in DOMAIN upTo :
       /\ upTo' = upTo (-) One(d)
       /\ upBack' = IF d \in Strays THEN upBack ELSE upBack (+) One(d)
  /\ UNCHANGED <<upAt, upPc, upSocket, upRes, upLog, upExtra>>

\* The network: delivers, loses, duplicates; others send to both ports too.
UpNetwork ==
  /\ \/ \E d \in DOMAIN upBack :
          upBack' = upBack (-) One(d) /\ upSocket' = upSocket (+) One(d) /\ UNCHANGED <<upTo, upExtra>>
     \/ \E d \in DOMAIN upBack : upBack' = upBack (-) One(d) /\ UNCHANGED <<upTo, upSocket, upExtra>>
     \/ \E d \in DOMAIN upTo : upTo' = upTo (-) One(d) /\ UNCHANGED <<upBack, upSocket, upExtra>>
     \/ /\ upExtra < UpCopies /\ upExtra' = upExtra + 1 /\ UNCHANGED upSocket
        /\ \/ \E d \in DOMAIN upTo \cup {Stray} : upTo' = upTo (+) One(d) /\ UNCHANGED upBack
           \/ \E d \in DOMAIN upBack \cup Strays : upBack' = upBack (+) One(d) /\ UNCHANGED upTo
  /\ UNCHANGED <<upAt, upPc, upRes, upLog>>

UpClient == UpSend \/ UpSelect \/ UpResult
UpNext == UpClient \/ UpServe \/ UpNetwork
UpSpec == UpInit /\ [][UpNext]_upVars
----------------------------------------------------------------------------
Replied == {i \in 1..PING_MESSAGES : upLog[i].what = "rtt"}

\* A round trip time is printed only for a reply to a ping that was sent, this
\* one or an earlier one, and for the same reply more than once only if the network
\* duplicated it; for a PONG of somebody else, as for another text, only if somebody
\* else sent one.
UpGenuine ==
  /\ \A i \in Replied : \/ upLog[i].reply = Foreign
                        \/ upLog[i].reply \in 1..i /\ upLog[upLog[i].reply].what # "unsent"
  /\ \A d \in 1..PING_MESSAGES : Cardinality({i \in Replied : upLog[i].reply = d}) <= 1 + upExtra
  /\ (\E i \in DOMAIN upLog : upLog[i].what = "unexpected" \/ upLog[i].reply = Foreign) => upExtra > 0

\* "determine and print the RTT (Round Trip Time) when the corresponding message
\* is returned" (client.c:4-5): the reply taken for a ping is the reply to it.
UpCorresponds == \A i \in Replied : upLog[i].reply = i
=============================================================================
