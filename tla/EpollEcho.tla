------------------------------ MODULE EpollEcho ------------------------------
(* knowledge_based/linux_internals/epoll_multithreaded: an echo server whose *)
(* threads share one edge-triggered epoll(7) set (solution.c and server.c,   *)
(* the same program), and ep_oneshot_test.c, where two threads pass chunks   *)
(* of stdin along with EPOLLONESHOT.  The sockets are blocking.  What a      *)
(* client sends is a sequence of chunks, each named by client and number.    *)
EXTENDS Integers, Sequences, FiniteSets, SequencesExt

CONSTANTS
  EpThreads,  \* the worker threads
  EpClients,  \* the clients that connect
  EpChunks,   \* bound: chunks one client sends
  EpBreaks,   \* bound: connections that are reset
  OsChunks    \* bound: chunks typed at the one-shot program

ASSUME EpAssumption ==
  /\ EpChunks \in Nat /\ EpBreaks \in Nat /\ OsChunks \in Nat
  /\ IsFiniteSet(EpThreads) /\ {"serversock", "none"} \cap EpClients = {}

VARIABLES
  epBacklog,  \* connections waiting for accept(2)
  epReg,      \* the client sockets in the epoll set
  epReady,    \* descriptors with an edge that no epoll_wait(2) has returned yet
  epIn,       \* per client: the chunks received and not read
  epSent,     \* per client: how many chunks it has sent
  epEof,      \* clients that have closed their side
  epReset,    \* clients that have reset their connection
  epThread,   \* per thread: the events still to handle and the chunks in hand
  epOut,      \* per client: the chunks handled, in the order of the calls of send(2)
  epLost,     \* per client: those of them that were not sent
  epDead,     \* SIGPIPE has killed the server
  osStdin,    \* chunks waiting in stdin, and perhaps its end
  osArmed,    \* stdin is armed in the epoll set
  osBuff,     \* the chunk in input_buff; 0 is none
  osSem,      \* chunks_sem
  osSignal,   \* SIGUSR1 is pending
  osDisp,     \* where the dispatcher stands
  osCons,     \* where the consumer stands
  osTyped,    \* chunks typed so far
  osSeen      \* the chunks the consumer received

epVars == <<epBacklog, epReg, epReady, epIn, epSent, epEof, epReset, epThread, epOut, epLost, epDead>>
osVars == <<osStdin, osArmed, osBuff, osSem, osSignal, osDisp, osCons, osTyped, osSeen>>

SERVER == "serversock"
Idle == [events |-> {}, fd |-> "none", buf |-> <<>>]

EpInit ==
  /\ epBacklog = <<>> /\ epReg = {} /\ epReady = {} /\ epEof = {} /\ epReset = {}
  /\ epIn = [c \in EpClients |-> <<>>] /\ epOut = [c \in EpClients |-> <<>>]
  /\ epLost = [c \in EpClients |-> {}] /\ epDead = FALSE
  /\ epSent = [c \in EpClients |-> 0]
  /\ epThread = [t \in EpThreads |-> Idle]

EpFate == <<epLost, epDead>>
Connected(c) == c \in epReg \/ \E i \in DOMAIN epBacklog : epBacklog[i] = c

\* A connection arrives: an edge on the server socket.
EpConnect(c) ==
  /\ ~Connected(c)
  /\ epBacklog' = Append(epBacklog, c) /\ epReady' = epReady \cup {SERVER}
  /\ UNCHANGED <<epReg, epIn, epSent, epEof, epReset, epThread, epOut, EpFate>>

\* A chunk arrives, or the end of the stream: an edge on the client's socket if
\* it is in the set.
EpArrives(c) ==
  /\ Connected(c) /\ c \notin epEof
  /\ \/ /\ epSent[c] < EpChunks
        /\ epSent' = [epSent EXCEPT ![c] = @ + 1]
        /\ epIn' = [epIn EXCEPT ![c] = Append(@, epSent[c] + 1)]
        /\ UNCHANGED epEof
     \/ epEof' = epEof \cup {c} /\ UNCHANGED <<epSent, epIn>>
  /\ epReady' = IF c \in epReg THEN epReady \cup {c} ELSE epReady
  /\ UNCHANGED <<epBacklog, epReg, epReset, epThread, epOut, EpFate>>

\* The connection is reset: an edge.  What has arrived can still be read.
EpResets(c) ==
  /\ Connected(c) /\ c \notin epReset /\ Cardinality(epReset) < EpBreaks
  /\ epReset' = epReset \cup {c} /\ epEof' = epEof \cup {c}
  /\ epReady' = IF c \in epReg THEN epReady \cup {c} ELSE epReady
  /\ UNCHANGED <<epBacklog, epReg, epIn, epSent, epThread, epOut, EpFate>>

\* epoll_wait(2) in worker_thr(): an edge is reported once, to one thread, and
\* only if there is still something to read.
Readable(fd) == IF fd = SERVER THEN epBacklog # <<>> ELSE epIn[fd] # <<>> \/ fd \in epEof
EpWait(t) ==
  /\ epThread[t] = Idle /\ \E fd \in epReady : Readable(fd)
  /\ epThread' = [epThread EXCEPT ![t].events = {fd \in epReady : Readable(fd)}]
  /\ epReady' = {}
  /\ UNCHANGED <<epBacklog, epReg, epIn, epSent, epEof, epReset, epOut, EpFate>>

\* The loop over the events, in any order.
EpPick(t) ==
  /\ epThread[t].fd = "none"
  /\ \E fd \in epThread[t].events :
       epThread' = [epThread EXCEPT ![t] = [events |-> @.events \ {fd}, fd |-> fd, buf |-> @.buf]]
  /\ UNCHANGED <<epReady, epBacklog, epReg, epIn, epSent, epEof, epReset, epOut, EpFate>>

\* accept_new_client(): accept(2) blocks while the backlog is empty; a socket
\* that has something to read is ready as soon as it is in the set.
EpAccept(t) ==
  /\ epThread[t].fd = SERVER /\ epBacklog # <<>>
  /\ LET c == Head(epBacklog) IN
       /\ epBacklog' = Tail(epBacklog) /\ epReg' = epReg \cup {c}
       /\ epReady' = IF epIn[c] # <<>> \/ c \in epEof THEN epReady \cup {c} ELSE epReady
  /\ epThread' = [epThread EXCEPT ![t].fd = "none"]
  /\ UNCHANGED <<epIn, epSent, epEof, epReset, epOut, EpFate>>

\* handle_request(): recv(2) takes what is there, or as much of it as the buffer
\* holds; it blocks while there is nothing, and returns 0 at the end of the
\* stream or -1 after a reset, which leaves the descriptor open.
EpRecv(t) ==
  LET c == epThread[t].fd IN
    /\ c \in EpClients /\ epThread[t].buf = <<>>
    /\ epIn[c] # <<>> \/ c \in epEof
    /\ IF epIn[c] = <<>> THEN epThread' = [epThread EXCEPT ![t].fd = "none"] /\ UNCHANGED epIn
       ELSE \E n \in 1..Len(epIn[c]) :
              /\ epThread' = [epThread EXCEPT ![t].buf = SubSeq(epIn[c], 1, n)]
              /\ epIn' = [epIn EXCEPT ![c] = SubSeq(@, n + 1, Len(@))]
    /\ UNCHANGED <<epReady, epBacklog, epReg, epSent, epEof, epReset, epOut, EpFate>>

\* getpeername(2) and send(2) of what was received.  After a reset either fails, and the
\* chunk is dropped; or send(2) raises SIGPIPE.
EpSend(t) ==
  LET c == epThread[t].fd IN
    /\ c \in EpClients /\ epThread[t].buf # <<>>
    /\ epOut' = [epOut EXCEPT ![c] = @ \o epThread[t].buf]
    /\ epThread' = [epThread EXCEPT ![t] = [events |-> @.events, fd |-> "none", buf |-> <<>>]]
    /\ \/ c \notin epReset /\ UNCHANGED EpFate
       \/ /\ c \in epReset /\ epLost' = [epLost EXCEPT ![c] = @ \cup ToSet(epThread[t].buf)]
          /\ epDead' \in BOOLEAN
    /\ UNCHANGED <<epReady, epBacklog, epReg, epIn, epSent, epEof, epReset>>

EpWorker(t) == EpWait(t) \/ EpPick(t) \/ EpAccept(t) \/ EpRecv(t) \/ EpSend(t)
EpNext ==
  /\ ~epDead
  /\ \/ \E t \in EpThreads : EpWorker(t)
     \/ \E c \in EpClients : EpConnect(c) \/ EpArrives(c) \/ EpResets(c)

OsInit ==
  /\ osStdin = <<>> /\ osArmed = TRUE /\ osBuff = 0 /\ osSem = 0 /\ osSignal = FALSE
  /\ osDisp = "wait" /\ osCons = "wait" /\ osTyped = 0 /\ osSeen = <<>>

\* The user types a chunk, ends the input or sends SIGUSR1, at any time.
END_OF_INPUT == 0
OsUser ==
  /\ osDisp # "exit"
  /\ \/ /\ osTyped <= OsChunks /\ osTyped' = OsChunks + 1
        /\ osStdin' = Append(osStdin, END_OF_INPUT) /\ UNCHANGED osSignal
     \/ /\ osTyped < OsChunks /\ osTyped' = osTyped + 1
        /\ osStdin' = Append(osStdin, osTyped + 1) /\ UNCHANGED osSignal
     \/ osSignal' = TRUE /\ UNCHANGED <<osTyped, osStdin>>
  /\ UNCHANGED <<osArmed, osBuff, osSem, osDisp, osCons, osSeen>>

\* epoll_wait(2) returns when stdin is armed and readable, and disarms it.
OsWait ==
  /\ osDisp = "wait" /\ osArmed /\ osStdin # <<>>
  /\ osArmed' = FALSE /\ osDisp' = "read"
  /\ UNCHANGED <<osStdin, osBuff, osSem, osSignal, osCons, osTyped, osSeen>>

\* read(2); at the end of the input the whole program exits.
OsRead ==
  /\ osDisp = "read"
  /\ osBuff' = Head(osStdin) /\ osStdin' = Tail(osStdin)
  /\ osDisp' = IF Head(osStdin) = END_OF_INPUT THEN "exit" ELSE "post"
  /\ UNCHANGED <<osArmed, osSem, osSignal, osCons, osTyped, osSeen>>

OsPost ==
  /\ osDisp = "post" /\ osSem' = osSem + 1 /\ osDisp' = "wait"
  /\ UNCHANGED <<osStdin, osArmed, osBuff, osSignal, osCons, osTyped, osSeen>>

\* The consumer: a chunk, its processing, SIGUSR1, and stdin is armed again.
OsConsume ==
  /\ osDisp # "exit"
  /\ \/ /\ osCons = "wait" /\ osSem > 0 /\ osSem' = osSem - 1 /\ osCons' = "use"
        /\ osSeen' = Append(osSeen, osBuff) /\ UNCHANGED <<osSignal, osArmed>>
     \/ /\ osCons = "use" /\ osCons' = "sigwait"
        /\ UNCHANGED <<osSem, osSeen, osSignal, osArmed>>
     \/ /\ osCons = "sigwait" /\ osSignal /\ osSignal' = FALSE /\ osCons' = "rearm"
        /\ UNCHANGED <<osSem, osSeen, osArmed>>
     \/ /\ osCons = "rearm" /\ osArmed' = TRUE /\ osCons' = "wait"
        /\ UNCHANGED <<osSem, osSeen, osSignal>>
  /\ UNCHANGED <<osStdin, osBuff, osDisp, osTyped>>

OsDispatcher == OsWait \/ OsRead \/ OsPost
OsNext == OsUser \/ OsDispatcher \/ OsConsume

EpSpec == EpInit /\ [][EpNext]_epVars
OsSpec == OsInit /\ [][OsNext]_osVars
----------------------------------------------------------------------------
InHand(c) == {t \in EpThreads : epThread[t].fd = c}

\* No chunk is forgotten, handled twice or sent to another client; none is lost but those of
\* a client that reset its connection, and nothing else kills the server; and accept(2)
\* never blocks a thread: no more edges were reported than connections wait.
EpKeeps ==
  /\ \A c \in EpClients :
       LET held == UNION {ToSet(epThread[t].buf) : t \in InHand(c)} IN
         /\ ToSet(epOut[c]) \cup held \cup ToSet(epIn[c]) = 1..epSent[c]
         /\ Len(epOut[c]) + Cardinality(held) + Len(epIn[c]) = epSent[c]
         /\ IsInjective(epOut[c])
         /\ epLost[c] # {} => c \in epReset
  /\ epDead => \E c \in epReset : epLost[c] # {}
  /\ Cardinality({t \in EpThreads : SERVER \in epThread[t].events \cup {epThread[t].fd}})
       + (IF SERVER \in epReady THEN 1 ELSE 0) <= Len(epBacklog)

\* The chunks come through one at a time, each once and in order, and
\* input_buff is not written while the consumer may still read it.
OsPassesOn ==
  /\ \A i \in DOMAIN osSeen : osSeen[i] = i
  /\ osSem <= 1
  /\ osDisp \in {"read", "post"} => osCons = "wait" /\ osSem = 0

\* "epoll_wait(2) will fire an EPOLLIN event for that descriptor as soon as it
\* is rearmed" (ep_oneshot_test.c:10): input that waits when stdin is armed
\* again reaches the consumer, or ends the program.
OsWaits == osArmed /\ osStdin # <<>>
OsFired == osCons = "use" \/ osDisp = "exit"
OsFires == OsWaits ~> OsFired
=============================================================================
