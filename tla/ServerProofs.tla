---------------------------- MODULE ServerProofs ----------------------------
(* Proofs about the servers, for every number of clients and requests.     *)
EXTENDS MCServers, SequenceTheorems, FiniteSetTheorems, WellFoundedInduction, TLAPS
----------------------------------------------------------------------------
(* The open server as a daemon.                                            *)

OdReplies == {"none", "fd", "other", "errno"}
OdType ==
  /\ odPc \in [OdClients -> {"start", "idle", "await", "gone"}]
  /\ odAsk \in [OdClients -> Asks \cup {"none"}]
  /\ odInput \in [OdClients -> BOOLEAN]
  /\ odReply \in [OdClients -> OdReplies]
  /\ odLog \in [OdClients -> Seq((Asks \cup {"none"}) \X OdReplies)]
  /\ odCurrent = <<>> \/ odCurrent \in OdClients \X (OdReplies \ {"none"})

\* The request of client c is with the daemon, which sends an answer to nobody else.
OdPending(c) == odInput[c] \/ (odCurrent # <<>> /\ odCurrent[1] = c)

\* A client whose request is with the daemon waits for it or is gone, and an
\* answer in its socket is the answer to the request it waits with.
OdMatch(c) ==
  /\ odDaemon = "run" /\ OdPending(c) =>
       odReply[c] = "none" /\ odPc[c] \in {"await", "gone"}
  /\ odReply[c] # "none" =>
       odReply[c] \in AnswersTo(odAsk[c]) /\ odPc[c] \in {"await", "gone"}
  /\ \A i \in DOMAIN odLog[c] : odLog[c][i][2] \in AnswersTo(odLog[c][i][1]) \cup {"none"}

\* The answer being sent, and the one descriptor the daemon holds for it.
OdSending ==
  /\ odDaemon # "run" => odCurrent = <<>>
  /\ odCurrent = <<>> => odOpened = 0
  /\ odCurrent # <<>> =>
       /\ ~odInput[odCurrent[1]]
       /\ odCurrent[2] \in AnswersTo(odAsk[odCurrent[1]])
       /\ odOpened = Descriptors(odCurrent[2])

OdInv == OdType /\ OdSending /\ \A c \in OdClients : OdMatch(c)

LEMMA OdInitInv == OdInit => OdInv
<1> SUFFICES ASSUME OdInit PROVE OdInv
  OBVIOUS
<1>1. OdType
  BY DEF OdInit, OdType, OdReplies
<1>2. OdSending /\ \A c \in OdClients : OdMatch(c)
  BY DEF OdInit, OdSending, OdMatch, OdPending
<1> QED
  BY <1>1, <1>2 DEF OdInv

LEMMA OdNextInv ==
  ASSUME OdInv, [OdNext]_odVars
  PROVE  OdInv'
<1>t. OdType
  BY DEF OdInv
<1>s. OdSending
  BY DEF OdInv
<1>m. \A c \in OdClients : OdMatch(c)
  BY DEF OdInv
<1>1. CASE UNCHANGED <<odCurrent, odOpened, odDaemon, odPc, odAsk, odInput, odReply, odLog>>
  BY <1>t, <1>s, <1>m, <1>1 DEF OdInv, OdType, OdSending, OdMatch, OdPending
<1>2. ASSUME NEW c \in OdClients, OdConnect(c) PROVE OdInv'
  <2>1. /\ odPc[c] = "start" /\ odPc' \in {[odPc EXCEPT ![c] = "idle"], [odPc EXCEPT ![c] = "gone"]}
        /\ UNCHANGED <<odCurrent, odOpened, odDaemon, odAsk, odInput, odReply, odLog>>
    BY <1>2 DEF OdConnect, OdGoes, odDaemonSide
  <2>2. OdType'
    BY <1>t, <2>1 DEF OdType
  <2>3. OdSending'
    BY <1>s, <2>1 DEF OdSending
  <2>4. \A d \in OdClients : OdMatch(d)'
    BY <1>t, <1>m, <2>1 DEF OdMatch, OdPending, OdType
  <2> QED
    BY <2>2, <2>3, <2>4 DEF OdInv
<1>3. ASSUME NEW c \in OdClients, NEW ask \in Asks, OdRequest(c, ask) PROVE OdInv'
  <2>1. odPc[c] = "idle" /\ UNCHANGED <<odCurrent, odOpened, odDaemon, odReply, odLog>>
    BY <1>3 DEF OdRequest, odDaemonSide
  <2>2. CASE /\ odDaemon = "run" /\ odPc' = [odPc EXCEPT ![c] = "await"]
             /\ odAsk' = [odAsk EXCEPT ![c] = ask] /\ odInput' = [odInput EXCEPT ![c] = TRUE]
    <3>1. odReply[c] = "none" /\ ~OdPending(c)
      BY <1>m, <2>1, <2>2 DEF OdMatch
    <3>2. OdType'
      BY <1>t, <2>1, <2>2 DEF OdType
    <3>3. OdSending'
      BY <1>t, <1>s, <2>1, <2>2, <3>1 DEF OdSending, OdPending, OdType
    <3>4. ASSUME NEW d \in OdClients PROVE OdMatch(d)'
      BY <1>t, <1>m, <2>1, <2>2, <3>1 DEF OdMatch, OdPending, OdType
    <3> QED
      BY <3>2, <3>3, <3>4 DEF OdInv
  <2>3. CASE odDaemon # "run" /\ odPc' = [odPc EXCEPT ![c] = "gone"] /\ UNCHANGED <<odAsk, odInput>>
    <3>1. OdType'
      BY <1>t, <2>1, <2>3 DEF OdType
    <3>2. OdSending'
      BY <1>s, <2>1, <2>3 DEF OdSending
    <3>3. \A d \in OdClients : OdMatch(d)'
      BY <1>t, <1>m, <2>1, <2>3 DEF OdMatch, OdPending, OdType
    <3> QED
      BY <3>1, <3>2, <3>3 DEF OdInv
  <2> QED
    BY <1>3, <2>2, <2>3 DEF OdRequest, OdGoes
<1>4. ASSUME NEW c \in OdClients, OdReceive(c) PROVE OdInv'
  <2>1. /\ odPc[c] = "await" /\ (odReply[c] # "none" \/ odDaemon # "run")
        /\ odLog' = [odLog EXCEPT ![c] = Append(@, <<odAsk[c], odReply[c]>>)]
        /\ odReply' = [odReply EXCEPT ![c] = "none"] /\ odAsk' = [odAsk EXCEPT ![c] = "none"]
        /\ odPc' = [odPc EXCEPT ![c] = "idle"]
        /\ UNCHANGED <<odCurrent, odOpened, odDaemon, odInput>>
    BY <1>4 DEF OdReceive, OdGoes, odDaemonSide
  <2>2. odDaemon = "run" => ~OdPending(c)
    BY <1>m, <2>1 DEF OdMatch
  <2>3. /\ odAsk[c] \in Asks \cup {"none"} /\ odReply[c] \in OdReplies
        /\ odLog[c] \in Seq((Asks \cup {"none"}) \X OdReplies)
    BY <1>t DEF OdType
  <2>4. odLog'[c] = Append(odLog[c], <<odAsk[c], odReply[c]>>)
        /\ \A d \in OdClients : d # c => odLog'[d] = odLog[d]
    BY <1>t, <2>1 DEF OdType
  <2>5. \A i \in DOMAIN odLog'[c] : odLog'[c][i][2] \in AnswersTo(odLog'[c][i][1]) \cup {"none"}
    <3> SUFFICES ASSUME NEW i \in DOMAIN odLog'[c]
                 PROVE  odLog'[c][i][2] \in AnswersTo(odLog'[c][i][1]) \cup {"none"}
      OBVIOUS
    <3>1. Len(odLog[c]) \in Nat /\ DOMAIN odLog[c] = 1..Len(odLog[c]) /\ i \in 1..(Len(odLog[c]) + 1)
      BY <2>3, <2>4
    <3>2. CASE i \in 1..Len(odLog[c])
      BY <1>m, <2>3, <2>4, <3>1, <3>2 DEF OdMatch
    <3>3. CASE i = Len(odLog[c]) + 1
      <4>1. odLog'[c][i] = <<odAsk[c], odReply[c]>>
        BY <2>3, <2>4, <3>3
      <4>2. odReply[c] \in AnswersTo(odAsk[c]) \cup {"none"}
        BY <1>m DEF OdMatch
      <4> QED
        BY <4>1, <4>2
    <3> QED
      BY <3>1, <3>2, <3>3
  <2>6. OdType'
    <3>1. odLog' \in [OdClients -> Seq((Asks \cup {"none"}) \X OdReplies)]
      BY <1>t, <2>1, <2>3 DEF OdType
    <3> QED
      BY <1>t, <2>1, <3>1 DEF OdType, OdReplies
  <2>7. OdSending'
    BY <1>t, <1>s, <2>1, <2>2 DEF OdSending, OdType, OdPending
  <2>8. ASSUME NEW d \in OdClients PROVE OdMatch(d)'
    <3>1. CASE d = c
      <4>1. odDaemon' = "run" => ~OdPending(c)'
        BY <2>1, <2>2 DEF OdPending
      <4>2. odReply'[c] = "none"
        BY <1>t, <2>1 DEF OdType
      <4> QED
        BY <2>5, <3>1, <4>1, <4>2 DEF OdMatch
    <3>2. CASE d # c
      BY <1>t, <1>m, <2>1, <2>4, <3>2 DEF OdMatch, OdPending, OdType
    <3> QED
      BY <3>1, <3>2
  <2> QED
    BY <2>6, <2>7, <2>8 DEF OdInv
<1>5. ASSUME NEW c \in OdClients, OdLeave(c) PROVE OdInv'
  <2>1. /\ odPc[c] \in {"idle", "await"}
        /\ odPc' = [odPc EXCEPT ![c] = "gone"]
        /\ UNCHANGED <<odCurrent, odOpened, odDaemon, odAsk, odInput, odReply, odLog>>
    BY <1>5 DEF OdLeave, OdGoes, odDaemonSide
  <2>2. OdType'
    BY <1>t, <2>1 DEF OdType
  <2>3. OdSending'
    BY <1>s, <2>1 DEF OdSending
  <2>4. \A d \in OdClients : OdMatch(d)'
    BY <1>t, <1>m, <2>1 DEF OdMatch, OdPending, OdType
  <2> QED
    BY <2>2, <2>3, <2>4 DEF OdInv
<1>6. ASSUME NEW e \in odEvents, OdTakeSignal(e) PROVE OdInv'
  <2>1. /\ odDaemon = "run" /\ odCurrent = <<>> /\ odDaemon' \in {"run", "left"}
        /\ UNCHANGED <<odCurrent, odOpened, odPc, odAsk, odInput, odReply, odLog>>
    BY <1>6 DEF OdTakeSignal, Handles, odClientSide
  <2> QED
    BY <1>t, <1>s, <1>m, <2>1 DEF OdInv, OdType, OdSending, OdMatch, OdPending
<1>7. ASSUME NEW e \in odEvents, OdServe(e) PROVE OdInv'
  <2>0. PICK c \in OdClients : c = e[1]
    BY <1>7 DEF OdServe
  <2>1. /\ odDaemon = "run" /\ odCurrent = <<>> /\ odInput' = [odInput EXCEPT ![c] = FALSE]
        /\ UNCHANGED <<odDaemon, odPc, odAsk, odReply, odLog>>
    BY <1>7, <2>0 DEF OdServe, Handles, odClientSide
  <2>2. ASSUME odInput[c], NEW answer \in AnswersTo(odAsk[c]), odCurrent' = <<c, answer>>,
               odOpened' = odOpened + Descriptors(answer)
        PROVE  OdInv'
    <3>1. odCurrent'[1] = c /\ odCurrent'[2] \in AnswersTo(odAsk[c]) /\ odCurrent' # <<>>
      BY <2>2
    <3>2. odCurrent' \in OdClients \X (OdReplies \ {"none"})
      BY <2>2 DEF AnswersTo, OdReplies
    <3>3. OdType'
      BY <1>t, <2>1, <3>2 DEF OdType
    <3>4. odOpened' = Descriptors(odCurrent'[2])
      BY <1>s, <2>1, <2>2, <3>1 DEF OdSending, Descriptors
    <3>5. ~odInput'[c]
      BY <1>t, <2>1 DEF OdType
    <3>6. OdSending'
      BY <2>1, <3>1, <3>4, <3>5 DEF OdSending
    <3>7. \A d \in OdClients : OdPending(d)' => OdPending(d)
      BY <1>t, <2>1, <2>2, <3>1 DEF OdPending, OdType
    <3>8. \A d \in OdClients : OdMatch(d)'
      BY <1>m, <2>1, <3>7 DEF OdMatch
    <3> QED
      BY <3>3, <3>6, <3>8 DEF OdInv
  <2>3. CASE UNCHANGED <<odCurrent, odOpened>>
    <3>1. OdType'
      BY <1>t, <2>1, <2>3 DEF OdType
    <3>2. OdSending'
      BY <1>s, <2>1, <2>3 DEF OdSending
    <3>3. \A d \in OdClients : OdPending(d)' => OdPending(d)
      BY <1>t, <2>1, <2>3 DEF OdPending, OdType
    <3>4. \A d \in OdClients : OdMatch(d)'
      BY <1>m, <2>1, <3>3 DEF OdMatch
    <3> QED
      BY <3>1, <3>2, <3>4 DEF OdInv
  <2> QED
    BY <1>7, <2>0, <2>2, <2>3 DEF OdServe
<1>8. CASE OdAnswer
  <2>1. /\ odDaemon = "run" /\ odCurrent # <<>> /\ odCurrent' = <<>>
        /\ odOpened' = odOpened - Descriptors(odCurrent[2])
        /\ UNCHANGED <<odPc, odAsk, odInput, odLog>>
    BY <1>8 DEF OdAnswer, odClientSide
  <2>0. PICK c \in OdClients : c = odCurrent[1]
    BY <1>t, <2>1 DEF OdType
  <2>2. odOpened' = 0 /\ ~odInput[c] /\ odCurrent[2] \in AnswersTo(odAsk[c])
    BY <1>s, <2>0, <2>1 DEF OdSending, Descriptors
  <2>3. OdSending'
    BY <2>1, <2>2 DEF OdSending
  <2>4. \A d \in OdClients : (OdPending(d)' => OdPending(d)) /\ ~OdPending(c)'
    BY <2>1, <2>2 DEF OdPending
  <2>5. odPc[c] \in {"await", "gone"}
    BY <1>m, <2>0, <2>1 DEF OdMatch, OdPending
  <2>6. CASE odDaemon' = "killed" /\ UNCHANGED odReply
    <3>1. OdType'
      BY <1>t, <2>1, <2>6 DEF OdType
    <3>2. \A d \in OdClients : OdMatch(d)'
      BY <1>m, <2>1, <2>6 DEF OdMatch
    <3> QED
      BY <2>3, <3>1, <3>2 DEF OdInv
  <2>7. CASE odReply' = [odReply EXCEPT ![c] = odCurrent[2]] /\ UNCHANGED odDaemon
    <3>1. OdType'
      BY <1>t, <2>1, <2>2, <2>7 DEF OdType, OdReplies, AnswersTo
    <3>2. odReply'[c] \in AnswersTo(odAsk[c]) /\ \A d \in OdClients : d # c => odReply'[d] = odReply[d]
      BY <1>t, <2>2, <2>7 DEF OdType
    <3>3. ASSUME NEW d \in OdClients PROVE OdMatch(d)'
      <4>1. CASE d = c
        BY <1>m, <2>1, <2>4, <2>5, <3>2, <4>1 DEF OdMatch
      <4>2. CASE d # c
        BY <1>m, <2>1, <2>4, <2>7, <3>2, <4>2 DEF OdMatch
      <4> QED
        BY <4>1, <4>2
    <3> QED
      BY <2>3, <3>1, <3>3 DEF OdInv
  <2> QED
    BY <1>8, <2>0, <2>2, <2>6, <2>7 DEF OdAnswer
<1>9. CASE OdWait \/ (\E e \in odEvents : OdHangUp(e) \/ OdAccept(e)) \/ (\E s \in {"HUP", "TERM"} : OdSignal(s))
           \/ UNCHANGED odVars
  BY <1>1, <1>9 DEF OdWait, OdHangUp, OdAccept, OdSignal, odVars, odClientSide, odDaemonSide
<1> QED
  BY <1>2, <1>3, <1>4, <1>5, <1>6, <1>7, <1>8, <1>9 DEF OdNext, OdStep

\* Every answer in the log of a client is the answer to its own request, as sscanf(3) reads
\* it, however many clients ask at the same time, leave or see the daemon end.
THEOREM OdAnswersRight == OdSpec => [](OdRight /\ (odCurrent = <<>> => odOpened = 0))
<1>1. OdInv /\ [OdNext]_odVars => OdInv'
  BY OdNextInv
<1>2. OdInv => OdRight /\ (odCurrent = <<>> => odOpened = 0)
  BY DEF OdInv, OdMatch, OdSending, OdRight
<1> QED
  BY <1>1, <1>2, OdInitInv, PTL DEF OdSpec
----------------------------------------------------------------------------
(* The open server as a child process.                                     *)

\* There is an answer only while the client waits, to the request it waits with;
\* a request that nobody will read any more is not left for the next server.
OfInv ==
  /\ ofLog \in Seq((Asks \cup {"none"}) \X OdReplies)
  /\ ofAsk \in Asks \cup {"none"} /\ ofReply \in OdReplies /\ ofInput \in BOOLEAN
  /\ ofReply # "none" => ofReply \in AnswersTo(ofAsk) /\ ofClient = "await"
  /\ ofInput => ofClient \notin {"idle", "send"} /\ ofReply = "none"
  /\ ofInput /\ ofChild # "gone" => ofClient = "await"
  /\ OfRight

LEMMA OfInitInv == OfInit => OfInv
<1> SUFFICES ASSUME OfInit PROVE OfInv
  OBVIOUS
<1>1. ofInput = FALSE
  BY DEF OfInit
<1>2. ofLog = <<>> /\ ofAsk = "none" /\ ofReply = "none"
  BY DEF OfInit
<1>3. ofLog \in Seq((Asks \cup {"none"}) \X OdReplies)
  BY <1>2
<1>4. DOMAIN ofLog = {}
  BY <1>2
<1>5. OfRight
  BY <1>4 DEF OfRight
<1> QED
  BY <1>1, <1>2, <1>3, <1>5 DEF OfInv, OdReplies

LEMMA OfNextInv ==
  ASSUME OfInv, [OfNext]_ofVars
  PROVE  OfInv'
<1> USE DEF OfInv
<1>1. CASE UNCHANGED ofVars
  BY <1>1 DEF ofVars, OfRight
<1>2. ASSUME NEW ask \in Asks, OfFork(ask) PROVE OfInv'
  BY <1>2 DEF OfFork, OfRight
<1>3. CASE OfExec
  BY <1>3 DEF OfExec, OfRight
<1>4. CASE OfSend
  BY <1>4 DEF OfSend, OfRight
<1>5. CASE OfServe
  BY <1>5 DEF OfServe, OfRight, AnswersTo, OdReplies
<1>6. CASE OfReceive
  <2>1. /\ ofLog' = Append(ofLog, <<ofAsk, ofReply>>) /\ ofReply' = "none" /\ ofClient' = "wait"
        /\ ofClient = "await" /\ (ofReply # "none" \/ ofChild = "gone")
        /\ UNCHANGED <<ofChild, ofAsk, ofInput>>
    BY <1>6 DEF OfReceive
  <2>2. ofReply \in AnswersTo(ofAsk) \cup {"none"}
    OBVIOUS
  <2>3. ofLog' \in Seq((Asks \cup {"none"}) \X OdReplies)
    BY <2>1
  <2>4. OfRight'
    <3> SUFFICES ASSUME NEW i \in DOMAIN ofLog'
                 PROVE  ofLog'[i][2] \in AnswersTo(ofLog'[i][1]) \cup {"none"}
      BY DEF OfRight
    <3>1. Len(ofLog) \in Nat /\ DOMAIN ofLog = 1..Len(ofLog) /\ i \in 1..(Len(ofLog) + 1)
      BY <2>1
    <3>2. CASE i \in 1..Len(ofLog)
      BY <2>1, <3>1, <3>2 DEF OfRight
    <3>3. CASE i = Len(ofLog) + 1
      <4>1. ofLog'[i] = <<ofAsk, ofReply>>
        BY <2>1, <3>3
      <4> QED
        BY <2>2, <4>1
    <3> QED
      BY <3>1, <3>2, <3>3
  <2> QED
    BY <2>1, <2>3, <2>4 DEF OdReplies
<1>7. CASE OfReap
  BY <1>7 DEF OfReap, OfRight
<1> QED
  BY <1>1, <1>2, <1>3, <1>4, <1>5, <1>6, <1>7 DEF OfNext, OfStep

\* The client that forks its server gets the answer to its request, as sscanf(3) reads it,
\* as well.
THEOREM OfAnswersRight == OfSpec => []OfRight
<1>1. OfInv /\ [OfNext]_ofVars => OfInv'
  BY OfNextInv
<1>2. OfInv => OfRight
  BY DEF OfInv
<1> QED
  BY <1>1, <1>2, OfInitInv, PTL DEF OfSpec
----------------------------------------------------------------------------
(* The echo server and its clients over FIFOs or UNIX domain sockets.      *)

EcLeft == {"goodbye", "leaving", "leaving again", "done", "killed"}
EcPlaces ==
  {"start", "request", "open1", "open2", "open3", "connected", "type", "recv", "failed"} \cup EcLeft
EcTaken == {"open1", "open2", "open3", "recv", "send"}
EcType ==
  /\ ecPc \in [EcClients -> EcPlaces]
  /\ ecReq \in Seq(EcClients)
  /\ ecServer \in EcTaken => ecPeer \in EcClients

\* Who asked for a connection has made its names and will not make them again.
EcAsked ==
  /\ \A i \in DOMAIN ecReq : ecPc[ecReq[i]] # "start"
  /\ ecServer \in EcTaken => ecPc[ecPeer] # "start"

EcInv == EcType /\ EcAsked /\ EcClean

\* The names of a client are its own.
LEMMA EcNames ==
  ASSUME NEW c, NEW d
  PROVE  /\ Main \notin OwnFiles(c)
         /\ c # d => OwnFiles(c) \cap OwnFiles(d) = {}
<1>1. \A x, y, u, v : <<x, y>> = <<u, v>> => x = u /\ y = v
  OBVIOUS
<1> QED
  BY <1>1 DEF OwnFiles, Main

LEMMA EcInitInv == EcInit => EcInv
<1> SUFFICES ASSUME EcInit PROVE EcInv
  OBVIOUS
<1> QED
  BY DEF EcInit, EcInv, EcType, EcAsked, EcClean, EcTaken, EcPlaces, EcOpened

\* accept_client() takes the first request.
LEMMA EcTake ==
  ASSUME EcType, EcAsked, ecReq # <<>>, ecPeer' = Head(ecReq), ecReq' = Tail(ecReq), ecPc' = ecPc
  PROVE  EcType' /\ EcAsked'
<1>1. ecReq \in Seq(EcClients) /\ Len(ecReq) \in Nat \ {0} /\ Head(ecReq) = ecReq[1]
  BY EmptySeq DEF EcType
<1>2. ecReq' \in Seq(EcClients) /\ DOMAIN ecReq' = 1..(Len(ecReq) - 1)
      /\ \A i \in 1..(Len(ecReq) - 1) : ecReq'[i] = ecReq[i + 1]
  BY <1>1
<1>3. DOMAIN ecReq = 1..Len(ecReq)
  BY <1>1
<1>4. ecPeer' \in EcClients /\ ecPc[ecPeer'] # "start"
  BY <1>1, <1>3 DEF EcAsked
<1>5. \A i \in DOMAIN ecReq' : ecPc[ecReq'[i]] # "start"
  BY <1>1, <1>2, <1>3 DEF EcAsked
<1> QED
  BY <1>2, <1>4, <1>5 DEF EcType, EcAsked

\* A step of a client that has its names, or of the server, that makes no names
\* keeps them away.
LEMMA EcNextInv ==
  ASSUME EcInv, [EcNext]_ecVars
  PROVE  EcInv'
<1>t. EcType
  BY DEF EcInv
<1>a. EcAsked
  BY DEF EcInv
<1>c. EcClean
  BY DEF EcInv
<1>n. ecKind' = ecKind => \A c : OwnFiles(c)' = OwnFiles(c)
  BY DEF OwnFiles
<1>1. CASE UNCHANGED ecVars
  BY <1>t, <1>a, <1>c, <1>1 DEF ecVars, EcInv, EcType, EcAsked, EcClean, OwnFiles
<1>2. ASSUME NEW c \in EcClients, CliCreate(c) PROVE EcInv'
  <2>1. /\ ecPc[c] = "start" /\ ecPc' = [ecPc EXCEPT ![c] = "request"]
        /\ ecFiles' = ecFiles \cup OwnFiles(c)
        /\ UNCHANGED <<ecReq, ecKind, ecServer, ecPeer>>
    BY <1>2 DEF CliCreate, Goes, ServerSame
  <2>2. EcType'
    BY <1>t, <2>1 DEF EcType, EcPlaces
  <2>3. EcAsked'
    BY <1>t, <1>a, <2>1 DEF EcType, EcAsked, EcTaken
  <2>4. EcClean'
    <3>1. ASSUME NEW d \in EcClients, ecKind = "fifo", ecPc'[d] \in EcOpened
          PROVE  OwnFiles(d) \cap ecFiles' = {}
      <4>1. d # c /\ ecPc'[d] = ecPc[d]
        BY <1>t, <2>1, <3>1 DEF EcType, EcOpened
      <4> QED
        BY <1>c, <2>1, <3>1, <4>1, EcNames DEF EcClean
    <3>2. ecKind = "unix" /\ ecServer \in {"recv", "send"} => OwnFiles(ecPeer) \cap ecFiles' = {}
      <4>1. ecServer \in {"recv", "send"} => ecPeer # c
        BY <1>a, <2>1 DEF EcAsked, EcTaken
      <4> QED
        BY <1>c, <2>1, <4>1, EcNames DEF EcClean
    <3>3. Main \in ecFiles' => Main \in ecFiles
      BY <2>1, EcNames
    <3> QED
      BY <1>c, <1>n, <2>1, <3>1, <3>2, <3>3 DEF EcClean
  <2> QED
    BY <2>2, <2>3, <2>4 DEF EcInv
<1>3. ASSUME NEW c \in EcClients, CliRequestFifo(c) \/ CliConnectUnix(c) PROVE EcInv'
  <2>1. /\ ecPc[c] = "request" /\ ecFiles' \subseteq ecFiles /\ UNCHANGED <<ecKind, ecServer, ecPeer>>
        /\ \/ ecReq' = Append(ecReq, c) /\ ecPc' = [ecPc EXCEPT ![c] = "open1"]
           \/ ecReq' = Append(ecReq, c) /\ ecPc' = [ecPc EXCEPT ![c] = "connected"] /\ ecKind = "unix"
           \/ ecReq' = ecReq /\ ecPc' = [ecPc EXCEPT ![c] = "failed"]
    BY <1>3 DEF CliRequestFifo, CliConnectUnix, Goes, ServerSame
  <2>2. EcType'
    BY <1>t, <2>1 DEF EcType, EcPlaces
  <2>3. EcAsked'
    <3>1. ecPc'[c] # "start" /\ \A d \in EcClients : d # c => ecPc'[d] = ecPc[d]
      BY <1>t, <2>1 DEF EcType
    <3>2. \A i \in DOMAIN ecReq' : ecReq'[i] = c \/ (i \in DOMAIN ecReq /\ ecReq'[i] = ecReq[i])
      BY <1>t, <2>1 DEF EcType
    <3>3. \A i \in DOMAIN ecReq : ecReq[i] \in EcClients
      BY <1>t DEF EcType
    <3> QED
      BY <1>t, <1>a, <2>1, <3>1, <3>2, <3>3 DEF EcType, EcAsked
  <2>4. EcClean'
    BY <1>t, <1>c, <1>n, <2>1 DEF EcType, EcClean, EcOpened
  <2> QED
    BY <2>2, <2>3, <2>4 DEF EcInv
<1>4. ASSUME NEW c \in EcClients, CliOpened(c) PROVE EcInv'
  <2>1. /\ ecPc[c] = "open3" /\ ecPc' = [ecPc EXCEPT ![c] = "connected"]
        /\ ecFiles' = ecFiles \ OwnFiles(c) /\ UNCHANGED <<ecReq, ecKind, ecServer, ecPeer>>
    BY <1>4 DEF CliOpened, Goes, ServerSame
  <2>2. EcType'
    BY <1>t, <2>1 DEF EcType, EcPlaces
  <2>3. EcAsked'
    BY <1>t, <1>a, <2>1 DEF EcType, EcAsked
  <2>4. EcClean'
    BY <1>t, <1>c, <1>n, <2>1 DEF EcType, EcClean, EcOpened
  <2> QED
    BY <2>2, <2>3, <2>4 DEF EcInv
<1>5. ASSUME NEW c \in EcClients, NEW at \in EcPlaces \ {"start"},
             ecPc[c] # "start", at \in EcOpened => ecPc[c] \in EcOpened,
             ecPc' = [ecPc EXCEPT ![c] = at], ecFiles' \subseteq ecFiles,
             UNCHANGED <<ecReq, ecKind, ecServer, ecPeer>>
      PROVE  EcInv'
  <2>2. EcType'
    BY <1>t, <1>5 DEF EcType
  <2>3. EcAsked'
    BY <1>t, <1>a, <1>5 DEF EcType, EcAsked
  <2>4. EcClean'
    BY <1>t, <1>c, <1>n, <1>5 DEF EcType, EcClean
  <2> QED
    BY <2>2, <2>3, <2>4 DEF EcInv
<1>6. ASSUME NEW c \in EcClients, CliOpen(c) PROVE EcInv'
  <2>1. \E at \in {"open2", "open3"} : ecPc' = [ecPc EXCEPT ![c] = at]
    BY <1>6 DEF CliOpen, Goes
  <2>2. ecPc[c] # "start" /\ UNCHANGED <<ecFiles, ecReq, ecKind, ecServer, ecPeer>>
    BY <1>6 DEF CliOpen, ServerSame
  <2> QED
    BY <1>5, <2>1, <2>2 DEF EcPlaces, EcOpened
<1>7. ASSUME NEW c \in EcClients,
             CliSetup(c) \/ CliLine(c) \/ CliRecv(c) \/ CliEof(c) \/ CliSignal(c) \/ CliLeave(c)
      PROVE  EcInv'
  <2>1. \E at \in {"type", "recv", "goodbye", "leaving", "leaving again", "done", "killed"} :
          ecPc' = [ecPc EXCEPT ![c] = at]
    BY <1>7 DEF CliSetup, CliLine, CliRecv, CliEof, CliSignal, CliLeave, CliSendsQuit, CliSends, Goes
  <2>2. /\ ecPc[c] \in {"connected", "type", "recv", "goodbye", "leaving", "leaving again"}
        /\ ecFiles' \subseteq ecFiles /\ UNCHANGED <<ecReq, ecKind, ecServer, ecPeer>>
    BY <1>7 DEF CliSetup, CliLine, CliRecv, CliEof, CliSignal, CliLeave, CliSendsQuit, ServerSame
  <2> QED
    BY <1>5, <2>1, <2>2 DEF EcPlaces, EcOpened, EcLeft
<1>8. ASSUME NEW c \in EcClients, CliKilled(c) PROVE EcInv'
  <2>1. /\ ecPc' = [ecPc EXCEPT ![c] = "killed"] /\ UNCHANGED <<ecFiles, ecReq, ecKind, ecServer, ecPeer>>
    BY <1>8 DEF CliKilled, Goes, ServerSame
  <2>2. EcType'
    BY <1>t, <2>1 DEF EcType, EcPlaces, EcLeft
  <2>3. EcAsked'
    BY <1>t, <1>a, <2>1 DEF EcType, EcAsked
  <2>4. EcClean'
    BY <1>t, <1>c, <1>n, <2>1 DEF EcType, EcClean, EcOpened
  <2> QED
    BY <2>2, <2>3, <2>4 DEF EcInv
<1>9. ASSUME NEW at \in {"done", "failed", "killed", "left"}, ecServer' = at,
             ecFiles' = (IF ecKind = "fifo" /\ at \in {"done", "failed"} THEN ecFiles \ {Main}
                         ELSE ecFiles),
             UNCHANGED <<ecReq, ecKind, ecPc, ecPeer>>
      PROVE  EcInv'
  <2>1. EcType' /\ EcAsked'
    BY <1>t, <1>a, <1>9 DEF EcType, EcAsked, EcTaken
  <2>2. EcClean'
    BY <1>c, <1>n, <1>9 DEF EcClean
  <2> QED
    BY <2>1, <2>2 DEF EcInv
<1>10. CASE SrvCreate
  <2>1. CASE SrvExit("failed")
    BY <1>9, <1>10, <2>1 DEF SrvCreate, SrvExit, ClientsSame
  <2>2. CASE ~SrvExit("failed")
    <3>1. /\ ecServer' \in {"made", "opened", "accept"}
          /\ ecFiles' = ecFiles \/ ecFiles' = ecFiles \cup {Main}
          /\ UNCHANGED <<ecReq, ecKind, ecPc, ecPeer>>
      BY <1>10, <2>2 DEF SrvCreate, ClientsSame
    <3>2. EcType' /\ EcAsked'
      BY <1>t, <1>a, <3>1 DEF EcType, EcAsked, EcTaken
    <3>3. EcClean'
      BY <1>c, <1>n, <3>1, EcNames DEF EcClean
    <3> QED
      BY <3>2, <3>3 DEF EcInv
  <2> QED
    BY <2>1, <2>2
<1>11. CASE SrvAcceptFifo
  <2>1. ecKind = "fifo" /\ UNCHANGED <<ecFiles, ecKind, ecPc>>
    BY <1>11 DEF SrvAcceptFifo, ClientsSame
  <2>2. CASE /\ ecReq # <<>> /\ ecPeer' = Head(ecReq) /\ ecReq' = Tail(ecReq)
             /\ ecServer' = "open1"
    <3>1. EcType' /\ EcAsked'
      BY <1>t, <1>a, <2>1, <2>2, EcTake
    <3>2. EcClean'
      BY <1>c, <1>n, <2>1, <2>2 DEF EcClean
    <3> QED
      BY <3>1, <3>2 DEF EcInv
  <2>3. CASE ecServer \in EcTaken /\ ecServer' \in EcTaken /\ UNCHANGED <<ecPeer, ecReq>>
    <3>1. EcType' /\ EcAsked'
      BY <1>t, <1>a, <2>1, <2>3 DEF EcType, EcAsked
    <3>2. EcClean'
      BY <1>c, <1>n, <2>1, <2>3 DEF EcClean, EcTaken
    <3> QED
      BY <3>1, <3>2 DEF EcInv
  <2> QED
    BY <1>11, <2>2, <2>3 DEF SrvAcceptFifo, EcTaken
<1>12. CASE SrvAcceptUnix
  <2>1. /\ ecKind = "unix" /\ ecReq # <<>> /\ ecPeer' = Head(ecReq) /\ ecReq' = Tail(ecReq)
        /\ ecFiles' = ecFiles \ OwnFiles(ecPeer') /\ ecServer' \in {"recv", "failed"}
        /\ UNCHANGED <<ecKind, ecPc>>
    BY <1>12 DEF SrvAcceptUnix, ClientsSame
  <2>2. EcType' /\ EcAsked'
    BY <1>t, <1>a, <2>1, EcTake
  <2>3. EcClean'
    BY <1>c, <1>n, <2>1 DEF EcClean
  <2> QED
    BY <2>2, <2>3 DEF EcInv
<1>13. ASSUME ecServer \in {"recv", "send"}, ecServer' \in {"recv", "send"},
              UNCHANGED <<ecReq, ecKind, ecPc, ecPeer, ecFiles>>
       PROVE  EcInv'
  BY <1>t, <1>a, <1>c, <1>n, <1>13 DEF EcInv, EcType, EcAsked, EcClean, EcTaken
<1>14. CASE SrvRecv
  BY <1>9, <1>13, <1>14 DEF SrvRecv, SrvExit, ClientsSame
<1>15. CASE SrvSend
  BY <1>9, <1>13, <1>15 DEF SrvSend, SrvExit, ClientsSame
<1>16. CASE SrvSignal
  <2>1. \E at \in {"killed", "left", "done"} : SrvExit(at)
    BY <1>16 DEF SrvSignal
  <2> QED
    BY <1>9, <1>16, <2>1 DEF SrvSignal, SrvExit, ClientsSame
<1> QED
  BY <1>1, <1>2, <1>3, <1>4, <1>6, <1>7, <1>8, <1>10, <1>11, <1>12, <1>14, <1>15, <1>16
     DEF EcNext, EcServer, EcClient

\* No name of a served client and no main FIFO of a server that ended regularly is
\* left in the file system, however many clients connect, quit or are killed.
THEOREM EcIsClean == EcSpec => []EcClean
<1>1. EcInv /\ [EcNext]_ecVars => EcInv'
  BY EcNextInv
<1>2. EcInv => EcClean
  BY DEF EcInv
<1> QED
  BY <1>1, <1>2, EcInitInv, PTL DEF EcSpec
----------------------------------------------------------------------------
(* The epoll server with keepalives.                                       *)

KaChunks == {"data", "quit"}
KaType ==
  /\ kaPeer \in [KaClients -> {"none", "up", "closed", "vanished"}]
  /\ kaConn \in [KaClients -> {"none", "waiting", "open", "unwatched", "reset", "closed"}]
  /\ kaSent \in [KaClients -> Seq(KaChunks)]
  /\ kaRead \in [KaClients -> Nat]
  /\ kaEcho \in [KaClients -> Seq(KaChunks)]
  /\ kaBuf \in {<<>>} \cup (KaClients \X Seq(KaChunks))

\* What was sent back is the beginning of what was read, which is the beginning
\* of what was sent.
KaEchoed(c) ==
  /\ Len(kaEcho[c]) <= kaRead[c] /\ kaRead[c] <= Len(kaSent[c])
  /\ \A i \in 1..Len(kaEcho[c]) : kaEcho[c][i] = kaSent[c][i]

\* Nothing is read before the connection is watched; of an open one everything
\* that was read is sent back but what readbuff holds.
KaHeld(c) == kaBuf # <<>> /\ kaBuf[1] = c
KaPending(c) ==
  /\ kaConn[c] \in {"none", "waiting", "unwatched"} => kaRead[c] = 0
  /\ kaConn[c] = "open" /\ ~KaHeld(c) => Len(kaEcho[c]) = kaRead[c]
  /\ kaConn[c] = "open" /\ KaHeld(c) =>
       kaBuf[2] = SubSeq(kaSent[c], Len(kaEcho[c]) + 1, kaRead[c])
  /\ KaHeld(c) => kaConn[c] \in {"open", "reset"}

\* A connection is reset by a client that closed it and had been answered; one
\* the server closed was reset, closed by the client, or ended with a QUIT.
KaEnded(c) ==
  /\ kaPeer[c] = "none" => kaConn[c] = "none"
  /\ kaConn[c] = "reset" => kaPeer[c] = "closed" /\ kaEcho[c] # <<>>
  /\ kaConn[c] = "closed" /\ kaPeer[c] = "up" =>
       SubSeq(kaSent[c], Len(kaEcho[c]) + 1, kaRead[c]) = <<"quit">>

\* An event that is still to be handled is still true of its client.
KaTrue(e) ==
  e.fd \in KaClients =>
    /\ kaConn[e.fd] \in {"open", "reset"}
    /\ e.ev = "hup" => kaConn[e.fd] = "reset"
    /\ kaConn[e.fd] = "open" => kaRead[e.fd] < Len(kaSent[e.fd]) \/ kaPeer[e.fd] = "closed"
KaBatched ==
  /\ \A e \in kaBatch : KaTrue(e)
  /\ \A e, f \in kaBatch : e.fd \in KaClients /\ e.fd = f.fd => e = f

KaDeath == kaLife = "killed" =>
             \E c \in KaClients : kaConn[c] = "reset" /\ kaEcho[c] # <<>>

KaOf(c) == KaEchoed(c) /\ KaPending(c) /\ KaEnded(c)

KaInv ==
  /\ KaType /\ KaBatched /\ KaDeath
  /\ \A c \in KaClients : KaOf(c)

\* Two sequences that agree up to n have the same pieces up to n.
LEMMA PieceEqual ==
  ASSUME NEW S, NEW s \in Seq(S), NEW t \in Seq(S), NEW m \in Nat \ {0}, NEW n \in Nat,
         n <= Len(s), n <= Len(t), \A i \in 1..n : s[i] = t[i]
  PROVE  SubSeq(s, m, n) = SubSeq(t, m, n)
<1>1. \A i \in m..n : s[i] \in S /\ t[i] \in S
  OBVIOUS
<1>2. /\ SubSeq(s, m, n) \in Seq(S) /\ Len(SubSeq(s, m, n)) = IF m <= n THEN n - m + 1 ELSE 0
      /\ \A i \in 1..(n - m + 1) : SubSeq(s, m, n)[i] = s[m + i - 1]
  BY <1>1, SubSeqProperties
<1>3. /\ SubSeq(t, m, n) \in Seq(S) /\ Len(SubSeq(t, m, n)) = IF m <= n THEN n - m + 1 ELSE 0
      /\ \A i \in 1..(n - m + 1) : SubSeq(t, m, n)[i] = t[m + i - 1]
  BY <1>1, SubSeqProperties
<1>4. \A i \in 1..Len(SubSeq(s, m, n)) : SubSeq(s, m, n)[i] = SubSeq(t, m, n)[i]
  BY <1>2, <1>3
<1> QED
  BY <1>2, <1>3, <1>4, SeqEqual

\* What a piece of a sequence is made of.
LEMMA PieceOf ==
  ASSUME NEW S, NEW s \in Seq(S), NEW m \in Nat \ {0}, NEW n \in Nat, n <= Len(s), m <= n + 1
  PROVE  /\ SubSeq(s, m, n) \in Seq(S) /\ Len(SubSeq(s, m, n)) = n - m + 1
         /\ \A i \in 1..(n - m + 1) : SubSeq(s, m, n)[i] = s[m + i - 1]
<1>1. \A i \in m..n : s[i] \in S
  OBVIOUS
<1> QED
  BY <1>1, SubSeqProperties

LEMMA KaInitInv == KaInit => KaInv
<1> SUFFICES ASSUME KaInit PROVE KaInv
  OBVIOUS
<1>1. KaType
  BY DEF KaInit, KaType
<1>2. KaBatched /\ KaDeath
  BY DEF KaInit, KaBatched, KaDeath
<1>3. ASSUME NEW c \in KaClients PROVE KaOf(c)
  BY <1>3 DEF KaInit, KaOf, KaEchoed, KaPending, KaEnded, KaHeld
<1> QED
  BY <1>1, <1>2, <1>3 DEF KaInv

\* A step that leaves a client's part of the state alone keeps what is true of it.
LEMMA KaFrame ==
  ASSUME NEW d \in KaClients, KaOf(d),
         kaPeer'[d] = kaPeer[d], kaConn'[d] = kaConn[d], kaSent'[d] = kaSent[d],
         kaRead'[d] = kaRead[d], kaEcho'[d] = kaEcho[d],
         kaBuf' = kaBuf \/ (~KaHeld(d) /\ ~KaHeld(d)')
  PROVE  KaOf(d)'
<1>1. KaEchoed(d)' /\ KaEnded(d)'
  BY DEF KaOf, KaEchoed, KaEnded
<1>2. KaPending(d)'
  BY DEF KaOf, KaPending, KaHeld
<1> QED
  BY <1>1, <1>2 DEF KaOf

\* An event stays true when its client's connection is not touched by the server
\* and the client only sends more, or leaves.
LEMMA KaClientInv ==
  ASSUME KaInv, NEW c \in KaClients, KaClient(c)
  PROVE  KaInv'
<1>t. KaType
  BY DEF KaInv
<1>o. KaOf(c)
  BY DEF KaInv
<1>b. KaBatched /\ KaDeath
  BY DEF KaInv
<1>u. UNCHANGED <<kaRead, kaEcho, kaBatch, kaBuf, kaLife>>
  BY DEF KaClient
<1>n. Len(kaSent[c]) \in Nat /\ Len(kaEcho[c]) \in Nat /\ kaRead[c] \in Nat /\ kaSent[c] \in Seq(KaChunks)
  BY <1>t DEF KaType
<1>s. ASSUME KaType', KaOf(c)', KaBatched', KaDeath',
             \A d \in KaClients : d # c => /\ kaPeer'[d] = kaPeer[d] /\ kaConn'[d] = kaConn[d]
                                          /\ kaSent'[d] = kaSent[d]
      PROVE  KaInv'
  <2>1. ASSUME NEW d \in KaClients PROVE KaOf(d)'
    <3>1. CASE d = c
      BY <1>s, <3>1
    <3>2. CASE d # c
      <4>1. KaOf(d)
        BY DEF KaInv
      <4> QED
        BY <1>s, <1>u, <3>2, <4>1, KaFrame
    <3> QED
      BY <3>1, <3>2
  <2> QED
    BY <1>s, <2>1 DEF KaInv
<1>1. CASE /\ kaPeer[c] = "none" /\ kaLife = "serving"
           /\ kaPeer' = [kaPeer EXCEPT ![c] = "up"]
           /\ kaConn' = [kaConn EXCEPT ![c] = "waiting"]
           /\ UNCHANGED kaSent
  <2>1. KaType'
    BY <1>t, <1>u, <1>1 DEF KaType
  <2>2. /\ kaPeer'[c] = "up" /\ kaConn'[c] = "waiting"
        /\ \A d \in KaClients : d # c => kaPeer'[d] = kaPeer[d] /\ kaConn'[d] = kaConn[d]
    BY <1>t, <1>1 DEF KaType
  <2>3. kaConn[c] = "none"
    BY <1>o, <1>1 DEF KaOf, KaEnded
  <2>4. KaOf(c)'
    BY <1>o, <1>u, <1>1, <2>2, <2>3 DEF KaOf, KaEchoed, KaPending, KaEnded, KaHeld
  <2>5. KaBatched'
    BY <1>b, <1>u, <1>1, <2>2, <2>3 DEF KaBatched, KaTrue
  <2>6. KaDeath'
    BY <1>u, <1>1 DEF KaDeath
  <2> QED
    BY <1>s, <1>1, <2>1, <2>2, <2>4, <2>5, <2>6
<1>2. CASE /\ kaPeer[c] = "up" /\ kaConn[c] # "closed" /\ Len(kaSent[c]) < KaSends
           /\ \E m \in {"data", "quit"} : kaSent' = [kaSent EXCEPT ![c] = Append(@, m)]
           /\ UNCHANGED <<kaPeer, kaConn>>
  <2>0. PICK m \in KaChunks : kaSent' = [kaSent EXCEPT ![c] = Append(@, m)]
    BY <1>2 DEF KaChunks
  <2>1. KaType'
    BY <1>t, <1>u, <1>2, <2>0 DEF KaType
  <2>2. /\ kaSent'[c] = Append(kaSent[c], m)
        /\ \A d \in KaClients : d # c => kaSent'[d] = kaSent[d]
    BY <1>t, <2>0 DEF KaType
  <2>3. /\ Len(kaSent'[c]) = Len(kaSent[c]) + 1
        /\ \A i \in 1..Len(kaSent[c]) : kaSent'[c][i] = kaSent[c][i]
    BY <1>n, <2>2
  <2>e. KaEchoed(c)'
    BY <1>n, <1>o, <1>u, <2>3 DEF KaOf, KaEchoed
  <2>d. KaEnded(c)'
    BY <1>o, <1>u, <1>2 DEF KaOf, KaEnded
  <2>p. KaPending(c)'
    <3>1. SubSeq(kaSent'[c], Len(kaEcho[c]) + 1, kaRead[c]) = SubSeq(kaSent[c], Len(kaEcho[c]) + 1, kaRead[c])
      <4>1. kaRead[c] <= Len(kaSent[c])
        BY <1>o DEF KaOf, KaEchoed
      <4>2. kaSent'[c] \in Seq(KaChunks)
        BY <2>1 DEF KaType
      <4>3. \A i \in 1..kaRead[c] : kaSent'[c][i] = kaSent[c][i]
        BY <1>n, <2>3, <4>1
      <4>4. /\ Len(kaEcho[c]) + 1 \in Nat \ {0}
            /\ kaRead[c] <= Len(kaSent'[c])
        BY <1>n, <2>3, <4>1
      <4> QED
        BY ZenonT(60), <1>n, <4>1, <4>2, <4>3, <4>4, PieceEqual
    <3> QED
      BY <1>o, <1>u, <1>2, <3>1 DEF KaOf, KaPending, KaHeld
  <2>4. KaOf(c)'
    BY <2>e, <2>d, <2>p DEF KaOf
  <2>5. ASSUME NEW e \in kaBatch PROVE KaTrue(e)'
    <3>0. KaTrue(e)
      BY <1>b DEF KaBatched
    <3>1. CASE e.fd = c
      BY <1>n, <1>u, <1>2, <2>3, <3>0, <3>1 DEF KaTrue
    <3>2. CASE e.fd # c
      BY <1>u, <1>2, <2>2, <3>0, <3>2 DEF KaTrue
    <3> QED
      BY <3>1, <3>2
  <2>6. KaBatched' /\ KaDeath'
    BY <1>b, <1>u, <1>2, <2>5 DEF KaBatched, KaDeath
  <2> QED
    BY <1>s, <1>2, <2>1, <2>2, <2>4, <2>6
<1>3. CASE /\ kaPeer[c] = "up"
           /\ \E p \in {"closed", "vanished"} : kaPeer' = [kaPeer EXCEPT ![c] = p]
           /\ UNCHANGED <<kaConn, kaSent>>
  <2>0. PICK p \in {"closed", "vanished"} : kaPeer' = [kaPeer EXCEPT ![c] = p]
    BY <1>3
  <2>1. KaType'
    BY <1>t, <1>u, <1>3, <2>0 DEF KaType
  <2>2. /\ kaPeer'[c] \in {"closed", "vanished"}
        /\ \A d \in KaClients : d # c => kaPeer'[d] = kaPeer[d]
    BY <1>t, <2>0 DEF KaType
  <2>4. KaOf(c)'
    BY <1>o, <1>u, <1>3, <2>2 DEF KaOf, KaEchoed, KaPending, KaEnded, KaHeld
  <2>5. ASSUME NEW e \in kaBatch PROVE KaTrue(e)'
    <3>0. KaTrue(e)
      BY <1>b DEF KaBatched
    <3> QED
      BY <1>u, <1>3, <2>2, <3>0 DEF KaTrue
  <2>6. KaBatched' /\ KaDeath'
    BY <1>b, <1>u, <1>3, <2>5 DEF KaBatched, KaDeath
  <2> QED
    BY <1>s, <1>3, <2>1, <2>2, <2>4, <2>6
<1>4. CASE /\ kaPeer[c] = "closed" /\ kaConn[c] = "open" /\ kaEcho[c] # <<>>
           /\ kaConn' = [kaConn EXCEPT ![c] = "reset"]
           /\ UNCHANGED <<kaPeer, kaSent>>
  <2>1. KaType'
    BY <1>t, <1>u, <1>4 DEF KaType
  <2>2. /\ kaConn'[c] = "reset"
        /\ \A d \in KaClients : d # c => kaConn'[d] = kaConn[d]
    BY <1>t, <1>4 DEF KaType
  <2>4. KaOf(c)'
    BY <1>o, <1>u, <1>4, <2>2 DEF KaOf, KaEchoed, KaPending, KaEnded, KaHeld
  <2>5. ASSUME NEW e \in kaBatch PROVE KaTrue(e)'
    <3>0. KaTrue(e)
      BY <1>b DEF KaBatched
    <3> QED
      BY <1>u, <1>4, <2>2, <3>0 DEF KaTrue
  <2>6. KaBatched' /\ KaDeath'
    BY <1>b, <1>u, <1>4, <2>2, <2>5 DEF KaBatched, KaDeath
  <2> QED
    BY <1>s, <1>4, <2>1, <2>2, <2>4, <2>6
<1> QED
  BY <1>1, <1>2, <1>3, <1>4 DEF KaClient

\* The events of a call of epoll_wait(2) are one for each client, and true.
LEMMA KaWaitInv ==
  ASSUME KaInv, KaWait
  PROVE  KaInv'
<1>1. ASSUME NEW e \in KaEvents, e.fd \in KaClients
      PROVE  /\ KaReady(e.fd)
             /\ e = [fd |-> e.fd, ev |-> IF kaConn[e.fd] = "reset" THEN "hup" ELSE "in"]
  BY <1>1, NetworkingAssumption DEF KaEvents
<1>2. /\ kaBatch' = KaEvents
      /\ UNCHANGED <<kaPeer, kaConn, kaSent, kaRead, kaEcho, kaBuf, kaLife>>
  BY DEF KaWait
<1>3. ASSUME NEW e \in kaBatch' PROVE KaTrue(e)'
  BY <1>1, <1>2 DEF KaTrue, KaReady
<1>4. ASSUME NEW e \in kaBatch', NEW f \in kaBatch', e.fd \in KaClients, e.fd = f.fd
      PROVE  e = f
  BY <1>1, <1>2, <1>4
<1>5. KaBatched'
  BY <1>3, <1>4 DEF KaBatched
<1>6. KaType' /\ KaDeath'
  BY <1>2 DEF KaInv, KaType, KaDeath
<1>7. \A c \in KaClients : KaOf(c)'
  BY <1>2 DEF KaInv, KaOf, KaEchoed, KaPending, KaEnded, KaHeld
<1> QED
  BY <1>5, <1>6, <1>7 DEF KaInv

\* accept_new_client() changes one connection that waited, of which there is no event.
LEMMA KaAcceptInv ==
  ASSUME KaInv, KaAccept
  PROVE  KaInv'
<1>t. KaType
  BY DEF KaInv
<1>1. /\ kaBatch' \subseteq kaBatch /\ kaLife = "serving" /\ kaBuf = <<>>
      /\ UNCHANGED <<kaPeer, kaSent, kaRead, kaEcho, kaBuf, kaLife>>
  BY DEF KaAccept
<1>2. PICK c \in KaClients, r \in {"open", "unwatched"} :
        kaConn[c] = "waiting" /\ kaConn' = [kaConn EXCEPT ![c] = r]
  BY DEF KaAccept
<1>3. /\ kaConn'[c] = r /\ \A d \in KaClients : d # c => kaConn'[d] = kaConn[d]
  BY <1>t, <1>2 DEF KaType
<1>4. KaType'
  BY <1>t, <1>1, <1>2 DEF KaType
<1>5. KaBatched' /\ KaDeath'
  <2>1. KaBatched
    BY DEF KaInv
  <2>2. ASSUME NEW e \in kaBatch' PROVE KaTrue(e)'
    <3>1. KaTrue(e)
      BY <1>1, <2>1 DEF KaBatched
    <3> QED
      BY <1>1, <1>2, <1>3, <3>1 DEF KaTrue
  <2> QED
    BY <1>1, <2>1, <2>2 DEF KaBatched, KaDeath
<1>6. ASSUME NEW d \in KaClients PROVE KaOf(d)'
  <2>0. KaOf(d)
    BY DEF KaInv
  <2>1. CASE d = c
    <3>1. kaRead[c] = 0 /\ Len(kaEcho[c]) = 0
      <4>1. Len(kaEcho[c]) \in Nat
        BY <1>t DEF KaType
      <4> QED
        BY <1>2, <2>0, <2>1, <4>1 DEF KaOf, KaPending, KaEchoed
    <3> QED
      BY <1>1, <1>2, <1>3, <2>0, <2>1, <3>1 DEF KaOf, KaEchoed, KaPending, KaEnded, KaHeld
  <2>2. CASE d # c
    BY <1>1, <1>3, <2>0, <2>2, KaFrame
  <2> QED
    BY <2>1, <2>2
<1> QED
  BY <1>4, <1>5, <1>6 DEF KaInv

\* send(2) moves what readbuff holds behind what was sent back before.
LEMMA KaSendInv ==
  ASSUME KaInv, KaSend
  PROVE  KaInv'
<1>t. KaType
  BY DEF KaInv
<1>1. /\ kaBuf # <<>> /\ kaLife = "serving" /\ kaBuf' = <<>>
      /\ UNCHANGED <<kaPeer, kaConn, kaSent, kaRead, kaBatch>>
  BY DEF KaSend
<1>2. PICK c \in KaClients, b \in Seq(KaChunks) : kaBuf = <<c, b>>
  BY <1>t, <1>1 DEF KaType
<1>3. kaBuf[1] = c /\ kaBuf[2] = b /\ KaHeld(c) /\ \A d \in KaClients : d # c => ~KaHeld(d)
  BY <1>1, <1>2 DEF KaHeld
<1>4. \A d \in KaClients : ~KaHeld(d)'
  BY <1>1 DEF KaHeld
<1>o. KaOf(c)
  BY DEF KaInv
<1>n. /\ Len(kaSent[c]) \in Nat /\ Len(kaEcho[c]) \in Nat /\ kaRead[c] \in Nat
      /\ kaSent[c] \in Seq(KaChunks) /\ kaEcho[c] \in Seq(KaChunks)
  BY <1>t DEF KaType
<1>b. KaBatched'
  BY <1>1 DEF KaInv, KaBatched, KaTrue
<1>5. CASE kaConn[c] = "open" /\ kaEcho' = [kaEcho EXCEPT ![c] = @ \o b] /\ UNCHANGED kaLife
  <2>1. KaType' /\ KaDeath'
    BY <1>t, <1>1, <1>5 DEF KaType, KaDeath
  <2>2. kaEcho'[c] = kaEcho[c] \o b /\ \A d \in KaClients : d # c => kaEcho'[d] = kaEcho[d]
    BY <1>t, <1>5 DEF KaType
  <2>3. /\ b = SubSeq(kaSent[c], Len(kaEcho[c]) + 1, kaRead[c])
        /\ Len(kaEcho[c]) <= kaRead[c] /\ kaRead[c] <= Len(kaSent[c])
        /\ \A i \in 1..Len(kaEcho[c]) : kaEcho[c][i] = kaSent[c][i]
    BY <1>o, <1>3, <1>5 DEF KaOf, KaPending, KaEchoed
  <2>4. /\ Len(b) = kaRead[c] - Len(kaEcho[c])
        /\ \A i \in 1..Len(b) : b[i] = kaSent[c][Len(kaEcho[c]) + i]
    <3>1. /\ Len(b) = kaRead[c] - (Len(kaEcho[c]) + 1) + 1
          /\ \A i \in 1..(kaRead[c] - (Len(kaEcho[c]) + 1) + 1) :
               b[i] = kaSent[c][(Len(kaEcho[c]) + 1) + i - 1]
      BY <1>n, <2>3, PieceOf
    <3> QED
      BY <1>n, <2>3, <3>1
  <2>5. /\ Len(kaEcho'[c]) = kaRead[c]
        /\ \A i \in 1..Len(kaEcho'[c]) : kaEcho'[c][i] = kaSent[c][i]
    BY SMTT(30), <1>n, <1>2, <2>2, <2>3, <2>4
  <2>6. KaEchoed(c)'
    BY <1>n, <1>1, <2>3, <2>5 DEF KaEchoed
  <2>7. KaPending(c)' /\ KaEnded(c)'
    BY <1>o, <1>1, <1>4, <1>5, <2>5 DEF KaOf, KaPending, KaEnded
  <2>8. ASSUME NEW d \in KaClients PROVE KaOf(d)'
    <3>1. CASE d = c
      BY <2>6, <2>7, <3>1 DEF KaOf
    <3>2. CASE d # c
      <4>1. KaOf(d)
        BY DEF KaInv
      <4> QED
        BY <1>1, <1>3, <1>4, <2>2, <3>2, <4>1, KaFrame
    <3> QED
      BY <3>1, <3>2
  <2> QED
    BY <1>b, <2>1, <2>8 DEF KaInv
<1>6. CASE kaConn[c] = "reset" /\ UNCHANGED kaEcho
  <2>1. KaType'
    BY <1>t, <1>1, <1>6 DEF KaType
  <2>2. KaDeath'
    BY <1>o, <1>1, <1>6 DEF KaDeath, KaOf, KaEnded
  <2>3. ASSUME NEW d \in KaClients PROVE KaOf(d)'
    <3>1. KaOf(d)
      BY DEF KaInv
    <3>2. CASE d = c
      BY <1>1, <1>4, <1>6, <3>1, <3>2 DEF KaOf, KaEchoed, KaPending, KaEnded
    <3>3. CASE d # c
      BY <1>1, <1>3, <1>4, <1>6, <3>1, <3>3, KaFrame
    <3> QED
      BY <3>2, <3>3
  <2> QED
    BY <1>b, <2>1, <2>2, <2>3 DEF KaInv
<1> QED
  BY <1>3, <1>5, <1>6 DEF KaSend

\* One event: the client is removed, or what it sent is taken into readbuff.
LEMMA KaHandleInv ==
  ASSUME KaInv, NEW c \in KaClients, KaHandle(c)
  PROVE  KaInv'
<1> DEFINE received == SubSeq(kaSent[c], kaRead[c] + 1, Len(kaSent[c]))
<1>t. KaType
  BY DEF KaInv
<1>o. KaOf(c)
  BY DEF KaInv
<1>1. /\ kaLife = "serving" /\ kaBuf = <<>>
      /\ UNCHANGED <<kaPeer, kaSent, kaEcho, kaLife>>
  BY DEF KaHandle
<1>2. PICK e \in kaBatch :
       /\ e.fd = c /\ kaBatch' = kaBatch \ {e}
       /\ \/ /\ e.ev = "hup" \/ (received = <<>> /\ kaConn[c] = "open")
             /\ KaRemove(c) /\ UNCHANGED <<kaRead, kaBuf>>
          \/ /\ e.ev = "in" /\ kaConn[c] = "reset" /\ UNCHANGED <<kaConn, kaRead, kaBuf>>
          \/ /\ e.ev = "in" /\ received # <<>>
             /\ kaRead' = [kaRead EXCEPT ![c] = Len(kaSent[c])]
             /\ IF KaQuit(received)
                THEN KaRemove(c) /\ UNCHANGED kaBuf
                ELSE kaBuf' = <<c, received>> /\ UNCHANGED kaConn
  BY DEF KaHandle
<1>e. KaTrue(e) /\ \A f \in kaBatch' : f \in kaBatch /\ KaTrue(f) /\ (f.fd \in KaClients => f.fd # c)
  BY <1>2 DEF KaInv, KaBatched
<1>n. /\ Len(kaSent[c]) \in Nat /\ Len(kaEcho[c]) \in Nat /\ kaRead[c] \in Nat
      /\ kaSent[c] \in Seq(KaChunks) /\ kaEcho[c] \in Seq(KaChunks)
  BY <1>t DEF KaType
<1>l. Len(kaEcho[c]) <= kaRead[c] /\ kaRead[c] <= Len(kaSent[c])
  BY <1>o DEF KaOf, KaEchoed
<1>r. received \in Seq(KaChunks) /\ Len(received) = Len(kaSent[c]) - kaRead[c]
  <2>1. /\ kaRead[c] + 1 \in Nat \ {0} /\ kaRead[c] + 1 <= Len(kaSent[c]) + 1
        /\ Len(kaSent[c]) <= Len(kaSent[c])
    BY <1>n, <1>l
  <2>2. /\ received \in Seq(KaChunks)
        /\ Len(received) = Len(kaSent[c]) - (kaRead[c] + 1) + 1
    BY SMTT(30), <1>n, <2>1, PieceOf
  <2> QED
    BY <1>n, <2>2
<1> HIDE DEF received
<1>h. kaConn[c] \in {"open", "reset"} /\ ~KaHeld(c)
  BY <1>1, <1>2, <1>e DEF KaTrue, KaHeld
<1>s. ASSUME KaType', KaOf(c)',
             \A d \in KaClients : d # c => /\ kaConn'[d] = kaConn[d] /\ kaRead'[d] = kaRead[d]
                                          /\ ~KaHeld(d)'
      PROVE  KaInv'
  <2>1. ASSUME NEW d \in KaClients, d # c PROVE KaOf(d)'
    <3>1. KaOf(d) /\ ~KaHeld(d)
      BY <1>1 DEF KaInv, KaHeld
    <3> QED
      BY <1>1, <1>s, <2>1, <3>1, KaFrame
  <2>2. ASSUME NEW f \in kaBatch' PROVE KaTrue(f)'
    BY <1>1, <1>e, <1>s DEF KaTrue
  <2>3. \A f, g \in kaBatch' : f.fd \in KaClients /\ f.fd = g.fd => f = g
    BY <1>e DEF KaInv, KaBatched
  <2>4. KaDeath'
    BY <1>1 DEF KaDeath
  <2> QED
    BY <1>s, <2>1, <2>2, <2>3, <2>4 DEF KaInv, KaBatched
<1>3. CASE /\ e.ev = "hup" \/ (received = <<>> /\ kaConn[c] = "open")
           /\ KaRemove(c) /\ UNCHANGED <<kaRead, kaBuf>>
  <2>1. KaType'
    BY <1>t, <1>1, <1>3 DEF KaType, KaRemove
  <2>2. kaConn'[c] = "closed" /\ \A d \in KaClients : d # c => kaConn'[d] = kaConn[d]
    BY <1>t, <1>3 DEF KaType, KaRemove
  <2>3. kaPeer[c] = "closed"
    <3>1. CASE e.ev = "hup"
      BY <1>2, <1>e, <1>o, <3>1 DEF KaTrue, KaOf, KaEnded
    <3>2. CASE received = <<>> /\ kaConn[c] = "open"
      <4>1. Len(received) = 0
        BY <3>2
      <4>2. ~(kaRead[c] < Len(kaSent[c]))
        BY <1>n, <1>r, <4>1
      <4> QED
        BY <1>2, <1>e, <3>2, <4>2 DEF KaTrue
    <3> QED
      BY <1>3, <3>1, <3>2
  <2>4. KaOf(c)'
    BY <1>o, <1>1, <1>3, <1>h, <2>2, <2>3 DEF KaOf, KaEchoed, KaPending, KaEnded, KaHeld
  <2>5. \A d \in KaClients : ~KaHeld(d)'
    BY <1>1, <1>3 DEF KaHeld
  <2> QED
    BY <1>s, <1>3, <2>1, <2>2, <2>4, <2>5
<1>4. CASE e.ev = "in" /\ kaConn[c] = "reset" /\ UNCHANGED <<kaConn, kaRead, kaBuf>>
  <2>1. KaType'
    BY <1>t, <1>1, <1>4 DEF KaType
  <2>2. KaOf(c)'
    BY <1>o, <1>1, <1>4, KaFrame
  <2>3. \A d \in KaClients : ~KaHeld(d)'
    BY <1>1, <1>4 DEF KaHeld
  <2> QED
    BY <1>s, <1>4, <2>1, <2>2, <2>3
<1>5. CASE /\ e.ev = "in" /\ received # <<>>
           /\ kaRead' = [kaRead EXCEPT ![c] = Len(kaSent[c])]
           /\ KaQuit(received) /\ KaRemove(c) /\ UNCHANGED kaBuf
  <2>1. KaType'
    BY <1>t, <1>1, <1>5, <1>n DEF KaType, KaRemove
  <2>2. /\ kaConn'[c] = "closed" /\ kaRead'[c] = Len(kaSent[c])
        /\ \A d \in KaClients : d # c => kaConn'[d] = kaConn[d] /\ kaRead'[d] = kaRead[d]
    BY <1>t, <1>5 DEF KaType, KaRemove
  <2>3. KaEchoed(c)' /\ KaPending(c)'
    BY <1>o, <1>n, <1>l, <1>1, <1>5, <1>h, <2>2 DEF KaOf, KaEchoed, KaPending, KaHeld
  <2>4. KaEnded(c)'
    <3>1. CASE kaConn[c] = "reset"
      BY <1>o, <1>1, <2>2, <3>1 DEF KaOf, KaEnded
    <3>2. CASE kaConn[c] = "open"
      <4>1. Len(kaEcho[c]) = kaRead[c]
        BY <1>o, <1>h, <3>2 DEF KaOf, KaPending
      <4>2. SubSeq(kaSent[c], Len(kaEcho[c]) + 1, Len(kaSent[c])) = <<"quit">>
        BY <1>5, <4>1 DEF KaQuit, received
      <4>3. kaPeer[c] # "none"
        BY <1>o, <3>2 DEF KaOf, KaEnded
      <4> QED
        BY <1>1, <2>2, <4>2, <4>3 DEF KaEnded
    <3> QED
      BY <1>h, <3>1, <3>2
  <2>5. \A d \in KaClients : ~KaHeld(d)'
    BY <1>1, <1>5 DEF KaHeld
  <2> QED
    BY <1>s, <2>1, <2>2, <2>3, <2>4, <2>5 DEF KaOf
<1>6. CASE /\ e.ev = "in" /\ received # <<>>
           /\ kaRead' = [kaRead EXCEPT ![c] = Len(kaSent[c])]
           /\ kaBuf' = <<c, received>> /\ UNCHANGED kaConn
  <2>1. KaType'
    BY <1>t, <1>1, <1>6, <1>n, <1>r DEF KaType
  <2>2. /\ kaRead'[c] = Len(kaSent[c])
        /\ \A d \in KaClients : d # c => kaRead'[d] = kaRead[d]
    BY <1>t, <1>6 DEF KaType
  <2>3. kaBuf'[1] = c /\ kaBuf'[2] = received /\ kaBuf' # <<>>
    BY <1>6
  <2>4. KaEchoed(c)' /\ KaEnded(c)'
    BY <1>o, <1>n, <1>l, <1>1, <1>6, <1>h, <2>2 DEF KaOf, KaEchoed, KaEnded
  <2>5. KaPending(c)'
    <3>1. CASE kaConn[c] = "reset"
      BY <1>6, <2>3, <3>1 DEF KaPending, KaHeld
    <3>2. CASE kaConn[c] = "open"
      <4>1. Len(kaEcho[c]) = kaRead[c]
        BY <1>o, <1>h, <3>2 DEF KaOf, KaPending
      <4>2. received = SubSeq(kaSent[c], Len(kaEcho[c]) + 1, Len(kaSent[c]))
        BY <4>1 DEF received
      <4> QED
        BY <1>1, <1>6, <2>2, <2>3, <3>2, <4>2 DEF KaPending, KaHeld
    <3> QED
      BY <1>h, <3>1, <3>2
  <2>6. \A d \in KaClients : d # c => ~KaHeld(d)'
    BY <2>3 DEF KaHeld
  <2> QED
    BY <1>s, <1>6, <2>1, <2>2, <2>4, <2>5, <2>6 DEF KaOf
<1> QED
  BY <1>2, <1>3, <1>4, <1>5, <1>6

LEMMA KaNextInv ==
  ASSUME KaInv, [KaNext]_kaVars
  PROVE  KaInv'
<1>1. CASE UNCHANGED kaVars
  BY ZenonT(60), <1>1 DEF kaVars, KaInv, KaType, KaBatched, KaTrue, KaDeath, KaOf, KaEchoed, KaPending,
              KaEnded, KaHeld
<1> QED
  BY <1>1, KaClientInv, KaWaitInv, KaAcceptInv, KaSendInv, KaHandleInv DEF KaNext, KaServer

\* Every client of the server with keepalives gets back what it sent, and nothing
\* of another; it is dropped while it is there only for a QUIT that came alone; the
\* server dies only of a client that closed with echoes unread.
THEOREM KaIsKept == KaSpec => []KaKeeps
<1>1. KaInv /\ [KaNext]_kaVars => KaInv'
  BY KaNextInv
<1>2. ASSUME KaInv PROVE KaKeeps
  <2>1. ASSUME NEW c \in KaClients
        PROVE  /\ IsPrefix(kaEcho[c], kaSent[c])
               /\ kaBuf = <<>> /\ kaConn[c] = "open" => Len(kaEcho[c]) = kaRead[c]
               /\ kaConn[c] = "closed" /\ kaPeer[c] = "up" =>
                    SubSeq(kaSent[c], Len(kaEcho[c]) + 1, kaRead[c]) = <<"quit">>
    <3>1. KaOf(c)
      BY <1>2 DEF KaInv
    <3>n. /\ Len(kaSent[c]) \in Nat /\ Len(kaEcho[c]) \in Nat /\ kaRead[c] \in Nat
          /\ kaSent[c] \in Seq(KaChunks) /\ kaEcho[c] \in Seq(KaChunks)
      BY <1>2 DEF KaInv, KaType
    <3>2. /\ Len(kaEcho[c]) <= Len(kaSent[c])
          /\ \A i \in 1..Len(kaEcho[c]) : kaEcho[c][i] = kaSent[c][i]
      BY <3>1, <3>n DEF KaOf, KaEchoed
    <3>3. SubSeq(kaEcho[c], 1, Len(kaEcho[c])) = SubSeq(kaSent[c], 1, Len(kaEcho[c]))
      BY <3>n, <3>2, PieceEqual
    <3>4. IsPrefix(kaEcho[c], kaSent[c])
      BY <3>2, <3>3 DEF IsPrefix
    <3> QED
      BY <3>1, <3>4 DEF KaOf, KaPending, KaEnded, KaHeld
  <2> QED
    BY <1>2, <2>1 DEF KaInv, KaDeath, KaKeeps
<1> QED
  BY <1>1, <1>2, KaInitInv, PTL DEF KaSpec
----------------------------------------------------------------------------
(* ep_oneshot_test.c: the dispatcher, the consumer and the user.            *)

OsPending == osDisp = "post" \/ osSem = 1
\* The chunks read so far.
OsGot == IF OsPending THEN Len(osSeen) + 1 ELSE Len(osSeen)

OsType ==
  /\ osStdin \in Seq(Nat) /\ osSeen \in Seq(Nat) /\ osBuff \in Nat /\ osTyped \in Nat
  /\ osArmed \in BOOLEAN /\ osSem \in {0, 1}
  /\ osDisp \in {"wait", "read", "post", "exit"}
  /\ osCons \in {"wait", "use", "sigwait", "rearm"}

\* Who may act next: the one-shot event, the semaphore and the consumer exclude
\* one another.
OsTurn ==
  /\ osArmed => osCons = "wait" /\ osSem = 0 /\ osDisp \notin {"read", "post"}
  /\ osSem = 1 => osCons = "wait" /\ osDisp \notin {"read", "post"}
  /\ osDisp \in {"read", "post"} => osCons = "wait" /\ osSem = 0
  /\ osDisp = "read" => osStdin # <<>>

\* What waits in stdin continues what was read, up to the end of the input.
OsStream ==
  osDisp # "exit" =>
    /\ OsPending => osBuff = Len(osSeen) + 1
    /\ \A i \in 1..Len(osStdin) : osStdin[i] = OsGot + i \/ osStdin[i] = END_OF_INPUT
    /\ osTyped <= OsChunks => osTyped = OsGot + Len(osStdin)

OsInv == OsType /\ OsTurn /\ OsStream /\ \A i \in 1..Len(osSeen) : osSeen[i] = i

LEMMA OsInitInv == OsInit => OsInv
<1> SUFFICES ASSUME OsInit PROVE OsInv
  OBVIOUS
<1>1. osArmed = TRUE
  BY DEF OsInit
<1>2. /\ osStdin = <<>> /\ osBuff = 0 /\ osSem = 0 /\ osDisp = "wait" /\ osCons = "wait"
      /\ osTyped = 0 /\ osSeen = <<>>
  BY DEF OsInit
<1>3. OsType
  BY <1>1, <1>2 DEF OsType
<1>4. Len(osStdin) = 0 /\ Len(osSeen) = 0
  BY <1>2
<1>5. OsStream
  BY <1>2, <1>4 DEF OsStream, OsPending, OsGot
<1>6. OsTurn
  BY <1>1, <1>2 DEF OsTurn
<1> QED
  BY <1>3, <1>4, <1>5, <1>6 DEF OsInv

LEMMA OsNextInv ==
  ASSUME OsInv, [OsNext]_osVars
  PROVE  OsInv'
<1>t. OsType /\ OsTurn
  BY DEF OsInv
<1>s. OsStream /\ \A i \in 1..Len(osSeen) : osSeen[i] = i
  BY DEF OsInv
<1>n. Len(osSeen) \in Nat /\ Len(osStdin) \in Nat /\ OsChunks \in Nat /\ OsGot \in Nat
  BY <1>t, EpAssumption DEF OsType, OsGot
<1>1. CASE UNCHANGED osVars
  BY <1>1 DEF osVars, OsInv, OsType, OsTurn, OsStream, OsPending, OsGot
<1>2. CASE OsUser
  <2>1. osDisp # "exit" /\ UNCHANGED <<osArmed, osBuff, osSem, osDisp, osCons, osSeen>>
    BY <1>2 DEF OsUser
  <2>2. OsGot' = OsGot /\ OsPending' = OsPending
    BY <2>1 DEF OsGot, OsPending
  <2>3. ASSUME NEW m \in Nat, osStdin' = Append(osStdin, m), osTyped' \in Nat,
               m = OsGot + Len(osStdin) + 1 \/ m = END_OF_INPUT,
               osTyped' <= OsChunks => osTyped' = OsGot + Len(osStdin) + 1
        PROVE  OsInv'
    <3>1. /\ osStdin' \in Seq(Nat) /\ Len(osStdin') = Len(osStdin) + 1
          /\ osStdin'[Len(osStdin) + 1] = m
          /\ \A i \in 1..Len(osStdin) : osStdin'[i] = osStdin[i]
      BY <1>t, <2>3 DEF OsType
    <3>2. OsType' /\ OsTurn'
      BY <1>t, <1>n, <2>1, <2>3, <3>1 DEF OsType, OsTurn
    <3>3. ASSUME NEW i \in 1..Len(osStdin')
          PROVE  osStdin'[i] = OsGot' + i \/ osStdin'[i] = END_OF_INPUT
      <4>1. i \in 1..Len(osStdin) \/ i = Len(osStdin) + 1
        BY <1>n, <3>1
      <4>2. CASE i \in 1..Len(osStdin)
        <5>1. osStdin[i] = OsGot + i \/ osStdin[i] = END_OF_INPUT
          BY <1>s, <2>1, <4>2 DEF OsStream
        <5> QED
          BY <2>2, <3>1, <4>2, <5>1
      <4>3. CASE i = Len(osStdin) + 1
        <5>1. osStdin'[i] = m
          BY <3>1, <4>3
        <5>2. m = OsGot + i \/ m = END_OF_INPUT
          BY <1>n, <2>3, <4>3
        <5> QED
          BY <2>2, <5>1, <5>2
      <4> QED
        BY <4>1, <4>2, <4>3
    <3>4. OsStream'
      BY <1>s, <1>n, <2>1, <2>2, <2>3, <3>1, <3>3 DEF OsStream
    <3> QED
      BY <1>s, <2>1, <3>2, <3>4 DEF OsInv
  <2>4. CASE /\ osTyped <= OsChunks /\ osTyped' = OsChunks + 1
             /\ osStdin' = Append(osStdin, END_OF_INPUT)
    BY <1>n, <2>3, <2>4 DEF END_OF_INPUT
  <2>5. CASE /\ osTyped < OsChunks /\ osTyped' = osTyped + 1
             /\ osStdin' = Append(osStdin, osTyped + 1)
    <3>1. osTyped \in Nat /\ osTyped = OsGot + Len(osStdin)
      BY <1>t, <1>s, <1>n, <2>1, <2>5 DEF OsStream, OsType
    <3> QED
      BY <1>n, <2>3, <2>5, <3>1
  <2>6. CASE UNCHANGED <<osTyped, osStdin>>
    <3>1. OsType' /\ OsTurn'
      BY <1>t, <2>1, <2>6 DEF OsType, OsTurn
    <3>2. OsStream'
      BY <1>s, <2>1, <2>2, <2>6 DEF OsStream
    <3> QED
      BY <1>s, <2>1, <3>1, <3>2 DEF OsInv
  <2> QED
    BY <1>2, <2>4, <2>5, <2>6 DEF OsUser
<1>3. CASE OsWait
  <2>1. /\ osDisp = "wait" /\ osArmed /\ osStdin # <<>> /\ osDisp' = "read"
        /\ UNCHANGED <<osStdin, osBuff, osSem, osSignal, osCons, osTyped, osSeen>>
    BY <1>3 DEF OsWait
  <2>2. osArmed' = FALSE
    BY <1>3 DEF OsWait
  <2>3. OsType'
    BY <1>t, <2>1, <2>2 DEF OsType
  <2>4. OsTurn'
    BY <1>t, <2>1, <2>2 DEF OsTurn
  <2>5. OsStream'
    BY <1>s, <2>1 DEF OsStream, OsPending, OsGot
  <2> QED
    BY <1>s, <2>1, <2>3, <2>4, <2>5 DEF OsInv
<1>4. CASE OsRead
  <2>1. /\ osDisp = "read" /\ osBuff' = Head(osStdin) /\ osStdin' = Tail(osStdin)
        /\ osDisp' = IF Head(osStdin) = END_OF_INPUT THEN "exit" ELSE "post"
        /\ UNCHANGED <<osArmed, osSem, osSignal, osCons, osTyped, osSeen>>
    BY <1>4 DEF OsRead
  <2>2. osStdin # <<>> /\ osCons = "wait" /\ osSem = 0
    BY <1>t, <2>1 DEF OsTurn
  <2>3. /\ osStdin' \in Seq(Nat) /\ osBuff' \in Nat /\ Len(osStdin') = Len(osStdin) - 1
        /\ Len(osStdin) > 0 /\ osBuff' = osStdin[1]
        /\ \A i \in 1..Len(osStdin') : osStdin'[i] = osStdin[i + 1]
    BY <1>t, <2>1, <2>2 DEF OsType
  <2>4. OsType' /\ OsTurn'
    <3>1. osDisp' \in {"exit", "post"}
      BY <2>1
    <3> QED
      BY <1>t, <2>1, <2>2, <2>3, <3>1 DEF OsType, OsTurn
  <2>5. OsStream'
    <3> SUFFICES ASSUME osDisp' # "exit" PROVE OsStream'
      BY DEF OsStream
    <3>1. osDisp' = "post" /\ osStdin[1] # END_OF_INPUT
      BY <1>n, <2>1, <2>2, <2>3
    <3>2. OsGot = Len(osSeen) /\ OsGot' = Len(osSeen) + 1
      BY <2>1, <2>2, <3>1 DEF OsGot, OsPending
    <3>3. osStdin[1] = OsGot + 1 \/ osStdin[1] = END_OF_INPUT
      BY <1>s, <1>n, <2>1, <2>3 DEF OsStream
    <3>4. ASSUME NEW i \in 1..Len(osStdin')
          PROVE  osStdin'[i] = OsGot' + i \/ osStdin'[i] = END_OF_INPUT
      <4>1. i + 1 \in 1..Len(osStdin) /\ OsGot + (i + 1) = OsGot' + i
        BY <1>n, <2>3, <3>2
      <4>2. osStdin[i + 1] = OsGot + (i + 1) \/ osStdin[i + 1] = END_OF_INPUT
        BY <1>s, <2>1, <4>1 DEF OsStream
      <4> QED
        BY <2>3, <4>1, <4>2
    <3>5. osTyped <= OsChunks => osTyped = OsGot' + Len(osStdin')
      BY <1>s, <1>n, <2>1, <2>3, <3>2 DEF OsStream
    <3> QED
      BY <1>n, <2>1, <2>3, <3>1, <3>2, <3>3, <3>4, <3>5 DEF OsStream
  <2> QED
    BY <1>s, <2>1, <2>4, <2>5 DEF OsInv
<1>5. CASE OsPost
  <2>1. /\ osDisp = "post" /\ osSem' = osSem + 1 /\ osDisp' = "wait"
        /\ UNCHANGED <<osStdin, osArmed, osBuff, osSignal, osCons, osTyped, osSeen>>
    BY <1>5 DEF OsPost
  <2>2. osSem = 0 /\ osCons = "wait" /\ ~osArmed
    BY <1>t, <2>1 DEF OsTurn
  <2>3. osSem' = 1
    BY <2>1, <2>2
  <2>4. OsGot' = OsGot
    BY <2>1, <2>3 DEF OsGot, OsPending
  <2>5. OsType' /\ OsTurn'
    BY <1>t, <2>1, <2>2, <2>3 DEF OsType, OsTurn
  <2>6. OsStream'
    BY <1>s, <2>1, <2>4 DEF OsStream, OsPending
  <2> QED
    BY <1>s, <2>1, <2>5, <2>6 DEF OsInv
<1>6. CASE OsConsume
  <2>1. osDisp # "exit" /\ UNCHANGED <<osStdin, osBuff, osDisp, osTyped>>
    BY <1>6 DEF OsConsume
  <2>2. CASE /\ osCons = "wait" /\ osSem > 0 /\ osSem' = osSem - 1 /\ osCons' = "use"
             /\ osSeen' = Append(osSeen, osBuff) /\ UNCHANGED <<osSignal, osArmed>>
    <3>1. osSem = 1 /\ osSem' = 0
      BY <1>t, <2>2 DEF OsType
    <3>2. osDisp = "wait" /\ ~osArmed /\ osBuff = Len(osSeen) + 1
      BY <1>t, <1>s, <2>1, <3>1 DEF OsType, OsTurn, OsStream, OsPending
    <3>3. /\ osSeen' \in Seq(Nat) /\ Len(osSeen') = Len(osSeen) + 1
          /\ osSeen'[Len(osSeen) + 1] = Len(osSeen) + 1
          /\ \A i \in 1..Len(osSeen) : osSeen'[i] = osSeen[i]
      BY <1>t, <2>2, <3>2 DEF OsType
    <3>4. OsType' /\ OsTurn'
      BY <1>t, <2>1, <2>2, <3>1, <3>2, <3>3 DEF OsType, OsTurn
    <3>5. OsGot' = OsGot
      BY <1>n, <2>1, <3>1, <3>2, <3>3 DEF OsGot, OsPending
    <3>6. OsStream'
      BY <1>s, <2>1, <3>1, <3>2, <3>5 DEF OsStream, OsPending
    <3>7. \A i \in 1..Len(osSeen') : osSeen'[i] = i
      BY <1>s, <1>n, <3>3
    <3> QED
      BY <3>4, <3>6, <3>7 DEF OsInv
  <2>3. CASE /\ osCons \in {"use", "sigwait"} /\ osCons' \in {"sigwait", "rearm"}
             /\ UNCHANGED <<osSem, osSeen, osArmed>>
    <3>1. OsType' /\ OsTurn'
      BY <1>t, <2>1, <2>3 DEF OsType, OsTurn
    <3>2. OsStream'
      BY <1>s, <2>1, <2>3 DEF OsStream, OsPending, OsGot
    <3> QED
      BY <1>s, <2>3, <3>1, <3>2 DEF OsInv
  <2>4. CASE /\ osCons = "rearm" /\ osArmed' = TRUE /\ osCons' = "wait"
             /\ UNCHANGED <<osSem, osSeen, osSignal>>
    <3>1. osSem = 0 /\ osDisp \notin {"read", "post"}
      BY <1>t, <2>4 DEF OsType, OsTurn
    <3>2. OsType' /\ OsTurn'
      BY <1>t, <2>1, <2>4, <3>1 DEF OsType, OsTurn
    <3>3. OsStream'
      BY <1>s, <2>1, <2>4 DEF OsStream, OsPending, OsGot
    <3> QED
      BY <1>s, <2>4, <3>2, <3>3 DEF OsInv
  <2> QED
    BY <1>6, <2>2, <2>3, <2>4 DEF OsConsume
<1> QED
  BY <1>1, <1>2, <1>3, <1>4, <1>5, <1>6 DEF OsNext, OsDispatcher

\* The chunks come through the one-shot buffer one at a time, each once and in
\* order, however the user, the dispatcher and the consumer interleave.
THEOREM OsIsOrdered == OsSpec => []OsPassesOn
<1>1. OsInv /\ [OsNext]_osVars => OsInv'
  BY OsNextInv
<1>2. ASSUME OsInv PROVE OsPassesOn
  <2>1. osSeen \in Seq(Nat) /\ osSem \in {0, 1}
    BY <1>2 DEF OsInv, OsType
  <2>2. DOMAIN osSeen = 1..Len(osSeen)
    BY <2>1
  <2> QED
    BY <1>2, <2>1, <2>2 DEF OsInv, OsTurn, OsPassesOn
<1> QED
  BY <1>1, <1>2, OsInitInv, PTL DEF OsSpec
----------------------------------------------------------------------------
(* The lines of the echo server's clients.                                 *)

EcChannels ==
  /\ ecUp \in [EcClients -> Seq(Nat)] /\ ecDown \in [EcClients -> Seq(Nat)]
  /\ ecGot \in [EcClients -> Seq(Nat)] /\ ecSent \in [EcClients -> Nat] /\ ecBuf \in Seq(Nat)

\* The messages of a client by number: its lines, and after them only quit messages.
EcMessage(sent, k) == IF k <= sent THEN k ELSE QUIT
EcRun(s, at, sent) == \A i \in 1..Len(s) : s[i] = EcMessage(sent, at + i)

\* What the server holds for c while it echoes.
EcFlying(c) == IF ecServer = "send" /\ ecPeer = c THEN ecBuf ELSE <<>>

\* What came back, or is on its way back, is the beginning of what was sent.
EcReturned(c) ==
  /\ EcRun(ecGot[c], 0, ecSent[c]) /\ Len(ecGot[c]) <= ecSent[c]
  /\ EcRun(ecDown[c], Len(ecGot[c]), ecSent[c])
  /\ ecPc[c] \notin EcLeft => Len(ecGot[c]) + Len(ecDown[c]) <= ecSent[c]

\* While the server lives, the rest is in its buffer and on its way to it.
EcWhole(c) ==
  LET back == Len(ecGot[c]) + Len(ecDown[c])
      all  == back + Len(EcFlying(c)) + Len(ecUp[c])
  IN  /\ EcRun(EcFlying(c), back, ecSent[c])
      /\ EcRun(ecUp[c], back + Len(EcFlying(c)), ecSent[c])
      /\ all >= ecSent[c] /\ (ecPc[c] \notin EcLeft => all = ecSent[c])

EcFlow ==
  /\ EcChannels
  /\ \A c \in EcClients : EcReturned(c) /\ (ecServer \notin ServerEnded => EcWhole(c))

\* Two sequences one behind the other.
LEMMA JoinAt ==
  ASSUME NEW S, NEW s \in Seq(S), NEW t \in Seq(S), NEW u, u = s \o t
  PROVE  /\ u \in Seq(S) /\ Len(u) = Len(s) + Len(t)
         /\ \A i \in 1..Len(s) : u[i] = s[i]
         /\ \A i \in 1..Len(t) : u[Len(s) + i] = t[i]
<1>0. Len(s) \in Nat /\ Len(t) \in Nat
  OBVIOUS
<1>1. /\ u \in Seq(S) /\ Len(u) = Len(s) + Len(t)
      /\ \A i \in 1..(Len(s) + Len(t)) : u[i] = IF i <= Len(s) THEN s[i] ELSE t[i - Len(s)]
  BY ConcatProperties
<1>2. ASSUME NEW i \in 1..Len(t) PROVE u[Len(s) + i] = t[i]
  <2>1. Len(s) + i \in 1..(Len(s) + Len(t)) /\ ~(Len(s) + i <= Len(s)) /\ (Len(s) + i) - Len(s) = i
    BY <1>0
  <2> QED
    BY <1>1, <2>1
<1>3. ASSUME NEW i \in 1..Len(s) PROVE u[i] = s[i]
  BY <1>0, <1>1
<1> QED
  BY <1>1, <1>2, <1>3

LEMMA EcRunJoins ==
  ASSUME NEW s \in Seq(Nat), NEW t \in Seq(Nat), NEW u, u = s \o t, NEW at \in Nat, NEW n \in Nat,
         EcRun(s, at, n), EcRun(t, at + Len(s), n)
  PROVE  u \in Seq(Nat) /\ Len(u) = Len(s) + Len(t) /\ EcRun(u, at, n)
<1>0. Len(s) \in Nat /\ Len(t) \in Nat
  OBVIOUS
<1>1. /\ u \in Seq(Nat) /\ Len(u) = Len(s) + Len(t)
      /\ \A i \in 1..Len(s) : u[i] = s[i]
      /\ \A i \in 1..Len(t) : u[Len(s) + i] = t[i]
  BY JoinAt
<1>2. ASSUME NEW i \in 1..Len(u) PROVE u[i] = EcMessage(n, at + i)
  <2>1. CASE i \in 1..Len(s)
    BY <1>1, <2>1 DEF EcRun
  <2>2. CASE i \notin 1..Len(s)
    <3>1. i - Len(s) \in 1..Len(t) /\ Len(s) + (i - Len(s)) = i
          /\ (at + Len(s)) + (i - Len(s)) = at + i
      BY <1>0, <1>1, <2>2
    <3> QED
      BY <1>1, <3>1 DEF EcRun
  <2> QED
    BY <2>1, <2>2
<1> QED
  BY <1>1, <1>2 DEF EcRun

LEMMA EcRunGrows ==
  ASSUME NEW s \in Seq(Nat), NEW at \in Nat, NEW n \in Nat, EcRun(s, at, n), at + Len(s) <= n
  PROVE  EcRun(s, at, n + 1)
<1>1. ASSUME NEW i \in 1..Len(s) PROVE at + i <= n /\ at + i <= n + 1
  OBVIOUS
<1> QED
  BY <1>1 DEF EcRun, EcMessage

\* One more message at the end.
EcAdds(s, x, u) == u = Append(s, x)
LEMMA EcRunOneMore ==
  ASSUME NEW s \in Seq(Nat), NEW x \in Nat, NEW u, EcAdds(s, x, u), NEW at \in Nat, NEW n \in Nat,
         EcRun(s, at, n), x = EcMessage(n, at + Len(s) + 1)
  PROVE  u \in Seq(Nat) /\ Len(u) = Len(s) + 1 /\ EcRun(u, at, n)
<1>1. /\ u \in Seq(Nat) /\ Len(u) = Len(s) + 1 /\ u[Len(s) + 1] = x /\ Len(s) \in Nat
      /\ \A i \in 1..Len(s) : u[i] = s[i]
  BY DEF EcAdds
<1>2. ASSUME NEW i \in 1..Len(u) PROVE u[i] = EcMessage(n, at + i)
  <2>1. CASE i \in 1..Len(s)
    BY <1>1, <2>1 DEF EcRun
  <2>2. CASE i = Len(s) + 1
    <3>1. at + i = at + Len(s) + 1
      BY <1>1, <2>2
    <3> QED
      BY <1>1, <2>2, <3>1
  <2> QED
    BY <1>1, <2>1, <2>2
<1> QED
  BY <1>1, <1>2 DEF EcRun

\* One more line: the messages before it keep their numbers.
LEMMA EcRunOfOneMore ==
  ASSUME NEW got \in Seq(Nat), NEW down \in Seq(Nat), NEW n \in Nat,
         EcRun(got, 0, n), EcRun(down, Len(got), n), Len(got) + Len(down) <= n
  PROVE  EcRun(got, 0, n + 1) /\ EcRun(down, Len(got), n + 1)
<1>0. Len(got) \in Nat /\ Len(down) \in Nat
  OBVIOUS
<1>1. 0 \in Nat /\ 0 + Len(got) <= n
  BY <1>0
<1>2. EcRun(got, 0, n + 1)
  BY <1>1, EcRunGrows
<1>3. EcRun(down, Len(got), n + 1)
  BY <1>0, EcRunGrows
<1> QED
  BY <1>2, <1>3
\* A step that moves no message.
LEMMA EcQuiet ==
  ASSUME EcFlow, UNCHANGED <<ecUp, ecDown, ecSent, ecGot, ecBuf>>,
         \A c \in EcClients : ecPc[c] \in EcLeft => ecPc'[c] \in EcLeft,
         ecServer' \notin ServerEnded =>
           ecServer \notin ServerEnded /\ \A c \in EcClients : EcFlying(c)' = EcFlying(c)
  PROVE  EcFlow'
<1>1. EcChannels'
  BY DEF EcFlow, EcChannels
<1>2. ASSUME NEW c \in EcClients PROVE EcReturned(c)'
  BY DEF EcFlow, EcReturned
<1>3. ASSUME NEW c \in EcClients, ecServer' \notin ServerEnded PROVE EcWhole(c)'
  <2>1. EcWhole(c) /\ EcFlying(c)' = EcFlying(c)
    BY <1>3 DEF EcFlow
  <2> QED
    BY <2>1 DEF EcWhole
<1> QED
  BY <1>1, <1>2, <1>3 DEF EcFlow

\* The clients a step does not concern.
LEMMA EcOther ==
  ASSUME EcFlow, NEW c \in EcClients,
         ecUp'[c] = ecUp[c], ecDown'[c] = ecDown[c], ecGot'[c] = ecGot[c], ecSent'[c] = ecSent[c],
         ecPc'[c] = ecPc[c],
         ecServer' \notin ServerEnded => ecServer \notin ServerEnded /\ EcFlying(c)' = EcFlying(c)
  PROVE  EcReturned(c)' /\ (ecServer' \notin ServerEnded => EcWhole(c)')
<1>1. EcReturned(c)'
  BY DEF EcFlow, EcReturned
<1>2. ASSUME ecServer' \notin ServerEnded PROVE EcWhole(c)'
  <2>1. EcWhole(c) /\ EcFlying(c)' = EcFlying(c)
    BY <1>2 DEF EcFlow
  <2> QED
    BY <2>1 DEF EcWhole
<1> QED
  BY <1>1, <1>2

\* What a client's channels hold, in numbers.
LEMMA EcTypes ==
  ASSUME EcFlow, NEW c \in EcClients
  PROVE  /\ ecUp[c] \in Seq(Nat) /\ ecDown[c] \in Seq(Nat) /\ ecGot[c] \in Seq(Nat)
         /\ ecSent[c] \in Nat /\ ecBuf \in Seq(Nat) /\ EcFlying(c) \in Seq(Nat)
         /\ Len(ecUp[c]) \in Nat /\ Len(ecDown[c]) \in Nat /\ Len(ecGot[c]) \in Nat
         /\ Len(EcFlying(c)) \in Nat
<1>1. /\ ecUp[c] \in Seq(Nat) /\ ecDown[c] \in Seq(Nat) /\ ecGot[c] \in Seq(Nat)
      /\ ecSent[c] \in Nat /\ ecBuf \in Seq(Nat)
  BY DEF EcFlow, EcChannels
<1>2. EcFlying(c) \in Seq(Nat)
  BY <1>1 DEF EcFlying
<1> QED
  BY <1>1, <1>2

LEMMA SumOfThree ==
  \A i, j, k \in Nat : i + j \in Nat /\ i + j + k \in Nat
OBVIOUS

LEMMA EcFlowInit == EcInit => EcFlow
<1> SUFFICES ASSUME EcInit PROVE EcFlow
  OBVIOUS
<1>1. EcChannels
  BY DEF EcInit, EcChannels
<1>2. ASSUME NEW c \in EcClients PROVE EcReturned(c) /\ EcWhole(c)
  <2>1. /\ ecUp[c] = <<>> /\ ecDown[c] = <<>> /\ ecGot[c] = <<>> /\ ecSent[c] = 0
        /\ EcFlying(c) = <<>>
    BY DEF EcInit, EcFlying
  <2> QED
    BY <2>1 DEF EcReturned, EcWhole, EcRun
<1> QED
  BY <1>1, <1>2 DEF EcFlow

LEMMA EcLineFlow == ASSUME EcInv, EcFlow, NEW c \in EcClients, CliLine(c) PROVE EcFlow'
<1>t. ecPc \in [EcClients -> EcPlaces]
  BY DEF EcInv, EcType
<1>f. EcChannels
  BY DEF EcFlow
<1>1. ecPc[c] = "type" /\ UNCHANGED <<ecDown, ecGot, ecServer, ecPeer, ecBuf>>
  BY DEF CliLine, ServerSame
<1>2. CASE <<c, "up", "rd">> \in ecEnds
  <2>1. ecUp' = [ecUp EXCEPT ![c] = Append(@, ecSent[c] + 1)] /\ ecPc' = [ecPc EXCEPT ![c] = "recv"]
    BY <1>2 DEF CliLine, CliSends, Goes
  <2>2. ecPc'[c] = "recv" /\ \A d \in EcClients : d # c => ecPc'[d] = ecPc[d]
    BY <1>t, <2>1
  <2>3. ecSent' = [ecSent EXCEPT ![c] = @ + 1]
    BY <2>2 DEF CliLine
  <2>4. /\ ecSent'[c] = ecSent[c] + 1 /\ ecUp'[c] = Append(ecUp[c], ecSent[c] + 1)
        /\ \A d \in EcClients : d # c => ecSent'[d] = ecSent[d] /\ ecUp'[d] = ecUp[d]
    BY <1>f, <2>1, <2>3 DEF EcChannels
  <2>5. EcChannels'
    BY <1>f, <1>1, <2>1, <2>3 DEF EcChannels
  <2>6. \A d \in EcClients : EcFlying(d)' = EcFlying(d)
    BY <1>1 DEF EcFlying
  <2> DEFINE g == Len(ecGot[c])
             b == Len(ecDown[c])
             y == Len(EcFlying(c))
             n == ecSent[c]
  <2>7. /\ ecUp[c] \in Seq(Nat) /\ ecDown[c] \in Seq(Nat) /\ ecGot[c] \in Seq(Nat)
        /\ EcFlying(c) \in Seq(Nat) /\ n \in Nat /\ g \in Nat /\ b \in Nat /\ y \in Nat
    BY EcTypes
  <2>8. /\ EcRun(ecGot[c], 0, n) /\ EcRun(ecDown[c], g, n) /\ g + b <= n
    BY <1>1 DEF EcFlow, EcReturned, EcLeft
  <2> HIDE DEF g, b, y, n
  <2>9. EcReturned(c)'
    <3>1. EcRun(ecGot[c], 0, n + 1) /\ EcRun(ecDown[c], g, n + 1)
      BY <2>7, <2>8, EcRunOfOneMore DEF g, b
    <3>2. g <= n + 1 /\ g + b <= n + 1
      BY <2>7, <2>8
    <3>3. ecSent'[c] = n + 1 /\ ecGot'[c] = ecGot[c] /\ ecDown'[c] = ecDown[c]
      BY <1>1, <2>4 DEF n
    <3> DEFINE m == n + 1
    <3> HIDE DEF m
    <3>4. /\ EcRun(ecGot[c], 0, m) /\ EcRun(ecDown[c], g, m) /\ g <= m /\ g + b <= m
          /\ ecSent'[c] = m
      BY <3>1, <3>2, <3>3 DEF m
    <3> QED
      BY <3>3, <3>4 DEF EcReturned, g, b
  <2>10. ASSUME ecServer \notin ServerEnded PROVE EcWhole(c)'
    <3>1. /\ EcRun(EcFlying(c), g + b, n) /\ EcRun(ecUp[c], g + b + y, n)
          /\ g + b + y + Len(ecUp[c]) = n
      BY <1>1, <2>10 DEF EcFlow, EcWhole, EcLeft, g, b, y, n
    <3> DEFINE w == g + b
               v == w + y
               m == n + 1
               fly == EcFlying(c)
               up == ecUp[c]
               u == ecUp'[c]
    <3>2. w \in Nat /\ v \in Nat /\ m \in Nat /\ fly \in Seq(Nat) /\ up \in Seq(Nat)
      BY <2>7
    <3>4. v = w + Len(fly) /\ m = n + 1
      BY DEF y
    <3>5. EcAdds(up, m, u)
      BY <2>4 DEF n, EcAdds
    <3>6. EcRun(fly, w, n) /\ EcRun(up, v, n) /\ v + Len(up) = n
      BY <2>7, <3>1
    <3> HIDE DEF w, v, m, fly, up, u
    <3>7. EcRun(fly, w, m) /\ EcRun(u, v, m) /\ Len(u) = Len(up) + 1
      <4>1. n \in Nat
        BY <2>7
      <4>2. fly \in Seq(Nat)
        BY <3>2
      <4>3. up \in Seq(Nat)
        BY <3>2
      <4>4. w \in Nat
        BY <3>2
      <4>5. v \in Nat
        BY <3>2
      <4>6. m \in Nat
        BY <3>2
      <4>7. v = w + Len(fly)
        BY <3>4
      <4>8. m = n + 1
        BY <3>4
      <4>9. EcRun(fly, w, n)
        BY <3>6
      <4>10. EcRun(up, v, n)
        BY <3>6
      <4>11. v + Len(up) = n
        BY <3>6
      <4> QED
        <5>1. Len(fly) \in Nat /\ Len(up) \in Nat
          BY <4>2, <4>3
        <5>2. EcRun(fly, w, m)
          BY <4>1, <4>2, <4>4, <4>7, <4>8, <4>9, <4>11, <5>1, EcRunGrows
        <5>3. EcRun(up, v, m)
          BY <4>1, <4>3, <4>5, <4>8, <4>10, <4>11, <5>1, EcRunGrows
        <5>4. m = EcMessage(m, v + Len(up) + 1)
          BY <4>1, <4>5, <4>8, <4>11, <5>1 DEF EcMessage
        <5> QED
          BY <3>5, <4>3, <4>5, <4>6, <5>2, <5>3, <5>4, EcRunOneMore
    <3>8. Len(up) \in Nat /\ v + Len(u) = m
      BY <2>7, <3>2, <3>4, <3>6, <3>7
    <3>3. /\ EcRun(EcFlying(c), g + b, n + 1) /\ EcRun(ecUp'[c], g + b + y, n + 1)
          /\ g + b + y + Len(ecUp'[c]) = n + 1
      BY <3>7, <3>8 DEF w, v, m, fly, u
    <3>9. n + 1 >= n + 1
      BY <2>7
    <3> QED
      BY <1>1, <2>4, <2>6, <3>3, <3>9 DEF EcWhole, g, b, y, n
  <2> QED
    BY <1>1, <2>2, <2>4, <2>5, <2>6, <2>9, <2>10, EcOther DEF EcFlow
<1>3. CASE <<c, "up", "rd">> \notin ecEnds
  <2>1. ecUp' = ecUp /\ ecPc' = [ecPc EXCEPT ![c] = "killed"]
    BY <1>3 DEF CliLine, CliSends, Goes
  <2>2. ecPc'[c] = "killed" /\ \A d \in EcClients : d # c => ecPc'[d] = ecPc[d]
    BY <1>t, <2>1
  <2>3. ecSent' = ecSent
    BY <2>2 DEF CliLine
  <2> QED
    BY <1>1, <2>1, <2>2, <2>3, EcQuiet DEF EcFlying, EcLeft
<1> QED
  BY <1>2, <1>3

LEMMA EcRecvFlow == ASSUME EcInv, EcFlow, NEW c \in EcClients, CliRecv(c) PROVE EcFlow'
<1>t. ecPc \in [EcClients -> EcPlaces]
  BY DEF EcInv, EcType
<1>f. EcChannels
  BY DEF EcFlow
<1>1. /\ ecPc[c] = "recv" /\ ecPc' = [ecPc EXCEPT ![c] = "type"]
      /\ ecGot' = [ecGot EXCEPT ![c] = @ \o ecDown[c]] /\ ecDown' = [ecDown EXCEPT ![c] = <<>>]
      /\ UNCHANGED <<ecUp, ecSent, ecServer, ecPeer, ecBuf>>
  BY DEF CliRecv, ServerSame, Goes
<1>2. /\ ecPc'[c] = "type" /\ ecDown'[c] = <<>>
      /\ \A d \in EcClients : d # c => /\ ecPc'[d] = ecPc[d] /\ ecGot'[d] = ecGot[d]
                                       /\ ecDown'[d] = ecDown[d]
  BY <1>t, <1>f, <1>1 DEF EcChannels
<1> DEFINE got == ecGot[c]
           down == ecDown[c]
           u == ecGot'[c]
           n == ecSent[c]
<1>3. got \in Seq(Nat) /\ down \in Seq(Nat) /\ n \in Nat /\ Len(got) \in Nat /\ Len(down) \in Nat
  BY EcTypes
<1>4. u = got \o down
  BY <1>f, <1>1 DEF EcChannels
<1>5. /\ EcRun(got, 0, n) /\ EcRun(down, Len(got), n) /\ Len(got) + Len(down) <= n
  BY <1>1 DEF EcFlow, EcReturned, EcLeft
<1>6. \A d \in EcClients : EcFlying(d)' = EcFlying(d)
  BY <1>1 DEF EcFlying
<1> HIDE DEF got, down, u, n
<1>7. u \in Seq(Nat) /\ Len(u) = Len(got) + Len(down) /\ EcRun(u, 0, n)
  <2>1. 0 \in Nat /\ EcRun(down, 0 + Len(got), n)
    BY <1>3, <1>5
  <2>2. u = got \o down
    BY <1>4
  <2>3. got \in Seq(Nat)
    BY <1>3
  <2>4. down \in Seq(Nat)
    BY <1>3
  <2>5. EcRun(got, 0, n) /\ n \in Nat
    BY <1>3, <1>5
  <2> QED
    BY <2>1, <2>2, <2>3, <2>4, <2>5, EcRunJoins
<1>8. EcChannels'
  <2>1. ecGot' \in [EcClients -> Seq(Nat)]
    BY <1>f, <1>1, <1>7 DEF EcChannels, u
  <2>2. ecDown' \in [EcClients -> Seq(Nat)]
    BY <1>f, <1>1 DEF EcChannels
  <2> QED
    BY <1>f, <1>1, <2>1, <2>2 DEF EcChannels
<1>9. EcReturned(c)'
  <2>1. Len(u) <= n /\ Len(u) + 0 <= n
    BY <1>3, <1>5, <1>7
  <2>2. ecGot'[c] = u /\ ecSent'[c] = n /\ EcRun(<<>>, Len(u), n) /\ Len(<<>>) = 0
    BY <1>1 DEF u, n, EcRun
  <2> QED
    BY <1>2, <1>7, <2>1, <2>2 DEF EcReturned
<1>10. ASSUME ecServer \notin ServerEnded PROVE EcWhole(c)'
  <2> DEFINE w == Len(got) + Len(down)
             x == Len(u) + Len(ecDown'[c])
  <2>1. EcWhole(c) /\ ecPc[c] \notin EcLeft
    BY <1>1, <1>10 DEF EcFlow, EcLeft
  <2>2. /\ EcRun(EcFlying(c), w, n) /\ EcRun(ecUp[c], w + Len(EcFlying(c)), n)
        /\ w + Len(EcFlying(c)) + Len(ecUp[c]) = n /\ n >= n
    BY <1>3, <2>1 DEF EcWhole, got, down, n
  <2>3. x = w
    BY <1>2, <1>3, <1>7
  <2> HIDE DEF w, x
  <2>4. /\ EcRun(EcFlying(c), x, n) /\ EcRun(ecUp[c], x + Len(EcFlying(c)), n)
        /\ x + Len(EcFlying(c)) + Len(ecUp[c]) = n /\ n >= n
    BY <2>2, <2>3
  <2>5. ecUp'[c] = ecUp[c] /\ ecSent'[c] = n /\ EcFlying(c)' = EcFlying(c)
    BY <1>1, <1>6 DEF n
  <2> QED
    BY <2>4, <2>5 DEF EcWhole, x, u
<1> QED
  BY <1>1, <1>2, <1>6, <1>8, <1>9, <1>10, EcOther DEF EcFlow

LEMMA EcQuitFlow ==
  ASSUME EcInv, EcFlow, NEW c \in EcClients, NEW at \in EcLeft,
         ecPc[c] \in {"type", "recv"} \cup EcLeft, CliSends(c, QUIT, at),
         UNCHANGED <<ecDown, ecGot, ecSent, ecServer, ecPeer, ecBuf>>
  PROVE  EcFlow'
<1>t. ecPc \in [EcClients -> EcPlaces]
  BY DEF EcInv, EcType
<1>f. EcChannels
  BY DEF EcFlow
<1>1. /\ ecPc[c] \in {"type", "recv"} \cup EcLeft
      /\ UNCHANGED <<ecDown, ecGot, ecSent, ecServer, ecPeer, ecBuf>>
  OBVIOUS
<1>2. CASE <<c, "up", "rd">> \in ecEnds
  <2>1. ecUp' = [ecUp EXCEPT ![c] = Append(@, QUIT)] /\ ecPc' = [ecPc EXCEPT ![c] = at]
    BY <1>2 DEF CliSends, Goes
  <2>2. /\ ecPc'[c] \in EcLeft /\ ecUp'[c] = Append(ecUp[c], QUIT)
        /\ \A d \in EcClients : d # c => ecPc'[d] = ecPc[d] /\ ecUp'[d] = ecUp[d]
    BY <1>t, <1>f, <2>1 DEF EcChannels
  <2>3. EcChannels'
    BY <1>f, <1>1, <2>1 DEF EcChannels, QUIT
  <2>4. \A d \in EcClients : EcFlying(d)' = EcFlying(d)
    BY <1>1 DEF EcFlying
  <2>5. EcReturned(c)'
    BY <1>1, <2>2 DEF EcFlow, EcReturned
  <2>6. ASSUME ecServer \notin ServerEnded PROVE EcWhole(c)'
    <3> DEFINE v == Len(ecGot[c]) + Len(ecDown[c]) + Len(EcFlying(c))
               up == ecUp[c]
               u == ecUp'[c]
               n == ecSent[c]
    <3>1. EcWhole(c)
      BY <1>1, <2>6 DEF EcFlow
    <3>2. EcRun(up, v, n) /\ v + Len(up) >= n
      BY <3>1 DEF EcWhole
    <3>t. /\ Len(ecGot[c]) \in Nat /\ Len(ecDown[c]) \in Nat /\ Len(EcFlying(c)) \in Nat
          /\ ecSent[c] \in Nat /\ ecUp[c] \in Seq(Nat) /\ Len(ecUp[c]) \in Nat
      BY EcTypes
    <3>3. v \in Nat /\ n \in Nat /\ up \in Seq(Nat) /\ Len(up) \in Nat
      <4>1. v \in Nat
        BY <3>t, SumOfThree
      <4> QED
        BY <3>t, <4>1
    <3>4. EcAdds(up, QUIT, u)
      BY <2>2 DEF EcAdds
    <3>5. EcRun(EcFlying(c), Len(ecGot[c]) + Len(ecDown[c]), n)
      BY <3>1 DEF EcWhole
    <3> HIDE DEF v, up, u, n
    <3>6. QUIT = EcMessage(n, v + Len(up) + 1)
      BY <3>2, <3>3 DEF EcMessage
    <3>7. QUIT \in Nat
      BY DEF QUIT
    <3>8. Len(u) = Len(up) + 1 /\ EcRun(u, v, n)
      BY <3>2, <3>3, <3>4, <3>6, <3>7, EcRunOneMore
    <3>9. v + Len(u) >= n
      BY <3>2, <3>3, <3>8
    <3>10. ecSent'[c] = n /\ ecUp'[c] = u /\ EcFlying(c)' = EcFlying(c) /\ ecGot' = ecGot
           /\ ecDown' = ecDown
      BY <1>1, <2>4 DEF n, u
    <3> QED
      BY <2>2, <3>5, <3>8, <3>9, <3>10 DEF EcWhole, v
  <2> QED
    BY <1>1, <2>2, <2>3, <2>4, <2>5, <2>6, EcOther DEF EcFlow
<1>3. CASE <<c, "up", "rd">> \notin ecEnds
  <2>1. ecUp' = ecUp /\ ecPc' = [ecPc EXCEPT ![c] = "killed"]
    BY <1>3 DEF CliSends, Goes
  <2>2. ecPc'[c] = "killed" /\ \A d \in EcClients : d # c => ecPc'[d] = ecPc[d]
    BY <1>t, <2>1
  <2> QED
    BY <1>1, <2>1, <2>2, EcQuiet DEF EcFlying, EcLeft
<1> QED
  BY <1>2, <1>3

\* The server takes what its client sent.
LEMMA EcTakesFlow == ASSUME EcInv, EcFlow, SrvRecv PROVE EcFlow'
<1> DEFINE c == ecPeer
<1>f. EcChannels
  BY DEF EcFlow
<1>1. /\ ecServer = "recv" /\ UNCHANGED <<ecDown, ecSent, ecGot, ecPc, ecPeer>>
      /\ c \in EcClients
  BY DEF SrvRecv, ClientsSame, EcInv, EcType, EcTaken
<1>2. CASE ecUp[c] = <<>>
  <2>1. UNCHANGED <<ecUp, ecBuf>> /\ ecServer' \in ServerEnded
    BY <1>2 DEF SrvRecv, SrvExit, ServerEnded
  <2> QED
    BY <1>1, <2>1, EcQuiet
<1>3. CASE ecUp[c] # <<>>
  <2>1. /\ ecBuf' = ecUp[c] /\ ecUp' = [ecUp EXCEPT ![c] = <<>>]
        /\ ecServer' = "send" \/ ecServer' \in ServerEnded
    BY <1>3 DEF SrvRecv, SrvExit, ServerEnded
  <2>2. ecUp'[c] = <<>> /\ \A d \in EcClients : d # c => ecUp'[d] = ecUp[d]
    BY <1>f, <1>1, <2>1 DEF EcChannels
  <2>3. EcChannels'
    BY <1>f, <1>1, <2>1 DEF EcChannels
  <2>4. EcReturned(c)'
    BY <1>1 DEF EcFlow, EcReturned
  <2>5. ASSUME ecServer' \notin ServerEnded PROVE EcWhole(c)'
    <3> DEFINE w == Len(ecGot[c]) + Len(ecDown[c])
               up == ecUp[c]
               n == ecSent[c]
    <3>1. EcWhole(c) /\ EcFlying(c) = <<>>
      BY <1>1 DEF EcFlow, EcFlying, ServerEnded
    <3>2. EcFlying(c)' = up
      BY <1>1, <2>1, <2>5 DEF EcFlying
    <3>t. /\ Len(ecGot[c]) \in Nat /\ Len(ecDown[c]) \in Nat /\ ecSent[c] \in Nat
          /\ Len(ecUp[c]) \in Nat
      BY <1>1, EcTypes
    <3>3. w \in Nat /\ n \in Nat /\ Len(up) \in Nat
      <4>1. w \in Nat
        BY <3>t, SumOfThree
      <4> QED
        BY <3>t, <4>1
    <3>4. /\ EcRun(up, w + 0, n)
          /\ w + 0 + Len(up) >= n /\ (ecPc[c] \notin EcLeft => w + 0 + Len(up) = n)
      BY <3>1 DEF EcWhole
    <3>5. w + 0 = w /\ w + 0 + Len(up) = w + Len(up) /\ w + Len(up) + 0 = w + Len(up)
      BY <3>3
    <3>6. /\ ecSent'[c] = n /\ ecUp'[c] = <<>> /\ Len(<<>>) = 0 /\ ecPc' = ecPc
          /\ Len(ecGot'[c]) + Len(ecDown'[c]) = w /\ EcRun(<<>>, w + Len(up), n)
      BY <1>1, <2>2 DEF EcRun
    <3>7. c' = c
      BY <1>1
    <3> HIDE DEF w, up, n, c
    <3> QED
      BY <3>2, <3>4, <3>5, <3>6, <3>7 DEF EcWhole
  <2>6. ASSUME NEW d \in EcClients, d # c
        PROVE  EcReturned(d)' /\ (ecServer' \notin ServerEnded => EcWhole(d)')
    <3>1. EcFlying(d)' = EcFlying(d)
      BY <1>1, <2>6 DEF EcFlying
    <3>2. ecServer \notin ServerEnded
      BY <1>1 DEF ServerEnded
    <3> QED
      BY <1>1, <2>2, <2>6, <3>1, <3>2, EcOther
  <2> QED
    BY <1>1, <2>3, <2>4, <2>5, <2>6 DEF EcFlow
<1> QED
  BY <1>2, <1>3

\* The server sends it back.
LEMMA EcEchoFlow == ASSUME EcInv, EcFlow, SrvSend PROVE EcFlow'
<1> DEFINE c == ecPeer
<1>f. EcChannels
  BY DEF EcFlow
<1>1. /\ ecServer = "send" /\ UNCHANGED <<ecUp, ecSent, ecGot, ecPc, ecPeer>> /\ c \in EcClients
  BY DEF SrvSend, ClientsSame, EcInv, EcType, EcTaken
<1>2. CASE <<c, "down", "rd">> \notin ecEnds
  <2>1. UNCHANGED <<ecDown, ecBuf>> /\ ecServer' \in ServerEnded
    BY <1>2 DEF SrvSend, SrvExit, ServerEnded
  <2> QED
    BY <1>1, <2>1, EcQuiet
<1>3. CASE <<c, "down", "rd">> \in ecEnds
  <2>1. /\ ecDown' = [ecDown EXCEPT ![c] = @ \o ecBuf] /\ ecServer' = "recv" /\ ecBuf' = <<>>
    BY <1>3 DEF SrvSend
  <2> DEFINE down == ecDown[c]
             buf == ecBuf
             u == ecDown'[c]
             n == ecSent[c]
             g == Len(ecGot[c])
  <2>2. u = down \o buf /\ \A d \in EcClients : d # c => ecDown'[d] = ecDown[d]
    BY <1>f, <1>1, <2>1 DEF EcChannels
  <2>3. /\ down \in Seq(Nat) /\ buf \in Seq(Nat) /\ n \in Nat /\ g \in Nat
        /\ Len(down) \in Nat /\ Len(buf) \in Nat /\ Len(ecUp[c]) \in Nat
    BY <1>1, EcTypes
  <2>4. EcWhole(c) /\ EcReturned(c) /\ EcFlying(c) = buf
    BY <1>1 DEF EcFlow, EcFlying, ServerEnded
  <2>5. /\ EcRun(ecGot[c], 0, n) /\ g <= n /\ EcRun(down, g, n) /\ EcRun(buf, g + Len(down), n)
        /\ EcRun(ecUp[c], g + Len(down) + Len(buf), n)
        /\ g + Len(down) + Len(buf) + Len(ecUp[c]) >= n
        /\ ecPc[c] \notin EcLeft => g + Len(down) + Len(buf) + Len(ecUp[c]) = n
    BY <2>4 DEF EcWhole, EcReturned
  <2>6. /\ EcFlying(c)' = <<>> /\ ecSent'[c] = n /\ ecGot' = ecGot /\ ecUp' = ecUp /\ ecPc' = ecPc
        /\ c' = c /\ Len(<<>>) = 0 /\ g' = g
    BY <1>1, <2>1 DEF EcFlying
  <2> HIDE DEF down, buf, u, n
  <2>7. u \in Seq(Nat) /\ Len(u) = Len(down) + Len(buf) /\ EcRun(u, g, n)
    <3> HIDE DEF g
    <3>1. u = down \o buf
      BY <2>2
    <3>2. down \in Seq(Nat)
      BY <2>3
    <3>3. buf \in Seq(Nat)
      BY <2>3
    <3>4. n \in Nat /\ g \in Nat /\ EcRun(down, g, n) /\ EcRun(buf, g + Len(down), n)
      BY <2>3, <2>5
    <3> QED
      BY <3>1, <3>2, <3>3, <3>4, EcRunJoins
  <2>8. EcChannels'
    <3>1. ecDown' \in [EcClients -> Seq(Nat)]
      BY <1>f, <1>1, <2>1, <2>7 DEF EcChannels, u, down, buf
    <3> QED
      BY <1>f, <1>1, <2>1, <3>1 DEF EcChannels
  <2> HIDE DEF c
  <2>u. ecDown'[c] = u
    BY DEF u
  <2>9. EcReturned(c)'
    <3>1. ecPc[c] \notin EcLeft => g + Len(u) <= n
      <4> HIDE DEF g
      <4> DEFINE done == ecPc[c] \in EcLeft
                 rest == Len(ecUp[c])
      <4>1. /\ rest \in Nat /\ g \in Nat /\ n \in Nat /\ Len(down) \in Nat /\ Len(buf) \in Nat
            /\ Len(u) = Len(down) + Len(buf)
            /\ ~done => g + Len(down) + Len(buf) + rest = n
        BY <2>3, <2>5, <2>7
      <4> HIDE DEF done, rest
      <4>2. ~done => g + Len(u) <= n
        BY <4>1
      <4> QED
        BY <4>2 DEF done
    <3> QED
      BY <2>5, <2>6, <2>7, <2>u, <3>1 DEF EcReturned
  <2>10. EcWhole(c)'
    <3>0. EcRun(<<>>, g + Len(u), n)
      BY DEF EcRun
    <3>1. g + Len(u) + 0 = g + Len(down) + Len(buf)
      <4> HIDE DEF g
      <4> QED
        BY <2>3, <2>7
    <3> DEFINE x == g + Len(u) + 0
    <3>2. /\ EcRun(ecUp[c], x, n)
          /\ x + Len(ecUp[c]) >= n /\ (ecPc[c] \notin EcLeft => x + Len(ecUp[c]) = n)
      <4> HIDE DEF g, x
      <4>1. x = g + Len(down) + Len(buf)
        BY <3>1 DEF x
      <4> QED
        BY <2>5, <4>1
    <3> QED
      BY <2>6, <2>u, <3>0, <3>1, <3>2 DEF EcWhole
  <2>11. ASSUME NEW d \in EcClients, d # c
         PROVE  EcReturned(d)' /\ (ecServer' \notin ServerEnded => EcWhole(d)')
    <3>1. EcFlying(d)' = EcFlying(d)
      BY <1>1, <2>11 DEF EcFlying, c
    <3>2. ecServer \notin ServerEnded
      BY <1>1 DEF ServerEnded
    <3>3. ecDown'[d] = ecDown[d]
      BY <2>2, <2>11
    <3> QED
      BY <1>1, <2>11, <3>1, <3>2, <3>3, EcOther
  <2> QED
    BY <2>6, <2>8, <2>9, <2>10, <2>11 DEF EcFlow
<1> QED
  BY <1>2, <1>3

LEMMA EcNextFlow == ASSUME EcInv, EcFlow, [EcNext]_ecVars PROVE EcFlow'
<1>t. ecPc \in [EcClients -> EcPlaces]
  BY DEF EcInv, EcType
<1>1. CASE UNCHANGED ecVars
  BY <1>1, EcQuiet DEF ecVars, EcFlying
<1>2. ASSUME NEW c \in EcClients,
             CliCreate(c) \/ CliRequestFifo(c) \/ CliConnectUnix(c) \/ CliOpen(c) \/ CliOpened(c)
             \/ CliSetup(c) \/ CliKilled(c)
      PROVE  EcFlow'
  <2>1. ecPc[c] \notin EcLeft /\ \E at : ecPc' = [ecPc EXCEPT ![c] = at]
    BY <1>2 DEF CliCreate, CliRequestFifo, CliConnectUnix, CliOpen, CliOpened, CliSetup, CliKilled, Goes,
                EcLeft
  <2>2. UNCHANGED <<ecUp, ecDown, ecSent, ecGot, ecBuf, ecServer, ecPeer>>
    BY <1>2 DEF CliCreate, CliRequestFifo, CliConnectUnix, CliOpen, CliOpened, CliSetup, CliKilled,
                ChannelsSame, ServerSame
  <2>3. \A d \in EcClients : ecPc[d] \in EcLeft => ecPc'[d] \in EcLeft
    BY <1>t, <2>1
  <2> QED
    BY <2>2, <2>3, EcQuiet DEF EcFlying
<1>3. CASE SrvCreate
  <2>1. UNCHANGED <<ecUp, ecDown, ecSent, ecGot, ecBuf, ecPc, ecPeer>>
    BY <1>3 DEF SrvCreate, ClientsSame
  <2>2. ecServer \in {"start", "made", "opened"} /\ ecServer' # "send"
    BY <1>3 DEF SrvCreate, SrvExit
  <2> QED
    BY <2>1, <2>2, EcQuiet DEF EcFlying, ServerEnded
<1>4. CASE SrvAcceptFifo
  <2>1. UNCHANGED <<ecUp, ecDown, ecSent, ecGot, ecBuf, ecPc>>
    BY <1>4 DEF SrvAcceptFifo, ClientsSame
  <2>2. ecServer \in {"accept", "open1", "open2", "open3"} /\ ecServer' # "send"
    BY <1>4 DEF SrvAcceptFifo
  <2> QED
    BY <2>1, <2>2, EcQuiet DEF EcFlying, ServerEnded
<1>5. CASE SrvAcceptUnix
  <2>1. UNCHANGED <<ecUp, ecDown, ecSent, ecGot, ecBuf, ecPc>>
    BY <1>5 DEF SrvAcceptUnix, ClientsSame
  <2>2. ecServer = "accept" /\ ecServer' # "send"
    BY <1>5 DEF SrvAcceptUnix
  <2> QED
    BY <2>1, <2>2, EcQuiet DEF EcFlying, ServerEnded
<1>6. CASE SrvSignal
  <2>1. UNCHANGED <<ecUp, ecDown, ecSent, ecGot, ecBuf, ecPc>> /\ ecServer' \in ServerEnded
    BY <1>6 DEF SrvSignal, ClientsSame, SrvExit, ServerEnded
  <2> QED
    BY <2>1, EcQuiet
<1>7. CASE SrvRecv
  BY <1>7, EcTakesFlow
<1>8. CASE SrvSend
  BY <1>8, EcEchoFlow
<1>9. ASSUME NEW c \in EcClients, CliLine(c) \/ CliRecv(c) PROVE EcFlow'
  BY <1>9, EcLineFlow, EcRecvFlow
<1>10. ASSUME NEW c \in EcClients, CliEof(c) \/ CliSignal(c) PROVE EcFlow'
  <2>1. \E at \in EcLeft : CliSendsQuit(c, at)
    BY <1>10 DEF CliEof, CliSignal, EcLeft
  <2>2. ecPc[c] \in {"type", "recv"} \cup EcLeft
    BY <1>10 DEF CliEof, CliSignal, EcLeft
  <2> QED
    BY <2>1, <2>2, EcQuitFlow DEF CliSendsQuit, ServerSame
<1>11. ASSUME NEW c \in EcClients, CliLeave(c) PROVE EcFlow'
  <2>1. ecPc[c] \in EcLeft /\ UNCHANGED <<ecDown, ecGot, ecSent, ecServer, ecPeer, ecBuf>>
    BY <1>11 DEF CliLeave, ServerSame, EcLeft
  <2>2. CASE CliSends(c, QUIT, "killed")
    BY <2>1, <2>2, EcQuitFlow DEF EcLeft
  <2>3. CASE Goes(c, "done") /\ UNCHANGED ecUp
    <3>1. \A d \in EcClients : ecPc[d] \in EcLeft => ecPc'[d] \in EcLeft
      BY <1>t, <2>3 DEF Goes, EcLeft
    <3> QED
      BY <2>1, <2>3, <3>1, EcQuiet DEF EcFlying
  <2> QED
    BY <1>11, <2>2, <2>3 DEF CliLeave
<1> QED
  BY <1>1, <1>2, <1>3, <1>4, <1>5, <1>6, <1>7, <1>8, <1>9, <1>10, <1>11
     DEF EcNext, EcServer, EcClient

LEMMA EcRunIsAllSent ==
  ASSUME NEW s \in Seq(Nat), NEW c \in EcClients, ecSent[c] \in Nat, EcRun(s, 0, ecSent[c])
  PROVE  /\ Len(s) <= ecSent[c] => IsPrefix(s, AllSent(c))
         /\ Len(s) >= ecSent[c] =>
              /\ IsPrefix(AllSent(c), s)
              /\ \A i \in (ecSent[c] + 1)..Len(s) : s[i] = QUIT
<1> DEFINE n == ecSent[c]
           all == AllSent(c)
<1>0. n \in Nat /\ Len(s) \in Nat
  OBVIOUS
<1>1. all \in Seq(Nat) /\ Len(all) = n /\ \A i \in 1..n : all[i] = i
  <2>1. all \in [1..n -> Nat]
    BY <1>0 DEF AllSent
  <2> QED
    BY <1>0, <2>1 DEF AllSent
<1>2. \A i \in 1..Len(s) : s[i] = EcMessage(n, i)
  BY <1>0 DEF EcRun
<1>3. Len(s) <= n => \A i \in 1..Len(s) : s[i] = all[i]
  BY <1>0, <1>1, <1>2 DEF EcMessage
<1>4. Len(s) <= n => IsPrefix(s, all)
  <2> HIDE DEF all, n
  <2> QED
    BY <1>0, <1>1, <1>3 DEF IsPrefix
<1>5. Len(s) >= n => IsPrefix(all, s)
  <2> HIDE DEF all, n
  <2>1. ASSUME Len(s) >= n, NEW i \in 1..n PROVE all[i] = s[i]
    <3>1. i \in 1..Len(s) /\ i <= n
      BY <1>0, <2>1
    <3> QED
      BY <1>1, <1>2, <3>1 DEF EcMessage
  <2> QED
    BY <1>0, <1>1, <2>1 DEF IsPrefix
<1>6. \A i \in (n + 1)..Len(s) : s[i] = QUIT
  BY <1>0, <1>2 DEF EcMessage
<1> QED
  BY <1>4, <1>5, <1>6

LEMMA EcFlowEchoes == ASSUME EcInv, EcFlow PROVE EcEcho
<1>1. ASSUME NEW c \in EcClients PROVE IsPrefix(ecGot[c], AllSent(c))
  <2>1. /\ ecGot[c] \in Seq(Nat) /\ ecSent[c] \in Nat
        /\ EcRun(ecGot[c], 0, ecSent[c]) /\ Len(ecGot[c]) <= ecSent[c]
    BY EcTypes DEF EcFlow, EcReturned
  <2> QED
    BY <2>1, EcRunIsAllSent
<1>2. ASSUME ecServer \in {"recv", "send"}
      PROVE  /\ IsPrefix(AllSent(ecPeer), Messages(ecPeer))
             /\ \A i \in (ecSent[ecPeer] + 1)..Len(Messages(ecPeer)) : Messages(ecPeer)[i] = QUIT
  <2> DEFINE c == ecPeer
             got == ecGot[c]
             down == ecDown[c]
             fly == EcFlying(c)
             up == ecUp[c]
             n == ecSent[c]
             s1 == got \o down
             s2 == s1 \o fly
             s3 == s2 \o up
  <2>1. c \in EcClients /\ ecServer \notin ServerEnded
    BY <1>2 DEF EcInv, EcType, EcTaken, ServerEnded
  <2>2. fly = IF ecServer = "send" THEN ecBuf ELSE <<>>
    BY DEF EcFlying
  <2>3. /\ got \in Seq(Nat) /\ down \in Seq(Nat) /\ fly \in Seq(Nat) /\ up \in Seq(Nat) /\ n \in Nat
        /\ Len(got) \in Nat /\ Len(down) \in Nat /\ Len(fly) \in Nat /\ Len(up) \in Nat
    BY <2>1, EcTypes
  <2>4. /\ EcRun(got, 0, n) /\ EcRun(down, Len(got), n)
        /\ EcRun(fly, Len(got) + Len(down), n)
        /\ EcRun(up, Len(got) + Len(down) + Len(fly), n)
        /\ Len(got) + Len(down) + Len(fly) + Len(up) >= n
    BY <2>1 DEF EcFlow, EcReturned, EcWhole
  <2>5. s1 = got \o down /\ s2 = s1 \o fly /\ s3 = s2 \o up
    OBVIOUS
  <2>m. s3 = Messages(c)
    BY <2>1, <2>2 DEF Messages
  <2> HIDE DEF got, down, fly, up, s1, s2, s3
  <2>6. s1 \in Seq(Nat) /\ Len(s1) = Len(got) + Len(down) /\ EcRun(s1, 0, n)
    <3> HIDE DEF n
    <3>1. 0 \in Nat /\ EcRun(down, 0 + Len(got), n)
      BY <2>3, <2>4
    <3>2. got \in Seq(Nat) /\ EcRun(got, 0, n)
      BY <2>3, <2>4
    <3>3. down \in Seq(Nat) /\ n \in Nat
      BY <2>3
    <3>4. s1 = got \o down
      BY <2>5
    <3> QED
      BY <3>1, <3>2, <3>3, <3>4, EcRunJoins
  <2>7. s2 \in Seq(Nat) /\ Len(s2) = Len(got) + Len(down) + Len(fly) /\ EcRun(s2, 0, n)
    <3> HIDE DEF n
    <3>1. 0 \in Nat /\ EcRun(fly, 0 + Len(s1), n)
      BY <2>3, <2>4, <2>6
    <3>2. s1 \in Seq(Nat) /\ EcRun(s1, 0, n)
      BY <2>6
    <3>3. fly \in Seq(Nat) /\ n \in Nat
      BY <2>3
    <3>4. s2 = s1 \o fly
      BY <2>5
    <3>5. s2 \in Seq(Nat) /\ Len(s2) = Len(s1) + Len(fly) /\ EcRun(s2, 0, n)
      BY <3>1, <3>2, <3>3, <3>4, EcRunJoins
    <3> QED
      BY <2>3, <2>6, <3>5
  <2>8. s3 \in Seq(Nat) /\ Len(s3) = Len(got) + Len(down) + Len(fly) + Len(up) /\ EcRun(s3, 0, n)
    <3> HIDE DEF n
    <3>1. 0 \in Nat /\ EcRun(up, 0 + Len(s2), n)
      BY <2>3, <2>4, <2>7
    <3>2. s2 \in Seq(Nat) /\ EcRun(s2, 0, n)
      BY <2>7
    <3>3. up \in Seq(Nat) /\ n \in Nat
      BY <2>3
    <3>4. s3 = s2 \o up
      BY <2>5
    <3>5. s3 \in Seq(Nat) /\ Len(s3) = Len(s2) + Len(up) /\ EcRun(s3, 0, n)
      BY <3>1, <3>2, <3>3, <3>4, EcRunJoins
    <3> QED
      BY <2>3, <2>7, <3>5
  <2>9. Len(s3) >= n
    BY <2>4, <2>8
  <2>10. IsPrefix(AllSent(c), s3) /\ \A i \in (n + 1)..Len(s3) : s3[i] = QUIT
    BY <2>1, <2>3, <2>8, <2>9, EcRunIsAllSent
  <2> QED
    BY <2>10, <2>m
<1> QED
  BY <1>1, <1>2 DEF EcEcho

\* Every client gets its own lines back in order, and while the server serves it
\* none is missing.
THEOREM EcIsEchoed == EcSpec => []EcEcho
<1>1. EcInit => EcInv /\ EcFlow
  BY EcInitInv, EcFlowInit
<1>2. EcInv /\ EcFlow /\ [EcNext]_ecVars => (EcInv /\ EcFlow)'
  BY EcNextInv, EcNextFlow
<1>3. EcInv /\ EcFlow => EcEcho
  BY EcFlowEchoes
<1> QED
  BY <1>1, <1>2, <1>3, PTL DEF EcSpec
----------------------------------------------------------------------------
(* The epoll server: what its threads keep of the clients' chunks.         *)

\* What thread t has in hand for client c.
EpHeld(c, t) == IF epThread[t].fd = c THEN ToSet(epThread[t].buf) ELSE {}

EpType ==
  /\ epBacklog \in Seq(EpClients) /\ epReg \subseteq EpClients
  /\ epReady \subseteq EpClients \cup {SERVER}
  /\ epIn \in [EpClients -> Seq(Nat)] /\ epOut \in [EpClients -> Seq(Nat)]
  /\ epSent \in [EpClients -> Nat]
  /\ epThread \in [EpThreads -> [events : SUBSET (EpClients \cup {SERVER}),
                                 fd : EpClients \cup {SERVER, "none"}, buf : Seq(Nat)]]

\* Only a client's chunks are in hand, and the event in hand is no longer waiting.
EpTidy == \A t \in EpThreads : /\ epThread[t].fd \notin epThread[t].events
                               /\ epThread[t].fd \notin EpClients => epThread[t].buf = <<>>
                               /\ IsInjective(epThread[t].buf)

EpAll(c) == ToSet(epOut[c]) \cup (UNION {EpHeld(c, t) : t \in EpThreads}) \cup ToSet(epIn[c])

\* A chunk of client c is in one place: sent back, in hand of one thread, or waiting.
EpOnce(c) ==
  /\ IsInjective(epOut[c]) /\ IsInjective(epIn[c]) /\ ToSet(epOut[c]) \cap ToSet(epIn[c]) = {}
  /\ \A t \in EpThreads : EpHeld(c, t) \cap (ToSet(epOut[c]) \cup ToSet(epIn[c])) = {}
  /\ \A t, u \in EpThreads : t # u => EpHeld(c, t) \cap EpHeld(c, u) = {}
  /\ EpAll(c) = 1..epSent[c]

\* The threads that have been told of a connection.
EpTold == {t \in EpThreads : SERVER \in epThread[t].events \cup {epThread[t].fd}}
EpCalls == Cardinality(EpTold) + (IF SERVER \in epReady THEN 1 ELSE 0) <= Len(epBacklog)

EpInv == EpType /\ EpTidy /\ (\A c \in EpClients : EpOnce(c)) /\ EpCalls

\* A sequence without repetitions has as many elements as places.
LEMMA InjectiveCounts ==
  ASSUME NEW s \in Seq(Nat), IsInjective(s)
  PROVE  IsFiniteSet(ToSet(s)) /\ Cardinality(ToSet(s)) = Len(s)
<1> DEFINE n == Len(s)
<1>1. n \in Nat /\ DOMAIN s = 1..n
  OBVIOUS
<1>2. s \in [1..n -> ToSet(s)]
  BY DEF ToSet
<1>3. s \in Bijection(1..n, ToSet(s))
  BY <1>1, <1>2 DEF Bijection, Injection, Surjection, ToSet
<1>4. ExistsBijection(1..n, ToSet(s))
  BY <1>3 DEF ExistsBijection
<1>5. IsFiniteSet(ToSet(s))
  BY <1>1, <1>4, FS_NatBijection
<1> QED
  BY <1>1, <1>4, <1>5, FS_CountingElements

\* What two sequences one behind the other contain.
LEMMA EpJoined ==
  ASSUME NEW s \in Seq(Nat), NEW t \in Seq(Nat), NEW u, u = s \o t
  PROVE  /\ u \in Seq(Nat) /\ ToSet(u) = ToSet(s) \cup ToSet(t)
         /\ IsInjective(s) /\ IsInjective(t) /\ ToSet(s) \cap ToSet(t) = {} => IsInjective(u)
<1> DEFINE m == Len(s)
           n == Len(t)
<1>0. m \in Nat /\ n \in Nat /\ DOMAIN s = 1..m /\ DOMAIN t = 1..n
  OBVIOUS
<1>1. /\ u \in Seq(Nat) /\ Len(u) = m + n
      /\ \A i \in 1..m : u[i] = s[i]
      /\ \A i \in 1..n : u[m + i] = t[i]
  BY JoinAt
<1>2. DOMAIN u = 1..(m + n)
  BY <1>1
<1> HIDE DEF m, n
<1>3. \A i \in 1..(m + n) : i \in 1..m \/ (i - m \in 1..n /\ m + (i - m) = i)
  BY <1>0
<1>4. \A i \in 1..n : m + i \in 1..(m + n)
  BY <1>0
<1>5. \A i \in 1..m : i \in 1..(m + n)
  BY <1>0
<1>6. \A x : x \in ToSet(u) <=> x \in ToSet(s) \/ x \in ToSet(t)
  <2> TAKE x
  <2>1. ASSUME NEW i \in 1..(m + n), x = u[i] PROVE x \in ToSet(s) \/ x \in ToSet(t)
    <3>1. CASE i \in 1..m
      BY <1>0, <1>1, <2>1, <3>1 DEF ToSet
    <3>2. CASE i - m \in 1..n /\ m + (i - m) = i
      <4>1. u[m + (i - m)] = t[i - m]
        BY <1>1, <3>2
      <4> QED
        BY <1>0, <2>1, <3>2, <4>1 DEF ToSet
    <3> QED
      BY <1>3, <3>1, <3>2
  <2>2. ASSUME x \in ToSet(s) PROVE x \in ToSet(u)
    <3>1. PICK i \in 1..m : x = s[i]
      BY <1>0, <2>2 DEF ToSet
    <3> QED
      BY <1>1, <1>2, <1>5, <3>1 DEF ToSet
  <2>3. ASSUME x \in ToSet(t) PROVE x \in ToSet(u)
    <3>1. PICK i \in 1..n : x = t[i]
      BY <1>0, <2>3 DEF ToSet
    <3>2. x = u[m + i] /\ m + i \in 1..(m + n)
      BY <1>1, <1>4, <3>1
    <3> QED
      BY <1>2, <3>2 DEF ToSet
  <2> QED
    BY <1>2, <2>1, <2>2, <2>3 DEF ToSet
<1>7. ASSUME IsInjective(s), IsInjective(t), ToSet(s) \cap ToSet(t) = {} PROVE IsInjective(u)
  <2> SUFFICES ASSUME NEW i \in 1..(m + n), NEW j \in 1..(m + n), u[i] = u[j] PROVE i = j
    BY <1>2 DEF IsInjective
  <2>1. ASSUME NEW k \in 1..(m + n), k \notin 1..m
        PROVE  k - m \in 1..n /\ u[k] = t[k - m] /\ u[k] \in ToSet(t)
    <3>1. k - m \in 1..n /\ m + (k - m) = k
      BY <1>3, <2>1
    <3>2. u[k] = t[k - m]
      BY <1>1, <3>1
    <3> QED
      BY <1>0, <3>1, <3>2 DEF ToSet
  <2>2. ASSUME NEW k \in 1..m PROVE u[k] = s[k] /\ u[k] \in ToSet(s)
    BY <1>0, <1>1 DEF ToSet
  <2>3. CASE i \in 1..m /\ j \in 1..m
    BY <1>0, <1>7, <2>2, <2>3 DEF IsInjective
  <2>4. CASE i \in 1..m /\ j \notin 1..m
    BY <1>7, <2>1, <2>2, <2>4
  <2>5. CASE i \notin 1..m /\ j \in 1..m
    BY <1>7, <2>1, <2>2, <2>5
  <2>6. CASE i \notin 1..m /\ j \notin 1..m
    <3>1. i - m = j - m
      BY <1>0, <1>7, <2>1, <2>6 DEF IsInjective
    <3> QED
      BY <1>0, <3>1
  <2> QED
    BY <2>3, <2>4, <2>5, <2>6
<1> QED
  BY <1>1, <1>6, <1>7

\* A sequence is what it begins with and the rest.
EpCuts(s, n, a, b) == a = SubSeq(s, 1, n) /\ b = SubSeq(s, n + 1, Len(s))
LEMMA EpSplit ==
  ASSUME NEW s \in Seq(Nat), NEW n \in 1..Len(s), NEW a, NEW b,
         EpCuts(s, n, a, b), IsInjective(s)
  PROVE  /\ a \in Seq(Nat) /\ b \in Seq(Nat)
         /\ ToSet(s) = ToSet(a) \cup ToSet(b) /\ ToSet(a) \cap ToSet(b) = {}
         /\ IsInjective(a) /\ IsInjective(b)
<1> DEFINE m == Len(s)
<1>0. m \in Nat /\ n \in Nat /\ n \in 1..m /\ DOMAIN s = 1..m /\ m - n \in Nat
  OBVIOUS
<1>c. a = SubSeq(s, 1, n) /\ b = SubSeq(s, n + 1, m)
  BY DEF EpCuts
<1>1. a \in Seq(Nat) /\ Len(a) = n /\ \A i \in 1..n : a[i] = s[i]
  <2>1. /\ SubSeq(s, 1, n) \in Seq(Nat) /\ Len(SubSeq(s, 1, n)) = n - 1 + 1
        /\ \A i \in 1..(n - 1 + 1) : SubSeq(s, 1, n)[i] = s[1 + i - 1]
    BY <1>0, PieceOf
  <2>2. n - 1 + 1 = n /\ \A i \in 1..n : 1 + i - 1 = i
    BY <1>0
  <2> QED
    BY <1>c, <2>1, <2>2
<1>2. b \in Seq(Nat) /\ Len(b) = m - n /\ \A i \in 1..(m - n) : b[i] = s[n + i]
  <2> DEFINE k == n + 1
  <2>1. k \in Nat \ {0} /\ m <= Len(s) /\ k <= m + 1 /\ b = SubSeq(s, k, m)
    BY <1>0, <1>c
  <2>3. m - k + 1 = m - n /\ \A i \in 1..(m - n) : k + i - 1 = n + i
    BY <1>0
  <2> HIDE DEF k, m
  <2>2. /\ SubSeq(s, k, m) \in Seq(Nat) /\ Len(SubSeq(s, k, m)) = m - k + 1
        /\ \A i \in 1..(m - k + 1) : SubSeq(s, k, m)[i] = s[k + i - 1]
    BY SMTT(30), <1>0, <2>1, PieceOf
  <2> QED
    BY <2>1, <2>2, <2>3
<1>3. DOMAIN a = 1..n /\ DOMAIN b = 1..(m - n)
  <2>1. DOMAIN a = 1..Len(a)
    BY <1>1
  <2>2. DOMAIN b = 1..Len(b)
    BY <1>2
  <2> QED
    BY <1>1, <1>2, <2>1, <2>2
<1> HIDE DEF m
<1>4. /\ \A i \in 1..n : i \in 1..m
      /\ \A i \in 1..(m - n) : n + i \in 1..m /\ n + i \notin 1..n
      /\ \A i \in 1..m : i \in 1..n \/ (i - n \in 1..(m - n) /\ n + (i - n) = i)
  BY <1>0
<1>5. \A x : x \in ToSet(s) <=> x \in ToSet(a) \/ x \in ToSet(b)
  <2> TAKE x
  <2>1. ASSUME x \in ToSet(s) PROVE x \in ToSet(a) \/ x \in ToSet(b)
    <3>1. PICK i \in 1..m : x = s[i]
      BY <1>0, <2>1 DEF ToSet
    <3>2. CASE i \in 1..n
      BY <1>1, <1>3, <3>1, <3>2 DEF ToSet
    <3>3. CASE i - n \in 1..(m - n) /\ n + (i - n) = i
      <4>1. b[i - n] = s[n + (i - n)]
        BY <1>2, <3>3
      <4> QED
        BY <1>3, <3>1, <3>3, <4>1 DEF ToSet
    <3> QED
      BY <1>4, <3>2, <3>3
  <2>2. ASSUME x \in ToSet(a) PROVE x \in ToSet(s)
    BY <1>0, <1>1, <1>3, <1>4, <2>2 DEF ToSet
  <2>3. ASSUME x \in ToSet(b) PROVE x \in ToSet(s)
    <3>1. PICK i \in 1..(m - n) : x = b[i]
      BY <1>3, <2>3 DEF ToSet
    <3>2. x = s[n + i] /\ n + i \in 1..m
      BY <1>2, <1>4, <3>1
    <3> QED
      BY <1>0, <3>2 DEF ToSet
  <2> QED
    BY <2>1, <2>2, <2>3
<1>6. ToSet(a) \cap ToSet(b) = {}
  <2> SUFFICES ASSUME NEW x, x \in ToSet(a), x \in ToSet(b) PROVE FALSE
    OBVIOUS
  <2>2. PICK i \in 1..n : x = a[i]
    BY <1>3 DEF ToSet
  <2>3. PICK j \in 1..(m - n) : x = b[j]
    BY <1>3 DEF ToSet
  <2>1. s[i] = s[n + j] /\ i \in 1..m /\ n + j \in 1..m /\ n + j \notin 1..n
    BY <1>1, <1>2, <1>4, <2>2, <2>3
  <2> QED
    BY <1>0, <2>1 DEF IsInjective
<1>7. IsInjective(a)
  <2> SUFFICES ASSUME NEW i \in 1..n, NEW j \in 1..n, a[i] = a[j] PROVE i = j
    BY <1>3 DEF IsInjective
  <2>1. s[i] = s[j] /\ i \in 1..m /\ j \in 1..m
    BY <1>1, <1>4
  <2> QED
    BY <1>0, <2>1 DEF IsInjective
<1>8. IsInjective(b)
  <2> SUFFICES ASSUME NEW i \in 1..(m - n), NEW j \in 1..(m - n), b[i] = b[j] PROVE i = j
    BY <1>3 DEF IsInjective
  <2>1. s[n + i] = s[n + j] /\ n + i \in 1..m /\ n + j \in 1..m
    BY <1>2, <1>4
  <2>2. n + i = n + j
    BY <1>0, <2>1 DEF IsInjective
  <2> QED
    BY <1>0, <2>2
<1> QED
  BY <1>1, <1>2, <1>5, <1>6, <1>7, <1>8

\* One more chunk at the end.
LEMMA EpOneMore ==
  ASSUME NEW s \in Seq(Nat), NEW x \in Nat, NEW u, EcAdds(s, x, u), IsInjective(s), x \notin ToSet(s)
  PROVE  u \in Seq(Nat) /\ ToSet(u) = ToSet(s) \cup {x} /\ IsInjective(u)
<1> DEFINE n == Len(s)
<1>1. /\ u \in Seq(Nat) /\ Len(u) = n + 1 /\ u[n + 1] = x /\ n \in Nat /\ DOMAIN s = 1..n
      /\ \A i \in 1..n : u[i] = s[i]
  BY DEF EcAdds
<1>2. DOMAIN u = 1..(n + 1)
  BY <1>1
<1> HIDE DEF n
<1>3. \A i \in 1..(n + 1) : i \in 1..n \/ i = n + 1
  BY <1>1
<1>4. n + 1 \in 1..(n + 1) /\ \A i \in 1..n : i \in 1..(n + 1)
  BY <1>1
<1>5. ToSet(u) = ToSet(s) \cup {x}
  BY <1>1, <1>2, <1>3, <1>4 DEF ToSet
<1>6. IsInjective(u)
  BY <1>1, <1>2, <1>3 DEF ToSet, IsInjective
<1> QED
  BY <1>1, <1>5, <1>6

\* Where the chunks of client c are.
LEMMA EpPlaces ==
  ASSUME NEW c \in EpClients
  PROVE  /\ \A k : k \in EpAll(c) <=> \/ k \in ToSet(epOut[c]) \/ k \in ToSet(epIn[c])
                                      \/ \E t \in EpThreads : k \in EpHeld(c, t)
         /\ \A k : k \in EpAll(c)' <=> \/ k \in ToSet(epOut'[c]) \/ k \in ToSet(epIn'[c])
                                       \/ \E t \in EpThreads : k \in EpHeld(c, t)'
<1>1. ASSUME NEW k
      PROVE  k \in EpAll(c) <=> \/ k \in ToSet(epOut[c]) \/ k \in ToSet(epIn[c])
                                \/ \E t \in EpThreads : k \in EpHeld(c, t)
  <2> DEFINE held == UNION {EpHeld(c, t) : t \in EpThreads}
  <2>1. k \in held <=> \E t \in EpThreads : k \in EpHeld(c, t)
    OBVIOUS
  <2>2. EpAll(c) = ToSet(epOut[c]) \cup held \cup ToSet(epIn[c])
    BY DEF EpAll
  <2> HIDE DEF held
  <2> QED
    BY <2>1, <2>2
<1>2. ASSUME NEW k
      PROVE  k \in EpAll(c)' <=> \/ k \in ToSet(epOut'[c]) \/ k \in ToSet(epIn'[c])
                                 \/ \E t \in EpThreads : k \in EpHeld(c, t)'
  <2> DEFINE held == UNION {EpHeld(c, t)' : t \in EpThreads}
  <2>1. k \in held <=> \E t \in EpThreads : k \in EpHeld(c, t)'
    OBVIOUS
  <2>2. EpAll(c)' = ToSet(epOut'[c]) \cup held \cup ToSet(epIn'[c])
    BY DEF EpAll
  <2> HIDE DEF held
  <2> QED
    BY <2>1, <2>2
<1> QED
  BY <1>1, <1>2

\* A step that does not touch the chunks of client c.
LEMMA EpQuiet ==
  ASSUME NEW c \in EpClients, EpOnce(c), epIn'[c] = epIn[c], epOut'[c] = epOut[c],
         epSent'[c] = epSent[c], \A t \in EpThreads : EpHeld(c, t)' = EpHeld(c, t)
  PROVE  EpOnce(c)'
<1>1. EpAll(c)' = EpAll(c)
  BY EpPlaces
<1> QED
  BY <1>1 DEF EpOnce

\* Thread t moves chunks of client c between the sequences and its buffer.
LEMMA EpMoves ==
  ASSUME NEW c \in EpClients, EpOnce(c), NEW t \in EpThreads, epSent'[c] = epSent[c],
         \A u \in EpThreads : u # t => EpHeld(c, u)' = EpHeld(c, u),
         IsInjective(epOut'[c]), IsInjective(epIn'[c]),
         ToSet(epOut'[c]) \cup EpHeld(c, t)' \cup ToSet(epIn'[c])
           = ToSet(epOut[c]) \cup EpHeld(c, t) \cup ToSet(epIn[c]),
         ToSet(epOut'[c]) \cap ToSet(epIn'[c]) = {},
         EpHeld(c, t)' \cap (ToSet(epOut'[c]) \cup ToSet(epIn'[c])) = {}
  PROVE  EpOnce(c)'
<1> DEFINE out == ToSet(epOut[c])
           in == ToSet(epIn[c])
           out1 == ToSet(epOut'[c])
           in1 == ToSet(epIn'[c])
           h == EpHeld(c, t)
           h1 == EpHeld(c, t)'
<1>1. /\ \A u \in EpThreads : EpHeld(c, u) \cap (out \cup in) = {}
      /\ \A u, v \in EpThreads : u # v => EpHeld(c, u) \cap EpHeld(c, v) = {}
  BY DEF EpOnce
<1>2. \A u \in EpThreads : u # t => EpHeld(c, u) \cap (out \cup h \cup in) = {}
  BY <1>1
<1>3. out1 \cup h1 \cup in1 = out \cup h \cup in
  OBVIOUS
<1>4. EpAll(c)' = EpAll(c)
  <2>1. \A k : (k \in out1 \/ k \in h1 \/ k \in in1) <=> (k \in out \/ k \in h \/ k \in in)
    BY <1>3
  <2>2. \A k : (\E u \in EpThreads : k \in EpHeld(c, u)')
               <=> k \in h1 \/ \E u \in EpThreads : u # t /\ k \in EpHeld(c, u)
    OBVIOUS
  <2>3. \A k : (\E u \in EpThreads : k \in EpHeld(c, u))
               <=> k \in h \/ \E u \in EpThreads : u # t /\ k \in EpHeld(c, u)
    OBVIOUS
  <2> HIDE DEF out, in, out1, in1, h, h1
  <2>4. \A k : k \in EpAll(c)' <=> k \in EpAll(c)
    BY <2>1, <2>2, <2>3, EpPlaces DEF out, in, out1, in1
  <2> QED
    BY <2>4
<1>5. \A u \in EpThreads : u # t => EpHeld(c, u)' \cap (out1 \cup h1 \cup in1) = {}
  BY <1>2, <1>3
<1>6. \A u \in EpThreads : EpHeld(c, u)' \cap (out1 \cup in1) = {}
  BY <1>5
<1>7. ASSUME NEW u \in EpThreads, NEW v \in EpThreads, u # v
      PROVE  EpHeld(c, u)' \cap EpHeld(c, v)' = {}
  <2>1. CASE u = t
    BY <1>5, <1>7, <2>1
  <2>2. CASE v = t
    BY <1>5, <1>7, <2>2
  <2>3. CASE u # t /\ v # t
    BY <1>1, <1>7, <2>3
  <2> QED
    BY <2>1, <2>2, <2>3
<1>8. EpAll(c)' = 1..epSent'[c]
  BY <1>4 DEF EpOnce
<1>9. ToSet(epOut'[c]) \cap ToSet(epIn'[c]) = {}
  OBVIOUS
<1> HIDE DEF out, in, out1, in1, h, h1
<1> QED
  BY <1>6, <1>7, <1>8, <1>9 DEF EpOnce, out1, in1

LEMMA EpInitInv == EpInit => EpInv
<1> SUFFICES ASSUME EpInit PROVE EpInv
  OBVIOUS
<1>1. EpType
  BY DEF EpInit, EpType, Idle
<1>2. EpTidy
  BY DEF EpInit, EpTidy, Idle, IsInjective
<1>3. ASSUME NEW c \in EpClients PROVE EpOnce(c)
  <2>1. epOut[c] = <<>> /\ epIn[c] = <<>> /\ epSent[c] = 0
    BY DEF EpInit
  <2>2. \A t \in EpThreads : EpHeld(c, t) = {}
    BY EpAssumption DEF EpInit, EpHeld, Idle, ToSet
  <2>3. ToSet(<<>>) = {} /\ IsInjective(<<>>)
    BY DEF ToSet, IsInjective
  <2>4. EpAll(c) = 1..0
    BY <2>1, <2>2, <2>3, EpPlaces
  <2> QED
    BY <2>1, <2>2, <2>3, <2>4 DEF EpOnce
<1>4. EpTold = {}
  BY DEF EpInit, EpTold, Idle, SERVER
<1>5. EpCalls
  BY <1>4, FS_EmptySet DEF EpInit, EpCalls
<1> QED
  BY <1>1, <1>2, <1>3, <1>5 DEF EpInv

\* The number of threads that have been told of a connection.
LEMMA EpCounts ==
  ASSUME NEW t \in EpThreads
  PROVE  /\ IsFiniteSet(EpTold) /\ Cardinality(EpTold) \in Nat
         /\ EpTold' \subseteq EpTold \cup {t} => Cardinality(EpTold') <= Cardinality(EpTold) + 1
         /\ EpTold' \subseteq EpTold => Cardinality(EpTold') <= Cardinality(EpTold)
         /\ t \in EpTold /\ EpTold' \subseteq EpTold \ {t}
              => Cardinality(EpTold') <= Cardinality(EpTold) - 1
         /\ Cardinality(EpTold') \in Nat
<1>1. EpTold \subseteq EpThreads /\ EpTold' \subseteq EpThreads /\ IsFiniteSet(EpThreads)
  BY EpAssumption DEF EpTold
<1>2. IsFiniteSet(EpTold) /\ IsFiniteSet(EpTold')
  BY <1>1, FS_Subset
<1>3. Cardinality(EpTold) \in Nat /\ Cardinality(EpTold') \in Nat
  BY <1>2, FS_CardinalityType
<1>4. /\ IsFiniteSet(EpTold \cup {t})
      /\ Cardinality(EpTold \cup {t}) = IF t \in EpTold THEN Cardinality(EpTold) ELSE Cardinality(EpTold) + 1
  BY <1>2, FS_AddElement
<1>5. /\ IsFiniteSet(EpTold \ {t})
      /\ Cardinality(EpTold \ {t}) = IF t \in EpTold THEN Cardinality(EpTold) - 1 ELSE Cardinality(EpTold)
  BY <1>2, FS_RemoveElement
<1>6. ASSUME EpTold' \subseteq EpTold \cup {t} PROVE Cardinality(EpTold') <= Cardinality(EpTold) + 1
  <2>1. Cardinality(EpTold') <= Cardinality(EpTold \cup {t})
    BY <1>4, <1>6, FS_Subset
  <2> QED
    BY <1>3, <1>4, <2>1
<1>7. ASSUME EpTold' \subseteq EpTold PROVE Cardinality(EpTold') <= Cardinality(EpTold)
  BY <1>2, <1>7, FS_Subset
<1>8. ASSUME t \in EpTold, EpTold' \subseteq EpTold \ {t}
      PROVE  Cardinality(EpTold') <= Cardinality(EpTold) - 1
  <2>1. Cardinality(EpTold') <= Cardinality(EpTold \ {t})
    BY <1>5, <1>8, FS_Subset
  <2> QED
    BY <1>5, <1>8, <2>1
<1> QED
  BY <1>2, <1>3, <1>6, <1>7, <1>8

LEMMA EpConnectInv == ASSUME EpInv, NEW c \in EpClients, EpConnect(c) PROVE EpInv'
<1>1. /\ epBacklog' = Append(epBacklog, c) /\ epReady' = epReady \cup {SERVER}
      /\ UNCHANGED <<epReg, epIn, epSent, epEof, epThread, epOut>>
  BY DEF EpConnect
<1>2. EpType' /\ Len(epBacklog') = Len(epBacklog) + 1 /\ Len(epBacklog) \in Nat
  BY <1>1 DEF EpInv, EpType
<1>3. EpTidy'
  BY <1>1 DEF EpInv, EpTidy
<1>4. ASSUME NEW d \in EpClients PROVE EpOnce(d)'
  <2>1. EpOnce(d) /\ \A t \in EpThreads : EpHeld(d, t)' = EpHeld(d, t)
    BY <1>1 DEF EpInv, EpHeld
  <2> QED
    BY <1>1, <2>1, EpQuiet
<1>5. EpTold' = EpTold
  BY <1>1 DEF EpTold
<1>6. Cardinality(EpTold) \in Nat
  <2>1. EpTold \subseteq EpThreads /\ IsFiniteSet(EpThreads)
    BY EpAssumption DEF EpTold
  <2> QED
    BY <2>1, FS_Subset, FS_CardinalityType
<1>7. Cardinality(EpTold) <= Len(epBacklog)
  BY <1>2, <1>6 DEF EpInv, EpCalls
<1>8. EpCalls'
  BY <1>1, <1>2, <1>5, <1>6, <1>7 DEF EpCalls
<1> QED
  BY <1>2, <1>3, <1>4, <1>8 DEF EpInv

LEMMA EpArrivesInv == ASSUME EpInv, NEW c \in EpClients, EpArrives(c) PROVE EpInv'
<1>1. /\ UNCHANGED <<epBacklog, epReg, epThread, epOut>>
      /\ epReady' = IF c \in epReg THEN epReady \cup {c} ELSE epReady
  BY DEF EpArrives
<1>s. SERVER \notin EpClients
  BY EpAssumption DEF SERVER
<1>2. EpTidy'
  BY <1>1 DEF EpInv, EpTidy
<1>3. EpCalls'
  <2>1. EpTold' = EpTold
    BY <1>1 DEF EpTold
  <2>2. SERVER \in epReady' <=> SERVER \in epReady
    BY <1>1, <1>s
  <2> QED
    BY <1>1, <2>1, <2>2 DEF EpInv, EpCalls
<1>4. \A d \in EpClients, t \in EpThreads : EpHeld(d, t)' = EpHeld(d, t)
  BY <1>1 DEF EpHeld
<1>5. CASE UNCHANGED <<epSent, epIn>>
  <2>1. EpType'
    BY <1>1, <1>5 DEF EpInv, EpType
  <2>2. ASSUME NEW d \in EpClients PROVE EpOnce(d)'
    <3>1. EpOnce(d)
      BY DEF EpInv
    <3> QED
      BY <1>1, <1>4, <1>5, <3>1, EpQuiet
  <2> QED
    BY <1>2, <1>3, <2>1, <2>2 DEF EpInv
<1>6. CASE /\ epSent' = [epSent EXCEPT ![c] = @ + 1]
           /\ epIn' = [epIn EXCEPT ![c] = Append(@, epSent[c] + 1)]
  <2>1. EpType'
    BY <1>1, <1>6 DEF EpInv, EpType
  <2>2. /\ epSent'[c] = epSent[c] + 1 /\ epIn'[c] = Append(epIn[c], epSent[c] + 1)
        /\ \A d \in EpClients : d # c => epSent'[d] = epSent[d] /\ epIn'[d] = epIn[d]
        /\ epSent[c] \in Nat /\ epIn[c] \in Seq(Nat)
    BY <1>6 DEF EpInv, EpType
  <2>3. ASSUME NEW d \in EpClients, d # c PROVE EpOnce(d)'
    <3>1. EpOnce(d)
      BY DEF EpInv
    <3> QED
      BY <1>1, <1>4, <2>2, <2>3, <3>1, EpQuiet
  <2>4. EpOnce(c)'
    <3> DEFINE n == epSent[c]
               x == n + 1
               in == epIn[c]
               u == epIn'[c]
               out == ToSet(epOut[c])
               all == EpAll(c)
    <3>1. EpOnce(c)
      BY DEF EpInv
    <3>2. /\ IsInjective(in) /\ out \cap ToSet(in) = {}
          /\ \A t \in EpThreads : EpHeld(c, t) \cap (out \cup ToSet(in)) = {}
          /\ \A t, v \in EpThreads : t # v => EpHeld(c, t) \cap EpHeld(c, v) = {}
      BY <3>1 DEF EpOnce
    <3>3. x \notin all
      <4>1. x \notin 1..n
        BY <2>2
      <4> QED
        BY <3>1, <4>1 DEF EpOnce
    <3>4. x \notin out /\ x \notin ToSet(in) /\ \A t \in EpThreads : x \notin EpHeld(c, t)
      BY <3>3, EpPlaces
    <3>5. u \in Seq(Nat) /\ ToSet(u) = ToSet(in) \cup {x} /\ IsInjective(u)
      <4>1. EcAdds(in, x, u) /\ x \in Nat /\ in \in Seq(Nat)
        BY <2>2 DEF EcAdds
      <4> HIDE DEF in, x, u
      <4> QED
        BY <3>2, <3>4, <4>1, EpOneMore
    <3>6. epOut'[c] = epOut[c] /\ epSent'[c] = x /\ IsInjective(epOut[c])
      BY <1>1, <2>2, <3>1 DEF EpOnce
    <3>7. EpAll(c)' = 1..epSent'[c]
      <4>1. \A k : k \in EpAll(c)' <=> k \in all \/ k = x
        BY <1>4, <3>5, <3>6, EpPlaces
      <4>2. \A k : k \in 1..x <=> k \in 1..n \/ k = x
        BY <2>2
      <4>3. all = 1..n
        BY <3>1 DEF EpOnce
      <4> HIDE DEF all, x, n
      <4> QED
        BY <3>6, <4>1, <4>2, <4>3
    <3>11. \A t \in EpThreads : EpHeld(c, t)' \cap (out \cup ToSet(u)) = {}
      BY <1>4, <3>2, <3>4, <3>5
    <3>12. \A t, v \in EpThreads : t # v => EpHeld(c, t)' \cap EpHeld(c, v)' = {}
      BY <1>4, <3>2
    <3>13. out \cap ToSet(u) = {}
      BY <3>2, <3>4, <3>5
    <3>15. /\ \A t \in EpThreads : EpHeld(c, t)' \cap (ToSet(epOut'[c]) \cup ToSet(epIn'[c])) = {}
           /\ ToSet(epOut'[c]) \cap ToSet(epIn'[c]) = {}
           /\ IsInjective(epOut'[c]) /\ IsInjective(epIn'[c])
      BY <3>5, <3>6, <3>11, <3>13
    <3> HIDE DEF n, x, in, u, out, all
    <3> QED
      BY <3>7, <3>12, <3>15 DEF EpOnce
  <2> QED
    BY <1>2, <1>3, <2>1, <2>3, <2>4 DEF EpInv
<1> QED
  BY <1>5, <1>6 DEF EpArrives

LEMMA EpResetsInv == ASSUME EpInv, NEW c \in EpClients, EpResets(c) PROVE EpInv'
<1>1. /\ UNCHANGED <<epBacklog, epReg, epIn, epSent, epThread, epOut>>
      /\ epReady' = IF c \in epReg THEN epReady \cup {c} ELSE epReady
  BY DEF EpResets
<1>2. EpType' /\ EpTidy'
  BY <1>1 DEF EpInv, EpType, EpTidy
<1>3. EpCalls'
  <2>1. EpTold' = EpTold
    BY <1>1 DEF EpTold
  <2>2. SERVER \in epReady' <=> SERVER \in epReady
    BY <1>1, EpAssumption DEF SERVER
  <2> QED
    BY <1>1, <2>1, <2>2 DEF EpInv, EpCalls
<1>4. ASSUME NEW d \in EpClients PROVE EpOnce(d)'
  <2>1. EpOnce(d) /\ \A t \in EpThreads : EpHeld(d, t)' = EpHeld(d, t)
    BY <1>1 DEF EpInv, EpHeld
  <2> QED
    BY <1>1, <2>1, EpQuiet
<1> QED
  BY <1>2, <1>3, <1>4 DEF EpInv

\* A step in which thread t takes or finishes an event, and no chunk moves.
LEMMA EpTurns ==
  ASSUME EpInv, NEW t \in EpThreads, NEW r \in [events : SUBSET (EpClients \cup {SERVER}),
                                               fd : EpClients \cup {SERVER, "none"}, buf : Seq(Nat)],
         epThread' = [epThread EXCEPT ![t] = r], r.buf = <<>>, epThread[t].buf = <<>>,
         r.fd \notin r.events, UNCHANGED <<epIn, epSent, epOut>>
  PROVE  EpTidy' /\ (\A c \in EpClients : EpOnce(c)') /\ epThread'[t] = r
         /\ (\A u \in EpThreads : u # t => epThread'[u] = epThread[u])
<1>1. epThread'[t] = r /\ \A u \in EpThreads : u # t => epThread'[u] = epThread[u]
  BY DEF EpInv, EpType
<1>2. EpTidy'
  <2>1. IsInjective(<<>>)
    BY DEF IsInjective
  <2> QED
    BY <1>1, <2>1 DEF EpInv, EpTidy
<1>3. ASSUME NEW c \in EpClients PROVE EpOnce(c)'
  <2>1. \A u \in EpThreads : EpHeld(c, u)' = EpHeld(c, u)
    <3>1. ToSet(<<>>) = {}
      BY DEF ToSet
    <3>2. EpHeld(c, t) = {} /\ EpHeld(c, t)' = {}
      BY <1>1, <3>1 DEF EpHeld
    <3>3. \A u \in EpThreads : u # t => EpHeld(c, u)' = EpHeld(c, u)
      BY <1>1 DEF EpHeld
    <3> QED
      BY <3>2, <3>3
  <2>2. EpOnce(c)
    BY DEF EpInv
  <2> QED
    BY <2>1, <2>2, EpQuiet
<1> QED
  BY <1>1, <1>2, <1>3

LEMMA EpWaitInv == ASSUME EpInv, NEW t \in EpThreads, EpWait(t) PROVE EpInv'
<1> DEFINE told == {fd \in epReady : Readable(fd)}
           r == [events |-> told, fd |-> "none", buf |-> <<>>]
<1>0. "none" \notin EpClients /\ SERVER \notin EpClients /\ "none" # SERVER
  BY EpAssumption DEF SERVER
<1>1. /\ epThread[t] = Idle /\ epReady' = {}
      /\ epThread' = [epThread EXCEPT ![t].events = told]
      /\ UNCHANGED <<epBacklog, epReg, epIn, epSent, epEof, epOut>>
  BY DEF EpWait
<1>2. epThread' = [epThread EXCEPT ![t] = r]
  <2>1. epThread' = [epThread EXCEPT ![t] = [epThread[t] EXCEPT !.events = told]]
    BY <1>1
  <2>2. [epThread[t] EXCEPT !.events = told] = r
    <3> HIDE DEF told
    <3>1. epThread[t] = [events |-> {}, fd |-> "none", buf |-> <<>>]
      BY <1>1 DEF Idle
    <3> QED
      BY <3>1
  <2> QED
    BY <2>1, <2>2
<1>3. /\ told \subseteq EpClients \cup {SERVER}
      /\ r \in [events : SUBSET (EpClients \cup {SERVER}), fd : EpClients \cup {SERVER, "none"},
                buf : Seq(Nat)]
  BY DEF EpInv, EpType
<1>4. r.fd \notin r.events /\ r.buf = <<>> /\ epThread[t].buf = <<>>
  BY <1>0, <1>1, <1>3 DEF Idle
<1> HIDE DEF r
<1>5. EpTidy' /\ (\A c \in EpClients : EpOnce(c)') /\ epThread'[t] = r
      /\ (\A u \in EpThreads : u # t => epThread'[u] = epThread[u])
  BY <1>1, <1>2, <1>3, <1>4, EpTurns
<1>6. EpType'
  BY ZenonT(60), <1>1, <1>2, <1>3 DEF EpInv, EpType
<1>7. EpCalls'
  <2>1. Len(epBacklog) \in Nat /\ SERVER \notin epReady'
    BY <1>1 DEF EpInv, EpType
  <2>2. CASE SERVER \in told
    <3>1. EpTold' \subseteq EpTold \cup {t}
      BY <1>5 DEF EpTold
    <3>2. SERVER \in epReady
      BY <2>2
    <3>3. Cardinality(EpTold') <= Cardinality(EpTold) + 1 /\ Cardinality(EpTold') \in Nat
          /\ Cardinality(EpTold) \in Nat
      BY <3>1, EpCounts
    <3> QED
      BY <1>1, <2>1, <3>2, <3>3 DEF EpInv, EpCalls
  <2>3. CASE SERVER \notin told
    <3>1. EpTold' \subseteq EpTold
      <4>1. r.events = told /\ r.fd = "none"
        BY DEF r
      <4> QED
        BY <1>0, <1>5, <2>3, <4>1 DEF EpTold
    <3>3. Cardinality(EpTold') <= Cardinality(EpTold) /\ Cardinality(EpTold') \in Nat
          /\ Cardinality(EpTold) \in Nat
      BY <3>1, EpCounts
    <3> QED
      BY <1>1, <2>1, <3>3 DEF EpInv, EpCalls
  <2> QED
    BY <2>2, <2>3
<1> QED
  BY <1>5, <1>6, <1>7 DEF EpInv

LEMMA EpPickInv == ASSUME EpInv, NEW t \in EpThreads, EpPick(t) PROVE EpInv'
<1>0. "none" \notin EpClients /\ SERVER \notin EpClients /\ "none" # SERVER
  BY EpAssumption DEF SERVER
<1>1. epThread[t].fd = "none" /\ UNCHANGED <<epReady, epBacklog, epReg, epIn, epSent, epEof, epOut>>
  BY DEF EpPick
<1>2. PICK fd \in epThread[t].events :
        epThread' = [epThread EXCEPT ![t] = [events |-> @.events \ {fd}, fd |-> fd, buf |-> @.buf]]
  BY DEF EpPick
<1> DEFINE r == [events |-> epThread[t].events \ {fd}, fd |-> fd, buf |-> epThread[t].buf]
<1>3. epThread[t] \in [events : SUBSET (EpClients \cup {SERVER}), fd : EpClients \cup {SERVER, "none"},
                       buf : Seq(Nat)] /\ epThread[t].buf = <<>>
  BY <1>0, <1>1 DEF EpInv, EpType, EpTidy
<1>4. epThread' = [epThread EXCEPT ![t] = r]
  BY <1>2
<1>5. r \in [events : SUBSET (EpClients \cup {SERVER}), fd : EpClients \cup {SERVER, "none"},
             buf : Seq(Nat)]
  BY <1>3
<1>6. r.fd \notin r.events /\ r.buf = <<>> /\ r.events \cup {r.fd} = epThread[t].events
  BY <1>3
<1> HIDE DEF r
<1>7. EpTidy' /\ (\A c \in EpClients : EpOnce(c)') /\ epThread'[t] = r
      /\ (\A u \in EpThreads : u # t => epThread'[u] = epThread[u])
  BY <1>1, <1>3, <1>4, <1>5, <1>6, EpTurns
<1>8. EpType'
  BY <1>1, <1>4, <1>5 DEF EpInv, EpType
<1>9. EpCalls'
  <2>1. EpTold' = EpTold
    BY <1>0, <1>1, <1>6, <1>7 DEF EpTold
  <2> QED
    BY <1>1, <2>1 DEF EpInv, EpCalls
<1> QED
  BY <1>7, <1>8, <1>9 DEF EpInv

LEMMA EpAcceptInv == ASSUME EpInv, NEW t \in EpThreads, EpAccept(t) PROVE EpInv'
<1>0. "none" \notin EpClients /\ SERVER \notin EpClients /\ "none" # SERVER
  BY EpAssumption DEF SERVER
<1> DEFINE c == Head(epBacklog)
           r == [events |-> epThread[t].events, fd |-> "none", buf |-> epThread[t].buf]
<1>1. /\ epThread[t].fd = SERVER /\ epBacklog # <<>> /\ UNCHANGED <<epIn, epSent, epEof, epOut>>
      /\ epThread' = [epThread EXCEPT ![t].fd = "none"]
      /\ epBacklog' = Tail(epBacklog) /\ epReg' = epReg \cup {c}
      /\ epReady' \in {epReady, epReady \cup {c}}
  BY DEF EpAccept
<1>2. /\ c \in EpClients /\ epBacklog' \in Seq(EpClients) /\ Len(epBacklog') = Len(epBacklog) - 1
      /\ Len(epBacklog) \in Nat /\ Len(epBacklog') \in Nat
  BY <1>1 DEF EpInv, EpType
<1>3. epThread[t] \in [events : SUBSET (EpClients \cup {SERVER}), fd : EpClients \cup {SERVER, "none"},
                       buf : Seq(Nat)] /\ epThread[t].buf = <<>> /\ SERVER \notin epThread[t].events
  BY <1>0, <1>1 DEF EpInv, EpType, EpTidy
<1>4. epThread' = [epThread EXCEPT ![t] = r]
  <2>1. epThread' = [epThread EXCEPT ![t] = [epThread[t] EXCEPT !.fd = "none"]]
    BY <1>1
  <2>2. [epThread[t] EXCEPT !.fd = "none"] = r
    BY <1>3
  <2> QED
    BY <2>1, <2>2
<1>5. r \in [events : SUBSET (EpClients \cup {SERVER}), fd : EpClients \cup {SERVER, "none"},
             buf : Seq(Nat)]
  BY <1>3
<1>6. r.fd \notin r.events /\ r.buf = <<>> /\ SERVER \notin r.events \cup {r.fd}
  BY <1>0, <1>3
<1> HIDE DEF r, c
<1>7. EpTidy' /\ (\A d \in EpClients : EpOnce(d)') /\ epThread'[t] = r
      /\ (\A u \in EpThreads : u # t => epThread'[u] = epThread[u])
  BY ZenonT(60), <1>1, <1>3, <1>4, <1>5, <1>6, EpTurns
<1>8. EpType'
  <2>1. epReady' \subseteq EpClients \cup {SERVER} /\ epReg' \subseteq EpClients
    BY <1>1, <1>2 DEF EpInv, EpType
  <2>2. epThread' \in [EpThreads -> [events : SUBSET (EpClients \cup {SERVER}),
                                     fd : EpClients \cup {SERVER, "none"}, buf : Seq(Nat)]]
    BY <1>4, <1>5 DEF EpInv, EpType
  <2> QED
    BY <1>1, <1>2, <2>1, <2>2 DEF EpInv, EpType
<1>9. EpCalls'
  <2>1. t \in EpTold
    BY <1>1 DEF EpTold
  <2>2. EpTold' \subseteq EpTold \ {t}
    BY <1>6, <1>7 DEF EpTold
  <2>3. Cardinality(EpTold') <= Cardinality(EpTold) - 1 /\ Cardinality(EpTold') \in Nat
        /\ Cardinality(EpTold) \in Nat
    BY <2>1, <2>2, EpCounts
  <2>4. SERVER \in epReady' <=> SERVER \in epReady
    BY <1>0, <1>1, <1>2
  <2> QED
    BY <1>2, <2>3, <2>4 DEF EpInv, EpCalls
<1> QED
  BY <1>7, <1>8, <1>9 DEF EpInv

LEMMA EpRecvInv == ASSUME EpInv, NEW t \in EpThreads, EpRecv(t) PROVE EpInv'
<1> SUFFICES ASSUME NEW c, c = epThread[t].fd PROVE EpInv'
  OBVIOUS
<1>0. "none" \notin EpClients /\ SERVER \notin EpClients /\ "none" # SERVER
  BY EpAssumption DEF SERVER
<1>1. /\ c \in EpClients /\ epThread[t].buf = <<>>
      /\ UNCHANGED <<epReady, epBacklog, epReg, epSent, epEof, epOut>>
  BY DEF EpRecv
<1>t. /\ epThread[t] \in [events : SUBSET (EpClients \cup {SERVER}),
                          fd : EpClients \cup {SERVER, "none"}, buf : Seq(Nat)]
      /\ epIn[c] \in Seq(Nat) /\ c \notin epThread[t].events
  BY <1>1 DEF EpInv, EpType, EpTidy
<1>2. CASE epThread' = [epThread EXCEPT ![t].fd = "none"] /\ UNCHANGED epIn
  <2> DEFINE r == [events |-> epThread[t].events, fd |-> "none", buf |-> epThread[t].buf]
  <2>1. epThread' = [epThread EXCEPT ![t] = r]
    <3>1. epThread' = [epThread EXCEPT ![t] = [epThread[t] EXCEPT !.fd = "none"]]
      BY <1>2
    <3>2. [epThread[t] EXCEPT !.fd = "none"] = r
      BY <1>t
    <3> QED
      BY <3>1, <3>2
  <2>2. r \in [events : SUBSET (EpClients \cup {SERVER}), fd : EpClients \cup {SERVER, "none"},
               buf : Seq(Nat)]
    BY <1>t
  <2>3. r.fd \notin r.events /\ r.buf = <<>> /\ r.events = epThread[t].events /\ r.fd = "none"
    BY <1>0, <1>1, <1>t
  <2> HIDE DEF r
  <2>4. EpTidy' /\ (\A d \in EpClients : EpOnce(d)') /\ epThread'[t] = r
        /\ (\A u \in EpThreads : u # t => epThread'[u] = epThread[u])
    BY <1>1, <1>2, <2>1, <2>2, <2>3, EpTurns
  <2>5. EpType'
    BY ZenonT(60), <1>1, <1>2, <2>1, <2>2 DEF EpInv, EpType
  <2>6. EpTold' = EpTold
    BY <1>0, <1>1, <2>3, <2>4 DEF EpTold
  <2>7. EpCalls'
    BY <1>1, <2>6 DEF EpInv, EpCalls
  <2> QED
    BY <2>4, <2>5, <2>7 DEF EpInv
<1>3. ASSUME NEW n \in 1..Len(epIn[c]),
             epThread' = [epThread EXCEPT ![t].buf = SubSeq(epIn[c], 1, n)],
             epIn' = [epIn EXCEPT ![c] = SubSeq(@, n + 1, Len(@))]
      PROVE  EpInv'
  <2> DEFINE s == epIn[c]
             a == SubSeq(s, 1, n)
             b == SubSeq(s, n + 1, Len(s))
             r == [events |-> epThread[t].events, fd |-> c, buf |-> a]
  <2>0. EpOnce(c) /\ IsInjective(s)
    BY <1>1 DEF EpInv, EpOnce
  <2>1. /\ a \in Seq(Nat) /\ b \in Seq(Nat)
        /\ ToSet(s) = ToSet(a) \cup ToSet(b) /\ ToSet(a) \cap ToSet(b) = {}
        /\ IsInjective(a) /\ IsInjective(b)
    <3>1. s \in Seq(Nat) /\ n \in 1..Len(s)
      BY <1>3, <1>t
    <3>2. EpCuts(s, n, a, b)
      BY DEF EpCuts
    <3> HIDE DEF s, a, b
    <3> QED
      BY <2>0, <3>1, <3>2, EpSplit
  <2>2. epIn'[c] = b /\ \A d \in EpClients : d # c => epIn'[d] = epIn[d]
    BY <1>1, <1>3 DEF EpInv, EpType
  <2>3. epThread' = [epThread EXCEPT ![t] = r]
    <3>1. epThread' = [epThread EXCEPT ![t] = [epThread[t] EXCEPT !.buf = a]]
      BY <1>3
    <3>2. [epThread[t] EXCEPT !.buf = a] = r
      <4> HIDE DEF a
      <4> QED
        BY <1>t
    <3> QED
      BY <3>1, <3>2
  <2>4. r \in [events : SUBSET (EpClients \cup {SERVER}), fd : EpClients \cup {SERVER, "none"},
               buf : Seq(Nat)]
    BY <1>t, <2>1
  <2>5. r.fd = c /\ r.buf = a /\ r.events = epThread[t].events
    OBVIOUS
  <2>6. epIn' = [epIn EXCEPT ![c] = b]
    BY <1>3
  <2> HIDE DEF r, a, b
  <2>7. epThread'[t] = r /\ \A u \in EpThreads : u # t => epThread'[u] = epThread[u]
    BY <2>3 DEF EpInv, EpType
  <2>8. EpType'
    <3>1. epIn' \in [EpClients -> Seq(Nat)]
      BY <2>1, <2>6 DEF EpInv, EpType
    <3>2. epThread' \in [EpThreads -> [events : SUBSET (EpClients \cup {SERVER}),
                                       fd : EpClients \cup {SERVER, "none"}, buf : Seq(Nat)]]
      BY <2>3, <2>4 DEF EpInv, EpType
    <3> QED
      BY <1>1, <3>1, <3>2 DEF EpInv, EpType
  <2>9. EpTidy'
    BY <1>1, <1>t, <2>1, <2>5, <2>7 DEF EpInv, EpTidy
  <2>10. EpTold' = EpTold
    BY <2>5, <2>7 DEF EpTold
  <2>11. EpCalls'
    BY <1>1, <2>10 DEF EpInv, EpCalls
  <2>12. EpHeld(c, t) = {} /\ EpHeld(c, t)' = ToSet(a)
         /\ \A d \in EpClients, u \in EpThreads : d # c \/ u # t => EpHeld(d, u)' = EpHeld(d, u)
    <3>1. ToSet(<<>>) = {}
      BY DEF ToSet
    <3>2. EpHeld(c, t) = {}
      BY <1>1, <3>1 DEF EpHeld
    <3>3. EpHeld(c, t)' = ToSet(a)
      BY <2>5, <2>7 DEF EpHeld
    <3>4. ASSUME NEW d \in EpClients, NEW u \in EpThreads, d # c \/ u # t
          PROVE  EpHeld(d, u)' = EpHeld(d, u)
      BY <2>5, <2>7, <3>4 DEF EpHeld
    <3> QED
      BY <3>2, <3>3, <3>4
  <2>13. EpOnce(c)'
    <3>1. ToSet(epOut[c]) \cap ToSet(s) = {} /\ IsInjective(epOut[c])
      BY <2>0 DEF EpOnce
    <3>2. ToSet(epOut[c]) \cup ToSet(a) \cup ToSet(b) = ToSet(epOut[c]) \cup {} \cup ToSet(s)
      BY <2>1
    <3>3. ToSet(epOut[c]) \cap ToSet(b) = {} /\ ToSet(a) \cap (ToSet(epOut[c]) \cup ToSet(b)) = {}
      BY <2>1, <3>1
    <3>4. IsInjective(epOut'[c]) /\ IsInjective(epIn'[c]) /\ epSent'[c] = epSent[c]
      BY <1>1, <2>1, <2>2, <3>1
    <3>5. \A u \in EpThreads : u # t => EpHeld(c, u)' = EpHeld(c, u)
      BY <1>1, <2>12
    <3>6. /\ ToSet(epOut'[c]) \cup EpHeld(c, t)' \cup ToSet(epIn'[c])
               = ToSet(epOut[c]) \cup EpHeld(c, t) \cup ToSet(epIn[c])
          /\ ToSet(epOut'[c]) \cap ToSet(epIn'[c]) = {}
          /\ EpHeld(c, t)' \cap (ToSet(epOut'[c]) \cup ToSet(epIn'[c])) = {}
      BY <1>1, <2>2, <2>12, <3>2, <3>3
    <3>7. EpOnce(c) /\ c \in EpClients
      BY <1>1, <2>0
    <3> QED
      BY <3>4, <3>5, <3>6, <3>7, EpMoves
  <2>14. ASSUME NEW d \in EpClients, d # c PROVE EpOnce(d)'
    <3>1. EpOnce(d) /\ \A u \in EpThreads : EpHeld(d, u)' = EpHeld(d, u)
      BY <2>12, <2>14 DEF EpInv
    <3> QED
      BY <1>1, <2>2, <2>14, <3>1, EpQuiet
  <2> QED
    BY <2>8, <2>9, <2>11, <2>13, <2>14 DEF EpInv
<1> QED
  BY <1>2, <1>3 DEF EpRecv

LEMMA EpSendInv == ASSUME EpInv, NEW t \in EpThreads, EpSend(t) PROVE EpInv'
<1> SUFFICES ASSUME NEW c, c = epThread[t].fd PROVE EpInv'
  OBVIOUS
<1> DEFINE buf == epThread[t].buf
           out == epOut[c]
           u == epOut'[c]
           r == [events |-> epThread[t].events, fd |-> "none", buf |-> <<>>]
<1>0. "none" \notin EpClients /\ SERVER \notin EpClients /\ "none" # SERVER
  BY EpAssumption DEF SERVER
<1>1. /\ c \in EpClients /\ buf # <<>> /\ epOut' = [epOut EXCEPT ![c] = @ \o buf]
      /\ epThread' = [epThread EXCEPT ![t] = r]
      /\ UNCHANGED <<epReady, epBacklog, epReg, epIn, epSent, epEof>>
  BY DEF EpSend
<1>t. /\ epThread[t] \in [events : SUBSET (EpClients \cup {SERVER}),
                          fd : EpClients \cup {SERVER, "none"}, buf : Seq(Nat)]
      /\ out \in Seq(Nat) /\ buf \in Seq(Nat) /\ IsInjective(buf)
  BY <1>1 DEF EpInv, EpType, EpTidy
<1>2. u = out \o buf /\ \A d \in EpClients : d # c => epOut'[d] = epOut[d]
  BY <1>1 DEF EpInv, EpType
<1>3. /\ r \in [events : SUBSET (EpClients \cup {SERVER}), fd : EpClients \cup {SERVER, "none"},
               buf : Seq(Nat)]
      /\ r.fd = "none" /\ r.buf = <<>> /\ r.events = epThread[t].events
      /\ "none" \notin epThread[t].events
  BY <1>0, <1>t
<1> HIDE DEF r
<1>4. epThread'[t] = r /\ \A v \in EpThreads : v # t => epThread'[v] = epThread[v]
  BY <1>1 DEF EpInv, EpType
<1>5. EpHeld(c, t) = ToSet(buf) /\ EpHeld(c, t)' = {}
      /\ \A d \in EpClients, v \in EpThreads : d # c \/ v # t => EpHeld(d, v)' = EpHeld(d, v)
  <2>1. EpHeld(c, t) = ToSet(buf)
    BY DEF EpHeld
  <2>2. EpHeld(c, t)' = {}
    BY <1>0, <1>1, <1>3, <1>4 DEF EpHeld
  <2>3. ASSUME NEW d \in EpClients, NEW v \in EpThreads, d # c \/ v # t
        PROVE  EpHeld(d, v)' = EpHeld(d, v)
    BY <1>0, <1>3, <1>4, <2>3 DEF EpHeld
  <2> QED
    BY <2>1, <2>2, <2>3
<1>6. EpOnce(c)
  BY <1>1 DEF EpInv
<1>7. /\ IsInjective(out) /\ IsInjective(epIn[c]) /\ ToSet(out) \cap ToSet(epIn[c]) = {}
      /\ ToSet(buf) \cap (ToSet(out) \cup ToSet(epIn[c])) = {}
  BY <1>5, <1>6 DEF EpOnce
<1>8. u \in Seq(Nat) /\ ToSet(u) = ToSet(out) \cup ToSet(buf) /\ IsInjective(u)
  <2>1. ToSet(out) \cap ToSet(buf) = {}
    BY <1>7
  <2>2. u = out \o buf
    BY <1>2
  <2>3. out \in Seq(Nat)
    BY <1>t
  <2>4. buf \in Seq(Nat)
    BY <1>t
  <2> HIDE DEF u, out, buf
  <2>5. /\ u \in Seq(Nat) /\ ToSet(u) = ToSet(out) \cup ToSet(buf)
        /\ IsInjective(out) /\ IsInjective(buf) /\ ToSet(out) \cap ToSet(buf) = {} => IsInjective(u)
    BY <2>2, <2>3, <2>4, EpJoined
  <2> QED
    BY <1>t, <1>7, <2>1, <2>5
<1>9. EpOnce(c)'
  <2>1. IsInjective(epOut'[c]) /\ IsInjective(epIn'[c]) /\ epSent'[c] = epSent[c]
    BY <1>1, <1>7, <1>8
  <2>2. \A v \in EpThreads : v # t => EpHeld(c, v)' = EpHeld(c, v)
    BY <1>1, <1>5
  <2>3. /\ ToSet(epOut'[c]) \cup EpHeld(c, t)' \cup ToSet(epIn'[c])
             = ToSet(epOut[c]) \cup EpHeld(c, t) \cup ToSet(epIn[c])
        /\ ToSet(epOut'[c]) \cap ToSet(epIn'[c]) = {}
        /\ EpHeld(c, t)' \cap (ToSet(epOut'[c]) \cup ToSet(epIn'[c])) = {}
    BY <1>1, <1>5, <1>7, <1>8
  <2> QED
    BY <1>1, <1>6, <2>1, <2>2, <2>3, EpMoves
<1>10. ASSUME NEW d \in EpClients, d # c PROVE EpOnce(d)'
  <2>1. EpOnce(d) /\ \A v \in EpThreads : EpHeld(d, v)' = EpHeld(d, v)
    BY <1>5, <1>10 DEF EpInv
  <2> QED
    BY <1>1, <1>2, <1>10, <2>1, EpQuiet
<1>11. EpType'
  <2>1. epOut' \in [EpClients -> Seq(Nat)]
    BY <1>1, <1>8 DEF EpInv, EpType
  <2>2. epThread' \in [EpThreads -> [events : SUBSET (EpClients \cup {SERVER}),
                                     fd : EpClients \cup {SERVER, "none"}, buf : Seq(Nat)]]
    BY <1>1, <1>3 DEF EpInv, EpType
  <2> QED
    BY <1>1, <2>1, <2>2 DEF EpInv, EpType
<1>12. EpTidy'
  <2>1. IsInjective(<<>>)
    BY DEF IsInjective
  <2> QED
    BY <1>3, <1>4, <2>1 DEF EpInv, EpTidy
<1>13. EpTold' = EpTold
  BY <1>0, <1>1, <1>3, <1>4 DEF EpTold
<1>14. EpCalls'
  BY <1>1, <1>13 DEF EpInv, EpCalls
<1> QED
  BY <1>9, <1>10, <1>11, <1>12, <1>14 DEF EpInv

LEMMA EpNextInv == ASSUME EpInv, [EpNext]_epVars PROVE EpInv'
<1>1. CASE UNCHANGED epVars
  <2>1. EpType' /\ EpTidy'
    BY <1>1 DEF EpInv, EpType, EpTidy, epVars
  <2>2. ASSUME NEW c \in EpClients PROVE EpOnce(c)'
    <3>1. EpOnce(c) /\ \A t \in EpThreads : EpHeld(c, t)' = EpHeld(c, t)
      BY <1>1 DEF EpInv, EpHeld, epVars
    <3> QED
      BY <1>1, <3>1, EpQuiet DEF epVars
  <2>3. EpTold' = EpTold
    BY <1>1 DEF EpTold, epVars
  <2>4. EpCalls'
    BY <1>1, <2>3 DEF EpInv, EpCalls, epVars
  <2> QED
    BY <2>1, <2>2, <2>4 DEF EpInv
<1>2. ASSUME NEW t \in EpThreads, EpWorker(t) PROVE EpInv'
  BY <1>2, EpWaitInv, EpPickInv, EpAcceptInv, EpRecvInv, EpSendInv DEF EpWorker
<1>3. ASSUME NEW c \in EpClients, EpConnect(c) \/ EpArrives(c) \/ EpResets(c) PROVE EpInv'
  BY <1>3, EpConnectInv, EpArrivesInv, EpResetsInv
<1> QED
  BY <1>1, <1>2, <1>3 DEF EpNext

\* Chunks are lost only after a reset, and nothing but their send(2) kills the server.
EpFated ==
  /\ epLost \in [EpClients -> SUBSET Nat]
  /\ \A c \in EpClients : epLost[c] # {} => c \in epReset
  /\ epDead => \E c \in EpClients : c \in epReset /\ epLost[c] # {}

LEMMA EpNextFated == ASSUME EpInv, EpFated, [EpNext]_epVars PROVE EpFated'
<1>1. CASE UNCHANGED EpFate /\ epReset \subseteq epReset'
  BY <1>1 DEF EpFated, EpFate
<1>2. ASSUME NEW t \in EpThreads, EpSend(t) PROVE EpFated'
  <2> SUFFICES ASSUME NEW c, c = epThread[t].fd PROVE EpFated'
    OBVIOUS
  <2> DEFINE buf == epThread[t].buf
  <2>1. /\ c \in EpClients /\ buf # <<>> /\ epReset' = epReset
        /\ \/ UNCHANGED EpFate
           \/ c \in epReset /\ epLost' = [epLost EXCEPT ![c] = @ \cup ToSet(buf)]
    BY <1>2 DEF EpSend
  <2>2. buf \in Seq(Nat)
    BY DEF EpInv, EpType
  <2> HIDE DEF buf
  <2>3. ToSet(buf) # {} /\ ToSet(buf) \in SUBSET Nat
    <3>1. \A i \in 1..Len(buf) : buf[i] \in Nat
      BY <2>2
    <3>2. DOMAIN buf = 1..Len(buf) /\ 1 \in 1..Len(buf)
      BY <2>1, <2>2
    <3> QED
      BY <3>1, <3>2 DEF ToSet
  <2>4. CASE c \in epReset /\ epLost' = [epLost EXCEPT ![c] = @ \cup ToSet(buf)]
    <3>1. /\ epLost'[c] = epLost[c] \cup ToSet(buf) /\ \A d \in EpClients : d # c => epLost'[d] = epLost[d]
          /\ epLost' \in [EpClients -> SUBSET Nat]
      BY <2>1, <2>3, <2>4 DEF EpFated
    <3> QED
      BY <2>1, <2>3, <2>4, <3>1 DEF EpFated
  <2> QED
    BY <1>1, <2>1, <2>4
<1>3. ASSUME NEW t \in EpThreads, EpWait(t) \/ EpPick(t) \/ EpAccept(t) \/ EpRecv(t) PROVE EpFated'
  BY <1>1, <1>3 DEF EpWait, EpPick, EpAccept, EpRecv
<1>4. ASSUME NEW c \in EpClients, EpConnect(c) \/ EpArrives(c) \/ EpResets(c) PROVE EpFated'
  BY <1>1, <1>4 DEF EpConnect, EpArrives, EpResets
<1>5. CASE UNCHANGED epVars
  BY <1>1, <1>5 DEF epVars, EpFate
<1> QED
  BY <1>2, <1>3, <1>4, <1>5 DEF EpNext, EpWorker

LEMMA EpInvKeeps == EpInv /\ EpFated => EpKeeps
<1> SUFFICES ASSUME EpInv, EpFated PROVE EpKeeps
  OBVIOUS
<1>1. ASSUME NEW c \in EpClients, NEW held, held = UNION {ToSet(epThread[t].buf) : t \in InHand(c)}
      PROVE  /\ ToSet(epOut[c]) \cup held \cup ToSet(epIn[c]) = 1..epSent[c]
             /\ Len(epOut[c]) + Cardinality(held) + Len(epIn[c]) = epSent[c]
             /\ IsInjective(epOut[c])
  <2> DEFINE out == ToSet(epOut[c])
             in == ToSet(epIn[c])
             n == epSent[c]
  <2>1. \A k : k \in held <=> \E t \in EpThreads : k \in EpHeld(c, t)
    BY <1>1 DEF InHand, EpHeld
  <2>2. EpOnce(c) /\ epOut[c] \in Seq(Nat) /\ epIn[c] \in Seq(Nat) /\ n \in Nat
    BY DEF EpInv, EpType
  <2>3. out \cup held \cup in = EpAll(c)
    BY <2>1, EpPlaces
  <2>4. EpAll(c) = 1..n
    BY <2>2 DEF EpOnce
  <2>5. out \cap in = {} /\ (\A t \in EpThreads : EpHeld(c, t) \cap (out \cup in) = {})
        /\ IsInjective(epOut[c]) /\ IsInjective(epIn[c])
    BY <2>2 DEF EpOnce
  <2>6. held \cap (out \cup in) = {} /\ out \cap held = {} /\ (out \cup held) \cap in = {}
    BY <2>1, <2>5
  <2>7. IsFiniteSet(out) /\ Cardinality(out) = Len(epOut[c])
        /\ IsFiniteSet(in) /\ Cardinality(in) = Len(epIn[c])
    BY <2>2, <2>5, InjectiveCounts
  <2>8. IsFiniteSet(1..n) /\ Cardinality(1..n) = n
    <3>1. n \in Int /\ 1 \in Int
      BY <2>2
    <3>2. IsFiniteSet(1..n) /\ Cardinality(1..n) = IF 1 > n THEN 0 ELSE n - 1 + 1
      BY <3>1, FS_Interval
    <3> QED
      BY <2>2, <3>2
  <2>9. IsFiniteSet(held)
    <3>1. held \subseteq 1..n
      BY <2>3, <2>4
    <3> QED
      BY <2>8, <3>1, FS_Subset
  <2> HIDE DEF out, in, n
  <2>10. IsFiniteSet(out \cup held)
         /\ Cardinality(out \cup held) = Cardinality(out) + Cardinality(held) - Cardinality({})
    BY <2>6, <2>7, <2>9, FS_Union
  <2>11. Cardinality((out \cup held) \cup in)
           = Cardinality(out \cup held) + Cardinality(in) - Cardinality({})
    BY <2>6, <2>7, <2>10, FS_Union
  <2>12. /\ Cardinality(out) \in Nat /\ Cardinality(held) \in Nat /\ Cardinality(in) \in Nat
         /\ Cardinality({}) = 0
    BY <2>7, <2>9, FS_CardinalityType, FS_EmptySet
  <2>13. Cardinality((out \cup held) \cup in) = n
    BY <2>3, <2>4, <2>8
  <2>14. Cardinality(out) + Cardinality(held) + Cardinality(in) = n
    BY <2>10, <2>11, <2>12, <2>13
  <2>15. out \cup held \cup in = 1..n
    BY <2>3, <2>4
  <2> QED
    BY <2>5, <2>7, <2>14, <2>15 DEF out, in, n
<1>2. Cardinality({t \in EpThreads : SERVER \in epThread[t].events \cup {epThread[t].fd}})
        + (IF SERVER \in epReady THEN 1 ELSE 0) <= Len(epBacklog)
  BY DEF EpInv, EpCalls, EpTold
<1>3. /\ \A c \in EpClients : epLost[c] # {} => c \in epReset
      /\ epDead => \E c \in epReset : epLost[c] # {}
  BY DEF EpFated
<1> QED
  BY <1>1, <1>2, <1>3 DEF EpKeeps

\* Every chunk is handled once, by whichever thread, and sent back unless its client has
\* reset the connection; and accept(2) does not block.
THEOREM EpIsKept == EpSpec => []EpKeeps
<1>1. EpInv /\ [EpNext]_epVars => EpInv'
  BY EpNextInv
<1>2. EpInv /\ EpFated /\ [EpNext]_epVars => EpFated'
  BY EpNextFated
<1>3. EpInit => EpFated
  BY DEF EpInit, EpFated
<1> QED
  BY <1>1, <1>2, <1>3, EpInitInv, EpInvKeeps, PTL DEF EpSpec
----------------------------------------------------------------------------
(* The datagrams of the ping client.                                       *)

UpOutcomes == {"nothing", "unsent", "error", "TIMEOUT", "unexpected", "rtt"}
UpTypes ==
  /\ upAt \in 1..(PING_MESSAGES + 1) /\ upPc \in {"send", "select", "result"}
  /\ upPc # "send" => upAt <= PING_MESSAGES
  /\ IsABag(upTo) /\ IsABag(upBack) /\ IsABag(upSocket) /\ upExtra \in Nat
  /\ upLog \in [1..PING_MESSAGES -> [what : UpOutcomes, reply : Int]]
  /\ \A i \in 1..PING_MESSAGES : i >= upAt => upLog[i].what = "nothing"

\* The pings that went out.
UpSent == {i \in 1..PING_MESSAGES : \/ i < upAt /\ upLog[i].what # "unsent"
                                    \/ i = upAt /\ upPc # "send"}
UpAround == DOMAIN upTo \cup DOMAIN upBack \cup DOMAIN upSocket
UpMany(d, B) == IF d \in DOMAIN B THEN B[d] ELSE 0
UpTotal(d) == UpMany(d, upTo) + UpMany(d, upBack) + UpMany(d, upSocket)
UpTaken(d) == {i \in Replied : upLog[i].reply = d}
UpRightly(i) == upLog[i].reply = Foreign \/ (upLog[i].reply \in UpSent /\ upLog[i].reply <= i)
UpOdd(i) == upLog[i].what = "unexpected" \/ upLog[i].reply = Foreign

\* What is around stems from a ping that went out, and there is one of each ping but
\* for the duplicates: around or taken.
UpAccounts ==
  /\ UpAround \subseteq UpSent \cup Strays
  /\ \A i \in Replied : UpRightly(i)
  /\ \A d \in UpSent : UpTotal(d) + Cardinality(UpTaken(d)) <= 1 + upExtra
  /\ (\E d \in Strays : d \in UpAround) \/ (\E i \in 1..PING_MESSAGES : UpOdd(i)) => upExtra > 0

UpInv == UpTypes /\ UpAccounts

\* One more datagram in a bag.
BagGains(B, d, B1) == B1 = B (+) One(d)
BagGained(B, d, B1) ==
  /\ IsABag(B1) /\ DOMAIN B1 = DOMAIN B \cup {d}
  /\ UpMany(d, B1) = UpMany(d, B) + 1
  /\ \A e : e # d => UpMany(e, B1) = UpMany(e, B)
LEMMA BagAdds ==
  ASSUME NEW B, IsABag(B), NEW d, NEW B1, BagGains(B, d, B1)
  PROVE  BagGained(B, d, B1)
<1>1. B \in [DOMAIN B -> {n \in Nat : n > 0}]
  BY DEF IsABag
<1>2. DOMAIN One(d) = {d} /\ One(d)[d] = 1
  BY DEF One, SetToBag
<1>3. B1 = [e \in DOMAIN B \cup {d} |-> (IF e \in DOMAIN B THEN B[e] ELSE 0)
                                       + (IF e \in {d} THEN One(d)[e] ELSE 0)]
  BY <1>2 DEF BagGains, (+)
<1>4. DOMAIN B1 = DOMAIN B \cup {d}
  BY <1>3
<1>5. B1[d] = (IF d \in DOMAIN B THEN B[d] ELSE 0) + 1
  BY <1>2, <1>3
<1>6. \A e \in DOMAIN B : e # d => B1[e] = B[e]
  <2> SUFFICES ASSUME NEW e \in DOMAIN B, e # d PROVE B1[e] = B[e]
    OBVIOUS
  <2>1. B1[e] = B[e] + 0 /\ B[e] \in Nat
    BY <1>1, <1>3
  <2> QED
    BY <2>1
<1>7. \A e \in DOMAIN B1 : B1[e] \in Nat /\ B1[e] > 0
  <2>1. \A e \in DOMAIN B : B[e] \in Nat /\ B[e] > 0
    BY <1>1
  <2> QED
    BY <1>4, <1>5, <1>6, <2>1
<1>8. IsABag(B1)
  <2>1. B1 \in [DOMAIN B1 -> {n \in Nat : n > 0}]
    BY <1>3, <1>7
  <2> QED
    BY <2>1 DEF IsABag
<1> QED
  BY <1>4, <1>5, <1>6, <1>8 DEF UpMany, BagGained

\* One datagram less.
LEMMA BagTakes ==
  ASSUME NEW B, IsABag(B), NEW d \in DOMAIN B, NEW B1, B1 = B (-) One(d)
  PROVE  /\ IsABag(B1) /\ DOMAIN B1 \subseteq DOMAIN B
         /\ UpMany(d, B1) = UpMany(d, B) - 1
         /\ \A e : e # d => UpMany(e, B1) = UpMany(e, B)
<1>1. B \in [DOMAIN B -> {n \in Nat : n > 0}]
  BY DEF IsABag
<1>2. DOMAIN One(d) = {d} /\ One(d)[d] = 1
  BY DEF One, SetToBag
<1> DEFINE C == [e \in DOMAIN B |-> IF e \in {d} THEN B[e] - One(d)[e] ELSE B[e]]
<1>3. B1 = [e \in {x \in DOMAIN C : C[x] > 0} |-> C[e]]
  BY <1>2 DEF (-)
<1>4. DOMAIN C = DOMAIN B /\ C[d] = B[d] - 1 /\ \A e \in DOMAIN B : e # d => C[e] = B[e]
  BY <1>2
<1>5. \A e \in DOMAIN B : B[e] \in Nat /\ B[e] > 0
  BY <1>1
<1> HIDE DEF C
<1>6. DOMAIN B1 = {x \in DOMAIN B : C[x] > 0} /\ \A e \in DOMAIN B1 : B1[e] = C[e]
  BY <1>3, <1>4
<1>7. \A e \in DOMAIN B : e # d => e \in DOMAIN B1 /\ B1[e] = B[e]
  BY <1>4, <1>5, <1>6
<1>8. \A e \in DOMAIN B1 : B1[e] \in Nat /\ B1[e] > 0
  BY <1>4, <1>5, <1>6
<1>9. IsABag(B1)
  <2>1. B1 \in [DOMAIN B1 -> {n \in Nat : n > 0}]
    BY <1>3, <1>8
  <2> QED
    BY <2>1 DEF IsABag
<1>10. UpMany(d, B1) = UpMany(d, B) - 1
  <2>1. UpMany(d, B) = B[d] /\ B[d] \in Nat /\ B[d] > 0
    BY <1>5 DEF UpMany
  <2>2. CASE d \in DOMAIN B1
    BY <1>4, <1>6, <2>1, <2>2 DEF UpMany
  <2>3. CASE d \notin DOMAIN B1
    <3>1. ~(B[d] - 1 > 0)
      BY <1>4, <1>6, <2>3
    <3>2. UpMany(d, B1) = 0
      BY <2>3 DEF UpMany
    <3> QED
      BY <2>1, <3>1, <3>2
  <2> QED
    BY <2>2, <2>3
<1>11. ASSUME NEW e, e # d PROVE UpMany(e, B1) = UpMany(e, B)
  BY <1>6, <1>7, <1>11 DEF UpMany
<1> QED
  BY <1>6, <1>9, <1>10, <1>11

LEMMA BagCounts ==
  ASSUME NEW B, IsABag(B)
  PROVE  \A d : UpMany(d, B) \in Nat /\ (d \notin DOMAIN B => UpMany(d, B) = 0)
<1>1. B \in [DOMAIN B -> {n \in Nat : n > 0}]
  BY DEF IsABag
<1> QED
  BY <1>1 DEF UpMany

\* How often a ping's reply was taken.
LEMMA UpTakenCount ==
  \A d : /\ IsFiniteSet(UpTaken(d)) /\ Cardinality(UpTaken(d)) \in Nat
         /\ IsFiniteSet(UpTaken(d)') /\ Cardinality(UpTaken(d)') \in Nat
<1> TAKE d
<1>1. IsFiniteSet(1..PING_MESSAGES)
  BY UpAssumption, FS_Interval
<1>2. UpTaken(d) \subseteq 1..PING_MESSAGES /\ UpTaken(d)' \subseteq 1..PING_MESSAGES
  BY DEF UpTaken, Replied
<1>3. IsFiniteSet(UpTaken(d)) /\ IsFiniteSet(UpTaken(d)')
  BY <1>1, <1>2, FS_Subset
<1> QED
  BY <1>3, FS_CardinalityType

LEMMA UpTotals ==
  ASSUME UpTypes
  PROVE  /\ \A d : /\ UpMany(d, upTo) \in Nat /\ UpMany(d, upBack) \in Nat
                   /\ UpMany(d, upSocket) \in Nat /\ UpTotal(d) \in Nat
         /\ \A d : d \notin UpAround => UpTotal(d) = 0
<1>1. ASSUME NEW d
      PROVE  /\ UpMany(d, upTo) \in Nat /\ UpMany(d, upBack) \in Nat /\ UpMany(d, upSocket) \in Nat
             /\ (d \notin UpAround => /\ UpMany(d, upTo) = 0 /\ UpMany(d, upBack) = 0
                                      /\ UpMany(d, upSocket) = 0)
  BY BagCounts DEF UpTypes, UpAround
<1> QED
  BY <1>1 DEF UpTotal

LEMMA UpInitInv == UpInit => UpInv
<1> SUFFICES ASSUME UpInit PROVE UpInv
  OBVIOUS
<1>1. DOMAIN EmptyBag = {} /\ IsABag(EmptyBag)
  BY DEF EmptyBag, SetToBag, IsABag
<1>2. \A i \in 1..PING_MESSAGES : upLog[i] = Printed("nothing", 0)
  BY DEF UpInit
<1>3. UpTypes
  <2>1. upAt \in 1..(PING_MESSAGES + 1)
    BY UpAssumption DEF UpInit
  <2>2. upLog \in [1..PING_MESSAGES -> [what : UpOutcomes, reply : Int]]
    BY DEF UpInit, Printed, UpOutcomes
  <2> QED
    BY <1>1, <1>2, <2>1, <2>2 DEF UpInit, UpTypes, Printed
<1>4. UpSent = {} /\ Replied = {} /\ UpAround = {}
  <2>1. UpSent = {}
    BY DEF UpInit, UpSent
  <2>2. Replied = {}
    BY <1>2 DEF Replied, Printed
  <2>3. UpAround = {}
    BY <1>1 DEF UpInit, UpAround
  <2> QED
    BY <2>1, <2>2, <2>3
<1>5. \A i \in 1..PING_MESSAGES : ~UpOdd(i)
  BY <1>2 DEF Printed, UpOdd, Foreign
<1>6. UpAccounts
  BY <1>4, <1>5 DEF UpAccounts
<1> QED
  BY <1>3, <1>6 DEF UpInv

\* Datagrams move, are lost or duplicated; the client does nothing.
LEMMA UpMoves ==
  ASSUME UpInv, UNCHANGED <<upAt, upPc, upLog>>, upExtra' \in Nat, upExtra <= upExtra',
         IsABag(upTo'), IsABag(upBack'), IsABag(upSocket'),
         \A d \in UpAround' : d \in UpAround \/ (d \in Strays /\ upExtra' > 0),
         \A d : d \notin Strays => UpTotal(d)' <= UpTotal(d) + (upExtra' - upExtra)
  PROVE  UpInv'
<1>1. UpTypes'
  BY DEF UpInv, UpTypes
<1>2. /\ UpSent' = UpSent /\ Replied' = Replied /\ \A d : UpTaken(d)' = UpTaken(d)
      /\ \A i : UpRightly(i)' = UpRightly(i) /\ UpOdd(i)' = UpOdd(i)
  BY DEF UpSent, Replied, UpTaken, UpRightly, UpOdd
<1>3. UpAround' \subseteq UpSent' \cup Strays
  BY <1>2 DEF UpInv, UpAccounts
<1>4. \A i \in Replied' : UpRightly(i)'
  BY <1>2 DEF UpInv, UpAccounts
<1>5. ASSUME NEW d \in UpSent' PROVE UpTotal(d)' + Cardinality(UpTaken(d)') <= 1 + upExtra'
  <2>1. d \notin Strays
    BY <1>5, UpAssumption DEF UpSent, Stray, Foreign, Strays
  <2>2. UpTotal(d)' <= UpTotal(d) + (upExtra' - upExtra)
    BY <2>1
  <2>3. UpTotal(d) + Cardinality(UpTaken(d)) <= 1 + upExtra
    BY <1>2 DEF UpInv, UpAccounts
  <2>4. UpTotal(d) \in Nat /\ UpTotal(d)' \in Nat /\ upExtra \in Nat
    <3>1. UpMany(d, upTo') \in Nat /\ UpMany(d, upBack') \in Nat /\ UpMany(d, upSocket') \in Nat
      BY BagCounts
    <3>2. UpTotal(d)' \in Nat
      BY <3>1 DEF UpTotal
    <3> QED
      BY <3>2, UpTotals DEF UpInv, UpTypes
  <2>5. Cardinality(UpTaken(d)') = Cardinality(UpTaken(d)) /\ Cardinality(UpTaken(d)) \in Nat
    BY <1>2, UpTakenCount
  <2> QED
    BY <2>2, <2>3, <2>4, <2>5
<1>6. (\E d \in Strays : d \in UpAround') \/ (\E i \in 1..PING_MESSAGES : UpOdd(i)') => upExtra' > 0
  <2>1. upExtra \in Nat /\ (upExtra > 0 => upExtra' > 0)
    BY DEF UpInv, UpTypes
  <2>2. (\E d \in Strays : d \in UpAround) \/ (\E i \in 1..PING_MESSAGES : UpOdd(i)) => upExtra > 0
    BY DEF UpInv, UpAccounts
  <2> QED
    BY <1>2, <2>1, <2>2
<1>7. UpAccounts'
  BY <1>3, <1>4, <1>5, <1>6 DEF UpAccounts
<1> QED
  BY <1>1, <1>7 DEF UpInv

LEMMA UpServeInv == ASSUME UpInv, UpServe PROVE UpInv'
<1>1. UNCHANGED <<upAt, upPc, upSocket, upRes, upLog, upExtra>>
  BY DEF UpServe
<1>2. PICK d \in DOMAIN upTo :
        /\ upTo' = upTo (-) One(d)
        /\ upBack' = IF d \in Strays THEN upBack ELSE upBack (+) One(d)
  BY DEF UpServe
<1>3. IsABag(upTo) /\ IsABag(upBack) /\ IsABag(upSocket) /\ upExtra \in Nat
  BY DEF UpInv, UpTypes
<1>4. /\ IsABag(upTo') /\ DOMAIN upTo' \subseteq DOMAIN upTo
      /\ UpMany(d, upTo') = UpMany(d, upTo) - 1
      /\ \A e : e # d => UpMany(e, upTo') = UpMany(e, upTo)
  BY <1>2, <1>3, BagTakes
<1>5. \A e : UpMany(e, upTo) \in Nat /\ UpMany(e, upBack) \in Nat /\ UpMany(e, upSocket) \in Nat
  BY UpTotals DEF UpInv
<1>6. CASE d \in Strays
  <2>1. \A e : e \notin Strays => UpTotal(e)' <= UpTotal(e) + (upExtra' - upExtra)
    BY <1>1, <1>2, <1>3, <1>4, <1>5, <1>6 DEF UpTotal, Strays
  <2>2. \A e \in UpAround' : e \in UpAround
    BY <1>1, <1>2, <1>4, <1>6 DEF UpAround
  <2> QED
    BY <1>1, <1>2, <1>3, <1>4, <1>6, <2>1, <2>2, UpMoves
<1>7. CASE d \notin Strays
  <2>0. upBack' = upBack (+) One(d)
    BY <1>2, <1>7
  <2>1. /\ IsABag(upBack') /\ DOMAIN upBack' = DOMAIN upBack \cup {d}
        /\ UpMany(d, upBack') = UpMany(d, upBack) + 1
        /\ \A e : e # d => UpMany(e, upBack') = UpMany(e, upBack)
    <3>1. BagGains(upBack, d, upBack')
      BY <2>0 DEF BagGains
    <3>2. IsABag(upBack)
      BY <1>3
    <3>3. BagGained(upBack, d, upBack')
      BY <3>1, <3>2, BagAdds
    <3> QED
      BY <3>3 DEF BagGained
  <2>2. ASSUME NEW e, e \notin Strays PROVE UpTotal(e)' <= UpTotal(e) + (upExtra' - upExtra)
    <3>1. CASE e = d
      BY <1>1, <1>3, <1>4, <1>5, <2>1, <3>1 DEF UpTotal
    <3>2. CASE e # d
      BY <1>1, <1>3, <1>4, <1>5, <2>1, <3>2 DEF UpTotal
    <3> QED
      BY <3>1, <3>2
  <2>3. \A e \in UpAround' : e \in UpAround
    BY <1>1, <1>4, <2>1 DEF UpAround
  <2> QED
    BY <1>1, <1>3, <1>4, <2>1, <2>2, <2>3, UpMoves
<1> QED
  BY <1>6, <1>7

LEMMA UpNetworkInv == ASSUME UpInv, UpNetwork PROVE UpInv'
<1>1. UNCHANGED <<upAt, upPc, upRes, upLog>>
  BY DEF UpNetwork
<1>3. IsABag(upTo) /\ IsABag(upBack) /\ IsABag(upSocket) /\ upExtra \in Nat
  BY DEF UpInv, UpTypes
<1>5. \A e : UpMany(e, upTo) \in Nat /\ UpMany(e, upBack) \in Nat /\ UpMany(e, upSocket) \in Nat
  BY UpTotals DEF UpInv
<1>6. ASSUME NEW d \in DOMAIN upBack, upBack' = upBack (-) One(d),
             upSocket' = upSocket (+) One(d), UNCHANGED <<upTo, upExtra>>
      PROVE  UpInv'
  <2>1. /\ IsABag(upBack') /\ DOMAIN upBack' \subseteq DOMAIN upBack
        /\ UpMany(d, upBack') = UpMany(d, upBack) - 1
        /\ \A e : e # d => UpMany(e, upBack') = UpMany(e, upBack)
    BY <1>3, <1>6, BagTakes
  <2>2. /\ IsABag(upSocket') /\ DOMAIN upSocket' = DOMAIN upSocket \cup {d}
        /\ UpMany(d, upSocket') = UpMany(d, upSocket) + 1
        /\ \A e : e # d => UpMany(e, upSocket') = UpMany(e, upSocket)
    <3>1. BagGains(upSocket, d, upSocket')
      BY <1>6 DEF BagGains
    <3>2. IsABag(upSocket)
      BY <1>3
    <3>3. BagGained(upSocket, d, upSocket')
      BY <3>1, <3>2, BagAdds
    <3> QED
      BY <3>3 DEF BagGained
  <2>3. ASSUME NEW e PROVE UpTotal(e)' <= UpTotal(e) + (upExtra' - upExtra)
    <3>1. CASE e = d
      BY <1>3, <1>5, <1>6, <2>1, <2>2, <3>1 DEF UpTotal
    <3>2. CASE e # d
      BY <1>3, <1>5, <1>6, <2>1, <2>2, <3>2 DEF UpTotal
    <3> QED
      BY <3>1, <3>2
  <2>4. \A e \in UpAround' : e \in UpAround
    BY <1>6, <2>1, <2>2 DEF UpAround
  <2> QED
    BY <1>1, <1>3, <1>6, <2>1, <2>2, <2>3, <2>4, UpMoves
<1>7. ASSUME NEW d \in DOMAIN upBack, upBack' = upBack (-) One(d), UNCHANGED <<upTo, upSocket, upExtra>>
      PROVE  UpInv'
  <2>1. /\ IsABag(upBack') /\ DOMAIN upBack' \subseteq DOMAIN upBack
        /\ UpMany(d, upBack') = UpMany(d, upBack) - 1
        /\ \A e : e # d => UpMany(e, upBack') = UpMany(e, upBack)
    BY <1>3, <1>7, BagTakes
  <2>3. ASSUME NEW e PROVE UpTotal(e)' <= UpTotal(e) + (upExtra' - upExtra)
    <3>1. CASE e = d
      BY <1>3, <1>5, <1>7, <2>1, <3>1 DEF UpTotal
    <3>2. CASE e # d
      BY <1>3, <1>5, <1>7, <2>1, <3>2 DEF UpTotal
    <3> QED
      BY <3>1, <3>2
  <2>4. \A e \in UpAround' : e \in UpAround
    BY <1>7, <2>1 DEF UpAround
  <2> QED
    BY <1>1, <1>3, <1>7, <2>1, <2>3, <2>4, UpMoves
<1>8. ASSUME NEW d \in DOMAIN upTo, upTo' = upTo (-) One(d), UNCHANGED <<upBack, upSocket, upExtra>>
      PROVE  UpInv'
  <2>1. /\ IsABag(upTo') /\ DOMAIN upTo' \subseteq DOMAIN upTo
        /\ UpMany(d, upTo') = UpMany(d, upTo) - 1
        /\ \A e : e # d => UpMany(e, upTo') = UpMany(e, upTo)
    BY <1>3, <1>8, BagTakes
  <2>3. ASSUME NEW e PROVE UpTotal(e)' <= UpTotal(e) + (upExtra' - upExtra)
    <3>1. CASE e = d
      BY <1>3, <1>5, <1>8, <2>1, <3>1 DEF UpTotal
    <3>2. CASE e # d
      BY <1>3, <1>5, <1>8, <2>1, <3>2 DEF UpTotal
    <3> QED
      BY <3>1, <3>2
  <2>4. \A e \in UpAround' : e \in UpAround
    BY <1>8, <2>1 DEF UpAround
  <2> QED
    BY <1>1, <1>3, <1>8, <2>1, <2>3, <2>4, UpMoves
<1>9. ASSUME upExtra' = upExtra + 1, UNCHANGED upSocket,
             NEW d \in DOMAIN upTo \cup {Stray}, upTo' = upTo (+) One(d), UNCHANGED upBack
      PROVE  UpInv'
  <2>1. /\ IsABag(upTo') /\ DOMAIN upTo' = DOMAIN upTo \cup {d}
        /\ UpMany(d, upTo') = UpMany(d, upTo) + 1
        /\ \A e : e # d => UpMany(e, upTo') = UpMany(e, upTo)
    <3>1. BagGains(upTo, d, upTo')
      BY <1>9 DEF BagGains
    <3>2. IsABag(upTo)
      BY <1>3
    <3>3. BagGained(upTo, d, upTo')
      BY <3>1, <3>2, BagAdds
    <3> QED
      BY <3>3 DEF BagGained
  <2>2. upExtra' \in Nat /\ upExtra <= upExtra' /\ upExtra' > 0 /\ upExtra' - upExtra = 1
    BY <1>3, <1>9
  <2>3. ASSUME NEW e PROVE UpTotal(e)' <= UpTotal(e) + (upExtra' - upExtra)
    <3>1. CASE e = d
      BY <1>3, <1>5, <1>9, <2>1, <2>2, <3>1 DEF UpTotal
    <3>2. CASE e # d
      BY <1>3, <1>5, <1>9, <2>1, <2>2, <3>2 DEF UpTotal
    <3> QED
      BY <3>1, <3>2
  <2>4. \A e \in UpAround' : e \in UpAround \/ (e \in Strays /\ upExtra' > 0)
    BY <1>9, <2>1, <2>2 DEF UpAround, Strays
  <2> QED
    BY <1>1, <1>3, <1>9, <2>1, <2>2, <2>3, <2>4, UpMoves
<1>10. ASSUME upExtra' = upExtra + 1, UNCHANGED upSocket,
              NEW d \in DOMAIN upBack \cup Strays, upBack' = upBack (+) One(d), UNCHANGED upTo
       PROVE  UpInv'
  <2>1. /\ IsABag(upBack') /\ DOMAIN upBack' = DOMAIN upBack \cup {d}
        /\ UpMany(d, upBack') = UpMany(d, upBack) + 1
        /\ \A e : e # d => UpMany(e, upBack') = UpMany(e, upBack)
    <3>1. BagGains(upBack, d, upBack')
      BY <1>10 DEF BagGains
    <3>2. IsABag(upBack)
      BY <1>3
    <3>3. BagGained(upBack, d, upBack')
      BY <3>1, <3>2, BagAdds
    <3> QED
      BY <3>3 DEF BagGained
  <2>2. upExtra' \in Nat /\ upExtra <= upExtra' /\ upExtra' > 0 /\ upExtra' - upExtra = 1
    BY <1>3, <1>10
  <2>3. ASSUME NEW e PROVE UpTotal(e)' <= UpTotal(e) + (upExtra' - upExtra)
    <3>1. CASE e = d
      BY <1>3, <1>5, <1>10, <2>1, <2>2, <3>1 DEF UpTotal
    <3>2. CASE e # d
      BY <1>3, <1>5, <1>10, <2>1, <2>2, <3>2 DEF UpTotal
    <3> QED
      BY <3>1, <3>2
  <2>4. \A e \in UpAround' : e \in UpAround \/ (e \in Strays /\ upExtra' > 0)
    BY <1>10, <2>1, <2>2 DEF UpAround
  <2> QED
    BY <1>1, <1>3, <1>10, <2>1, <2>2, <2>3, <2>4, UpMoves
<1> QED
  BY <1>6, <1>7, <1>8, <1>9, <1>10 DEF UpNetwork

LEMMA UpSendInv == ASSUME UpInv, UpSend PROVE UpInv'
<1>1. upPc = "send" /\ upAt \in 1..PING_MESSAGES /\ UNCHANGED <<upBack, upSocket, upRes, upExtra>>
  BY UpAssumption DEF UpSend, UpInv, UpTypes
<1>3. IsABag(upTo) /\ IsABag(upBack) /\ IsABag(upSocket) /\ upExtra \in Nat
  BY DEF UpInv, UpTypes
<1>5. \A e : UpMany(e, upTo) \in Nat /\ UpMany(e, upBack) \in Nat /\ UpMany(e, upSocket) \in Nat
  BY UpTotals DEF UpInv
<1>6. CASE upTo' = upTo (+) One(upAt) /\ upPc' = "select" /\ UNCHANGED <<upAt, upLog>>
  <2>1. /\ IsABag(upTo') /\ DOMAIN upTo' = DOMAIN upTo \cup {upAt}
        /\ UpMany(upAt, upTo') = UpMany(upAt, upTo) + 1
        /\ \A e : e # upAt => UpMany(e, upTo') = UpMany(e, upTo)
    <3>1. BagGains(upTo, upAt, upTo')
      BY <1>6 DEF BagGains
    <3>2. IsABag(upTo)
      BY <1>3
    <3>3. BagGained(upTo, upAt, upTo')
      BY <3>1, <3>2, BagAdds
    <3> QED
      BY <3>3 DEF BagGained
  <2>2. UpTypes'
    BY <1>1, <1>6, <2>1 DEF UpInv, UpTypes
  <2>3. Replied' = Replied /\ \A d : UpTaken(d)' = UpTaken(d) /\ UpOdd(d)' = UpOdd(d)
    BY <1>6 DEF Replied, UpTaken, UpOdd
  <2>4. UpSent' = UpSent \cup {upAt}
    BY <1>1, <1>6 DEF UpSent
  <2>5. upAt \notin UpSent /\ upAt \notin Strays
    BY <1>1, UpAssumption DEF UpSent, Stray, Foreign, Strays
  <2>6. UpAround' = UpAround \cup {upAt}
    BY <1>1, <2>1 DEF UpAround
  <2>7. UpTotal(upAt) = 0
    <3>1. upAt \notin UpAround
      BY <2>5 DEF UpInv, UpAccounts
    <3> QED
      BY <3>1, UpTotals DEF UpInv
  <2>8. UpTaken(upAt) = {} /\ Cardinality(UpTaken(upAt)) = 0
    <3>1. \A i \in Replied : upLog[i].reply # upAt
      BY <2>5 DEF UpInv, UpAccounts, UpRightly, Strays
    <3>2. UpTaken(upAt) = {}
      BY <3>1 DEF UpTaken
    <3> QED
      BY <3>2, FS_EmptySet
  <2>9. ASSUME NEW d \in UpSent' PROVE UpTotal(d)' + Cardinality(UpTaken(d)') <= 1 + upExtra'
    <3>0. Cardinality(UpTaken(d)') = Cardinality(UpTaken(d)) /\ Cardinality(UpTaken(d)) \in Nat
      BY <2>3, UpTakenCount
    <3>1. CASE d = upAt
      <4>1. UpTotal(d)' = UpTotal(d) + 1
        BY <1>1, <1>5, <2>1, <3>1 DEF UpTotal
      <4> QED
        BY <1>1, <1>3, <2>7, <2>8, <3>0, <3>1, <4>1
    <3>2. CASE d # upAt
      <4>1. UpTotal(d)' = UpTotal(d)
        BY <1>1, <1>5, <2>1, <3>2 DEF UpTotal
      <4>2. UpTotal(d) + Cardinality(UpTaken(d)) <= 1 + upExtra
        BY <2>4, <3>2 DEF UpInv, UpAccounts
      <4> QED
        BY <1>1, <3>0, <4>1, <4>2
    <3> QED
      BY <3>1, <3>2
  <2>10. UpAccounts'
    <3>1. UpAround' \subseteq UpSent' \cup Strays
      BY <2>4, <2>6 DEF UpInv, UpAccounts
    <3>2. \A i \in Replied' : UpRightly(i)'
      BY <1>6, <2>3, <2>4 DEF UpInv, UpAccounts, UpRightly
    <3>3. (\E d \in Strays : d \in UpAround') \/ (\E i \in 1..PING_MESSAGES : UpOdd(i)') => upExtra' > 0
      BY <1>1, <2>3, <2>5, <2>6 DEF UpInv, UpAccounts
    <3> QED
      BY <2>9, <3>1, <3>2, <3>3 DEF UpAccounts
  <2> QED
    BY <2>2, <2>10 DEF UpInv
<1>7. CASE /\ upLog' = [upLog EXCEPT ![upAt] = Printed("unsent", 0)] /\ upAt' = upAt + 1
           /\ UNCHANGED <<upTo, upPc>>
  <2>1. /\ upLog'[upAt] = Printed("unsent", 0) /\ \A i \in 1..PING_MESSAGES : i # upAt => upLog'[i] = upLog[i]
        /\ upLog' \in [1..PING_MESSAGES -> [what : UpOutcomes, reply : Int]]
        /\ upLog[upAt].what = "nothing"
    <3>1. Printed("unsent", 0) \in [what : UpOutcomes, reply : Int]
      BY DEF Printed, UpOutcomes
    <3> QED
      BY <1>1, <1>7, <3>1 DEF UpInv, UpTypes
  <2>2. UpTypes'
    <3>0. upAt \in 1..PING_MESSAGES /\ upAt' = upAt + 1 /\ PING_MESSAGES \in Nat
      BY <1>1, <1>7, UpAssumption
    <3>1. upAt' \in 1..(PING_MESSAGES + 1) /\ \A i \in 1..PING_MESSAGES : i >= upAt' => i >= upAt /\ i # upAt
      BY <3>0
    <3>2. \A i \in 1..PING_MESSAGES : i >= upAt' => upLog'[i].what = "nothing"
      BY <2>1, <3>1 DEF UpInv, UpTypes
    <3> QED
      BY <1>1, <1>7, <2>1, <3>1, <3>2 DEF UpInv, UpTypes
  <2>3. UpSent' = UpSent
    <3>1. ASSUME NEW i \in 1..PING_MESSAGES
          PROVE  (i < upAt' /\ upLog'[i].what # "unsent") <=> (i < upAt /\ upLog[i].what # "unsent")
      <4>1. CASE i = upAt
        BY <1>1, <2>1, <4>1 DEF Printed
      <4>2. CASE i # upAt
        BY <1>1, <1>7, <2>1, <4>2
      <4> QED
        BY <4>1, <4>2
    <3> QED
      BY <1>1, <1>7, <3>1 DEF UpSent
  <2>4. Replied' = Replied /\ \A d : UpTaken(d)' = UpTaken(d)
    <3>1. Replied' = Replied
      BY <2>1 DEF Replied, Printed
    <3>2. \A i \in Replied : upLog'[i] = upLog[i]
      BY <2>1 DEF Replied
    <3> QED
      BY <3>1, <3>2 DEF UpTaken
  <2>5. UpAround' = UpAround /\ \A d : UpTotal(d)' = UpTotal(d)
    BY <1>1, <1>7 DEF UpAround, UpTotal
  <2>6. \A i \in 1..PING_MESSAGES : UpOdd(i)' => UpOdd(i)
    <3> SUFFICES ASSUME NEW i \in 1..PING_MESSAGES, UpOdd(i)' PROVE UpOdd(i)
      OBVIOUS
    <3>1. i # upAt
      BY <2>1 DEF Printed, UpOdd, Foreign
    <3> QED
      BY <2>1, <3>1 DEF UpOdd
  <2>7. \A i \in Replied : UpRightly(i)'
    <3> SUFFICES ASSUME NEW i \in Replied PROVE UpRightly(i)'
      OBVIOUS
    <3>1. upLog'[i] = upLog[i]
      BY <2>1 DEF Replied
    <3> QED
      BY <2>3, <3>1 DEF UpInv, UpAccounts, UpRightly
  <2>8. UpAccounts'
    BY <1>1, <2>3, <2>4, <2>5, <2>6, <2>7 DEF UpInv, UpAccounts
  <2> QED
    BY <2>2, <2>8 DEF UpInv
<1> QED
  BY <1>6, <1>7 DEF UpSend

LEMMA UpSelectInv == ASSUME UpInv, UpSelect PROVE UpInv'
<1>1. /\ upPc = "select" /\ upPc' = "result"
      /\ UNCHANGED <<upAt, upTo, upBack, upSocket, upLog, upExtra>>
  BY DEF UpSelect
<1>2. UpTypes'
  BY <1>1 DEF UpInv, UpTypes
<1>3. /\ UpSent' = UpSent /\ Replied' = Replied /\ UpAround' = UpAround
      /\ \A d : UpTaken(d)' = UpTaken(d) /\ UpTotal(d)' = UpTotal(d)
      /\ \A i : UpRightly(i)' = UpRightly(i) /\ UpOdd(i)' = UpOdd(i)
  BY <1>1 DEF UpSent, Replied, UpTaken, UpAround, UpTotal, UpRightly, UpOdd
<1>4. UpAccounts'
  BY <1>1, <1>3 DEF UpInv, UpAccounts
<1> QED
  BY <1>2, <1>4 DEF UpInv

\* The outcome of the ping under way: what was printed, and which reply was taken.
UpTakes(w, r) ==
  /\ w \in {"error", "TIMEOUT", "unexpected", "rtt"} /\ r \in Int
  /\ upLog' = [upLog EXCEPT ![upAt] = Printed(w, r)]
  /\ IsABag(upSocket') /\ DOMAIN upSocket' \subseteq DOMAIN upSocket
  /\ w = "unexpected" \/ r = Foreign => \E e \in Strays : e \in UpAround
  /\ w = "rtt" => r = Foreign \/ (r \in UpSent /\ r <= upAt)
  /\ \A e \in UpSent : UpMany(e, upSocket') + (IF w = "rtt" /\ e = r THEN 1 ELSE 0) <= UpMany(e, upSocket)
  /\ \A e : UpMany(e, upSocket') \in Nat
LEMMA UpResultInv == ASSUME UpInv, UpResult PROVE UpInv'
<1>1. /\ upPc = "result" /\ upPc' = "send" /\ upAt' = upAt + 1 /\ upAt \in 1..PING_MESSAGES
      /\ UNCHANGED <<upTo, upBack, upRes, upExtra>>
  BY UpAssumption DEF UpResult, UpInv, UpTypes
<1>3. IsABag(upTo) /\ IsABag(upBack) /\ IsABag(upSocket) /\ upExtra \in Nat
  BY DEF UpInv, UpTypes
<1>5. \A e : UpMany(e, upTo) \in Nat /\ UpMany(e, upBack) \in Nat /\ UpMany(e, upSocket) \in Nat
  BY UpTotals DEF UpInv
<1>6. upLog[upAt].what = "nothing" /\ upAt \notin Replied
  BY <1>1 DEF UpInv, UpTypes, Replied
<1>g. ASSUME NEW w, NEW r, UpTakes(w, r) PROVE UpInv'
  <2>h. /\ w \in {"error", "TIMEOUT", "unexpected", "rtt"} /\ r \in Int
        /\ upLog' = [upLog EXCEPT ![upAt] = Printed(w, r)]
        /\ IsABag(upSocket') /\ DOMAIN upSocket' \subseteq DOMAIN upSocket
        /\ w = "unexpected" \/ r = Foreign => \E e \in Strays : e \in UpAround
        /\ w = "rtt" => r = Foreign \/ (r \in UpSent /\ r <= upAt)
        /\ \A e \in UpSent : UpMany(e, upSocket') + (IF w = "rtt" /\ e = r THEN 1 ELSE 0) <= UpMany(e, upSocket)
        /\ \A e : UpMany(e, upSocket') \in Nat
    BY <1>g DEF UpTakes
  <2>0. upAt \in 1..PING_MESSAGES /\ upAt' = upAt + 1 /\ PING_MESSAGES \in Nat
    BY <1>1, UpAssumption
  <2>1. /\ upLog'[upAt] = Printed(w, r) /\ \A i \in 1..PING_MESSAGES : i # upAt => upLog'[i] = upLog[i]
        /\ upLog' \in [1..PING_MESSAGES -> [what : UpOutcomes, reply : Int]]
    <3>1. Printed(w, r) \in [what : UpOutcomes, reply : Int]
      BY <2>h DEF Printed, UpOutcomes
    <3> QED
      BY <1>1, <2>h, <3>1 DEF UpInv, UpTypes
  <2>2. upLog'[upAt].what = w /\ upLog'[upAt].reply = r
    BY <2>1 DEF Printed
  <2>3. UpTypes'
    <3>1. upAt' \in 1..(PING_MESSAGES + 1)
          /\ \A i \in 1..PING_MESSAGES : i >= upAt' => i >= upAt /\ i # upAt
      BY <2>0
    <3>2. \A i \in 1..PING_MESSAGES : i >= upAt' => upLog'[i].what = "nothing"
      BY <2>1, <3>1 DEF UpInv, UpTypes
    <3> QED
      BY <1>1, <1>3, <2>h, <2>1, <3>1, <3>2 DEF UpInv, UpTypes
  <2>4. UpSent' = UpSent
    <3>1. ASSUME NEW i \in 1..PING_MESSAGES
          PROVE  (i < upAt' /\ upLog'[i].what # "unsent")
                   <=> ((i < upAt /\ upLog[i].what # "unsent") \/ i = upAt)
      <4>1. CASE i = upAt
        BY <2>h, <2>0, <2>2, <4>1
      <4>2. CASE i # upAt
        BY <2>0, <2>1, <4>2
      <4> QED
        BY <4>1, <4>2
    <3> QED
      BY <1>1, <3>1 DEF UpSent
  <2>5. Replied' = IF w = "rtt" THEN Replied \cup {upAt} ELSE Replied
    BY <1>6, <2>0, <2>1, <2>2 DEF Replied
  <2>6. \A i \in Replied : upLog'[i] = upLog[i] /\ i # upAt
    BY <1>6, <2>1 DEF Replied
  <2>7. \A d : UpTaken(d)' = IF w = "rtt" /\ d = r THEN UpTaken(d) \cup {upAt} ELSE UpTaken(d)
    BY <2>2, <2>5, <2>6 DEF UpTaken
  <2>8. UpAround' \subseteq UpAround
    BY <1>1, <2>h DEF UpAround
  <2>9. ASSUME NEW d \in UpSent' PROVE UpTotal(d)' + Cardinality(UpTaken(d)') <= 1 + upExtra'
    <3>1. UpTotal(d) + Cardinality(UpTaken(d)) <= 1 + upExtra
      BY <2>4 DEF UpInv, UpAccounts
    <3>2. /\ IsFiniteSet(UpTaken(d)) /\ Cardinality(UpTaken(d)) \in Nat /\ Cardinality(UpTaken(d)') \in Nat
          /\ upAt \notin UpTaken(d)
      BY <1>6, UpTakenCount DEF UpTaken
    <3>3. UpMany(d, upSocket') + (IF w = "rtt" /\ d = r THEN 1 ELSE 0) <= UpMany(d, upSocket)
      BY <2>h, <2>4
    <3>4. UpMany(d, upSocket') \in Nat
      BY <2>h
    <3>5. UpTotal(d)' + (IF w = "rtt" /\ d = r THEN 1 ELSE 0) <= UpTotal(d)
          /\ UpTotal(d) \in Nat /\ UpTotal(d)' \in Nat
      BY <1>1, <1>5, <3>3, <3>4 DEF UpTotal
    <3>6. CASE w = "rtt" /\ d = r
      <4>1. UpTaken(d)' = UpTaken(d) \cup {upAt}
        BY <2>7, <3>6
      <4>2. Cardinality(UpTaken(d)') = Cardinality(UpTaken(d)) + 1
        BY <3>2, <4>1, FS_AddElement
      <4>3. UpTotal(d)' + 1 <= UpTotal(d)
        BY <3>5, <3>6
      <4> QED
        BY <1>1, <1>3, <3>1, <3>2, <3>5, <4>2, <4>3
    <3>7. CASE ~(w = "rtt" /\ d = r)
      <4>1. UpTaken(d)' = UpTaken(d)
        BY <2>7, <3>7
      <4>2. UpTotal(d)' <= UpTotal(d)
        BY <3>5, <3>7
      <4> QED
        BY <1>1, <1>3, <3>1, <3>2, <3>5, <4>1, <4>2
    <3> QED
      BY <3>6, <3>7
  <2>10. UpAccounts'
    <3>1. UpAround' \subseteq UpSent' \cup Strays
      BY <2>4, <2>8 DEF UpInv, UpAccounts
    <3>2. ASSUME NEW i \in Replied' PROVE UpRightly(i)'
      <4>1. CASE i \in Replied
        BY <2>4, <2>6, <4>1 DEF UpInv, UpAccounts, UpRightly
      <4>2. CASE i \notin Replied
        <5>1. w = "rtt" /\ i = upAt
          BY <2>5, <3>2, <4>2
        <5> QED
          BY <2>h, <2>2, <2>4, <5>1 DEF UpRightly
      <4> QED
        BY <4>1, <4>2
    <3>3. (\E e \in Strays : e \in UpAround') \/ (\E i \in 1..PING_MESSAGES : UpOdd(i)') => upExtra' > 0
      <4>1. (\E e \in Strays : e \in UpAround) \/ (\E i \in 1..PING_MESSAGES : UpOdd(i)) => upExtra' > 0
        BY <1>1 DEF UpInv, UpAccounts
      <4>2. ASSUME NEW i \in 1..PING_MESSAGES, UpOdd(i)'
            PROVE  (\E e \in Strays : e \in UpAround) \/ \E k \in 1..PING_MESSAGES : UpOdd(k)
        <5>1. CASE i = upAt
          BY <2>h, <2>2, <4>2, <5>1 DEF UpOdd
        <5>2. CASE i # upAt
          <6>1. UpOdd(i)
            BY <2>1, <4>2, <5>2 DEF UpOdd
          <6> QED
            BY <6>1
        <5> QED
          BY <5>1, <5>2
      <4> QED
        BY <2>8, <4>1, <4>2
    <3> QED
      BY <2>9, <3>1, <3>2, <3>3 DEF UpAccounts
  <2> QED
    BY <2>3, <2>10 DEF UpInv
<1>7. ASSUME NEW w \in {"error", "TIMEOUT"}, upLog' = [upLog EXCEPT ![upAt] = Printed(w, 0)],
             UNCHANGED upSocket
      PROVE  UpInv'
  <2>1. \A e \in UpSent : UpMany(e, upSocket') + 0 <= UpMany(e, upSocket)
    BY <1>5, <1>7
  <2>2. \A e : UpMany(e, upSocket') \in Nat
    BY <1>5, <1>7
  <2> DEFINE r == 0
  <2>3. w \in {"error", "TIMEOUT", "unexpected", "rtt"} /\ w # "unexpected" /\ w # "rtt"
        /\ r \in Int /\ r # Foreign
    BY <1>7 DEF Foreign
  <2>4. upLog' = [upLog EXCEPT ![upAt] = Printed(w, r)]
    BY <1>7
  <2> HIDE DEF r
  <2>5. DOMAIN upSocket' \subseteq DOMAIN upSocket /\ IsABag(upSocket')
    BY <1>3, <1>7
  <2>6. UpTakes(w, r)
    BY <2>1, <2>2, <2>3, <2>4, <2>5 DEF UpTakes
  <2> QED
    BY <1>g, <2>6
<1>8. ASSUME NEW d \in DOMAIN upSocket, upSocket' = upSocket (-) One(d),
             upLog' = [upLog EXCEPT ![upAt] = Printed(IF d = Stray THEN "unexpected" ELSE "rtt", d)]
      PROVE  UpInv'
  <2>1. /\ IsABag(upSocket') /\ DOMAIN upSocket' \subseteq DOMAIN upSocket
        /\ UpMany(d, upSocket') = UpMany(d, upSocket) - 1
        /\ \A e : e # d => UpMany(e, upSocket') = UpMany(e, upSocket)
    BY <1>3, <1>8, BagTakes
  <2>2. /\ d \in UpAround /\ d \in UpSent \cup Strays /\ d \in Int /\ (d \in UpSent => d <= upAt)
        /\ d \in UpSent => d \notin Strays
    <3>1. d \in UpAround /\ d \in UpSent \cup Strays
      BY DEF UpAround, UpInv, UpAccounts
    <3> QED
      BY <1>1, <3>1, UpAssumption DEF UpSent, Stray, Foreign, Strays
  <2>3. \A e : UpMany(e, upSocket') \in Nat
    BY <2>1, BagCounts
  <2>4. CASE d = Stray
    <3>1. (\A e \in UpSent : e # d) /\ d \in Strays
      BY <2>2, <2>4 DEF Strays
    <3>2. \A e \in UpSent : UpMany(e, upSocket') + 0 <= UpMany(e, upSocket)
      BY <1>5, <2>1, <3>1
    <3>3. upLog' = [upLog EXCEPT ![upAt] = Printed("unexpected", d)]
      BY <1>8, <2>4
    <3> DEFINE w == "unexpected"
    <3>4. w \in {"error", "TIMEOUT", "unexpected", "rtt"} /\ w # "rtt"
          /\ upLog' = [upLog EXCEPT ![upAt] = Printed(w, d)]
      BY <3>3
    <3> HIDE DEF w
    <3>5. UpTakes(w, d)
      BY <2>1, <2>2, <2>3, <3>1, <3>2, <3>4 DEF UpTakes
    <3> QED
      BY <1>g, <3>5
  <2>5. CASE d # Stray
    <3>1. d = Foreign \/ (d \in UpSent /\ d <= upAt)
      BY <2>2, <2>5 DEF Strays
    <3>6. d = Foreign => \E e \in Strays : e \in UpAround
      BY <2>2 DEF Strays
    <3>2. \A e \in UpSent : UpMany(e, upSocket') + (IF e = d THEN 1 ELSE 0) <= UpMany(e, upSocket)
      BY <1>5, <2>1
    <3>3. upLog' = [upLog EXCEPT ![upAt] = Printed("rtt", d)]
      BY <1>8, <2>5
    <3> DEFINE w == "rtt"
    <3>4. w \in {"error", "TIMEOUT", "unexpected", "rtt"} /\ w # "unexpected"
          /\ upLog' = [upLog EXCEPT ![upAt] = Printed(w, d)]
      BY <3>3
    <3>5. \A e \in UpSent : UpMany(e, upSocket') + (IF w = "rtt" /\ e = d THEN 1 ELSE 0)
                              <= UpMany(e, upSocket)
      BY <3>2
    <3>7. w = "unexpected" \/ d = Foreign => \E e \in Strays : e \in UpAround
      BY <3>6
    <3>8. w = "rtt" => d = Foreign \/ (d \in UpSent /\ d <= upAt)
      BY <3>1
    <3> HIDE DEF w
    <3>9. UpTakes(w, d)
      BY <2>1, <2>2, <2>3, <3>4, <3>5, <3>7, <3>8 DEF UpTakes
    <3> QED
      BY <1>g, <3>9
  <2> QED
    BY <2>4, <2>5
<1> QED
  BY <1>7, <1>8 DEF UpResult

LEMMA UpNextInv == ASSUME UpInv, [UpNext]_upVars PROVE UpInv'
<1>1. CASE UNCHANGED upVars
  <2>1. UpTypes'
    BY <1>1 DEF UpInv, UpTypes, upVars
  <2>2. /\ UpSent' = UpSent /\ Replied' = Replied /\ UpAround' = UpAround
        /\ \A d : UpTaken(d)' = UpTaken(d) /\ UpTotal(d)' = UpTotal(d)
        /\ \A i : UpRightly(i)' = UpRightly(i) /\ UpOdd(i)' = UpOdd(i)
    BY <1>1 DEF UpSent, Replied, UpTaken, UpAround, UpTotal, UpRightly, UpOdd, upVars
  <2>3. UpAccounts'
    BY <1>1, <2>2 DEF UpInv, UpAccounts, upVars
  <2> QED
    BY <2>1, <2>3 DEF UpInv
<1> QED
  BY <1>1, UpSendInv, UpSelectInv, UpResultInv, UpServeInv, UpNetworkInv DEF UpNext, UpClient

LEMMA UpInvGenuine == UpInv => UpGenuine
<1> SUFFICES ASSUME UpInv PROVE UpGenuine
  OBVIOUS
<1>0. PING_MESSAGES \in Nat /\ upExtra \in Nat /\ DOMAIN upLog = 1..PING_MESSAGES
  BY UpAssumption DEF UpInv, UpTypes
<1>1. ASSUME NEW i \in Replied
      PROVE  \/ upLog[i].reply = Foreign
             \/ upLog[i].reply \in 1..i /\ upLog[upLog[i].reply].what # "unsent"
  <2>1. /\ upLog[i].reply = Foreign \/ (upLog[i].reply \in UpSent /\ upLog[i].reply <= i)
        /\ i \in 1..PING_MESSAGES
    BY DEF UpInv, UpAccounts, Replied, UpRightly
  <2>2. \A k \in UpSent : k \in 1..PING_MESSAGES /\ upLog[k].what # "unsent"
    BY <1>0 DEF UpSent, UpInv, UpTypes
  <2> QED
    BY <1>0, <2>1, <2>2
<1>2. ASSUME NEW d \in 1..PING_MESSAGES PROVE Cardinality(UpTaken(d)) <= 1 + upExtra
  <2>1. CASE d \in UpSent
    <3>1. UpTotal(d) + Cardinality(UpTaken(d)) <= 1 + upExtra
      BY <2>1 DEF UpInv, UpAccounts
    <3>2. UpTotal(d) \in Nat /\ Cardinality(UpTaken(d)) \in Nat
      BY UpTotals, UpTakenCount DEF UpInv
    <3> QED
      BY <1>0, <3>1, <3>2
  <2>2. CASE d \notin UpSent
    <3>1. UpTaken(d) = {}
      BY <1>0, <2>2 DEF UpInv, UpAccounts, UpTaken, UpRightly, Foreign
    <3> QED
      BY <1>0, <3>1, FS_EmptySet
  <2> QED
    BY <2>1, <2>2
<1>3. (\E i \in DOMAIN upLog : upLog[i].what = "unexpected" \/ upLog[i].reply = Foreign)
        => upExtra > 0
  BY <1>0 DEF UpInv, UpAccounts, UpOdd
<1> QED
  BY <1>1, <1>2, <1>3 DEF UpGenuine, UpTaken

\* A time is printed for a reply to a ping that was sent, for no reply twice but a
\* duplicate, and for a PONG of somebody else only if somebody else sent one.
THEOREM UpIsGenuine == UpSpec => []UpGenuine
<1>1. UpInv /\ [UpNext]_upVars => UpInv'
  BY UpNextInv
<1> QED
  BY <1>1, UpInitInv, UpInvGenuine, PTL DEF UpSpec
----------------------------------------------------------------------------
(* The frames of the network simulator.                                    *)

NlUnits == Nat \X Nat
NlFrame == [dst : {"me", "other"}, len : 1..NlMax, data : {"plain", "header"}]
NlType ==
  /\ nlSent \in Seq(NlFrame) /\ nlFifo \in Seq(NlUnits)
  /\ nlReads \in Seq([units : Seq(NlUnits), taken : BOOLEAN])

\* In sequence s of units the rest of its frame follows each unit.
NlRuns(s, sent) ==
  \A i \in 1..Len(s) :
    /\ s[i][1] \in 1..Len(sent) /\ s[i][2] \in 1..sent[s[i][1]].len
    /\ \A k \in 0..NlMax : s[i][2] + k <= sent[s[i][1]].len =>
         i + k <= Len(s) /\ s[i + k] = <<s[i][1], s[i][2] + k>>
NlDistinct(s) == \A i, j \in 1..Len(s) : s[i] = s[j] => i = j

\* Units that begin inside a frame, at data that reads like a header.
NlInside(u, sent) ==
  u[1][1] \in 1..Len(sent) /\ u[1][2] > 1 /\ sent[u[1][1]].data = "header"

\* Units that begin with a frame for this interface, which is not in the FIFO any more and
\* was taken once.
NlWhole(i, u) ==
  LET f == u[1][1] IN
  /\ f \in 1..Len(nlSent) /\ nlSent[f].dst = "me"
  /\ \A k \in 1..nlSent[f].len : u[k] = <<f, k>>
  /\ \A j \in 1..Len(nlFifo) : nlFifo[j] # <<f, 1>>
  /\ \A j \in 1..Len(nlReads) : j # i /\ nlReads[j].taken => nlReads[j].units[1] # <<f, 1>>

\* A read that was taken for a frame is one of the two.
NlTaken(i) ==
  nlReads[i].taken => NlInside(nlReads[i].units, nlSent) \/ NlWhole(i, nlReads[i].units)

\* The first unit of a frame for this interface is in the FIFO or was read.
NlWaits(f) == \E k \in 1..Len(nlFifo) : nlFifo[k] = <<f, 1>>
NlRead(f) ==
  \E i \in 1..Len(nlReads) : \E k \in 1..Len(nlReads[i].units) :
    /\ nlReads[i].units[k] = <<f, 1>>
    /\ k > 1 \/ nlReads[i].taken \/ nlReads[i].units = << <<f, 1>> >>

NlInv ==
  /\ NlType /\ NlRuns(nlFifo, nlSent) /\ NlDistinct(nlFifo)
  /\ \A i \in 1..Len(nlReads) : NlTaken(i)
  /\ \A f \in 1..Len(nlSent) : nlSent[f].dst = "other" \/ NlWaits(f) \/ NlRead(f)

\* The units of a frame behind the others.
LEMMA NlJoins ==
  ASSUME NEW s \in Seq(NlUnits), NEW n \in Nat, NEW f \in Nat
  PROVE  LET u == s \o [k \in 1..n |-> <<f, k>>] IN
         /\ u \in Seq(NlUnits) /\ Len(u) = Len(s) + n
         /\ \A i \in 1..Len(s) : u[i] = s[i]
         /\ \A k \in 1..n : u[Len(s) + k] = <<f, k>>
<1> DEFINE new == [k \in 1..n |-> <<f, k>>]
<1>1. new \in Seq(NlUnits) /\ Len(new) = n
  <2>1. new \in [1..n -> NlUnits]
    BY DEF NlUnits
  <2> QED
    BY <2>1
<1>2. \A k \in 1..n : new[k] = <<f, k>>
  OBVIOUS
<1>3. ASSUME NEW t \in Seq(NlUnits), NEW u, u = s \o t
      PROVE  /\ u \in Seq(NlUnits) /\ Len(u) = Len(s) + Len(t)
             /\ \A i \in 1..Len(s) : u[i] = s[i]
             /\ \A i \in 1..Len(t) : u[Len(s) + i] = t[i]
  BY <1>3, JoinAt
<1> HIDE DEF new
<1>4. LET u == s \o new IN
         /\ u \in Seq(NlUnits) /\ Len(u) = Len(s) + n
         /\ \A i \in 1..Len(s) : u[i] = s[i]
         /\ \A k \in 1..n : u[Len(s) + k] = <<f, k>>
  BY <1>1, <1>2, <1>3
<1> QED
  BY <1>4 DEF new

LEMMA NlInitInv == NlInit => NlInv
  BY DEF NlInit, NlInv, NlType, NlRuns, NlDistinct

\* A frame is written behind the others.
LEMMA NlSends ==
  ASSUME NlInv, SendFrame
  PROVE  NlInv'
<1>t. NlType
  BY DEF NlInv
<1>1. PICK d \in {"me", "other"}, n \in 1..NlMax :
        /\ \E t \in {"plain", "header"} :
             nlSent' = Append(nlSent, [dst |-> d, len |-> n, data |-> t])
        /\ nlFifo' = nlFifo \o [k \in 1..n |-> <<Len(nlSent) + 1, k>>]
  BY DEF SendFrame
<1>2. UNCHANGED nlReads
  BY DEF SendFrame
<1>n. /\ Len(nlSent) \in Nat /\ Len(nlFifo) \in Nat /\ NlMax \in Nat /\ n \in Nat /\ n >= 1
  BY <1>t, NetworkingAssumption DEF NlType
<1>3. /\ nlSent' \in Seq(NlFrame) /\ Len(nlSent') = Len(nlSent) + 1
      /\ \A f \in 1..Len(nlSent) : nlSent'[f] = nlSent[f]
      /\ nlSent'[Len(nlSent) + 1].len = n
  BY <1>t, <1>1, <1>n DEF NlType, NlFrame
<1>6. /\ nlFifo' \in Seq(NlUnits) /\ Len(nlFifo') = Len(nlFifo) + n
      /\ \A i \in 1..Len(nlFifo) : nlFifo'[i] = nlFifo[i]
      /\ \A k \in 1..n : nlFifo'[Len(nlFifo) + k] = <<Len(nlSent) + 1, k>>
  <2>1. nlFifo \in Seq(NlUnits) /\ n \in Nat /\ Len(nlSent) + 1 \in Nat
    BY <1>t, <1>n DEF NlType
  <2> DEFINE u == nlFifo \o [k \in 1..n |-> <<Len(nlSent) + 1, k>>]
  <2>2. /\ u \in Seq(NlUnits) /\ Len(u) = Len(nlFifo) + n
        /\ \A i \in 1..Len(nlFifo) : u[i] = nlFifo[i]
        /\ \A k \in 1..n : u[Len(nlFifo) + k] = <<Len(nlSent) + 1, k>>
    BY <2>1, NlJoins
  <2>3. nlFifo' = u
    BY <1>1
  <2> HIDE DEF u
  <2> QED
    BY <2>2, <2>3
<1>7. ASSUME NEW i \in 1..Len(nlFifo')
      PROVE  \/ i \in 1..Len(nlFifo) /\ nlFifo'[i] = nlFifo[i]
             \/ \E k \in 1..n : i = Len(nlFifo) + k /\ nlFifo'[i] = <<Len(nlSent) + 1, k>>
  <2>1. CASE i <= Len(nlFifo)
    BY <1>6, <1>n, <2>1
  <2>2. CASE i > Len(nlFifo)
    <3>1. i - Len(nlFifo) \in 1..n /\ i = Len(nlFifo) + (i - Len(nlFifo))
      BY <1>6, <1>n, <2>2
    <3> QED
      BY <3>1, <1>6
  <2> QED
    BY <2>1, <2>2, <1>n, <1>6
<1>8. NlType'
  BY <1>t, <1>2, <1>3, <1>6 DEF NlType
<1>9. NlRuns(nlFifo', nlSent')
  <2> SUFFICES ASSUME NEW i \in 1..Len(nlFifo')
               PROVE  /\ nlFifo'[i][1] \in 1..Len(nlSent')
                      /\ nlFifo'[i][2] \in 1..nlSent'[nlFifo'[i][1]].len
                      /\ \A k \in 0..NlMax : nlFifo'[i][2] + k <= nlSent'[nlFifo'[i][1]].len =>
                           /\ i + k <= Len(nlFifo')
                           /\ nlFifo'[i + k] = <<nlFifo'[i][1], nlFifo'[i][2] + k>>
    BY DEF NlRuns
  <2>1. CASE i \in 1..Len(nlFifo) /\ nlFifo'[i] = nlFifo[i]
    <3>1. /\ nlFifo[i][1] \in 1..Len(nlSent) /\ nlFifo[i][2] \in 1..nlSent[nlFifo[i][1]].len
          /\ \A k \in 0..NlMax : nlFifo[i][2] + k <= nlSent[nlFifo[i][1]].len =>
               i + k <= Len(nlFifo) /\ nlFifo[i + k] = <<nlFifo[i][1], nlFifo[i][2] + k>>
      BY <2>1 DEF NlInv, NlRuns
    <3>2. \A k \in 0..NlMax : i + k <= Len(nlFifo) =>
            i + k <= Len(nlFifo') /\ nlFifo'[i + k] = nlFifo[i + k]
      BY <2>1, <1>6, <1>n, SMTT(30)
    <3>3. nlFifo[i][1] \in 1..Len(nlSent') /\ nlSent'[nlFifo[i][1]] = nlSent[nlFifo[i][1]]
      BY <3>1, <1>3, <1>n
    <3> QED
      BY <2>1, <3>1, <3>2, <3>3
  <2>2. ASSUME NEW m \in 1..n, i = Len(nlFifo) + m, nlFifo'[i] = <<Len(nlSent) + 1, m>>
        PROVE  /\ nlFifo'[i][1] \in 1..Len(nlSent')
               /\ nlFifo'[i][2] \in 1..nlSent'[nlFifo'[i][1]].len
               /\ \A k \in 0..NlMax : nlFifo'[i][2] + k <= nlSent'[nlFifo'[i][1]].len =>
                    /\ i + k <= Len(nlFifo')
                    /\ nlFifo'[i + k] = <<nlFifo'[i][1], nlFifo'[i][2] + k>>
    <3>1. nlFifo'[i][1] = Len(nlSent) + 1 /\ nlFifo'[i][2] = m
      BY <2>2
    <3>2. ASSUME NEW k \in 0..NlMax, m + k <= n
          PROVE  i + k <= Len(nlFifo') /\ nlFifo'[i + k] = <<Len(nlSent) + 1, m + k>>
      <4>1. m + k \in 1..n /\ i + k = Len(nlFifo) + (m + k) /\ i + k <= Len(nlFifo) + n
        BY <2>2, <3>2, <1>n
      <4> QED
        BY <4>1, <1>6
    <3>3. /\ Len(nlSent) + 1 \in 1..Len(nlSent') /\ nlSent'[Len(nlSent) + 1].len = n
          /\ m \in 1..n
      BY <1>3, <1>n
    <3> QED
      BY <3>1, <3>2, <3>3
  <2> QED
    BY <1>7, <2>1, <2>2
<1>10. \A i \in 1..Len(nlFifo) : nlFifo[i][1] <= Len(nlSent) /\ nlFifo[i][1] \in Nat
  BY <1>n DEF NlInv, NlRuns
<1>11. NlDistinct(nlFifo')
  <2> SUFFICES ASSUME NEW i \in 1..Len(nlFifo'), NEW j \in 1..Len(nlFifo'), nlFifo'[i] = nlFifo'[j]
               PROVE  i = j
    BY DEF NlDistinct
  <2>1. \/ i \in 1..Len(nlFifo) /\ nlFifo'[i] = nlFifo[i]
        \/ \E k \in 1..n : i = Len(nlFifo) + k /\ nlFifo'[i] = <<Len(nlSent) + 1, k>>
    BY <1>7
  <2>2. \/ j \in 1..Len(nlFifo) /\ nlFifo'[j] = nlFifo[j]
        \/ \E k \in 1..n : j = Len(nlFifo) + k /\ nlFifo'[j] = <<Len(nlSent) + 1, k>>
    BY <1>7
  <2>3. CASE i \in 1..Len(nlFifo) /\ nlFifo'[i] = nlFifo[i]
             /\ j \in 1..Len(nlFifo) /\ nlFifo'[j] = nlFifo[j]
    BY <2>3 DEF NlInv, NlDistinct
  <2>4. ~(nlFifo'[i][1] = Len(nlSent) + 1 /\ nlFifo'[j][1] <= Len(nlSent))
        /\ ~(nlFifo'[j][1] = Len(nlSent) + 1 /\ nlFifo'[i][1] <= Len(nlSent))
    BY <1>n
  <2> QED
    BY <2>1, <2>2, <2>3, <2>4, <1>10
<1>12. ASSUME NEW i \in 1..Len(nlReads) PROVE NlTaken(i)'
  <2> SUFFICES ASSUME nlReads[i].taken PROVE NlTaken(i)'
    BY <1>2 DEF NlTaken
  <2> DEFINE u == nlReads[i].units
             f == u[1][1]
  <2>1. f \in 1..Len(nlSent) /\ (NlInside(u, nlSent) \/ NlWhole(i, u))
    BY DEF NlInv, NlTaken, NlInside, NlWhole
  <2>2. f \in 1..Len(nlSent') /\ nlSent'[f] = nlSent[f] /\ f # Len(nlSent) + 1
    BY <2>1, <1>3, <1>n, SMTT(30)
  <2>3. CASE NlInside(u, nlSent)
    BY <2>2, <2>3, <1>2 DEF NlTaken, NlInside
  <2>4. CASE NlWhole(i, u)
    <3>1. \A j \in 1..Len(nlFifo') : nlFifo'[j] # <<f, 1>>
      BY <2>2, <2>4, <1>7 DEF NlWhole
    <3>2. NlWhole(i, u)'
      BY <2>2, <2>4, <3>1, <1>2 DEF NlWhole
    <3> QED
      BY <3>2, <1>2 DEF NlTaken
  <2> QED
    BY <2>1, <2>3, <2>4
<1>13. ASSUME NEW f \in 1..Len(nlSent')
       PROVE  nlSent'[f].dst = "other" \/ NlWaits(f)' \/ NlRead(f)'
  <2>1. CASE f \in 1..Len(nlSent)
    <3>1. nlSent[f].dst = "other" \/ NlWaits(f) \/ NlRead(f)
      BY <2>1 DEF NlInv
    <3>2. NlWaits(f) => NlWaits(f)'
      <4> SUFFICES ASSUME NEW k \in 1..Len(nlFifo), nlFifo[k] = <<f, 1>> PROVE NlWaits(f)'
        BY DEF NlWaits
      <4>1. k \in 1..Len(nlFifo') /\ nlFifo'[k] = <<f, 1>>
        BY <1>6, <1>n
      <4> QED
        BY <4>1 DEF NlWaits
    <3>3. NlRead(f) => NlRead(f)'
      BY <1>2 DEF NlRead
    <3> QED
      BY <2>1, <3>1, <3>2, <3>3, <1>3
  <2>2. CASE f = Len(nlSent) + 1
    <3>1. 1 \in 1..n /\ Len(nlFifo) + 1 \in 1..Len(nlFifo')
      BY <1>n, <1>6
    <3>2. nlFifo'[Len(nlFifo) + 1] = <<f, 1>>
      BY <1>6, <2>2, <3>1
    <3> QED
      BY <3>1, <3>2 DEF NlWaits
  <2> QED
    BY <2>1, <2>2, <1>3, <1>n
<1> QED
  BY <1>2, <1>8, <1>9, <1>11, <1>12, <1>13 DEF NlInv

\* A read takes the units at the head of the FIFO, and the rest stays in its order.
LEMMA NlReceives ==
  ASSUME NlInv, EnterMainLoop
  PROVE  NlInv'
<1>t. NlType
  BY DEF NlInv
<1>f. \A f \in 1..Len(nlSent) : nlSent[f].len \in 1..NlMax /\ nlSent[f].dst \in {"me", "other"}
  <2> SUFFICES ASSUME NEW f \in 1..Len(nlSent)
               PROVE  nlSent[f].len \in 1..NlMax /\ nlSent[f].dst \in {"me", "other"}
    OBVIOUS
  <2>1. nlSent \in Seq(NlFrame)
    BY <1>t DEF NlType
  <2>2. nlSent[f] \in NlFrame
    BY <2>1
  <2> QED
    BY <2>2 DEF NlFrame
<1> DEFINE n == IF Len(nlFifo) < NlMax THEN Len(nlFifo) ELSE NlMax
           units == SubSeq(nlFifo, 1, n)
           taken == n >= 2 /\ ParseFrame(units) /\ DstMac(units) = "me"
<1>1. /\ nlFifo # <<>> /\ UNCHANGED nlSent
      /\ nlReads' = Append(nlReads, [units |-> units, taken |-> taken])
      /\ nlFifo' = SubSeq(nlFifo, n + 1, Len(nlFifo))
  BY DEF EnterMainLoop
<1>n. /\ Len(nlSent) \in Nat /\ Len(nlFifo) \in Nat /\ Len(nlFifo) >= 1 /\ NlMax \in Nat
      /\ n \in Nat /\ n >= 1 /\ n <= Len(nlFifo) /\ n <= NlMax
      /\ n = Len(nlFifo) \/ n = NlMax
  BY <1>t, <1>1, NetworkingAssumption DEF NlType
<1>2. /\ units \in Seq(NlUnits) /\ Len(units) = n
      /\ \A i \in 1..n : units[i] = nlFifo[i]
  <2>1. nlFifo \in Seq(NlUnits)
    BY <1>t DEF NlType
  <2> HIDE DEF n
  <2>2. /\ SubSeq(nlFifo, 1, n) \in Seq(NlUnits) /\ Len(SubSeq(nlFifo, 1, n)) = n - 1 + 1
        /\ \A i \in 1..(n - 1 + 1) : SubSeq(nlFifo, 1, n)[i] = nlFifo[1 + i - 1]
    BY <2>1, <1>n, PieceOf, SMTT(30)
  <2> QED
    BY <2>2, <1>n
<1>3. /\ nlFifo' \in Seq(NlUnits) /\ Len(nlFifo') = Len(nlFifo) - n
      /\ \A i \in 1..Len(nlFifo') : nlFifo'[i] = nlFifo[n + i]
  <2>1. nlFifo \in Seq(NlUnits)
    BY <1>t DEF NlType
  <2> HIDE DEF n
  <2> DEFINE m == Len(nlFifo)
             k == n + 1
  <2>2. m \in Nat /\ k \in Nat \ {0} /\ m <= Len(nlFifo) /\ k <= m + 1
    BY <1>n
  <2>3. /\ m - k + 1 = Len(nlFifo) - n
        /\ \A i \in Nat : k + i - 1 = n + i
    BY <1>n
  <2>4. nlFifo' = SubSeq(nlFifo, k, m)
    BY <1>1
  <2> HIDE DEF m, k
  <2>5. /\ SubSeq(nlFifo, k, m) \in Seq(NlUnits) /\ Len(SubSeq(nlFifo, k, m)) = m - k + 1
        /\ \A i \in 1..(m - k + 1) : SubSeq(nlFifo, k, m)[i] = nlFifo[k + i - 1]
    BY <2>1, <2>2, PieceOf
  <2>6. nlFifo' \in Seq(NlUnits) /\ Len(nlFifo') = Len(nlFifo) - n
    BY <2>3, <2>4, <2>5
  <2>7. ASSUME NEW i \in 1..Len(nlFifo') PROVE nlFifo'[i] = nlFifo[n + i]
    <3>1. i \in 1..(m - k + 1) /\ k + i - 1 = n + i
      BY <2>3, <2>4, <2>5
    <3>2. nlFifo'[i] = nlFifo[k + i - 1]
      BY <2>4, <2>5, <3>1
    <3> QED
      BY <3>1, <3>2
  <2> QED
    BY <2>6, <2>7
<1>4. /\ nlReads' \in Seq([units : Seq(NlUnits), taken : BOOLEAN])
      /\ Len(nlReads') = Len(nlReads) + 1
      /\ \A i \in 1..Len(nlReads) : nlReads'[i] = nlReads[i]
      /\ nlReads'[Len(nlReads) + 1].units = units /\ nlReads'[Len(nlReads) + 1].taken = taken
      /\ Len(nlReads) \in Nat
  <2>1. taken \in BOOLEAN
    OBVIOUS
  <2> HIDE DEF taken, units, n
  <2> QED
    BY <2>1, <1>t, <1>1, <1>2 DEF NlType
<1> HIDE DEF n, units
<1>5. NlType'
  BY <1>t, <1>1, <1>3, <1>4 DEF NlType
<1>6. ASSUME NEW i \in 1..Len(nlFifo') PROVE n + i \in 1..Len(nlFifo) /\ nlFifo'[i] = nlFifo[n + i]
  BY <1>3, <1>n
<1>7. NlRuns(nlFifo', nlSent')
  <2> SUFFICES ASSUME NEW i \in 1..Len(nlFifo')
               PROVE  /\ nlFifo'[i][1] \in 1..Len(nlSent)
                      /\ nlFifo'[i][2] \in 1..nlSent[nlFifo'[i][1]].len
                      /\ \A k \in 0..NlMax : nlFifo'[i][2] + k <= nlSent[nlFifo'[i][1]].len =>
                           /\ i + k <= Len(nlFifo')
                           /\ nlFifo'[i + k] = <<nlFifo'[i][1], nlFifo'[i][2] + k>>
    BY <1>1 DEF NlRuns
  <2>1. n + i \in 1..Len(nlFifo) /\ nlFifo'[i] = nlFifo[n + i]
    BY <1>6
  <2>2. /\ nlFifo[n + i][1] \in 1..Len(nlSent)
        /\ nlFifo[n + i][2] \in 1..nlSent[nlFifo[n + i][1]].len
        /\ \A k \in 0..NlMax : nlFifo[n + i][2] + k <= nlSent[nlFifo[n + i][1]].len =>
             /\ n + i + k <= Len(nlFifo)
             /\ nlFifo[n + i + k] = <<nlFifo[n + i][1], nlFifo[n + i][2] + k>>
    BY <2>1 DEF NlInv, NlRuns
  <2>3. \A k \in 0..NlMax : n + i + k <= Len(nlFifo) =>
          i + k <= Len(nlFifo') /\ nlFifo'[i + k] = nlFifo[n + i + k]
    <3> SUFFICES ASSUME NEW k \in 0..NlMax, n + i + k <= Len(nlFifo)
                 PROVE  i + k <= Len(nlFifo') /\ nlFifo'[i + k] = nlFifo[n + i + k]
      OBVIOUS
    <3>1. i + k \in 1..Len(nlFifo') /\ n + (i + k) = n + i + k
      BY <1>3, <1>n
    <3> QED
      BY <3>1, <1>6
  <2> QED
    BY <2>1, <2>2, <2>3
<1>8. NlDistinct(nlFifo')
  <2> SUFFICES ASSUME NEW i \in 1..Len(nlFifo'), NEW j \in 1..Len(nlFifo'), nlFifo'[i] = nlFifo'[j]
               PROVE  i = j
    BY DEF NlDistinct
  <2>1. n + i = n + j
    BY <1>6 DEF NlInv, NlDistinct
  <2> QED
    BY <2>1, <1>3, <1>n
\* What was taken begins inside a frame, or with a whole one for this interface.
<1>in. ASSUME taken, units[1][2] # 1
       PROVE  NlInside(units, nlSent)
  <2>1. units[1] = nlFifo[1] /\ 1 \in 1..Len(nlFifo)
    BY <1>2, <1>n
  <2>2. /\ units[1][1] \in 1..Len(nlSent) /\ nlSent[units[1][1]].len \in 1..NlMax
        /\ units[1][2] \in 1..nlSent[units[1][1]].len
    BY <2>1, <1>f DEF NlInv, NlRuns
  <2>3. nlSent[units[1][1]].data = "header"
    BY <1>in DEF ParseFrame
  <2> QED
    BY <2>2, <2>3, <1>in DEF NlInside
<1>9. ASSUME taken, units[1][2] = 1
      PROVE  /\ units[1][1] \in 1..Len(nlSent) /\ nlSent[units[1][1]].dst = "me"
             /\ units[1] = <<units[1][1], 1>>
             /\ \A k \in 1..nlSent[units[1][1]].len : k <= n /\ units[k] = <<units[1][1], k>>
  <2> DEFINE f == units[1][1]
  <2>1. units[1] = nlFifo[1] /\ 1 \in 1..Len(nlFifo)
    BY <1>2, <1>n
  <2>2. units[1][2] = 1 /\ nlSent[f].dst = "me"
    BY <1>9 DEF DstMac
  <2>3. /\ f \in 1..Len(nlSent) /\ 1 \in 1..nlSent[f].len
        /\ \A k \in 0..NlMax : 1 + k <= nlSent[f].len =>
             1 + k <= Len(nlFifo) /\ nlFifo[1 + k] = <<f, 1 + k>>
    BY <2>1, <2>2 DEF NlInv, NlRuns
  <2>4. nlSent[f].len \in 1..NlMax
    BY <2>3, <1>f
  <2>5. ASSUME NEW k \in 1..nlSent[f].len PROVE k <= n /\ units[k] = <<f, k>>
    <3>1. k - 1 \in 0..NlMax /\ 1 + (k - 1) = k /\ k <= NlMax
      BY <2>4, <1>n, SMTT(30)
    <3>2. k <= Len(nlFifo) /\ nlFifo[k] = <<f, k>>
      BY <2>3, <3>1
    <3>3. k <= n
      BY <1>n, <3>1, <3>2
    <3> QED
      BY <1>2, <3>1, <3>2, <3>3, <1>n
  <2> QED
    BY <2>2, <2>3, <2>5
<1> HIDE DEF taken
<1>10. ASSUME NEW i \in 1..Len(nlReads) PROVE nlReads'[i] = nlReads[i] /\ i # Len(nlReads) + 1
  BY <1>4
<1>11. \A i \in 1..Len(nlReads') : i = Len(nlReads) + 1 \/ i \in 1..Len(nlReads)
  BY <1>4
\* The frame that was taken is not one that was taken before.
<1>12. ASSUME taken, units[1][2] = 1, NEW i \in 1..Len(nlReads), nlReads[i].taken
       PROVE  nlReads[i].units[1] # units[1]
  <2>1. \/ nlReads[i].units[1][2] > 1
        \/ \A j \in 1..Len(nlFifo) : nlFifo[j] # <<nlReads[i].units[1][1], 1>>
    BY <1>12 DEF NlInv, NlTaken, NlInside, NlWhole
  <2>2. units[1] = nlFifo[1] /\ 1 \in 1..Len(nlFifo)
    BY <1>2, <1>n
  <2>3. units[1] = <<units[1][1], 1>>
    BY <1>9, <1>12
  <2> QED
    BY <2>1, <2>2, <2>3, <1>12
<1>13. ASSUME NEW i \in 1..Len(nlReads') PROVE NlTaken(i)'
  <2> SUFFICES ASSUME nlReads'[i].taken PROVE NlTaken(i)'
    BY DEF NlTaken
  <2> DEFINE u == nlReads'[i].units
             f == u[1][1]
  <2>0. CASE i = Len(nlReads) + 1 /\ units[1][2] # 1
    <3>1. u = units /\ NlInside(units, nlSent)
      BY <1>4, <2>0, <1>in
    <3> QED
      BY <3>1, <1>1 DEF NlTaken, NlInside
  <2>1. CASE i = Len(nlReads) + 1 /\ units[1][2] = 1
    <3>1. u = units /\ taken
      BY <1>4, <2>1
    <3>2. /\ f \in 1..Len(nlSent) /\ nlSent[f].dst = "me" /\ units[1] = <<f, 1>>
          /\ \A k \in 1..nlSent[f].len : u[k] = <<f, k>>
      BY <2>1, <3>1, <1>9
    <3>3. \A j \in 1..Len(nlFifo') : nlFifo'[j] # <<f, 1>>
      <4> SUFFICES ASSUME NEW j \in 1..Len(nlFifo'), nlFifo'[j] = <<f, 1>> PROVE FALSE
        OBVIOUS
      <4>a. 1 \in 1..n /\ 1 \in 1..Len(nlFifo)
        BY <1>n
      <4>b. nlFifo[1] = <<f, 1>>
        BY <4>a, <1>2, <3>2
      <4>c. nlFifo[n + j] = <<f, 1>> /\ n + j \in 1..Len(nlFifo)
        BY <1>6
      <4>1. nlFifo[n + j] = nlFifo[1] /\ n + j \in 1..Len(nlFifo) /\ 1 \in 1..Len(nlFifo)
        BY <4>a, <4>b, <4>c
      <4>2. n + j = 1
        BY <4>1 DEF NlInv, NlDistinct
      <4> QED
        BY <4>2, <1>n, <1>3
    <3>4. \A j \in 1..Len(nlReads') : j # i /\ nlReads'[j].taken => nlReads'[j].units[1] # <<f, 1>>
      BY <1>10, <1>11, <1>12, <2>1, <3>1, <3>2
    <3>5. NlWhole(i, nlReads[i].units)'
      BY <3>2, <3>3, <3>4, <1>1 DEF NlWhole
    <3> QED
      BY <3>5 DEF NlTaken
  <2>2. CASE i \in 1..Len(nlReads)
    <3>1. nlReads'[i] = nlReads[i] /\ nlReads[i].taken
      BY <2>2, <1>10
    <3>i. NlInside(u, nlSent) \/ NlWhole(i, u)
      BY <2>2, <3>1 DEF NlInv, NlTaken
    <3>j. CASE NlInside(u, nlSent)
      BY <3>j, <1>1 DEF NlTaken, NlInside
    <3> SUFFICES ASSUME NlWhole(i, u) PROVE NlTaken(i)'
      BY <3>i, <3>j
    <3>2. /\ f \in 1..Len(nlSent) /\ nlSent[f].dst = "me"
          /\ \A k \in 1..nlSent[f].len : u[k] = <<f, k>>
          /\ \A j \in 1..Len(nlFifo) : nlFifo[j] # <<f, 1>>
          /\ \A j \in 1..Len(nlReads) : j # i /\ nlReads[j].taken => nlReads[j].units[1] # <<f, 1>>
      BY DEF NlWhole
    <3>3. \A j \in 1..Len(nlFifo') : nlFifo'[j] # <<f, 1>>
      BY <3>2, <1>6
    <3>4. \A j \in 1..Len(nlReads') : j # i /\ nlReads'[j].taken => nlReads'[j].units[1] # <<f, 1>>
      <4> SUFFICES ASSUME NEW j \in 1..Len(nlReads'), j # i, nlReads'[j].taken
                   PROVE  nlReads'[j].units[1] # <<f, 1>>
        OBVIOUS
      <4>1. CASE j \in 1..Len(nlReads)
        BY <4>1, <3>2, <1>10
      <4>2. CASE j = Len(nlReads) + 1
        <5>1. nlReads'[j].units = units /\ 1 \in 1..Len(nlFifo) /\ units[1] = nlFifo[1]
          BY <4>2, <1>4, <1>2, <1>n
        <5> QED
          BY <5>1, <3>2
      <4> QED
        BY <4>1, <4>2, <1>11
    <3>5. NlWhole(i, nlReads[i].units)'
      BY <3>2, <3>3, <3>4, <1>1 DEF NlWhole
    <3> QED
      BY <3>5 DEF NlTaken
  <2> QED
    BY <2>0, <2>1, <2>2, <1>11
<1>14. ASSUME NEW f \in 1..Len(nlSent')
       PROVE  nlSent'[f].dst = "other" \/ NlWaits(f)' \/ NlRead(f)'
  <2>1. nlSent[f].dst = "other" \/ NlWaits(f) \/ NlRead(f)
    BY <1>1 DEF NlInv
  <2>2. ASSUME NlRead(f) PROVE NlRead(f)'
    <3>1. PICK i \in 1..Len(nlReads) : \E k \in 1..Len(nlReads[i].units) :
            /\ nlReads[i].units[k] = <<f, 1>>
            /\ k > 1 \/ nlReads[i].taken \/ nlReads[i].units = << <<f, 1>> >>
      BY <2>2 DEF NlRead
    <3>2. i \in 1..Len(nlReads') /\ nlReads'[i] = nlReads[i]
      BY <1>4, <1>10
    <3> QED
      BY <3>1, <3>2 DEF NlRead
  <2>3. ASSUME nlSent[f].dst # "other", NEW k \in 1..Len(nlFifo), nlFifo[k] = <<f, 1>>
        PROVE  NlWaits(f)' \/ NlRead(f)'
    <3>1. CASE k <= n
      <4>1. k \in 1..Len(units) /\ units[k] = <<f, 1>>
        BY <3>1, <2>3, <1>2, <1>n
      <4>2. k > 1 \/ taken \/ units = << <<f, 1>> >>
        <5> SUFFICES ASSUME k = 1 PROVE taken \/ units = << <<f, 1>> >>
          BY <1>n
        <5>1. units[1][2] = 1 /\ units[1][1] = f
          BY <4>1
        <5>2. nlSent[f].dst = "me"
          BY <2>3, <1>1, <1>f
        <5>3. n >= 2 => taken
          BY <5>1, <5>2 DEF taken, ParseFrame, DstMac
        <5>4. n = 1 => units = << <<f, 1>> >>
          <6> DEFINE v == <<f, 1>>
          <6>1. units[1] = v /\ (n = 1 => Len(units) = 1) /\ units \in Seq(NlUnits)
            BY <4>1, <1>2
          <6>2. ASSUME NEW w, NEW t \in Seq(NlUnits), Len(t) = 1, t[1] = w
                PROVE  t = <<w>>
            BY <6>2
          <6> HIDE DEF v
          <6>3. n = 1 => units = <<v>>
            BY <6>1, <6>2
          <6> QED
            BY <6>3 DEF v
        <5> QED
          BY <5>3, <5>4, <1>n
      <4>3. Len(nlReads) + 1 \in 1..Len(nlReads')
        BY <1>4
      <4> QED
        BY <4>1, <4>2, <4>3, <1>4 DEF NlRead
    <3>2. CASE k > n
      <4>1. k - n \in 1..Len(nlFifo') /\ n + (k - n) = k
        BY <3>2, <1>3, <1>n
      <4>2. nlFifo'[k - n] = <<f, 1>>
        BY <4>1, <1>6, <2>3
      <4> QED
        BY <4>1, <4>2 DEF NlWaits
    <3> QED
      BY <3>1, <3>2, <1>n
  <2> QED
    BY <2>1, <2>2, <2>3, <1>1 DEF NlWaits
<1> QED
  BY <1>5, <1>7, <1>8, <1>13, <1>14 DEF NlInv

LEMMA NlNextInv ==
  ASSUME NlInv, [NlNext]_nlVars
  PROVE  NlInv'
<1>1. CASE UNCHANGED nlVars
  BY <1>1 DEF nlVars, NlInv, NlType, NlTaken, NlInside, NlWhole, NlWaits, NlRead
<1> QED
  BY <1>1, NlSends, NlReceives DEF NlNext

\* Whatever pieces read(2) gets of the link, what is taken for a frame is a frame sent
\* to this interface, whole and taken once, unless the read began at data that reads like
\* a header; and a frame is missed only when it was read behind another one, or was too
\* short and alone.
THEOREM NlIsGenuine == NlSpec => []NlGenuine
<1>1. NlInv /\ [NlNext]_nlVars => NlInv'
  BY NlNextInv
<1>2. ASSUME NlInv PROVE NlGenuine
  <2>1. /\ DOMAIN nlSent = 1..Len(nlSent) /\ DOMAIN nlFifo = 1..Len(nlFifo)
        /\ DOMAIN nlReads = 1..Len(nlReads)
        /\ \A i \in 1..Len(nlReads) : DOMAIN nlReads[i].units = 1..Len(nlReads[i].units)
    BY <1>2 DEF NlInv, NlType
  <2>2. ASSUME NEW f \in DOMAIN nlSent
        PROVE  \/ nlSent[f].dst = "other"
               \/ \E k \in DOMAIN nlFifo : nlFifo[k] = <<f, 1>>
               \/ \E i \in DOMAIN nlReads : \E k \in DOMAIN nlReads[i].units :
                    /\ nlReads[i].units[k] = <<f, 1>>
                    /\ k > 1 \/ nlReads[i].taken \/ nlReads[i].units = << <<f, 1>> >>
    BY <1>2, <2>1 DEF NlInv, NlWaits, NlRead
  <2>3. ASSUME NEW i \in DOMAIN nlReads, nlReads[i].taken
        PROVE  LET f == nlReads[i].units[1][1] IN
               \/ nlReads[i].units[1][2] > 1 /\ nlSent[f].data = "header"
               \/ /\ nlSent[f].dst = "me"
                  /\ \A k \in 1..nlSent[f].len : nlReads[i].units[k] = <<f, k>>
                  /\ \A j \in DOMAIN nlReads :
                       j # i /\ nlReads[j].taken => nlReads[j].units[1] # <<f, 1>>
    BY <1>2, <2>1, <2>3 DEF NlInv, NlTaken, NlInside, NlWhole
  <2> QED
    BY <2>2, <2>3 DEF NlGenuine
<1> QED
  BY <1>1, <1>2, NlInitInv, PTL DEF NlSpec
----------------------------------------------------------------------------
(* The web server.                                                         *)

WsAsks == {<<>>, <<"bad", "bad">>} \cup {<<"GET", f>> : f \in WsFiles}

\* f is what client c asked for, if recv(2) got its whole request; and version n of it,
\* the last one if it is the second.
WsPage(c, f, n) ==
  /\ wsAsk[c] = <<"GET", f>> \/ wsGot[c] < 2
  /\ n = 2 => wsDisk[f] = 2

\* What a client was sent: nothing, an error, the header, or the header and the body.
WsRight(c) ==
  \/ wsReply[c] \in {<<>>, << <<"closed">> >>, << <<"404">> >>, << <<"400">> >>}
  \/ \E f \in WsFiles, n \in {1, 2} :
       /\ WsPage(c, f, n)
       /\ \/ wsReply[c] = << <<"header", f, n>> >>
          \/ \E v \in {1, 2} : /\ v = n \/ wsDisk[f] # n
                               /\ wsReply[c] = << <<"header", f, n>>, <<"body", f, v>> >>

WsType ==
  /\ wsPeer \in [WsClients -> {"away", "here", "gone"}] /\ wsAsk \in [WsClients -> WsAsks]
  /\ wsGot \in [WsClients -> 0..2] /\ wsDisk \in [WsFiles -> 0..2]
  /\ DOMAIN wsReply = WsClients /\ wsPath \in WsFiles \cup {"lost"}
  /\ wsPc \in {"accept", "recv", "parse", "open", "body"}
  /\ wsPc # "accept" => wsServed \in WsClients /\ wsPeer[wsServed] # "away"

\* The client being served, at each place of handle_client().
WsServing ==
  /\ wsPc \in {"recv", "parse", "open"} => wsReply[wsServed] = <<>>
  /\ wsPc = "parse" /\ wsGot[wsServed] = 2 =>
       /\ wsAsk[wsServed] # <<>>
       /\ wsBuff[1] = wsAsk[wsServed][1] /\ wsBuff[2] = wsAsk[wsServed][2]
  /\ wsPc \in {"open", "body"} =>
       /\ wsPath \in WsFiles /\ wsLen \in {1, 2} /\ WsPage(wsServed, wsPath, wsLen)
  /\ wsPc = "body" => wsReply[wsServed] = << <<"header", wsPath, wsLen>> >>

WsInv ==
  /\ WsType /\ WsServing
  /\ \A c \in WsClients : WsRight(c)
  /\ \A c \in WsClients : wsPeer[c] = "away" => wsAsk[c] = <<>> /\ wsReply[c] = <<>>
  /\ wsLife = "killed" => wsPc = "body" /\ wsPeer[wsServed] = "gone"

LEMMA WsInitInv == WsInit => WsInv
<1> SUFFICES ASSUME WsInit PROVE WsInv
  OBVIOUS
<1>1. WsType
  BY DEF WsInit, WsType, WsAsks
<1>2. WsServing
  BY DEF WsInit, WsServing
<1>3. \A c \in WsClients : WsRight(c) /\ wsAsk[c] = <<>> /\ wsReply[c] = <<>>
  BY DEF WsInit, WsRight
<1> QED
  BY <1>1, <1>2, <1>3 DEF WsInit, WsInv

\* What a request looks like.
LEMMA WsRequests ==
  /\ \A f : <<"GET", f>> # <<>> /\ <<"GET", f>>[1] = "GET" /\ <<"GET", f>>[2] = f
  /\ <<"bad", "bad">> # <<>> /\ <<"bad", "bad">>[1] = "bad" /\ <<"bad", "bad">>[2] = "bad"
  OBVIOUS

\* Requests stay, and only a first version of a file changes.
WsStays ==
  /\ \A d \in WsClients, f \in WsFiles : wsAsk[d] = <<"GET", f>> => wsAsk'[d] = <<"GET", f>>
  /\ \A f \in WsFiles : wsDisk'[f] = wsDisk[f] \/ (wsDisk[f] = 1 /\ wsDisk'[f] \in {0, 2})

\* So a page that was right stays right.
LEMMA WsKeepsPage ==
  ASSUME WsStays, NEW c \in WsClients, wsGot'[c] = wsGot[c], NEW f \in WsFiles, NEW n \in {1, 2}
  PROVE  /\ WsPage(c, f, n) => WsPage(c, f, n)'
         /\ WsPage(c, f, n) /\ wsDisk[f] # n => wsDisk'[f] # n
  BY DEF WsStays, WsPage

LEMMA WsKeeps ==
  ASSUME WsStays, NEW c \in WsClients, wsGot'[c] = wsGot[c], wsReply'[c] = wsReply[c], WsRight(c)
  PROVE  WsRight(c)'
<1>1. CASE wsReply[c] \in {<<>>, << <<"closed">> >>, << <<"404">> >>, << <<"400">> >>}
  BY <1>1 DEF WsRight
<1>2. ASSUME NEW f \in WsFiles, NEW n \in {1, 2}, WsPage(c, f, n),
             \/ wsReply[c] = << <<"header", f, n>> >>
             \/ \E v \in {1, 2} : /\ v = n \/ wsDisk[f] # n
                                  /\ wsReply[c] = << <<"header", f, n>>, <<"body", f, v>> >>
      PROVE  WsRight(c)'
  <2>1. WsPage(c, f, n)' /\ (wsDisk[f] # n => wsDisk'[f] # n)
    BY <1>2, WsKeepsPage
  <2> QED
    BY <1>2, <2>1 DEF WsRight
<1> QED
  BY <1>1, <1>2 DEF WsRight

LEMMA WsWorldInv ==
  ASSUME WsInv, WsWorld
  PROVE  WsInv'
<1>u. UNCHANGED <<wsBuff, wsPath, wsServed, wsPc, wsGot, wsReply, wsLen, wsLife>> /\ wsLife = "serving"
  BY DEF WsWorld
<1>t. WsType
  BY DEF WsInv
<1> DEFINE Kept ==
             /\ WsStays /\ WsType'
             /\ \A c \in WsClients : wsPeer'[c] = "away" =>
                  wsPeer[c] = "away" /\ wsAsk'[c] = wsAsk[c]
             /\ \A c \in WsClients : wsPeer[c] # "away" => wsAsk'[c] = wsAsk[c]
<1>1. Kept
  <2>1. ASSUME NEW c \in WsClients, wsPeer[c] = "away", wsPeer' = [wsPeer EXCEPT ![c] = "here"],
               NEW r \in {<<>>, <<"bad", "bad">>} \cup {<<"GET", f>> : f \in WsFiles},
               wsAsk' = [wsAsk EXCEPT ![c] = r], UNCHANGED wsDisk
        PROVE  Kept
    <3>1. wsAsk[c] = <<>>
      BY <2>1 DEF WsInv
    <3>2. WsStays
      <4>1. \A d \in WsClients : wsAsk[d] # <<>> => wsAsk'[d] = wsAsk[d]
        BY <2>1, <3>1, <1>t DEF WsType
      <4> QED
        BY <2>1, <4>1, WsRequests DEF WsStays
    <3>3. WsType'
      BY <2>1, <1>t, <1>u DEF WsType, WsAsks
    <3> QED
      BY <2>1, <3>2, <3>3, <1>t DEF WsType
  <2>2. ASSUME NEW c \in WsClients, wsPeer[c] = "here", wsPeer' = [wsPeer EXCEPT ![c] = "gone"],
               UNCHANGED <<wsAsk, wsDisk>>
        PROVE  Kept
    <3>1. WsStays
      BY <2>2 DEF WsStays
    <3>2. WsType'
      BY <2>2, <1>t, <1>u DEF WsType
    <3> QED
      BY <2>2, <3>1, <3>2, <1>t DEF WsType
  <2>3. ASSUME NEW f \in WsFiles, NEW v \in {0, 2},
               wsDisk[f] = 1, wsDisk' = [wsDisk EXCEPT ![f] = v], UNCHANGED <<wsPeer, wsAsk>>
        PROVE  Kept
    <3>1. WsStays
      <4>1. \A g \in WsFiles : wsDisk'[g] = wsDisk[g] \/ (wsDisk[g] = 1 /\ wsDisk'[g] \in {0, 2})
        BY <2>3, <1>t DEF WsType
      <4> QED
        BY <2>3, <4>1 DEF WsStays
    <3>2. WsType'
      <4>1. wsDisk' \in [WsFiles -> 0..2]
        BY <2>3, <1>t DEF WsType
      <4> QED
        BY <2>3, <4>1, <1>t, <1>u DEF WsType
    <3> QED
      BY <2>3, <3>1, <3>2
  <2> QED
    BY <2>1, <2>2, <2>3 DEF WsWorld
<1>2. WsServing'
  <2>1. WsServing
    BY DEF WsInv
  <2>2. /\ wsPc \in {"recv", "parse", "open"} => wsReply[wsServed] = <<>>
        /\ wsPc = "parse" /\ wsGot[wsServed] = 2 =>
             /\ wsAsk'[wsServed] # <<>>
             /\ wsBuff[1] = wsAsk'[wsServed][1] /\ wsBuff[2] = wsAsk'[wsServed][2]
        /\ wsPc = "body" => wsReply[wsServed] = << <<"header", wsPath, wsLen>> >>
    BY <2>1, <1>t, <1>1 DEF WsServing, WsType
  <2>4. ASSUME wsPc \in {"open", "body"}
        PROVE  /\ wsPath \in WsFiles /\ wsLen \in {1, 2}
               /\ WsPage(wsServed, wsPath, wsLen)'
    <3>1. wsPath \in WsFiles /\ wsLen \in {1, 2} /\ WsPage(wsServed, wsPath, wsLen)
      BY <2>1, <2>4 DEF WsServing
    <3>2. wsServed \in WsClients /\ wsGot'[wsServed] = wsGot[wsServed]
      BY <2>4, <1>t, <1>u DEF WsType
    <3>3. ASSUME NEW c \in WsClients, NEW f \in WsFiles, NEW m \in {1, 2}, wsGot'[c] = wsGot[c],
                 WsPage(c, f, m)
          PROVE  WsPage(c, f, m)'
      BY <3>3, <1>1, WsKeepsPage
    <3> QED
      BY <3>1, <3>2, <3>3, <1>u DEF WsPage
  <2> QED
    BY <2>2, <2>4, <1>u DEF WsServing
<1>4. ASSUME NEW c \in WsClients PROVE WsRight(c)'
  BY <1>1, <1>u, WsKeeps DEF WsInv
<1>5. ASSUME NEW c \in WsClients, wsPeer'[c] = "away" PROVE wsAsk'[c] = <<>> /\ wsReply'[c] = <<>>
  BY <1>1, <1>u, <1>5 DEF WsInv
<1> QED
  BY <1>1, <1>2, <1>4, <1>5, <1>u DEF WsInv

\* What the steps of the server keep when only the client being served is sent something.
LEMMA WsServesOne ==
  ASSUME WsInv, wsServed \in WsClients, UNCHANGED <<wsPeer, wsAsk, wsDisk, wsServed>>,
         \A c \in WsClients \ {wsServed} :
           wsGot'[c] = wsGot[c] /\ wsReply'[c] = wsReply[c],
         WsRight(wsServed)', wsPeer[wsServed] # "away"
  PROVE  /\ \A c \in WsClients : WsRight(c)'
         /\ \A c \in WsClients : wsPeer'[c] = "away" => wsAsk'[c] = <<>> /\ wsReply'[c] = <<>>
<1>1. WsStays
  BY DEF WsStays
<1>2. ASSUME NEW c \in WsClients, c # wsServed PROVE WsRight(c)'
  BY <1>1, <1>2, WsKeeps DEF WsInv
<1>3. ASSUME NEW c \in WsClients, c = wsServed PROVE WsRight(c)'
  <2>1. wsServed' = wsServed
    OBVIOUS
  <2> QED
    BY <1>3, <2>1 DEF WsRight, WsPage
<1>4. ASSUME NEW c \in WsClients, wsPeer'[c] = "away" PROVE wsAsk'[c] = <<>> /\ wsReply'[c] = <<>>
  BY <1>4 DEF WsInv
<1> QED
  BY <1>2, <1>3, <1>4

LEMMA WsAcceptInv ==
  ASSUME WsInv, WsAccept
  PROVE  WsInv'
<1>u. /\ UNCHANGED <<wsPeer, wsAsk, wsBuff, wsPath, wsGot, wsReply, wsDisk, wsLen, wsLife>>
      /\ wsPc = "accept" /\ wsPc' = "recv" /\ wsLife = "serving"
      /\ wsServed' \in WsClients /\ wsPeer[wsServed'] # "away" /\ wsReply[wsServed'] = <<>>
  BY DEF WsAccept
<1>1. WsType'
  BY <1>u DEF WsInv, WsType
<1>2. WsServing'
  BY <1>u DEF WsInv, WsServing
<1>3. ASSUME NEW c \in WsClients
      PROVE  WsRight(c)' /\ (wsPeer'[c] = "away" => wsAsk'[c] = <<>> /\ wsReply'[c] = <<>>)
  BY <1>u, WsKeeps DEF WsInv, WsStays
<1> QED
  BY <1>1, <1>2, <1>3, <1>u DEF WsInv

LEMMA WsRecvInv ==
  ASSUME WsInv, WsRecv
  PROVE  WsInv'
<1>u. UNCHANGED <<wsPeer, wsAsk, wsPath, wsServed, wsDisk, wsLen, wsLife>> /\ wsPc = "recv"
  BY DEF WsRecv
<1>t. /\ WsType /\ wsServed \in WsClients /\ wsPeer[wsServed] # "away"
      /\ wsReply[wsServed] = <<>> /\ wsLife # "killed"
  BY <1>u DEF WsInv, WsType, WsServing
<1>1. ASSUME NEW n \in 0..Len(wsAsk[wsServed]), NEW cut \in BOOLEAN,
             wsGot' = [wsGot EXCEPT ![wsServed] = n],
             wsBuff' = [i \in 1..2 |-> CASE i <= n -> wsAsk[wsServed][i]
                                         [] i = n + 1 /\ cut -> "mixed"
                                         [] OTHER -> wsBuff[i]],
             wsPc' = "parse", UNCHANGED wsReply
      PROVE  WsInv'
  <2>n. n \in 0..2 /\ (n = 2 => wsAsk[wsServed] # <<>>)
    <3>1. wsAsk[wsServed] \in WsAsks
      BY <1>t DEF WsType
    <3> DEFINE m == Len(wsAsk[wsServed])
    <3>2. m \in 0..2 /\ (wsAsk[wsServed] = <<>> => m = 0)
      BY <3>1 DEF WsAsks
    <3>3. n \in 0..m
      OBVIOUS
    <3> HIDE DEF m
    <3> QED
      BY <3>2, <3>3
  <2>1. WsType'
    <3>1. wsGot' \in [WsClients -> 0..2]
      BY <1>1, <1>t, <2>n DEF WsType
    <3> QED
      BY <1>1, <1>t, <1>u, <3>1 DEF WsType
  <2>2. WsServing'
    <3>1. wsGot'[wsServed] = n
      BY <1>1, <1>t DEF WsType
    <3>2. n = 2 => wsBuff'[1] = wsAsk[wsServed][1] /\ wsBuff'[2] = wsAsk[wsServed][2]
      BY <1>1
    <3> QED
      BY <1>1, <1>t, <1>u, <2>n, <3>1, <3>2 DEF WsServing
  <2>4. /\ WsRight(wsServed)'
        /\ \A c \in WsClients \ {wsServed} : wsGot'[c] = wsGot[c] /\ wsReply'[c] = wsReply[c]
    BY <1>1, <1>t, <1>u DEF WsRight, WsType
  <2>5. /\ \A c \in WsClients : WsRight(c)'
        /\ \A c \in WsClients : wsPeer'[c] = "away" => wsAsk'[c] = <<>> /\ wsReply'[c] = <<>>
    BY <2>4, <1>t, <1>u, WsServesOne
  <2> QED
    BY <2>1, <2>2, <2>5, <1>t, <1>u DEF WsInv
<1>2. ASSUME wsReply' = [wsReply EXCEPT ![wsServed] = << <<"closed">> >>],
             wsPc' = "accept", UNCHANGED <<wsGot, wsBuff>>
      PROVE  WsInv'
  <2>1. WsType' /\ WsServing'
    BY <1>2, <1>t, <1>u DEF WsType, WsServing, WsInv
  <2>2. /\ WsRight(wsServed)'
        /\ \A c \in WsClients \ {wsServed} : wsGot'[c] = wsGot[c] /\ wsReply'[c] = wsReply[c]
    BY <1>2, <1>t, <1>u DEF WsRight, WsType
  <2>3. /\ \A c \in WsClients : WsRight(c)'
        /\ \A c \in WsClients : wsPeer'[c] = "away" => wsAsk'[c] = <<>> /\ wsReply'[c] = <<>>
    BY <2>2, <1>t, <1>u, WsServesOne
  <2> QED
    BY <2>1, <2>3, <1>t, <1>u DEF WsInv
<1> QED
  BY <1>1, <1>2 DEF WsRecv

\* An answer that is all there is: 400 or 404.
LEMMA WsErrs ==
  ASSUME WsInv, wsPc \in {"parse", "open"}, NEW e \in {<<"400">>, <<"404">>},
         WsSend(e, "accept"), UNCHANGED <<wsPeer, wsAsk, wsBuff, wsServed, wsGot, wsDisk, wsLen>>,
         wsPath' \in WsFiles \cup {"lost"}
  PROVE  WsInv'
<1>t. /\ WsType /\ wsServed \in WsClients /\ wsPeer[wsServed] # "away"
      /\ wsReply[wsServed] = <<>> /\ wsLife # "killed"
  BY DEF WsInv, WsType, WsServing
<1>1. /\ wsReply' = [wsReply EXCEPT ![wsServed] = <<e>>]
      /\ wsPc' = "accept" /\ UNCHANGED wsLife
  BY <1>t DEF WsSend
<1>2. WsType' /\ WsServing'
  BY <1>1, <1>t DEF WsType, WsServing, WsInv
<1>3. /\ WsRight(wsServed)'
      /\ \A c \in WsClients \ {wsServed} : wsGot'[c] = wsGot[c] /\ wsReply'[c] = wsReply[c]
  BY <1>1, <1>t DEF WsRight, WsType
<1>4. /\ \A c \in WsClients : WsRight(c)'
      /\ \A c \in WsClients : wsPeer'[c] = "away" => wsAsk'[c] = <<>> /\ wsReply'[c] = <<>>
  BY <1>3, <1>t, WsServesOne
<1> QED
  BY <1>1, <1>2, <1>4, <1>t DEF WsInv

LEMMA WsParseInv ==
  ASSUME WsInv, WsParse
  PROVE  WsInv'
<1>u. UNCHANGED <<wsPeer, wsAsk, wsBuff, wsServed, wsGot, wsDisk>> /\ wsPc = "parse"
  BY DEF WsParse
<1>t. /\ WsType /\ wsServed \in WsClients /\ wsPeer[wsServed] # "away"
      /\ wsReply[wsServed] = <<>> /\ wsLife # "killed"
  BY <1>u DEF WsInv, WsType, WsServing
<1>0. WsNames \subseteq WsFiles \cup {"lost", "none"}
  BY DEF WsNames
<1>1. ASSUME NEW e \in {<<"400">>, <<"404">>}, WsSend(e, "accept"), UNCHANGED wsLen,
             wsPath' \in WsFiles \cup {"lost"}
      PROVE  WsInv'
  BY <1>1, <1>u, WsErrs
<1>2. ASSUME NEW f \in WsNames, f # "none", wsPath' = f, ~(f = "lost" \/ wsDisk[f] = 0),
             wsLen' = wsDisk[f], wsPc' = "open", UNCHANGED <<wsReply, wsLife>>
      PROVE  WsInv'
  <2>0. f \in WsFiles
    BY <1>0, <1>2
  <2>1. WsType'
    BY <2>0, <1>2, <1>t, <1>u DEF WsType
  <2>2. wsLen' \in {1, 2}
    BY <2>0, <1>2, <1>t DEF WsType
  <2>3. WsPage(wsServed, f, wsLen')
    <3>1. CASE wsGot[wsServed] = 2
      <4>1. /\ wsAsk[wsServed] \in WsAsks /\ wsAsk[wsServed] # <<>>
            /\ wsBuff[1] = wsAsk[wsServed][1] /\ wsBuff[2] = wsAsk[wsServed][2]
        BY <1>u, <1>t, <3>1 DEF WsInv, WsServing, WsType
      <4>2. wsAsk[wsServed] # <<"bad", "bad">>
        <5>1. wsAsk[wsServed] = <<"bad", "bad">> => WsNames = {"none"}
          BY <4>1, WsRequests DEF WsNames
        <5> QED
          BY <5>1, <1>2
      <4>3. PICK g \in WsFiles : wsAsk[wsServed] = <<"GET", g>>
        BY <4>1, <4>2 DEF WsAsks
      <4>4. wsBuff[1] = "GET" /\ wsBuff[2] = g /\ g # "zero"
        BY <4>1, <4>3, WsRequests, NetworkingAssumption
      <4>5. WsNames = {g}
        BY <4>4 DEF WsNames
      <4> QED
        BY <4>3, <4>5, <1>2 DEF WsPage
    <3>2. CASE wsGot[wsServed] # 2
      <4>1. wsGot[wsServed] < 2
        BY <3>2, <1>t DEF WsType
      <4> QED
        BY <4>1, <1>2 DEF WsPage
    <3> QED
      BY <3>1, <3>2
  <2>4. WsPage(wsServed, wsPath, wsLen)'
    BY <2>3, <1>u, <1>2 DEF WsPage
  <2>5. WsServing'
    BY <1>2, <1>u, <1>t, <2>0, <2>2, <2>4 DEF WsServing
  <2>6. ASSUME NEW c \in WsClients
        PROVE  WsRight(c)' /\ (wsPeer'[c] = "away" => wsAsk'[c] = <<>> /\ wsReply'[c] = <<>>)
    BY <1>2, <1>u, WsKeeps DEF WsInv, WsStays
  <2> QED
    BY <2>1, <2>5, <2>6, <1>2, <1>t DEF WsInv
<1>3. PICK f \in WsNames :
       \/ /\ f = "none" /\ WsSend(<<"400">>, "accept") /\ UNCHANGED <<wsPath, wsLen>>
       \/ /\ f # "none" /\ wsPath' = f
          /\ IF f = "lost" \/ wsDisk[f] = 0
             THEN WsSend(<<"404">>, "accept") /\ UNCHANGED wsLen
             ELSE wsLen' = wsDisk[f] /\ wsPc' = "open" /\ UNCHANGED <<wsReply, wsLife>>
  BY DEF WsParse
<1>4. f \in WsFiles \cup {"lost", "none"} /\ wsPath \in WsFiles \cup {"lost"}
  BY <1>0, <1>t DEF WsType
<1>5. CASE f = "none"
  BY <1>1, <1>3, <1>4, <1>5
<1>6. CASE f # "none" /\ (f = "lost" \/ wsDisk[f] = 0)
  BY <1>1, <1>3, <1>4, <1>6
<1>7. CASE f # "none" /\ ~(f = "lost" \/ wsDisk[f] = 0)
  BY <1>2, <1>3, <1>7
<1> QED
  BY <1>5, <1>6, <1>7

LEMMA WsOpenInv ==
  ASSUME WsInv, WsOpen
  PROVE  WsInv'
<1>u. UNCHANGED <<wsPeer, wsAsk, wsBuff, wsPath, wsServed, wsGot, wsDisk, wsLen>> /\ wsPc = "open"
  BY DEF WsOpen
<1>t. /\ WsType /\ wsServed \in WsClients /\ wsPeer[wsServed] # "away"
      /\ wsReply[wsServed] = <<>> /\ wsLife # "killed"
  BY <1>u DEF WsInv, WsType, WsServing
<1>1. CASE WsSend(<<"404">>, "accept")
  <2>1. wsPath' \in WsFiles \cup {"lost"}
    BY <1>t, <1>u DEF WsType
  <2> QED
    BY <1>1, <2>1, <1>u, WsErrs
<1>2. CASE WsSend(<<"header", wsPath, wsLen>>, "body")
  <2>1. /\ wsReply' = [wsReply EXCEPT ![wsServed] = << <<"header", wsPath, wsLen>> >>]
        /\ wsPc' = "body" /\ UNCHANGED wsLife
    BY <1>2, <1>t DEF WsSend
  <2>2. wsPath \in WsFiles /\ wsLen \in {1, 2} /\ WsPage(wsServed, wsPath, wsLen)
    BY <1>u DEF WsInv, WsServing
  <2>4. WsPage(wsServed, wsPath, wsLen)'
    BY <2>2, <1>u DEF WsPage
  <2>5. wsReply'[wsServed] = << <<"header", wsPath, wsLen>> >>
    BY <2>1, <1>t DEF WsType
  <2>6. WsType'
    BY <2>1, <1>t, <1>u DEF WsType
  <2>7. WsServing'
    BY <2>1, <2>2, <2>4, <2>5, <1>u DEF WsServing
  <2>8. WsRight(wsServed)'
    <3>1. WsPage(wsServed, wsPath, wsLen)' /\ wsReply'[wsServed] = << <<"header", wsPath, wsLen>> >>
          /\ wsPath' = wsPath /\ wsLen' = wsLen /\ wsServed' = wsServed
      BY <2>4, <2>5, <1>u
    <3> QED
      BY <2>2, <3>1 DEF WsRight, WsPage
  <2>9. \A c \in WsClients \ {wsServed} : wsGot'[c] = wsGot[c] /\ wsReply'[c] = wsReply[c]
    BY <2>1, <1>t, <1>u DEF WsType
  <2>10. /\ \A c \in WsClients : WsRight(c)'
         /\ \A c \in WsClients : wsPeer'[c] = "away" => wsAsk'[c] = <<>> /\ wsReply'[c] = <<>>
    BY <2>8, <2>9, <1>t, <1>u, WsServesOne
  <2> QED
    BY <2>1, <2>6, <2>7, <2>10, <1>t DEF WsInv
<1> QED
  BY <1>1, <1>2 DEF WsOpen

LEMMA WsBodyInv ==
  ASSUME WsInv, WsBody
  PROVE  WsInv'
<1>u. /\ UNCHANGED <<wsPeer, wsAsk, wsPath, wsServed, wsGot, wsDisk, wsLen>> /\ wsPc = "body"
      /\ wsBuff' = <<"page", "page">> /\ wsLife = "serving"
  BY DEF WsBody
<1>t. WsType /\ wsServed \in WsClients /\ wsPeer[wsServed] # "away"
  BY <1>u DEF WsInv, WsType
<1> DEFINE f == wsPath
<1>1. /\ f \in WsFiles /\ wsReply[wsServed] = << <<"header", f, wsLen>> >>
      /\ wsLen \in {1, 2} /\ WsPage(wsServed, f, wsLen)
  BY <1>u DEF WsInv, WsServing
<1>2. wsReply[wsServed] # <<>>
  BY <1>1
<1>3. PICK v \in {wsDisk[f], wsLen} \ {0} : WsSend(<<"body", f, v>>, "accept")
  BY DEF WsBody
<1>4. v \in {1, 2} /\ (v = wsLen \/ wsDisk[f] # wsLen)
  BY <1>1, <1>3, <1>t DEF WsType
<1>p. WsPage(wsServed, f, wsLen)'
  BY <1>1, <1>u DEF WsPage
<1>5. CASE wsReply' = [wsReply EXCEPT ![wsServed] = Append(@, <<"body", f, v>>)]
           /\ wsPc' = "accept" /\ UNCHANGED wsLife
  <2>1. wsReply'[wsServed] = << <<"header", f, wsLen>>, <<"body", f, v>> >>
    <3>1. wsReply'[wsServed] = Append(wsReply[wsServed], <<"body", f, v>>)
      BY <1>5, <1>t DEF WsType
    <3>2. \A x, y : Append(<<x>>, y) = <<x, y>>
      <4> TAKE x, y
      <4>1. <<x>> \in Seq({x, y}) /\ Len(<<x>>) = 1 /\ <<x>>[1] = x
        OBVIOUS
      <4> DEFINE t == Append(<<x>>, y)
      <4>2. t \in Seq({x, y}) /\ Len(t) = 2 /\ t[1] = x /\ t[2] = y
        BY <4>1
      <4> HIDE DEF t
      <4>3. t = <<x, y>>
        BY <4>2
      <4> QED
        BY <4>3 DEF t
    <3> QED
      BY <3>1, <3>2, <1>1
  <2>2. WsRight(wsServed)'
    BY <2>1, <1>1, <1>4, <1>p, <1>u DEF WsRight
  <2>3. WsType' /\ WsServing'
    BY <1>5, <1>t, <1>u DEF WsType, WsServing
  <2>4. \A c \in WsClients \ {wsServed} : wsGot'[c] = wsGot[c] /\ wsReply'[c] = wsReply[c]
    BY <1>5, <1>t, <1>u DEF WsType
  <2>5. /\ \A c \in WsClients : WsRight(c)'
        /\ \A c \in WsClients : wsPeer'[c] = "away" => wsAsk'[c] = <<>> /\ wsReply'[c] = <<>>
    BY <2>2, <2>4, <1>t, <1>u, WsServesOne
  <2> QED
    BY <1>5, <2>3, <2>5, <1>u DEF WsInv
<1>6. CASE wsPeer[wsServed] = "gone" /\ wsLife' = "killed" /\ UNCHANGED <<wsReply, wsPc>>
  <2>1. WsType' /\ WsServing'
    BY <1>6, <1>1, <1>t, <1>u, <1>p DEF WsType, WsServing
  <2>2. ASSUME NEW c \in WsClients
        PROVE  WsRight(c)' /\ (wsPeer'[c] = "away" => wsAsk'[c] = <<>> /\ wsReply'[c] = <<>>)
    BY <1>6, <1>u, WsKeeps DEF WsInv, WsStays
  <2> QED
    BY <1>6, <2>1, <2>2, <1>u DEF WsInv
<1> QED
  BY <1>3, <1>5, <1>6 DEF WsSend

LEMMA WsNextInv ==
  ASSUME WsInv, [WsNext]_wsVars
  PROVE  WsInv'
<1>1. CASE UNCHANGED wsVars
  <2>1. WsType' /\ WsServing'
    BY <1>1 DEF wsVars, WsInv, WsType, WsServing, WsPage
  <2>2. ASSUME NEW c \in WsClients PROVE WsRight(c)'
    BY <1>1, WsKeeps DEF wsVars, WsInv, WsStays
  <2> QED
    BY <1>1, <2>1, <2>2 DEF wsVars, WsInv
<1> QED
  BY <1>1, WsWorldInv, WsAcceptInv, WsRecvInv, WsParseInv, WsOpenInv, WsBodyInv
  DEF WsNext, WsServer

\* A client whose request recv(2) got whole gets the file it asked for; the body is as long
\* as the header says unless the file was changed; and only a client that left between the
\* two ends the server.
THEOREM WsIsOwn == WsSpec => []WsOwn
<1>1. WsInv /\ [WsNext]_wsVars => WsInv'
  BY WsNextInv
<1>2. ASSUME WsInv PROVE WsOwn
  <2> DEFINE Good(c) ==
               /\ \A i \in DOMAIN wsReply[c] :
                    wsReply[c][i][1] \in {"header", "body"} =>
                      wsAsk[c] = <<"GET", wsReply[c][i][2]>> \/ wsGot[c] < 2
               /\ Len(wsReply[c]) = 2 =>
                    LET h == wsReply[c][1] IN
                    wsReply[c][2][3] = h[3] \/ wsDisk[h[2]] # h[3]
  <2>1. ASSUME NEW c \in WsClients PROVE Good(c)
    <3>1. ASSUME wsReply[c] \in {<<>>, << <<"closed">> >>, << <<"404">> >>, << <<"400">> >>}
          PROVE  Good(c)
      BY <3>1
    <3>2. ASSUME NEW f \in WsFiles, NEW n \in {1, 2}, WsPage(c, f, n),
                 wsReply[c] = << <<"header", f, n>> >>
          PROVE  Good(c)
      BY <3>2 DEF WsPage
    <3>3. ASSUME NEW f \in WsFiles, NEW n \in {1, 2}, WsPage(c, f, n), NEW v \in {1, 2},
                 v = n \/ wsDisk[f] # n,
                 wsReply[c] = << <<"header", f, n>>, <<"body", f, v>> >>
          PROVE  Good(c)
      BY <3>3 DEF WsPage
    <3> HIDE DEF Good
    <3> QED
      BY <1>2, <3>1, <3>2, <3>3 DEF WsInv, WsRight
  <2>2. wsLife = "killed" => wsPeer[wsServed] = "gone" /\ wsReply[wsServed] # <<>>
    <3> SUFFICES ASSUME wsLife = "killed" PROVE wsPeer[wsServed] = "gone" /\ wsReply[wsServed] # <<>>
      OBVIOUS
    <3>1. wsPc = "body" /\ wsPeer[wsServed] = "gone"
      BY <1>2 DEF WsInv
    <3>2. wsReply[wsServed] = << <<"header", wsPath, wsLen>> >>
      BY <1>2, <3>1 DEF WsInv, WsServing
    <3> QED
      BY <3>1, <3>2
  <2> QED
    BY <2>1, <2>2 DEF WsOwn
<1> QED
  BY <1>1, <1>2, WsInitInv, PTL DEF WsSpec
----------------------------------------------------------------------------
(* The routing table.                                                      *)

\* A set of naturals has a least member.
LEMMA NatLeast ==
  ASSUME NEW T, T \subseteq Nat, T # {}
  PROVE  \E x \in T : \A y \in T : x <= y
<1> DEFINE R == OpToRel(<, Nat)
<1>1. IsWellFoundedOn(R, Nat)
  BY NatLessThanWellFounded, Zenon
<1>2. \A y, x \in Nat : <<y, x>> \in R <=> y < x
  BY Zenon DEF OpToRel
<1> HIDE DEF R
<1>3. PICK x \in T : \A y \in T : ~ (<<y, x>> \in R)
  BY <1>1, WFMin
<1>4. \A y \in T : x <= y
  <2> TAKE y \in T
  <2>1. y \in Nat /\ x \in Nat /\ ~(y < x)
    BY <1>2, <1>3
  <2> QED
    BY <2>1
<1> QED
  BY <1>4

\* What curr_mask can be.
RtMasks == 1..(RtWidth + 1)

\* The nodes of the trie are those on the way to a node, and a destination is either
\* the gateway or that of a route.
RtType ==
  /\ rtDest \in [DOMAIN rtDest -> Nat \cup {-1}]
  /\ rtRoutes \subseteq (DOMAIN rtDest) \X Nat
RtNodes ==
  /\ \A p \in DOMAIN rtDest : \E ip \in RtAddrs, m \in RtMasks : p = RtNode(ip, m)
  /\ \A ip \in RtAddrs : \A m \in RtMasks : RtNode(ip, m) \in DOMAIN rtDest =>
       \A k \in 1..m : RtNode(ip, k) \in DOMAIN rtDest
RtGiven ==
  /\ << >> \in DOMAIN rtDest /\ rtDest[<< >>] = rtGateway /\ rtGateway \in Nat
  /\ \A d \in Nat : <<<< >>, d>> \notin rtRoutes
  /\ \A p \in DOMAIN rtDest \ {<< >>}, d \in Nat : <<p, d>> \in rtRoutes <=> rtDest[p] = d
RtInv == RtType /\ RtNodes /\ RtGiven

\* A way of mask - 1 bits.
LEMMA RtWays ==
  ASSUME NEW ip \in RtAddrs, NEW m \in RtMasks
  PROVE  /\ RtNode(ip, m) \in Seq({0, 1}) /\ Len(RtNode(ip, m)) = m - 1
         /\ DOMAIN RtNode(ip, m) = 1..(m - 1)
         /\ \A k \in 1..(m - 1) : k \in 1..RtWidth /\ RtNode(ip, m)[k] = ip[k]
<1>w. RtWidth \in Nat \ {0}
  BY NetworkingAssumption
<1>1. \A k \in 1..(m - 1) : k \in 1..RtWidth /\ RtBit(ip, k) = ip[k] /\ ip[k] \in {0, 1}
  BY <1>w DEF RtAddrs, RtMasks, RtBit
<1>2. RtNode(ip, m) \in [1..(m - 1) -> {0, 1}]
  BY <1>1 DEF RtNode
<1>3. m - 1 \in Nat
  BY <1>w DEF RtMasks
<1>4. RtNode(ip, m) \in Seq({0, 1}) /\ Len(RtNode(ip, m)) = m - 1
  BY <1>2, <1>3
<1> QED
  BY <1>1, <1>2, <1>4 DEF RtNode

\* Ways are equal when they are as long and have the same bits; the root is none.
LEMMA RtSameWay ==
  ASSUME NEW ip \in RtAddrs, NEW m \in RtMasks, NEW jp \in RtAddrs, NEW n \in RtMasks
  PROVE  /\ RtNode(ip, m) = RtNode(jp, n) => m = n /\ \A k \in 1..(m - 1) : ip[k] = jp[k]
         /\ (\A k \in 1..(m - 1) : ip[k] = jp[k]) => RtNode(ip, m) = RtNode(jp, m)
         /\ RtNode(ip, m) = << >> <=> m = 1
<1>w. RtWidth \in Nat \ {0} /\ m \in Nat /\ n \in Nat
  BY NetworkingAssumption DEF RtMasks
<1> DEFINE u == RtNode(ip, m)
           v == RtNode(jp, n)
           w == RtNode(jp, m)
<1>1. /\ u \in Seq({0, 1}) /\ Len(u) = m - 1 /\ DOMAIN u = 1..(m - 1)
      /\ \A k \in 1..(m - 1) : u[k] = ip[k]
  BY RtWays
<1>2. v \in Seq({0, 1}) /\ Len(v) = n - 1 /\ \A k \in 1..(n - 1) : v[k] = jp[k]
  BY RtWays
<1>3. w \in Seq({0, 1}) /\ Len(w) = m - 1 /\ \A k \in 1..(m - 1) : w[k] = jp[k]
  BY RtWays
<1> HIDE DEF u, v, w
<1>4. u = v => m = n /\ \A k \in 1..(m - 1) : ip[k] = jp[k]
  BY <1>1, <1>2, <1>w
<1>5. (\A k \in 1..(m - 1) : ip[k] = jp[k]) => u = w
  BY <1>1, <1>3, <1>w, SeqEqual
<1>6. u = << >> <=> m = 1
  BY <1>1, <1>w
<1> QED
  BY <1>4, <1>5, <1>6 DEF u, v, w

LEMMA RtInitInv == RtInit => RtInv
<1> SUFFICES ASSUME RtInit PROVE RtInv
  OBVIOUS
<1>w. RtWidth \in Nat \ {0}
  BY NetworkingAssumption
<1>1. DOMAIN rtDest = {<< >>} /\ rtDest[<< >>] = 0 /\ rtGateway = 0 /\ rtRoutes = {}
  BY DEF RtInit
<1>2. RtType /\ RtGiven
  BY <1>1 DEF RtInit, RtType, RtGiven
<1>3. RtNodes
  <2>1. 1 \in RtMasks /\ \A m \in RtMasks : \A k \in 1..m : k \in RtMasks
    BY <1>w DEF RtMasks
  <2>2. [k \in 1..RtWidth |-> 0] \in RtAddrs
    BY DEF RtAddrs
  <2>3. << >> = RtNode([k \in 1..RtWidth |-> 0], 1)
    BY <2>1, <2>2, RtSameWay
  <2>4. ASSUME NEW ip \in RtAddrs, NEW m \in RtMasks, RtNode(ip, m) = << >>, NEW k \in 1..m
        PROVE  RtNode(ip, k) = << >>
    BY <2>1, <2>4, RtSameWay
  <2> QED
    BY <1>1, <2>1, <2>2, <2>3, <2>4 DEF RtNodes
<1> QED
  BY <1>2, <1>3 DEF RtInv

LEMMA RtNextInv ==
  ASSUME RtInv, [RtNext]_rtVars
  PROVE  RtInv'
<1>w. RtWidth \in Nat \ {0} /\ RtDests \subseteq Nat
  BY NetworkingAssumption
<1>t. RtType /\ RtNodes /\ RtGiven
  BY DEF RtInv
<1>1. CASE UNCHANGED rtVars
  BY <1>1, <1>t DEF rtVars, RtInv, RtType, RtNodes, RtGiven
<1>2. ASSUME NEW d \in RtDests, SetDeflGateway(d)
      PROVE  RtInv'
  <2>1. /\ DOMAIN rtDest' = DOMAIN rtDest /\ rtDest'[<< >>] = d /\ rtGateway' = d
        /\ \A p \in DOMAIN rtDest \ {<< >>} : rtDest'[p] = rtDest[p]
        /\ rtRoutes' = rtRoutes /\ rtDest' \in [DOMAIN rtDest -> Nat \cup {-1}]
    BY <1>2, <1>t, <1>w DEF SetDeflGateway, RtType, RtGiven
  <2>2. RtType'
    BY <2>1, <1>t DEF RtType
  <2>3. RtNodes'
    BY <2>1, <1>t DEF RtNodes
  <2>4. RtGiven'
    BY <2>1, <1>t, <1>w DEF RtGiven
  <2> QED
    BY <2>2, <2>3, <2>4 DEF RtInv
<1>3. ASSUME NEW d \in RtDests, NEW ip \in RtAddrs, NEW cidr \in 0..(RtWidth + 1),
             AddEntry(ip, cidr, d)
      PROVE  RtInv'
  <2> DEFINE lim == MaskLim(cidr)
             node == RtNode(ip, lim)
             made == {RtNode(ip, mask) : mask \in 1..lim}
             bits == [k \in 1..(IF cidr < RtWidth THEN cidr ELSE RtWidth) |-> ip[k]]
  <2>1. lim \in RtMasks /\ (IF cidr < RtWidth THEN cidr ELSE RtWidth) = lim - 1
    BY <1>w DEF MaskLim, RtMasks
  <2>2. bits = node
    <3>1. \A k \in 1..(lim - 1) : RtBit(ip, k) = ip[k]
      BY <2>1, <1>w DEF RtMasks, RtBit
    <3> QED
      BY <2>1, <3>1 DEF RtNode
  <2>m. \A m \in RtMasks : \A k \in 1..m : k \in RtMasks
    BY <1>w DEF RtMasks
  <2>3. /\ rtDest' = [n \in DOMAIN rtDest \cup made |->
                        IF n = node THEN d ELSE IF n \in DOMAIN rtDest THEN rtDest[n] ELSE -1]
        /\ node = << >> => rtGateway' = d /\ rtRoutes' = rtRoutes
        /\ node # << >> =>
             /\ rtRoutes' = {r \in rtRoutes : r[1] # node} \cup {<<node, d>>}
             /\ rtGateway' = rtGateway
    <3>1. /\ rtDest' = [n \in DOMAIN rtDest \cup made |->
                          IF n = node THEN d ELSE IF n \in DOMAIN rtDest THEN rtDest[n] ELSE -1]
          /\ IF bits = << >>
             THEN rtGateway' = d /\ UNCHANGED rtRoutes
             ELSE /\ rtRoutes' = {r \in rtRoutes : r[1] # bits} \cup {<<bits, d>>}
                  /\ UNCHANGED rtGateway
      BY <1>3 DEF AddEntry
    <3> HIDE DEF lim, node, made, bits
    <3> QED
      BY <3>1, <2>2
  <2>4. node \in made
    BY <2>1, <1>w DEF RtMasks
  <2>5. \A p \in made : \E m \in RtMasks : m <= lim /\ p = RtNode(ip, m)
    BY <2>1, <2>m
  <2>6. \A m \in RtMasks : m <= lim => RtNode(ip, m) \in made
    BY <1>w DEF RtMasks
  <2>7. d \in Nat
    BY <1>w
  <2> HIDE DEF lim, node, made, bits
  <2>8. /\ DOMAIN rtDest' = DOMAIN rtDest \cup made /\ rtDest'[node] = d
        /\ \A p \in DOMAIN rtDest : p # node => rtDest'[p] = rtDest[p]
        /\ \A p \in made : p # node /\ p \notin DOMAIN rtDest => rtDest'[p] = -1
        /\ rtDest' \in [DOMAIN rtDest' -> Nat \cup {-1}]
    BY <2>3, <2>4, <2>7, <1>t DEF RtType
  <2>9. RtType'
    <3>1. rtRoutes' \subseteq (DOMAIN rtDest') \X Nat
      BY <2>3, <2>4, <2>7, <2>8, <1>t DEF RtType
    <3> QED
      BY <3>1, <2>8 DEF RtType
  <2>10. RtNodes'
    <3>1. ASSUME NEW p \in DOMAIN rtDest'
          PROVE  \E jp \in RtAddrs, m \in RtMasks : p = RtNode(jp, m)
      BY <2>5, <2>8, <1>t DEF RtNodes
    <3>2. ASSUME NEW jp \in RtAddrs, NEW m \in RtMasks, RtNode(jp, m) \in DOMAIN rtDest',
                 NEW k \in 1..m
          PROVE  RtNode(jp, k) \in DOMAIN rtDest'
      <4>1. CASE RtNode(jp, m) \in DOMAIN rtDest
        BY <4>1, <2>8, <1>t DEF RtNodes
      <4>2. CASE RtNode(jp, m) \in made
        <5>1. PICK n \in RtMasks : n <= lim /\ RtNode(jp, m) = RtNode(ip, n)
          BY <4>2, <2>5
        <5>2. n = m /\ \A i \in 1..(m - 1) : jp[i] = ip[i]
          BY <5>1, RtSameWay
        <5>3. k \in RtMasks /\ k <= lim /\ \A i \in 1..(k - 1) : jp[i] = ip[i]
          BY <5>1, <5>2, <2>m, <2>1, <1>w DEF RtMasks
        <5>4. RtNode(jp, k) = RtNode(ip, k)
          BY <5>3, RtSameWay
        <5> QED
          BY <5>3, <5>4, <2>6, <2>8
      <4> QED
        BY <4>1, <4>2, <3>2, <2>8
    <3> QED
      BY <3>1, <3>2 DEF RtNodes
  <2>11. RtGiven'
    <3>1. << >> \in DOMAIN rtDest' /\ rtDest'[<< >>] = rtGateway' /\ rtGateway' \in Nat
      BY <2>3, <2>7, <2>8, <1>t DEF RtGiven
    <3>2. \A e \in Nat : <<<< >>, e>> \notin rtRoutes'
      <4> SUFFICES ASSUME NEW e \in Nat, <<<< >>, e>> \in rtRoutes' PROVE FALSE
        OBVIOUS
      <4>1. <<<< >>, e>> \notin rtRoutes
        BY <1>t DEF RtGiven
      <4>2. node # << >> /\ <<<< >>, e>> = <<node, d>>
        BY <2>3, <4>1
      <4> QED
        BY <4>2
    <3>3. ASSUME NEW p \in DOMAIN rtDest' \ {<< >>}, NEW e \in Nat
          PROVE  <<p, e>> \in rtRoutes' <=> rtDest'[p] = e
      <4>1. CASE p = node
        <5>1. rtRoutes' = {r \in rtRoutes : r[1] # node} \cup {<<node, d>>}
          BY <2>3, <3>3, <4>1
        <5>2. <<p, e>> \in rtRoutes' <=> e = d
          BY <5>1, <4>1
        <5> QED
          BY <5>2, <4>1, <2>8
      <4>2. CASE p # node /\ p \in DOMAIN rtDest
        <5>1. <<p, e>> \in rtRoutes' <=> <<p, e>> \in rtRoutes
          BY <2>3, <4>2
        <5> QED
          BY <5>1, <4>2, <2>8, <3>3, <1>t DEF RtGiven
      <4>3. CASE p # node /\ p \notin DOMAIN rtDest
        <5>1. <<p, e>> \in rtRoutes' <=> <<p, e>> \in rtRoutes
          BY <2>3, <4>3
        <5>2. <<p, e>> \notin rtRoutes
          BY <4>3, <1>t DEF RtType
        <5>3. rtDest'[p] = -1
          BY <4>3, <2>8, <3>3
        <5> QED
          BY <5>1, <5>2, <5>3
      <4> QED
        BY <4>1, <4>2, <4>3
    <3> QED
      BY <3>1, <3>2, <3>3 DEF RtGiven
  <2> QED
    BY <2>9, <2>10, <2>11 DEF RtInv
<1> QED
  BY <1>1, <1>2, <1>3 DEF RtNext, RtCommand

\* The last node with a destination on the way of an address.
LEMMA RtLast ==
  ASSUME RtInv, NEW ip \in RtAddrs
  PROVE  \E last \in RtMasks :
           /\ RtNode(ip, last) \in DOMAIN rtDest /\ rtDest[RtNode(ip, last)] # -1
           /\ Lookup(ip) = rtDest[RtNode(ip, last)]
           /\ \A m \in RtMasks : m > last /\ RtNode(ip, m) \in DOMAIN rtDest =>
                rtDest[RtNode(ip, m)] = -1
<1>w. RtWidth \in Nat \ {0}
  BY NetworkingAssumption
<1>t. RtType /\ RtNodes /\ RtGiven
  BY DEF RtInv
<1> DEFINE passed == {mask \in 1..(RtWidth + 2) :
                        \A m \in 1..mask : RtNode(ip, m) \in DOMAIN rtDest}
           words == {mask \in passed : rtDest[RtNode(ip, mask)] # -1}
           last_word == CHOOSE mask \in words : \A m \in words : m <= mask
<1>1. passed = {m \in RtMasks : RtNode(ip, m) \in DOMAIN rtDest}
  <2>1. ASSUME RtNode(ip, RtWidth + 2) \in DOMAIN rtDest PROVE FALSE
    <3>1. PICK jp \in RtAddrs, m \in RtMasks : RtNode(ip, RtWidth + 2) = RtNode(jp, m)
      BY <2>1, <1>t DEF RtNodes
    <3>2. DOMAIN RtNode(ip, RtWidth + 2) = 1..(RtWidth + 1)
      BY <1>w DEF RtNode
    <3>3. DOMAIN RtNode(jp, m) = 1..(m - 1)
      BY RtWays
    <3>4. RtWidth + 1 \in 1..(RtWidth + 1) /\ RtWidth + 1 \notin 1..(m - 1)
      BY <1>w DEF RtMasks
    <3> QED
      BY <3>1, <3>2, <3>3, <3>4
  <2>2. \A m \in RtMasks : RtNode(ip, m) \in DOMAIN rtDest =>
          \A k \in 1..m : RtNode(ip, k) \in DOMAIN rtDest
    BY <1>t DEF RtNodes
  <2>3. 1..(RtWidth + 2) = RtMasks \cup {RtWidth + 2} /\ RtWidth + 2 \in 1..(RtWidth + 2)
        /\ \A m \in RtMasks : m \in 1..m
    BY <1>w DEF RtMasks
  <2> QED
    BY <2>1, <2>2, <2>3
<1>2. 1 \in words
  <2>1. 1 \in RtMasks
    BY <1>w DEF RtMasks
  <2>2. RtNode(ip, 1) = << >>
    BY <2>1, RtSameWay
  <2> QED
    BY <1>1, <2>1, <2>2, <1>t DEF RtGiven
<1>3. words \subseteq RtMasks
  BY <1>1
<1> HIDE DEF passed
<1>4. \E mask \in words : \A m \in words : m <= mask
  <2> DEFINE T == {RtWidth + 1 - m : m \in words}
  <2>1. T \subseteq Nat /\ T # {}
    BY <1>2, <1>3, <1>w DEF RtMasks
  <2>2. PICK x \in T : \A y \in T : x <= y
    BY <2>1, NatLeast
  <2>3. PICK mask \in words : x = RtWidth + 1 - mask
    BY <2>2
  <2>4. ASSUME NEW m \in words PROVE m <= mask
    <3>1. x <= RtWidth + 1 - m
      BY <2>2
    <3> QED
      BY <3>1, <2>3, <1>3, <1>w DEF RtMasks
  <2> QED
    BY <2>4
<1>5. last_word \in words /\ \A m \in words : m <= last_word
  BY <1>4
<1>6. Lookup(ip) = rtDest[RtNode(ip, last_word)]
  BY DEF Lookup, passed
<1>7. \A m \in words : m \in RtMasks /\ RtNode(ip, m) \in DOMAIN rtDest /\ rtDest[RtNode(ip, m)] # -1
  BY <1>1
<1>8. \A m \in RtMasks : RtNode(ip, m) \in DOMAIN rtDest /\ rtDest[RtNode(ip, m)] # -1 => m \in words
  BY <1>1
<1> HIDE DEF words, last_word
<1>9. \A m \in RtMasks : m > last_word => m \notin words
  BY <1>5, <1>7, <1>w DEF RtMasks
<1> QED
  BY <1>5, <1>6, <1>7, <1>8, <1>9

\* The next hop is that of the longest prefix typed that matches, or the gateway,
\* whatever was typed in whatever order (add_entry(), lookup()).
THEOREM RtIsLongest == RtSpec => []RtLongest
<1>1. RtInv /\ [RtNext]_rtVars => RtInv'
  BY RtNextInv
<1>2. ASSUME RtInv PROVE RtLongest
  <2>w. RtWidth \in Nat \ {0}
    BY NetworkingAssumption
  <2>t. RtType /\ RtNodes /\ RtGiven
    BY <1>2 DEF RtInv
  <2> SUFFICES ASSUME NEW ip \in RtAddrs
               PROVE  LET matching == {r \in rtRoutes : \A j \in DOMAIN r[1] : r[1][j] = ip[j]}
                      IN IF matching = {} THEN Lookup(ip) = rtGateway
                         ELSE \E r \in matching :
                                /\ \A q \in matching : Len(q[1]) <= Len(r[1])
                                /\ Lookup(ip) = r[2]
    BY DEF RtLongest
  <2> DEFINE matching == {r \in rtRoutes : \A j \in DOMAIN r[1] : r[1][j] = ip[j]}
  <2>1. PICK last \in RtMasks :
           /\ RtNode(ip, last) \in DOMAIN rtDest /\ rtDest[RtNode(ip, last)] # -1
           /\ Lookup(ip) = rtDest[RtNode(ip, last)]
           /\ \A m \in RtMasks : m > last /\ RtNode(ip, m) \in DOMAIN rtDest =>
                rtDest[RtNode(ip, m)] = -1
    BY <1>2, RtLast
  <2>2. ASSUME NEW r \in matching
        PROVE  /\ Len(r[1]) \in Nat /\ Len(r[1]) <= last - 1 /\ last # 1
    <3>1. r \in rtRoutes /\ r = <<r[1], r[2]>> /\ r[1] \in DOMAIN rtDest /\ r[2] \in Nat
          /\ r[1] # << >>
      BY <2>t DEF RtType, RtGiven
    <3>2. PICK jp \in RtAddrs, m \in RtMasks : r[1] = RtNode(jp, m)
      BY <3>1, <2>t DEF RtNodes
    <3>3. Len(r[1]) = m - 1 /\ DOMAIN r[1] = 1..(m - 1) /\ \A k \in 1..(m - 1) : r[1][k] = jp[k]
      BY <3>2, RtWays
    <3>4. \A k \in 1..(m - 1) : jp[k] = ip[k]
      BY <3>3
    <3>5. RtNode(jp, m) = RtNode(ip, m)
      BY <3>4, RtSameWay
    <3>6. rtDest[RtNode(ip, m)] = r[2] /\ RtNode(ip, m) \in DOMAIN rtDest
      BY <3>1, <3>2, <3>5, <2>t DEF RtGiven
    <3>7. m <= last
      BY <3>6, <3>1, <2>1, <2>w DEF RtMasks
    <3>8. m # 1
      BY <3>1, <3>2, RtSameWay
    <3> QED
      BY <3>3, <3>7, <3>8, <2>w DEF RtMasks
  <2>3. CASE last = 1
    <3>1. matching = {}
      BY <2>2, <2>3
    <3>2. RtNode(ip, 1) = << >>
      BY <2>3, RtSameWay
    <3> QED
      BY <2>1, <2>3, <3>1, <3>2, <2>t DEF RtGiven
  <2>4. CASE last # 1
    <3> DEFINE p == RtNode(ip, last)
               r == <<p, rtDest[p]>>
    <3>1. p # << >> /\ p \in DOMAIN rtDest /\ rtDest[p] \in Nat
      BY <2>1, <2>4, RtSameWay, <2>t DEF RtType
    <3>2. r \in rtRoutes
      BY <3>1, <2>t DEF RtGiven
    <3>3. DOMAIN p = 1..(last - 1) /\ Len(p) = last - 1 /\ \A k \in 1..(last - 1) : p[k] = ip[k]
      BY RtWays
    <3>4. r[1] = p /\ r[2] = rtDest[p]
      OBVIOUS
    <3> HIDE DEF p, r
    <3>5. r \in matching
      BY <3>2, <3>3, <3>4
    <3>6. \A q \in matching : Len(q[1]) <= Len(r[1])
      BY <2>2, <3>3, <3>4
    <3>7. Lookup(ip) = r[2]
      BY <2>1, <3>4 DEF p
    <3> QED
      BY <3>5, <3>6, <3>7
  <2> QED
    BY <2>3, <2>4
<1> QED
  BY <1>1, <1>2, RtInitInv, PTL DEF RtSpec
----------------------------------------------------------------------------
(* The programs side by side.                                              *)

\* A step of the run is a step of one program and leaves the others alone.
LEMMA MCStep ==
  ASSUME [MCNext]_mcVars
  PROVE  /\ [EcNext]_ecVars /\ [OdNext]_odVars /\ [OfNext]_ofVars /\ [KaNext]_kaVars
         /\ [EpNext]_epVars /\ [OsNext]_osVars /\ [UpNext]_upVars
         /\ [WsNext]_wsVars /\ [NlNext]_nlVars /\ [RtNext]_rtVars
  BY DEF MCNext, mcVars, EcAlone, EpAlone, OsAlone, OdAlone, OfAlone, UpAlone, KaAlone, WsAlone,
         NlAlone, RtAlone

\* So the run is a behaviour of each program.
LEMMA MCPrograms ==
  MCSpec => /\ EcSpec /\ OdSpec /\ OfSpec /\ KaSpec /\ EpSpec /\ OsSpec /\ UpSpec
            /\ WsSpec /\ NlSpec /\ RtSpec
<1>1. MCInit => /\ EcInit /\ OdInit /\ OfInit /\ KaInit /\ EpInit /\ OsInit /\ UpInit
                /\ WsInit /\ NlInit /\ RtInit
  BY DEF MCInit
<1> QED
  BY <1>1, MCStep, PTL DEF MCSpec, EcSpec, OdSpec, OfSpec, KaSpec, EpSpec, OsSpec, UpSpec,
                           WsSpec, NlSpec, RtSpec

\* What goes through the echo servers, the one-shot buffer and the ping comes out
\* of it whole: the server of client_server answers with the lines sent to it, in
\* their order; every chunk of the epoll server is in one place; the one-shot
\* buffer is read in order; a reply counted by the ping is one the server sent.
THEOREM MCDeliversAll == MCSpec => []MCDelivers
<1>1. EcEcho /\ EpKeeps /\ OsPassesOn /\ UpGenuine => MCDelivers
  BY DEF MCDelivers
<1> QED
  BY <1>1, MCPrograms, EcIsEchoed, EpIsKept, OsIsOrdered, UpIsGenuine, PTL

\* What comes over the network is taken for what it is: the request of the client that
\* sent it, the frame with its own header, the longest prefix that matches.
THEOREM MCIsGenuine == MCSpec => []MCGenuine
<1>1. WsOwn /\ NlGenuine /\ RtLongest => MCGenuine
  BY DEF MCGenuine
<1> QED
  BY <1>1, MCPrograms, WsIsOwn, NlIsGenuine, RtIsLongest, PTL

\* The open server answers every client with the descriptor of its own file, as a
\* daemon and as a child process.
THEOREM OpenIsRight == MCSpec => []OpenAnswers
<1>1. OdRight /\ (odCurrent = <<>> => odOpened = 0) /\ OfRight => OpenAnswers
  BY DEF OpenAnswers
<1> QED
  BY <1>1, MCPrograms, OdAnswersRight, OfAnswersRight, PTL
=============================================================================
