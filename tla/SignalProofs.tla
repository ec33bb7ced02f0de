---------------------------- MODULE SignalProofs ----------------------------
(* Proofs about the functions written with signals: sleep(3) in four ways, *)
(* system(3), abort(3), and the demonstrations of pause(2), sigsuspend(2), *)
(* signal(2) and pending signals, for every argument of sleep(3), every    *)
(* alarm of the caller and any number of signals sent at any moment.       *)
EXTENDS Signals, FiniteSetTheorems, SequenceTheorems, TLAPS

SgHandlers == {"nop", "jump", "sigquit", "user", "chld", "abrt", "printer"}
SgCodes == SgPrograms \cup SgHandlers

\* i, at place p of the function or handler c, is one of these calls: which of them
\* make it, where, and with which arguments; and the last call is a return or a jump.
SgPlace(c, p, i) ==
  /\ i[1] = "sigaction" =>
       \/ c = "sleep1" /\ p = 1 /\ i[2] = "ALRM" /\ i[3] = "nop"
       \/ c = "sleep2" /\ p = 1 /\ i[2] = "ALRM" /\ i[3] = "jump"
       \/ c = "sleep3" /\ p = 2 /\ i[2] = "ALRM" /\ i[3] = "nop"
       \/ c = "pause_demo" /\ p = 3 /\ i[2] = "INT" /\ i[3] = "nop"
       \/ c = "suspend_demo" /\ p = 3 /\ i[2] = "INT" /\ i[3] = "nop"
       \/ c = "system" /\ p = 1 /\ i[2] = "QUIT" /\ i[3] = "ign"
       \/ c = "system" /\ p = 2 /\ i[2] = "INT" /\ i[3] = "ign"
       \/ c = "abort" /\ p = 6 /\ i[2] = "ABRT" /\ i[3] = "dfl"
       \/ c = "signal_demo" /\ p = 1 /\ i[2] = "QUIT" /\ i[3] = "sigquit"
       \/ c = "pending_demo" /\ p = 3 /\ i[2] = "INT" /\ i[3] = "ign"
       \/ c = "sigquit" /\ p = 1 /\ i[2] = "QUIT" /\ i[3] = "sigquit"
  /\ i[1] = "restore" =>
       \/ c = "sleep2" /\ p = 5 /\ i[2] = "ALRM"
       \/ c = "sleep3" /\ p = 6 /\ i[2] = "ALRM"
       \/ c = "system" /\ p = 6 /\ i[2] = "INT"
       \/ c = "system" /\ p = 7 /\ i[2] = "QUIT"
       \/ c = "pending_demo" /\ p = 4 /\ i[2] = "INT"
  /\ i[1] = "unignore" => c = "abort" /\ p = 1 /\ i[2] = "ABRT"
  /\ i[1] = "block" =>
       \/ c = "sleep3" /\ p = 1 /\ i[2] = {"ALRM"}
       \/ c = "system" /\ p = 3 /\ i[2] = {}
  /\ i[1] = "setmask" =>
       \/ c = "pause_demo" /\ p = 1 /\ i[2] = {"INT"}
       \/ c = "suspend_demo" /\ p = 1 /\ i[2] = {"INT"}
       \/ c = "abort" /\ p \in {3, 7} /\ i[2] = SgSignals \ {"ABRT"}
       \/ c = "pending_demo" /\ p = 1 /\ i[2] = {"INT"}
  /\ i[1] = "oldmask" =>
       \/ c = "sleep3" /\ p = 7
       \/ c = "pause_demo" /\ p = 4
       \/ c = "suspend_demo" /\ p = 5
       \/ c = "system" /\ p = 8
       \/ c = "pending_demo" /\ p = 5
  /\ i[1] = "raise" =>
       \/ c = "pause_demo" /\ p = 2 /\ i[2] = "INT"
       \/ c = "suspend_demo" /\ p = 2 /\ i[2] = "INT"
       \/ c = "abort" /\ p \in {4, 8} /\ i[2] = "ABRT"
       \/ c = "signal_demo" /\ p = 2 /\ i[2] = "QUIT"
  /\ i[1] = "alarm" =>
       \/ c = "sleep1" /\ p = 2
       \/ c = "sleep3" /\ p = 3
  /\ i[1] = "alarm_min" => c = "sleep2" /\ p = 3
  /\ i[1] = "unslept" =>
       \/ c = "sleep1" /\ p = 4
       \/ c = "sleep2" /\ p = 6
       \/ c = "sleep3" /\ p = 5
  /\ i[1] = "pause" =>
       \/ c = "sleep1" /\ p = 3
       \/ c = "sleep2" /\ p = 4
       \/ c = "pause_demo" /\ p = 5
  /\ i[1] = "suspend" => c = "suspend_demo" /\ p = 4 /\ i[2] = {}
  /\ i[1] = "suspend_old" => c = "sleep3" /\ p = 4 /\ i[2] = {"ALRM"}
  /\ i[1] = "nanosleep" => c = "sleep4" /\ p = 1
  /\ i[1] = "setjmp" => c = "sleep2" /\ p = 2
  /\ i[1] = "longjmp" => c = "jump" /\ p = 1
  /\ i[1] = "print" =>
       \/ c = "sigquit" /\ p = 2
       \/ c \in {"abrt", "printer"} /\ p = 1
  /\ i[1] = "fflush" => c = "abort" /\ p \in {2, 5}
  /\ i[1] = "work" => c = "user" /\ p = 1
  /\ i[1] = "fork" => c = "system" /\ p = 4
  /\ i[1] = "waitpid" => c = "system" /\ p = 5
  /\ i[1] = "reap" => c = "chld" /\ p = 1
  /\ i[1] = "getchar" => c = "pending_demo" /\ p \in {2, 6}
  /\ i[1] = "return" =>
       \/ c = "sleep1" /\ p = 5
       \/ c = "sleep2" /\ p = 7
       \/ c = "sleep3" /\ p = 8
       \/ c = "sleep4" /\ p = 2
       \/ c = "pause_demo" /\ p = 6
       \/ c = "suspend_demo" /\ p = 6
       \/ c = "system" /\ p = 9
       \/ c = "abort" /\ p = 9
       \/ c = "signal_demo" /\ p = 3
       \/ c = "pending_demo" /\ p = 7
       \/ c = "sigquit" /\ p = 3
       \/ c = "nop" /\ p = 1
       \/ c = "user" /\ p = 2
       \/ c = "chld" /\ p = 2
       \/ c \in {"abrt", "printer"} /\ p = 2
  /\ i[1] \in {"sigaction", "restore", "unignore", "block", "setmask", "oldmask", "raise", "alarm", "alarm_min", "unslept", "pause", "suspend", "suspend_old", "nanosleep", "setjmp", "longjmp", "print", "fflush", "work", "fork", "waitpid", "reap", "getchar", "return"}
  /\ i[1] \notin {"return", "longjmp"} => p + 1 \in 1..Len(SgCode[c])
  /\ i[1] = "fork" => p + 2 \in 1..Len(SgCode[c])

\* The calls of every function and handler.
LEMMA SgOps ==
  ASSUME NEW c \in SgCodes
  PROVE  /\ Len(SgCode[c]) \in 1..9
         /\ \A p \in 1..Len(SgCode[c]) : SgPlace(c, p, SgCode[c][p])
<1>1. CASE c = "sleep1"
  BY <1>1, SMTT(120) DEF SgPlace, SgCode, Sleep1
<1>2. CASE c = "sleep2"
  BY <1>2, SMTT(120) DEF SgPlace, SgCode, Sleep2
<1>3. CASE c = "sleep3"
  BY <1>3, SMTT(120) DEF SgPlace, SgCode, Sleep3
<1>4. CASE c = "sleep4"
  BY <1>4, SMTT(120) DEF SgPlace, SgCode, Sleep4
<1>5. CASE c = "pause_demo"
  BY <1>5, SMTT(120) DEF SgPlace, SgCode, PauseDemo
<1>6. CASE c = "suspend_demo"
  BY <1>6, SMTT(120) DEF SgPlace, SgCode, SuspendDemo
<1>7. CASE c = "system"
  BY <1>7, SMTT(120) DEF SgPlace, SgCode, SystemFunc
<1>8. CASE c = "abort"
  BY <1>8, SMTT(120) DEF SgPlace, SgCode, AbortFunc
<1>9. CASE c = "signal_demo"
  BY <1>9, SMTT(120) DEF SgPlace, SgCode, SignalDemo
<1>10. CASE c = "pending_demo"
  BY <1>10, SMTT(120) DEF SgPlace, SgCode, PendingDemo
<1>11. CASE c = "jump"
  BY <1>11, SMTT(120) DEF SgPlace, SgCode, SigalrmJump
<1>12. CASE c = "sigquit"
  BY <1>12, SMTT(120) DEF SgPlace, SgCode, Sigquit
<1>13. CASE c = "nop"
  BY <1>13, SMTT(120) DEF SgPlace, SgCode
<1>14. CASE c = "user"
  BY <1>14, SMTT(120) DEF SgPlace, SgCode
<1>15. CASE c = "chld"
  BY <1>15, SMTT(120) DEF SgPlace, SgCode
<1>16. CASE c = "abrt"
  BY <1>16, SMTT(120) DEF SgPlace, SgCode
<1>17. CASE c = "printer"
  BY <1>17, SMTT(120) DEF SgPlace, SgCode
<1> QED
  BY <1>1, <1>2, <1>3, <1>4, <1>5, <1>6, <1>7, <1>8,
     <1>9, <1>10, <1>11, <1>12, <1>13, <1>14, <1>15, <1>16, <1>17
     DEF SgCodes, SgPrograms, SgSleeps, SgHandlers

SgActions == {"dfl", "ign"} \cup SgHandlers
SgDozes == {"pause", "suspend", "suspend_old", "nanosleep"}
SgFrameSet ==
  [code : SgCodes, pc : 1..9, mask : SUBSET SgSignals, asleep : BOOLEAN]

\* The program that runs sets action h for signal s, or its caller has.
SgFits(s, h) ==
  /\ h \in SgActions
  /\ h = "nop" => \/ sgProg \in {"sleep1", "sleep3"} /\ s = "ALRM"
                  \/ sgProg \in {"pause_demo", "suspend_demo"} /\ s = "INT"
  /\ h = "jump" => sgProg = "sleep2" /\ s = "ALRM"
  /\ h = "sigquit" => sgProg = "signal_demo" /\ s = "QUIT"
  /\ h = "user" => \/ sgProg \in SgSleeps /\ s \in {"INT", "ALRM"}
                   \/ sgProg \in {"system", "abort"} /\ s = "INT"
  /\ h = "chld" => sgProg = "system" /\ s = "CHLD" /\ sgCaller.disp["CHLD"] = "chld"
  /\ h = "abrt" => sgProg = "abort" /\ s = "ABRT"
  /\ h = "printer" => sgProg = "abort" /\ s = "INT" /\ sgCaller.disp["INT"] = "printer"

\* At the bottom the function, on it handlers, which do not sleep.
SgStack ==
  /\ sgFrames \in Seq(SgFrameSet) /\ Len(sgFrames) # 0 /\ sgFrames[1].code = sgProg
  /\ \A i \in 1..Len(sgFrames) : sgFrames[i].pc \in 1..Len(SgCode[sgFrames[i].code])
  /\ \A i \in 2..Len(sgFrames) :
       /\ ~sgFrames[i].asleep /\ sgFrames[i].code \in SgHandlers
       /\ \E s \in SgSignals : SgFits(s, sgFrames[i].code)
  /\ sgFrames[1].asleep => SgCode[sgProg][sgFrames[1].pc][1] \in SgDozes

SgValues ==
  /\ sgProg \in SgPrograms /\ sgCaller \in SgCallers(sgProg)
  /\ sgMask \subseteq SgSignals /\ sgPend \subseteq SgSignals
  /\ sgDisp \in [SgSignals -> SgActions]
  /\ sgSaved \in [disp : [SgSignals -> SgActions], mask : SUBSET SgSignals]
  /\ \A s \in SgSignals : SgFits(s, sgDisp[s]) /\ SgFits(s, sgSaved.disp[s])
  /\ sgTimer \in [alarm : Nat, nano : Nat] /\ sgSlept \in Nat /\ sgRet \in Int
  /\ sgSent \in Seq([code : SgCodes, pc : Nat])
  /\ sgProg # "system" => sgChild = "none"

SgShape == SgStack /\ SgValues

\* The state seen from the function: where it stands, whether it sleeps, whether no
\* handler runs, which ones do, and the mask once they have returned.
SgPc == sgFrames[1].pc
SgDozing == sgFrames[1].asleep
SgQuiet == Len(sgFrames) = 1
SgHandling == {sgFrames[i].code : i \in 2..Len(sgFrames)}
SgBack ==
  IF ~SgQuiet THEN sgFrames[2].mask
  ELSE IF SgDozing /\ SgCode[sgProg][SgPc][1] \in {"suspend", "suspend_old"}
       THEN sgFrames[1].mask ELSE sgMask

\* What a step does to that: the function goes on by k calls; a handler makes a call,
\* or nothing changes; a handler starts; one returns.
SgGoes(k) ==
  /\ SgQuiet /\ SgQuiet' /\ ~SgDozing /\ ~SgDozing'
  /\ SgPc' = SgPc + k /\ SgHandling = {} /\ SgHandling' = {}
  /\ sgPend \subseteq sgMask /\ SgBack = sgMask /\ SgBack' = sgMask'
SgStays ==
  /\ SgPc' = SgPc /\ SgDozing' = SgDozing /\ (SgQuiet' <=> SgQuiet)
  /\ SgHandling' = SgHandling /\ SgBack' = SgBack
SgEnters(h) ==
  /\ ~SgQuiet' /\ SgPc' = SgPc /\ SgDozing' = SgDozing
  /\ SgHandling' = SgHandling \cup {h} /\ SgBack' = SgBack
SgLeaves ==
  /\ ~SgQuiet /\ SgHandling' \subseteq SgHandling /\ SgBack' = SgBack
  /\ IF SgDozing /\ SgQuiet' THEN SgPc' = SgPc + 1 /\ ~SgDozing'
     ELSE SgPc' = SgPc /\ SgDozing' = SgDozing

\* One frame replaced.
LEMMA SgReplaced ==
  ASSUME NEW fs \in Seq(SgFrameSet), NEW k \in 1..Len(fs), NEW f \in SgFrameSet,
         NEW new, new = [fs EXCEPT ![k] = f]
  PROVE  /\ new \in Seq(SgFrameSet) /\ Len(new) = Len(fs) /\ new[k] = f
         /\ \A i \in 1..Len(fs) : i # k => new[i] = fs[i]
  OBVIOUS

\* One call further, in the frame on top.
LEMMA SgAdvanced ==
  ASSUME NEW fs \in Seq(SgFrameSet), Len(fs) # 0, fs[Len(fs)].pc + 1 \in 1..9
  PROVE  LET n == Len(fs)  new == SgAdvance(fs) IN
         /\ new \in Seq(SgFrameSet) /\ Len(new) = n
         /\ \A i \in 1..n : i # n => new[i] = fs[i]
         /\ new[n].pc = fs[n].pc + 1 /\ new[n].code = fs[n].code
         /\ new[n].mask = fs[n].mask /\ new[n].asleep = fs[n].asleep
<1> DEFINE n == Len(fs)
           f == [fs[n] EXCEPT !.pc = @ + 1]
           new == [fs EXCEPT ![n] = f]
<1>1. n \in 1..n /\ n \in Nat /\ fs[n] \in SgFrameSet
  OBVIOUS
<1>2. f \in SgFrameSet
  BY <1>1, Zenon DEF SgFrameSet
<1>3. /\ f.pc = fs[n].pc + 1 /\ f.code = fs[n].code
      /\ f.mask = fs[n].mask /\ f.asleep = fs[n].asleep
  BY <1>1 DEF SgFrameSet
<1> HIDE DEF f
<1>4. new \in Seq(SgFrameSet) /\ Len(new) = n /\ new[n] = f
  BY <1>1, <1>2
<1>5. \A i \in 1..n : i # n => new[i] = fs[i]
  BY <1>1
<1>6. SgAdvance(fs) = new
  BY DEF SgAdvance, f
<1> QED
  BY <1>3, <1>4, <1>5, <1>6

\* Who makes a call, and which.
LEMMA SgRunning ==
  ASSUME SgShape, NEW op, SgRuns(op)
  PROVE  /\ sgLife = "running" /\ sgPend \subseteq sgMask /\ ~SgTop.asleep
         /\ SgIns[1] = op /\ SgPlace(SgTop.code, SgTop.pc, SgIns)
         /\ SgTop \in SgFrameSet /\ SgTop = sgFrames[Len(sgFrames)]
         /\ Len(sgFrames) \in Nat /\ Len(sgFrames) >= 1
         /\ SgQuiet => SgTop = sgFrames[1] /\ SgTop.code = sgProg /\ sgProg \in SgPrograms
         /\ ~SgQuiet => /\ Len(sgFrames) \in 2..Len(sgFrames)
                        /\ SgTop.code \in SgHandlers /\ SgTop.code \in SgHandling
                        /\ \E s \in SgSignals : SgFits(s, SgTop.code)
<1>1. /\ sgFrames \in Seq(SgFrameSet) /\ Len(sgFrames) # 0 /\ sgFrames[1].code = sgProg
      /\ Len(sgFrames) \in Nat /\ Len(sgFrames) >= 1
  BY DEF SgShape, SgStack
<1>2. SgTop \in SgFrameSet /\ SgTop = sgFrames[Len(sgFrames)]
  BY <1>1 DEF SgTop
<1>3. SgTop.pc \in 1..Len(SgCode[SgTop.code]) /\ SgTop.code \in SgCodes
  BY <1>1, <1>2 DEF SgShape, SgStack, SgFrameSet
<1>4. SgPlace(SgTop.code, SgTop.pc, SgIns)
  BY <1>3, SgOps DEF SgIns
<1>5. ~SgQuiet => /\ Len(sgFrames) \in 2..Len(sgFrames)
                  /\ SgTop.code \in SgHandlers /\ SgTop.code \in SgHandling
                  /\ \E s \in SgSignals : SgFits(s, SgTop.code)
  <2>1. ~SgQuiet => Len(sgFrames) \in 2..Len(sgFrames)
    BY <1>1 DEF SgQuiet
  <2> QED
    BY <2>1, <1>2 DEF SgShape, SgStack, SgHandling
<1>6. SgQuiet => SgTop = sgFrames[1] /\ SgTop.code = sgProg /\ sgProg \in SgPrograms
  BY <1>1, <1>2 DEF SgQuiet, SgShape, SgValues
<1> QED
  BY <1>1, <1>2, <1>4, <1>5, <1>6 DEF SgRuns

\* A call that is not the last moves whoever makes it.
LEMMA SgForwards ==
  ASSUME SgShape, NEW op, SgRuns(op), op \notin {"return", "longjmp"},
         SgForward, sgProg' = sgProg, sgCaller' = sgCaller,
         ~SgQuiet => sgMask' = sgMask
  PROVE  /\ SgStack'
         /\ SgQuiet => SgGoes(1)
         /\ ~SgQuiet => SgStays
<1> DEFINE n == Len(sgFrames)
<1>r. /\ sgLife = "running" /\ sgPend \subseteq sgMask /\ ~SgTop.asleep /\ SgIns[1] = op
      /\ SgPlace(SgTop.code, SgTop.pc, SgIns) /\ SgTop \in SgFrameSet /\ SgTop = sgFrames[n]
      /\ n \in Nat /\ n >= 1
      /\ SgQuiet => SgTop = sgFrames[1] /\ SgTop.code = sgProg
      /\ ~SgQuiet => n \in 2..n /\ SgTop.code \in SgHandlers
  BY SgRunning
<1>s. SgStack
  BY DEF SgShape
<1>1. sgFrames[n].pc + 1 \in 1..Len(SgCode[sgFrames[n].code]) /\ sgFrames[n].code \in SgCodes
  BY <1>r DEF SgPlace, SgFrameSet
<1>2. sgFrames[n].pc + 1 \in 1..9
  BY <1>1, SgOps, SMTT(30)
<1>3. /\ sgFrames' \in Seq(SgFrameSet) /\ Len(sgFrames') = n
      /\ \A i \in 1..n : i # n => sgFrames'[i] = sgFrames[i]
      /\ sgFrames'[n].pc = sgFrames[n].pc + 1 /\ sgFrames'[n].code = sgFrames[n].code
      /\ sgFrames'[n].mask = sgFrames[n].mask /\ sgFrames'[n].asleep = sgFrames[n].asleep
  BY <1>2, <1>s, SgAdvanced DEF SgForward, SgStack
<1>4. \A i \in 1..n : /\ sgFrames'[i].code = sgFrames[i].code
                      /\ sgFrames'[i].asleep = sgFrames[i].asleep
                      /\ sgFrames'[i].mask = sgFrames[i].mask
                      /\ sgFrames'[i].pc \in 1..Len(SgCode[sgFrames[i].code])
  BY <1>3, <1>1, <1>s DEF SgStack
<1>5. \A i \in 2..n : i \in 1..n
  BY <1>r
<1>6. 1 \in 1..n /\ n \in 1..n
  BY <1>r
<1>a. SgQuiet => n = 1 /\ ~sgFrames[1].asleep
  BY <1>r DEF SgQuiet
<1>7. ~SgQuiet => 1 # n /\ 2 \in 1..n
  BY <1>r DEF SgQuiet
<1>8. ~SgQuiet => sgFrames'[1] = sgFrames[1]
  BY <1>7, <1>6, <1>3
<1>9. \A s, h : SgFits(s, h)' <=> SgFits(s, h)
  BY DEF SgFits
<1>10. SgStack'
  <2>1. \A i \in 2..n : /\ ~sgFrames'[i].asleep /\ sgFrames'[i].code \in SgHandlers
                        /\ \E s \in SgSignals : SgFits(s, sgFrames'[i].code)
    BY <1>4, <1>5, <1>s DEF SgStack
  <2>2. sgFrames'[1].asleep => SgCode[sgProg][sgFrames'[1].pc][1] \in SgDozes
    BY <1>a, <1>8, <1>4, <1>6, <1>s DEF SgStack
  <2>3. Len(sgFrames') = n /\ n # 0
    BY <1>3, <1>r
  <2>4. sgFrames'[1].code = sgProg
    BY <1>4, <1>6, <1>s DEF SgStack
  <2>5. \A i \in 1..n : sgFrames'[i].pc \in 1..Len(SgCode[sgFrames'[i].code])
    BY <1>4
  <2> HIDE DEF n
  <2> QED
    BY <1>3, <2>1, <2>2, <2>3, <2>4, <2>5 DEF SgStack, SgFits
<1>11. SgHandling' = SgHandling
  BY <1>3, <1>4, <1>5 DEF SgHandling
<1>12. SgQuiet' <=> SgQuiet
  BY <1>3 DEF SgQuiet
<1>13. ASSUME SgQuiet PROVE SgGoes(1)
  <2>1. SgHandling = {}
    <3>1. 2..1 = {}
      OBVIOUS
    <3>2. n = 1
      BY <1>a, <1>13
    <3> QED
      BY <3>1, <3>2 DEF SgHandling
  <2>2. ~SgDozing /\ ~SgDozing' /\ SgPc' = SgPc + 1
    BY <1>3, <1>a, <1>13 DEF SgDozing, SgPc
  <2> QED
    BY <1>r, <1>11, <1>12, <1>13, <2>1, <2>2 DEF SgGoes, SgBack
<1>14. ASSUME ~SgQuiet PROVE SgStays
  <2>1. SgPc' = SgPc /\ SgDozing' = SgDozing
    BY <1>14, <1>8 DEF SgPc, SgDozing
  <2>2. SgBack' = SgBack
    BY <1>14, <1>12, <1>7, <1>4 DEF SgBack
  <2> QED
    BY <2>1, <2>2, <1>11, <1>12 DEF SgStays
<1> QED
  BY <1>10, <1>13, <1>14

\* Nothing happens to the stack.
LEMMA SgUnmoved ==
  ASSUME SgShape, sgFrames' = sgFrames, sgMask' = sgMask, sgProg' = sgProg, sgCaller' = sgCaller
  PROVE  SgStack' /\ SgStays
<1>1. SgStack'
  BY DEF SgShape, SgStack, SgFits
<1>2. SgStays
  BY DEF SgStays, SgPc, SgDozing, SgQuiet, SgHandling, SgBack
<1> QED
  BY <1>1, <1>2

\* Sleeping calls are made by the function; their frame keeps the mask of before.
LEMMA SgFallsAsleep ==
  ASSUME SgShape, SgFallAsleep
  PROVE  /\ SgStack' /\ SgPlace(sgProg, SgPc, SgIns) /\ SgIns[1] \in SgDozes
         /\ SgIns = SgCode[sgProg][SgPc] /\ sgPend \subseteq sgMask
         /\ SgQuiet /\ SgQuiet' /\ ~SgDozing /\ SgDozing' /\ SgPc' = SgPc
         /\ SgHandling = {} /\ SgHandling' = {} /\ SgBack = sgMask /\ SgBack' = sgMask
<1> DEFINE n == Len(sgFrames)
           f == [[sgFrames[n] EXCEPT !.asleep = TRUE] EXCEPT !.mask = sgMask]
<1>1. PICK op \in SgDozes : SgRuns(op)
  BY DEF SgFallAsleep, SgDozes
<1>r. /\ sgPend \subseteq sgMask /\ ~SgTop.asleep /\ SgIns[1] = op
      /\ SgPlace(SgTop.code, SgTop.pc, SgIns) /\ SgTop \in SgFrameSet /\ SgTop = sgFrames[n]
      /\ SgQuiet => SgTop = sgFrames[1] /\ SgTop.code = sgProg
      /\ ~SgQuiet => SgTop.code \in SgHandlers
  BY <1>1, SgRunning
<1>2. SgQuiet
  BY <1>1, <1>r DEF SgPlace, SgDozes, SgHandlers
<1>3. n = 1 /\ SgTop = sgFrames[1] /\ SgTop.code = sgProg /\ sgFrames \in Seq(SgFrameSet)
  BY <1>2, <1>r DEF SgQuiet, SgShape, SgStack
<1>m. sgMask \subseteq SgSignals
  BY DEF SgShape, SgValues
<1>4. f \in SgFrameSet
  BY <1>r, <1>m, Zenon DEF SgFrameSet
<1>5. f.asleep /\ f.mask = sgMask /\ f.code = sgFrames[1].code /\ f.pc = sgFrames[1].pc
  BY <1>r, <1>3 DEF SgFrameSet
<1>6. sgFrames' = [sgFrames EXCEPT ![1] = f] /\ sgProg' = sgProg /\ sgCaller' = sgCaller
  BY <1>3 DEF SgFallAsleep, SgFixed
<1> HIDE DEF f, n
<1>7. sgFrames' \in Seq(SgFrameSet) /\ Len(sgFrames') = 1 /\ sgFrames'[1] = f
  <2>1. Len(sgFrames) = 1 /\ 1 \in 1..1
    BY <1>3 DEF n
  <2> QED
    BY <2>1, <1>3, <1>4, <1>6, SgReplaced, SMTT(30)
<1>8. SgIns = SgCode[sgProg][SgPc]
  BY <1>3 DEF SgIns, SgPc
<1>e. 2..1 = {}
  OBVIOUS
<1>l. Len(sgFrames) = 1
  BY <1>3 DEF n
<1>9. SgStack'
  <2>1. \A i \in 1..1 : i = 1
    OBVIOUS
  <2>2. sgFrames'[1].pc \in 1..Len(SgCode[sgFrames'[1].code]) /\ sgFrames'[1].code = sgProg
    BY <1>5, <1>7, <1>l DEF SgShape, SgStack
  <2>3. SgCode[sgProg][sgFrames'[1].pc][1] \in SgDozes
    BY <1>1, <1>r, <1>8, <1>5, <1>7 DEF SgPc
  <2> QED
    BY <2>1, <2>2, <2>3, <1>7, <1>6, <1>e DEF SgStack
<1>10. SgHandling = {} /\ SgHandling' = {}
  BY <1>e, <1>l, <1>7 DEF SgHandling
<1>11. ~SgDozing /\ SgDozing' /\ SgPc' = SgPc /\ SgQuiet'
  BY <1>3, <1>r, <1>5, <1>7 DEF SgDozing, SgPc, SgQuiet
<1>12. SgPlace(sgProg, SgPc, SgIns)
  BY <1>3, <1>r DEF SgPc
<1>13. SgBack = sgMask
  BY <1>2, <1>11 DEF SgBack
<1>14. SgBack' = sgMask
  <2>1. sgMask' = sgMask \/ op \in {"suspend", "suspend_old"}
    BY <1>r, <1>1 DEF SgFallAsleep, SgRuns
  <2>2. SgCode[sgProg][SgPc][1]' = op
    BY <1>8, <1>r, <1>11, <1>6
  <2>3. sgFrames'[1].mask = sgMask
    BY <1>7, <1>5
  <2> QED
    BY <2>1, <2>2, <2>3, <1>11 DEF SgBack
<1> QED
  BY <1>1, <1>r, <1>2, <1>8, <1>9, <1>10, <1>11, <1>12, <1>13, <1>14

\* nanosleep(2) ends in time.
LEMMA SgNanoWakes ==
  ASSUME SgShape, SgNanoEnds
  PROVE  /\ SgStack' /\ sgProg = "sleep4" /\ SgPc = 1 /\ SgPc' = 2
         /\ SgQuiet /\ SgQuiet' /\ SgDozing /\ ~SgDozing'
         /\ SgHandling' = {} /\ SgBack = sgMask /\ SgBack' = sgMask
<1>1. /\ sgFrames \in Seq(SgFrameSet) /\ Len(sgFrames) # 0 /\ sgFrames[1].code = sgProg
      /\ Len(sgFrames) \in Nat /\ Len(sgFrames) >= 1 /\ sgProg \in SgPrograms
      /\ sgFrames[1].pc \in 1..Len(SgCode[sgProg]) /\ sgFrames[1] \in SgFrameSet
  BY DEF SgShape, SgStack, SgValues
<1>2. Len(sgFrames) = 1
  <2>1. Len(sgFrames) \in 2..Len(sgFrames) => ~SgTop.asleep
    BY DEF SgShape, SgStack, SgTop
  <2>2. SgTop.asleep
    BY DEF SgNanoEnds
  <2>3. \A m \in Nat : m >= 1 /\ m \notin 2..m => m = 1
    OBVIOUS
  <2> QED
    BY <2>1, <2>2, <2>3, <1>1
<1>3. SgTop = sgFrames[1] /\ SgIns = SgCode[sgProg][SgPc]
  BY <1>1, <1>2 DEF SgTop, SgIns, SgPc
<1>4. sgProg = "sleep4" /\ SgPc = 1
  <2>1. SgPlace(sgProg, SgPc, SgIns) /\ SgIns[1] = "nanosleep"
    BY <1>1, <1>3, SgOps DEF SgNanoEnds, SgPc, SgCodes
  <2> QED
    BY <2>1 DEF SgPlace
<1>5. sgFrames[1].pc + 1 \in 1..9 /\ 2 \in 1..Len(SgCode["sleep4"])
  BY <1>4 DEF SgPc, SgCode, Sleep4
<1> DEFINE fs == SgAdvance(sgFrames)
           f == [fs[1] EXCEPT !.asleep = FALSE]
<1>6. fs \in Seq(SgFrameSet) /\ Len(fs) = 1 /\ fs[1].pc = 2 /\ fs[1].code = sgProg
  <2>1. sgFrames[Len(sgFrames)] = sgFrames[1] /\ sgFrames[1].pc = 1
    BY <1>2, <1>4 DEF SgPc
  <2>2. sgFrames[Len(sgFrames)].pc + 1 \in 1..9
    BY <2>1
  <2>3. /\ fs \in Seq(SgFrameSet) /\ Len(fs) = Len(sgFrames)
        /\ fs[Len(sgFrames)].pc = sgFrames[Len(sgFrames)].pc + 1
        /\ fs[Len(sgFrames)].code = sgFrames[Len(sgFrames)].code
    BY <1>1, <2>2, SgAdvanced
  <2> HIDE DEF fs
  <2> QED
    BY <1>1, <1>2, <2>1, <2>3
<1>7. sgFrames' = [fs EXCEPT ![1] = f] /\ sgMask' = sgMask /\ sgProg' = sgProg /\ sgCaller' = sgCaller
  BY <1>2 DEF SgNanoEnds, SgFixed
<1> HIDE DEF fs
<1>8. fs[1] \in SgFrameSet
  BY <1>6, SMTT(30)
<1>9. f \in SgFrameSet
  BY <1>8, Zenon DEF SgFrameSet
<1>10. f.pc = 2 /\ f.code = sgProg /\ ~f.asleep
  BY <1>8, <1>6 DEF SgFrameSet
<1> HIDE DEF f
<1>11. sgFrames' \in Seq(SgFrameSet) /\ Len(sgFrames') = 1 /\ sgFrames'[1] = f
  <2>1. 1 \in 1..Len(fs)
    BY <1>6
  <2>2. fs \in Seq(SgFrameSet) /\ f \in SgFrameSet /\ sgFrames' = [fs EXCEPT ![1] = f]
    BY <1>6, <1>7, <1>9
  <2>3. sgFrames' \in Seq(SgFrameSet) /\ Len(sgFrames') = Len(fs) /\ sgFrames'[1] = f
    BY <2>1, <2>2, SgReplaced
  <2> QED
    BY <2>3, <1>6
<1>e. 2..1 = {}
  OBVIOUS
<1>12. SgStack'
  <2>1. \A i \in 1..1 : i = 1
    OBVIOUS
  <2> QED
    BY <2>1, <1>4, <1>5, <1>7, <1>10, <1>11, <1>e DEF SgStack
<1>13. SgHandling' = {}
  BY <1>e, <1>11 DEF SgHandling
<1>14. SgQuiet /\ SgQuiet' /\ SgDozing /\ ~SgDozing' /\ SgPc' = 2
  BY <1>2, <1>3, <1>10, <1>11 DEF SgQuiet, SgDozing, SgPc, SgNanoEnds
<1>15. SgBack = sgMask /\ SgBack' = sgMask
  <2>1. SgCode[sgProg][SgPc][1] = "nanosleep"
    BY <1>3 DEF SgNanoEnds
  <2> QED
    BY <2>1, <1>14, <1>7 DEF SgBack
<1> QED
  BY <1>4, <1>12, <1>13, <1>14, <1>15

\* The top of the stack, also when nothing runs.
LEMMA SgStacked ==
  ASSUME SgShape
  PROVE  /\ sgFrames \in Seq(SgFrameSet) /\ Len(sgFrames) \in Nat /\ Len(sgFrames) >= 1
         /\ SgTop \in SgFrameSet /\ SgTop = sgFrames[Len(sgFrames)]
         /\ sgFrames[1] \in SgFrameSet /\ sgFrames[1].code = sgProg /\ sgProg \in SgCodes
         /\ SgPc \in 1..Len(SgCode[sgProg])
         /\ SgQuiet => SgTop = sgFrames[1] /\ SgIns = SgCode[sgProg][SgPc]
         /\ ~SgQuiet => Len(sgFrames) \in 2..Len(sgFrames) /\ ~SgTop.asleep
         /\ SgQuiet <=> Len(sgFrames) = 1
         /\ SgQuiet => SgHandling = {}
<1>1. /\ sgFrames \in Seq(SgFrameSet) /\ Len(sgFrames) \in Nat /\ Len(sgFrames) >= 1
      /\ SgTop \in SgFrameSet /\ SgTop = sgFrames[Len(sgFrames)]
  BY DEF SgShape, SgStack, SgTop
<1>2. /\ sgFrames[1] \in SgFrameSet /\ sgFrames[1].code = sgProg /\ sgProg \in SgCodes
      /\ SgPc \in 1..Len(SgCode[sgProg])
  BY <1>1 DEF SgShape, SgStack, SgValues, SgCodes, SgPc
<1>3. SgQuiet => SgTop = sgFrames[1] /\ SgIns = SgCode[sgProg][SgPc]
  BY <1>1, <1>2 DEF SgQuiet, SgIns, SgPc
<1>4. ~SgQuiet => Len(sgFrames) \in 2..Len(sgFrames)
  <2>1. \A m \in Nat : m >= 1 /\ m # 1 => m \in 2..m
    OBVIOUS
  <2> QED
    BY <2>1, <1>1 DEF SgQuiet
<1>5. ~SgQuiet => ~SgTop.asleep
  BY <1>1, <1>4 DEF SgShape, SgStack
<1>6. SgQuiet => SgHandling = {}
  <2>1. 2..1 = {}
    OBVIOUS
  <2> QED
    BY <2>1 DEF SgQuiet, SgHandling
<1> QED
  BY <1>1, <1>2, <1>3, <1>4, <1>5, <1>6 DEF SgQuiet

\* longjmp(3) leaves every handler.
LEMMA SgCuts ==
  ASSUME SgShape, SgRuns("longjmp"), sgProg' = sgProg, sgCaller' = sgCaller,
         sgFrames' = <<[sgFrames[1] EXCEPT !.pc = SgLanding, !.asleep = FALSE]>>
  PROVE  /\ SgStack' /\ sgProg = "sleep2" /\ ~SgQuiet /\ "jump" \in SgHandling
         /\ SgQuiet' /\ SgPc' = 5 /\ ~SgDozing' /\ SgHandling' = {}
<1>1. SgTop.code = "jump"
  BY SgRunning DEF SgPlace
<1>2. ~SgQuiet /\ "jump" \in SgHandling /\ sgProg = "sleep2"
  BY <1>1, SgRunning DEF SgFits, SgPrograms, SgSleeps
<1> DEFINE f == [sgFrames[1] EXCEPT !.pc = SgLanding, !.asleep = FALSE]
<1>3. sgFrames[1] \in SgFrameSet /\ sgFrames[1].code = sgProg
  BY SgStacked
<1>4. f \in SgFrameSet
  <2>1. SgLanding \in 1..9 /\ FALSE \in BOOLEAN
    BY DEF SgLanding
  <2> QED
    BY <2>1, <1>3, Zenon DEF SgFrameSet
<1>5. f.pc = 5 /\ f.code = "sleep2" /\ ~f.asleep
  BY <1>2, <1>3 DEF SgFrameSet, SgLanding
<1>6. sgFrames' = <<f>>
  OBVIOUS
<1> HIDE DEF f
<1>7. sgFrames' \in Seq(SgFrameSet) /\ Len(sgFrames') = 1 /\ sgFrames'[1] = f
  BY <1>4, <1>6
<1>e. 2..1 = {} /\ \A i \in 1..1 : i = 1
  OBVIOUS
<1>8. 5 \in 1..Len(SgCode["sleep2"])
  BY DEF SgCode, Sleep2
<1>9. SgStack'
  <2>1. \A i \in 1..Len(sgFrames') : sgFrames'[i].pc \in 1..Len(SgCode[sgFrames'[i].code])
    BY <1>5, <1>7, <1>8, <1>e
  <2>2. \A i \in 2..Len(sgFrames') : FALSE
    BY <1>7, <1>e
  <2> QED
    BY <1>2, <1>5, <1>7, <2>1, <2>2 DEF SgStack
<1> QED
  BY <1>2, <1>5, <1>7, <1>9, <1>e DEF SgQuiet, SgPc, SgDozing, SgHandling

\* A handler starts on top of what it interrupts.
LEMMA SgStarts ==
  ASSUME SgShape, NEW s \in SgSignals, SgEnter(s), sgDisp[s] \notin {"ign", "dfl"},
         sgProg' = sgProg, sgCaller' = sgCaller
  PROVE  /\ SgStack' /\ SgEnters(sgDisp[s]) /\ SgFits(s, sgDisp[s])
         /\ SgTop'.pc = 1 /\ SgTop'.code = sgDisp[s]
<1> DEFINE n == Len(sgFrames)
           h == sgDisp[s]
           saved == IF SgTop.asleep /\ SgIns[1] \in {"suspend", "suspend_old"}
                    THEN SgTop.mask ELSE sgMask
           f == SgFrame(h, saved)
<1>1. /\ sgFrames \in Seq(SgFrameSet) /\ n \in Nat /\ n >= 1 /\ SgTop \in SgFrameSet
      /\ SgTop = sgFrames[n] /\ (SgQuiet <=> n = 1)
      /\ SgQuiet => SgTop = sgFrames[1] /\ SgIns = SgCode[sgProg][SgPc]
      /\ ~SgQuiet => ~SgTop.asleep
  BY SgStacked
<1>2. h \in SgHandlers /\ SgFits(s, h) /\ sgMask \subseteq SgSignals
  BY DEF SgShape, SgValues, SgActions
<1>3. saved \subseteq SgSignals
  BY <1>1, <1>2 DEF SgFrameSet
<1>4. f \in SgFrameSet /\ f.code = h /\ f.pc = 1 /\ ~f.asleep /\ f.mask = saved
  BY <1>2, <1>3 DEF SgFrame, SgFrameSet, SgCodes
<1>5. sgFrames' = Append(sgFrames, f)
  BY DEF SgEnter
<1>6. saved = SgBack \/ ~SgQuiet
  BY <1>1 DEF SgBack, SgDozing
<1> HIDE DEF h, saved, f
<1>7. /\ sgFrames' \in Seq(SgFrameSet) /\ Len(sgFrames') = n + 1 /\ sgFrames'[n + 1] = f
      /\ \A i \in 1..n : sgFrames'[i] = sgFrames[i]
  BY <1>1, <1>4, <1>5
<1>8. /\ 1 \in 1..n /\ (\A i \in 2..n : i \in 1..n) /\ (\A i \in 1..(n + 1) : i \in 1..n \/ i = n + 1)
      /\ (\A i \in 2..(n + 1) : i \in 2..n \/ i = n + 1) /\ n + 1 # 0 /\ n + 1 # 1
      /\ n + 1 \in 2..(n + 1) /\ (\A i \in 2..n : i \in 2..(n + 1))
      /\ (n # 1 => 2 \in 1..n) /\ (n = 1 => n + 1 = 2)
  <2>1. \A m \in Nat : m >= 1 =>
          /\ 1 \in 1..m /\ (\A i \in 2..m : i \in 1..m) /\ (\A i \in 1..(m + 1) : i \in 1..m \/ i = m + 1)
          /\ (\A i \in 2..(m + 1) : i \in 2..m \/ i = m + 1) /\ m + 1 # 0 /\ m + 1 # 1
          /\ m + 1 \in 2..(m + 1) /\ (\A i \in 2..m : i \in 2..(m + 1))
          /\ (m # 1 => 2 \in 1..m) /\ (m = 1 => m + 1 = 2)
    OBVIOUS
  <2> QED
    BY <2>1, <1>1
<1>9. 1 \in 1..Len(SgCode[h])
  BY <1>2, SgOps DEF SgCodes
<1>s. SgStack
  BY DEF SgShape
<1> HIDE DEF n
<1>10. SgStack'
  <2>1. \A i \in 1..(n + 1) : sgFrames'[i].pc \in 1..Len(SgCode[sgFrames'[i].code])
    BY <1>7, <1>8, <1>9, <1>4, <1>s DEF SgStack, n
  <2>2. \A i \in 2..(n + 1) :
          /\ ~sgFrames'[i].asleep /\ sgFrames'[i].code \in SgHandlers
          /\ \E q \in SgSignals : SgFits(q, sgFrames'[i].code)
    BY <1>7, <1>8, <1>2, <1>4, <1>s DEF SgStack, n
  <2>3. sgFrames'[1].code = sgProg
    BY <1>7, <1>8, <1>s DEF SgStack
  <2>4. sgFrames'[1].asleep => SgCode[sgProg][sgFrames'[1].pc][1] \in SgDozes
    BY <1>7, <1>8, <1>s DEF SgStack
  <2> QED
    BY <1>7, <1>8, <2>1, <2>2, <2>3, <2>4 DEF SgStack, SgFits
<1>11. SgHandling' = SgHandling \cup {h}
  <2>1. \A i \in 2..n : sgFrames'[i] = sgFrames[i]
    BY <1>7, <1>8
  <2>2. SgHandling' = {sgFrames'[i].code : i \in 2..(n + 1)}
    BY <1>7 DEF SgHandling
  <2>3. SgHandling = {sgFrames[i].code : i \in 2..n}
    BY DEF SgHandling, n
  <2> QED
    BY <2>1, <2>2, <2>3, <1>7, <1>8, <1>4
<1>12. ~SgQuiet' /\ SgPc' = SgPc /\ SgDozing' = SgDozing
  BY <1>7, <1>8 DEF SgQuiet, SgPc, SgDozing
<1>13. SgBack' = SgBack
  <2>1. CASE SgQuiet
    <3>1. sgFrames'[2] = f
      BY <2>1, <1>1, <1>7, <1>8 DEF n
    <3> QED
      BY <2>1, <3>1, <1>4, <1>6, <1>12 DEF SgBack
  <2>2. CASE ~SgQuiet
    <3>1. sgFrames'[2] = sgFrames[2]
      BY <2>2, <1>1, <1>7, <1>8
    <3> QED
      BY <2>2, <3>1, <1>12 DEF SgBack
  <2> QED
    BY <2>1, <2>2
<1>14. SgTop'.pc = 1 /\ SgTop'.code = h
  BY <1>7, <1>4 DEF SgTop
<1> QED
  BY <1>2, <1>10, <1>11, <1>12, <1>13, <1>14 DEF SgEnters, h

\* A handler returns, and with the last one the call it interrupted.
LEMMA SgReturns ==
  ASSUME SgShape, SgReturn, ~SgQuiet
  PROVE  SgStack' /\ SgLeaves /\ sgLife' = sgLife /\ SgIns[1] = "return"
         /\ SgPlace(SgTop.code, SgTop.pc, SgIns)
<1> DEFINE n == Len(sgFrames)
           below == SubSeq(sgFrames, 1, n - 1)
<1>1. /\ sgFrames \in Seq(SgFrameSet) /\ n \in Nat /\ n >= 2 /\ SgTop = sgFrames[n]
      /\ sgFrames[1] \in SgFrameSet /\ sgFrames[1].code = sgProg /\ sgProg \in SgCodes
      /\ sgFrames[1].pc \in 1..Len(SgCode[sgProg])
  BY SgStacked DEF SgQuiet, SgPc
<1>2. SgRuns("return")
  BY DEF SgReturn
<1>3. SgIns[1] = "return" /\ SgPlace(SgTop.code, SgTop.pc, SgIns)
  BY <1>2, SgRunning
<1>4. /\ sgMask' = SgTop.mask /\ sgLife' = sgLife /\ sgProg' = sgProg /\ sgCaller' = sgCaller
      /\ sgFrames' = IF below[Len(below)].asleep
                     THEN [SgAdvance(below) EXCEPT ![Len(below)].asleep = FALSE] ELSE below
  <2>1. Len(sgFrames) # 1
    BY <1>1
  <2> QED
    BY <2>1 DEF SgReturn, SgFixed
<1>5. below \in Seq(SgFrameSet) /\ Len(below) = n - 1 /\ \A i \in 1..(n - 1) : below[i] = sgFrames[i]
  <2>1. ASSUME NEW u \in Seq(SgFrameSet), NEW m \in Nat, m >= 1, m <= Len(u)
        PROVE  /\ SubSeq(u, 1, m) \in Seq(SgFrameSet) /\ Len(SubSeq(u, 1, m)) = m
               /\ \A i \in 1..m : SubSeq(u, 1, m)[i] = u[i]
    BY <2>1
  <2>2. n - 1 \in Nat /\ n - 1 >= 1 /\ n - 1 <= Len(sgFrames)
    BY <1>1
  <2> QED
    BY <2>1, <2>2, <1>1
<1>s. SgStack
  BY DEF SgShape
<1>6. /\ 1 \in 1..(n - 1) /\ n - 1 \in 1..(n - 1) /\ n - 1 # 0 /\ 2 \in 2..n
      /\ (\A i \in 1..(n - 1) : i \in 1..n) /\ (\A i \in 2..(n - 1) : i \in 2..n /\ i \in 1..(n - 1))
      /\ (n # 2 => n - 1 \in 2..n /\ 2 \in 1..(n - 1) /\ n - 1 # 1) /\ n - 1 \in Nat
      /\ (n = 2 => n - 1 = 1)
  <2>1. \A m \in Nat : m >= 2 =>
          /\ 1 \in 1..(m - 1) /\ m - 1 \in 1..(m - 1) /\ m - 1 # 0 /\ 2 \in 2..m
          /\ (\A i \in 1..(m - 1) : i \in 1..m)
          /\ (\A i \in 2..(m - 1) : i \in 2..m /\ i \in 1..(m - 1))
          /\ (m # 2 => m - 1 \in 2..m /\ 2 \in 1..(m - 1) /\ m - 1 # 1) /\ m - 1 \in Nat
          /\ (m = 2 => m - 1 = 1)
    OBVIOUS
  <2> QED
    BY <2>1, <1>1
<1> HIDE DEF n, below
<1>7. SgTop = sgFrames[n] /\ Len(sgFrames) = n
  BY <1>1 DEF n
<1>8. CASE ~below[Len(below)].asleep
  <2>1. sgFrames' = below
    BY <1>4, <1>8
  <2>2. /\ Len(sgFrames') = n - 1 /\ \A i \in 1..(n - 1) : sgFrames'[i] = sgFrames[i]
    BY <2>1, <1>5
  <2>3. SgStack'
    <3>1. \A i \in 1..(n - 1) : sgFrames'[i].pc \in 1..Len(SgCode[sgFrames'[i].code])
      BY <2>2, <1>6, <1>7, <1>s DEF SgStack
    <3>2. \A i \in 2..(n - 1) :
            /\ ~sgFrames'[i].asleep /\ sgFrames'[i].code \in SgHandlers
            /\ \E s \in SgSignals : SgFits(s, sgFrames'[i].code)
      BY <2>2, <1>6, <1>7, <1>s DEF SgStack
    <3>3. /\ sgFrames'[1].code = sgProg
          /\ sgFrames'[1].asleep => SgCode[sgProg][sgFrames'[1].pc][1] \in SgDozes
      BY <2>2, <1>6, <1>s DEF SgStack
    <3> QED
      BY <2>1, <2>2, <1>4, <1>5, <1>6, <3>1, <3>2, <3>3, ZenonT(60) DEF SgStack, SgFits
  <2>4. SgHandling' \subseteq SgHandling
    <3>1. SgHandling' = {sgFrames'[i].code : i \in 2..(n - 1)}
      BY <2>2 DEF SgHandling
    <3>2. SgHandling = {sgFrames[i].code : i \in 2..n}
      BY <1>7 DEF SgHandling
    <3> QED
      BY <3>1, <3>2, <2>2, <1>6
  <2>5. SgPc' = SgPc /\ SgDozing' = SgDozing
    BY <2>2, <1>6 DEF SgPc, SgDozing
  <2>6. SgQuiet' <=> n = 2
    BY <2>2, <1>1, <1>6 DEF SgQuiet
  <2>7. n = 2 => ~SgDozing
    BY <1>8, <1>5, <1>6 DEF SgDozing
  <2>8. SgBack' = SgBack
    <3>1. CASE n = 2
      BY <3>1, <2>5, <2>6, <2>7, <1>4, <1>7 DEF SgBack
    <3>2. CASE n # 2
      <4>1. sgFrames'[2] = sgFrames[2]
        BY <3>2, <2>2, <1>6
      <4> QED
        BY <3>2, <4>1, <2>6 DEF SgBack
    <3> QED
      BY <3>1, <3>2
  <2> QED
    BY <2>3, <2>4, <2>5, <2>6, <2>7, <2>8, <1>3, <1>4 DEF SgLeaves
<1>9. CASE below[Len(below)].asleep
  <2>1. n = 2
    BY <1>9, <1>5, <1>6, <1>7, <1>s DEF SgStack
  <2>2. Len(below) = 1 /\ below[1] = sgFrames[1] /\ sgFrames[1].asleep
    BY <2>1, <1>5, <1>6, <1>9
  <2>3. SgCode[sgProg][sgFrames[1].pc][1] \in SgDozes
    BY <2>2, <1>s DEF SgStack
  <2>4. sgFrames[1].pc + 1 \in 1..Len(SgCode[sgProg]) /\ Len(SgCode[sgProg]) \in 1..9
    BY <2>3, <1>1, SgOps, ZenonT(60) DEF SgPlace, SgDozes
  <2> DEFINE fs == SgAdvance(below)
             f == [fs[1] EXCEPT !.asleep = FALSE]
  <2>5. fs \in Seq(SgFrameSet) /\ Len(fs) = 1 /\ fs[1].pc = sgFrames[1].pc + 1 /\ fs[1].code = sgProg
    <3>1. below[Len(below)].pc + 1 \in 1..9 /\ Len(below) # 0
      <4>1. \A a, b \in Int : a + 1 \in 1..b /\ b \in 1..9 => a + 1 \in 1..9
        OBVIOUS
      <4>2. sgFrames[1].pc \in Int /\ Len(SgCode[sgProg]) \in Int
        BY <1>1, <2>4 DEF SgFrameSet
      <4>3. sgFrames[1].pc + 1 \in 1..9
        BY <4>1, <4>2, <2>4
      <4>4. below[Len(below)] = sgFrames[1] /\ Len(below) # 0
        BY <2>2
      <4> QED
        BY <4>3, <4>4
    <3>2. /\ fs \in Seq(SgFrameSet) /\ Len(fs) = Len(below)
          /\ fs[Len(below)].pc = below[Len(below)].pc + 1
          /\ fs[Len(below)].code = below[Len(below)].code
      BY <3>1, <1>5, SgAdvanced
    <3> HIDE DEF fs
    <3> QED
      BY <3>2, <2>2, <1>1
  <2>6. sgFrames' = [fs EXCEPT ![1] = f]
    BY <1>4, <1>9, <2>2
  <2> HIDE DEF fs
  <2>7. fs[1] \in SgFrameSet /\ 1 \in 1..Len(fs)
    <3>1. 1 \in 1..Len(fs) /\ fs \in Seq(SgFrameSet)
      BY <2>5
    <3> QED
      BY <3>1
  <2>8. f \in SgFrameSet
    BY <2>7, Zenon DEF SgFrameSet
  <2>9. f.pc = sgFrames[1].pc + 1 /\ f.code = sgProg /\ ~f.asleep
    BY <2>7, <2>5 DEF SgFrameSet
  <2> HIDE DEF f
  <2>10. sgFrames' \in Seq(SgFrameSet) /\ Len(sgFrames') = Len(fs) /\ sgFrames'[1] = f
    <3>1. fs \in Seq(SgFrameSet) /\ 1 \in 1..Len(fs) /\ sgFrames' = [fs EXCEPT ![1] = f]
      BY <2>5, <2>6, <2>7
    <3> QED
      BY <3>1, <2>8, SgReplaced
  <2>e. 2..1 = {} /\ \A i \in 1..1 : i = 1
    OBVIOUS
  <2>11. SgStack'
    <3>1. \A i \in 1..Len(sgFrames') : sgFrames'[i].pc \in 1..Len(SgCode[sgFrames'[i].code])
      BY <2>4, <2>5, <2>9, <2>10, <2>e
    <3>2. \A i \in 2..Len(sgFrames') : FALSE
      BY <2>5, <2>10, <2>e
    <3>3. /\ sgFrames' \in Seq(SgFrameSet) /\ Len(sgFrames') # 0
          /\ sgFrames'[1].code = sgProg /\ ~sgFrames'[1].asleep
      BY <2>5, <2>9, <2>10
    <3> QED
      BY <3>1, <3>2, <3>3, <1>4 DEF SgStack
  <2>12. SgHandling' = {} /\ SgQuiet' /\ ~SgDozing' /\ SgPc' = SgPc + 1 /\ SgDozing
    BY <2>2, <2>5, <2>9, <2>10, <2>e DEF SgHandling, SgQuiet, SgDozing, SgPc
  <2>13. SgBack' = SgBack
    BY <2>1, <2>12, <1>4, <1>7 DEF SgBack
  <2> QED
    BY <2>11, <2>12, <2>13, <1>3, <1>4 DEF SgLeaves
<1> QED
  BY <1>8, <1>9

\* fork(2) fails, and system() goes on behind waitpid(2).
LEMMA SgForkFails ==
  ASSUME SgShape, SgRuns("fork"), sgFrames' = SgAdvance(SgAdvance(sgFrames)),
         sgMask' = sgMask, sgProg' = sgProg, sgCaller' = sgCaller
  PROVE  SgStack' /\ SgGoes(2) /\ sgProg = "system" /\ SgPc = 4
<1>1. /\ SgTop.code = "system" /\ SgTop.pc = 4 /\ ~SgTop.asleep /\ sgPend \subseteq sgMask
      /\ SgQuiet => SgTop = sgFrames[1] /\ SgTop.code = sgProg
      /\ ~SgQuiet => SgTop.code \in SgHandlers
  BY SgRunning DEF SgPlace
<1>2. SgQuiet
  BY <1>1 DEF SgHandlers
<1>3. /\ sgFrames \in Seq(SgFrameSet) /\ Len(sgFrames) = 1 /\ sgFrames[1].pc = 4
      /\ sgFrames[1].code = "system" /\ sgProg = "system" /\ ~sgFrames[1].asleep
      /\ SgHandling = {}
  BY <1>1, <1>2, SgStacked
<1> DEFINE fs == SgAdvance(sgFrames)
<1>4. /\ fs \in Seq(SgFrameSet) /\ Len(fs) = 1 /\ fs[1].pc = 5
      /\ fs[1].code = "system" /\ ~fs[1].asleep
  <2>1. sgFrames[Len(sgFrames)].pc + 1 \in 1..9 /\ Len(sgFrames) # 0
    BY <1>3
  <2>2. /\ fs \in Seq(SgFrameSet) /\ Len(fs) = Len(sgFrames)
        /\ fs[Len(sgFrames)].pc = sgFrames[Len(sgFrames)].pc + 1
        /\ fs[Len(sgFrames)].code = sgFrames[Len(sgFrames)].code
        /\ fs[Len(sgFrames)].asleep = sgFrames[Len(sgFrames)].asleep
    BY <1>3, <2>1, SgAdvanced
  <2> HIDE DEF fs
  <2> QED
    BY <2>2, <1>3
<1> HIDE DEF fs
<1>5. /\ sgFrames' \in Seq(SgFrameSet) /\ Len(sgFrames') = 1 /\ sgFrames'[1].pc = 6
      /\ sgFrames'[1].code = "system" /\ ~sgFrames'[1].asleep
  <2>1. fs[Len(fs)].pc + 1 \in 1..9 /\ Len(fs) # 0 /\ sgFrames' = SgAdvance(fs)
    BY <1>4 DEF fs
  <2>2. /\ sgFrames' \in Seq(SgFrameSet) /\ Len(sgFrames') = Len(fs)
        /\ sgFrames'[Len(fs)].pc = fs[Len(fs)].pc + 1
        /\ sgFrames'[Len(fs)].code = fs[Len(fs)].code
        /\ sgFrames'[Len(fs)].asleep = fs[Len(fs)].asleep
    BY <1>4, <2>1, SgAdvanced
  <2> QED
    BY <2>2, <1>4
<1>e. 2..1 = {} /\ \A i \in 1..1 : i = 1
  OBVIOUS
<1>6. 6 \in 1..Len(SgCode["system"])
  BY DEF SgCode, SystemFunc
<1>7. SgStack'
  <2>1. \A i \in 1..Len(sgFrames') : sgFrames'[i].pc \in 1..Len(SgCode[sgFrames'[i].code])
    BY <1>5, <1>6, <1>e
  <2>2. \A i \in 2..Len(sgFrames') : FALSE
    BY <1>5, <1>e
  <2> QED
    BY <2>1, <2>2, <1>3, <1>5 DEF SgStack
<1>8. /\ ~SgDozing /\ ~SgDozing' /\ SgQuiet' /\ SgPc = 4 /\ SgPc' = 4 + 2 /\ SgHandling' = {}
  BY <1>3, <1>5, <1>e DEF SgDozing, SgQuiet, SgPc, SgHandling
<1>9. SgBack = sgMask /\ SgBack' = sgMask'
  BY <1>2, <1>8 DEF SgBack
<1> QED
  BY <1>1, <1>2, <1>3, <1>7, <1>8, <1>9 DEF SgGoes

\* A call of the function, and one of a handler.
SgMakes == SgGoes(1) /\ SgPlace(sgProg, SgPc, SgIns) /\ sgProg \in SgPrograms
SgWorks ==
  /\ ~SgQuiet /\ SgStays /\ SgPlace(SgTop.code, SgTop.pc, SgIns)
  /\ SgTop.code \in SgHandlers /\ SgTop.code \in SgHandling
  /\ \E s \in SgSignals : SgFits(s, SgTop.code)

\* A call that does not return or jump: the stack keeps its shape, and the function
\* on top either goes on to its next call or is interrupted in this one.
LEMMA SgCalling ==
  ASSUME SgShape, NEW op, SgRuns(op), op \notin {"return", "longjmp"}, SgForward,
         sgProg' = sgProg, sgCaller' = sgCaller,
         sgMask' = sgMask \/ op \in {"block", "setmask", "oldmask"}
  PROVE  SgStack' /\ (SgMakes \/ SgWorks) /\ SgIns[1] = op
<1>1. /\ SgIns[1] = op /\ SgPlace(SgTop.code, SgTop.pc, SgIns)
      /\ SgQuiet => SgTop = sgFrames[1] /\ SgTop.code = sgProg /\ sgProg \in SgPrograms
      /\ ~SgQuiet => /\ SgTop.code \in SgHandlers /\ SgTop.code \in SgHandling
                     /\ \E s \in SgSignals : SgFits(s, SgTop.code)
  BY SgRunning
<1>2. op \in {"block", "setmask", "oldmask"} => SgQuiet
  BY <1>1 DEF SgPlace, SgHandlers
<1>3. SgStack' /\ (SgQuiet => SgGoes(1)) /\ (~SgQuiet => SgStays)
  BY <1>2, SgForwards
<1>4. SgQuiet => SgPlace(sgProg, SgPc, SgIns)
  BY <1>1 DEF SgPc
<1> QED
  BY <1>1, <1>3, <1>4 DEF SgMakes, SgWorks

SgCall ==
  \/ SgSigaction \/ SgReaction \/ SgSigprocmask \/ SgRaise \/ SgAlarm \/ SgOutput
  \/ SgWaitpid \/ SgGetchar
\* So for every call that is not slept in, by the name of the call.
LEMMA SgCalls ==
  ASSUME SgShape, SgCall
  PROVE  SgStack' /\ (SgMakes \/ SgWorks) /\ SgRuns(SgIns[1])
<1>1. PICK op : /\ SgRuns(op) /\ op \notin {"return", "longjmp"}
                /\ sgMask' = sgMask \/ op \in {"block", "setmask", "oldmask"}
  <2>1. CASE SgSigaction
    BY <2>1 DEF SgSigaction
  <2>2. CASE SgReaction
    BY <2>2 DEF SgReaction
  <2>3. CASE SgSigprocmask
    BY <2>3 DEF SgSigprocmask
  <2>4. CASE SgRaise
    BY <2>4 DEF SgRaise
  <2>5. CASE SgAlarm
    BY <2>5 DEF SgAlarm
  <2>6. CASE SgOutput
    BY <2>6 DEF SgOutput
  <2>7. CASE SgWaitpid
    BY <2>7 DEF SgWaitpid
  <2>8. CASE SgGetchar
    BY <2>8 DEF SgGetchar
  <2> QED
    BY <2>1, <2>2, <2>3, <2>4, <2>5, <2>6, <2>7, <2>8 DEF SgCall
<1>2. SgForward /\ sgProg' = sgProg /\ sgCaller' = sgCaller
  BY DEF SgCall, SgFixed, SgSigaction, SgReaction, SgSigprocmask, SgRaise, SgAlarm, SgOutput,
         SgWaitpid, SgGetchar
<1>3. SgIns[1] = op
  BY <1>1, SgRunning
<1> QED
  BY <1>1, <1>2, <1>3, SgCalling

\* The callers.
LEMMA SgCalled ==
  ASSUME sgProg \in SgPrograms, sgCaller \in SgCallers(sgProg)
  PROVE  /\ sgCaller.disp \in [SgSignals -> SgActions] /\ sgCaller.mask \subseteq SgSignals
         /\ sgProg # "abort" => sgCaller.mask = {}
         /\ sgCaller.mask \subseteq {"ABRT"}
         /\ SgAlarms \subseteq Nat => sgCaller.alarm \in Nat
         /\ \A s \in SgSignals : SgFits(s, sgCaller.disp[s])
         /\ sgCaller.disp["QUIT"] = "dfl"
         /\ sgCaller.disp["INT"] \in {"user", "dfl", "printer"}
         /\ sgCaller.disp["INT"] = "printer" => sgProg = "abort"
         /\ \A s \in SgSignals :
              sgCaller.disp[s] \in {"dfl", "ign", "user", "chld", "abrt", "printer"}
<1> DEFINE D == [s \in SgSignals |-> "dfl"]
<1>d. D \in [SgSignals -> SgActions] /\ \A s \in SgSignals : D[s] = "dfl"
  BY DEF SgActions
<1>s. /\ "INT" \in SgSignals /\ "ALRM" \in SgSignals /\ "CHLD" \in SgSignals
      /\ "ABRT" \in SgSignals /\ "QUIT" \in SgSignals
  BY DEF SgSignals
<1>1. CASE sgProg \in SgSleeps
  <2>1. PICK a \in SgAlarms :
          sgCaller = [disp |-> [D EXCEPT !["INT"] = "user",
                                         !["ALRM"] = IF a = 0 THEN "dfl" ELSE "user"],
                      mask |-> {}, alarm |-> a]
    BY <1>1 DEF SgCallers, SgSleeps
  <2>2. /\ sgCaller.mask = {} /\ sgCaller.alarm = a /\ sgCaller.disp \in [SgSignals -> SgActions]
        /\ sgCaller.disp["INT"] = "user" /\ sgCaller.disp["ALRM"] \in {"dfl", "user"}
        /\ \A s \in SgSignals \ {"INT", "ALRM"} : sgCaller.disp[s] = "dfl"
    BY <2>1, <1>d, <1>s DEF SgActions, SgHandlers
  <2> QED
    BY <2>2, <1>1, <1>s DEF SgFits, SgActions, SgHandlers
<1>2. CASE sgProg = "system"
  <2>1. PICK c \in {"dfl", "chld"} :
          sgCaller = [disp |-> [D EXCEPT !["INT"] = "user", !["CHLD"] = c],
                      mask |-> {}, alarm |-> 0]
    BY <1>2 DEF SgCallers, SgSleeps
  <2>2. /\ sgCaller.mask = {} /\ sgCaller.alarm = 0 /\ sgCaller.disp \in [SgSignals -> SgActions]
        /\ sgCaller.disp["INT"] = "user" /\ sgCaller.disp["CHLD"] \in {"dfl", "chld"}
        /\ \A s \in SgSignals \ {"INT", "CHLD"} : sgCaller.disp[s] = "dfl"
    BY <2>1, <1>d, <1>s DEF SgActions, SgHandlers
  <2> QED
    BY <2>2, <1>2, <1>s DEF SgFits, SgActions, SgHandlers
<1>3. CASE sgProg = "abort"
  <2>1. PICK h \in {"dfl", "ign", "abrt"}, g \in {"user", "printer"}, m \in {{}, {"ABRT"}} :
          sgCaller = [disp |-> [D EXCEPT !["ABRT"] = h, !["INT"] = g],
                      mask |-> m, alarm |-> 0]
    BY <1>3 DEF SgCallers, SgSleeps
  <2>2. /\ sgCaller.mask \subseteq {"ABRT"} /\ sgCaller.alarm = 0
        /\ sgCaller.disp \in [SgSignals -> SgActions]
        /\ sgCaller.disp["INT"] \in {"user", "printer"}
        /\ sgCaller.disp["ABRT"] \in {"dfl", "ign", "abrt"}
        /\ \A s \in SgSignals \ {"INT", "ABRT"} : sgCaller.disp[s] = "dfl"
    BY <2>1, <1>d, <1>s DEF SgActions, SgHandlers
  <2> QED
    BY <2>2, <1>3, <1>s DEF SgFits, SgActions, SgHandlers
<1>4. CASE sgProg \notin SgSleeps \cup {"system", "abort"}
  <2>1. sgCaller = [disp |-> D, mask |-> {}, alarm |-> 0]
    BY <1>4 DEF SgCallers
  <2>2. sgCaller.mask = {} /\ sgCaller.alarm = 0 /\ sgCaller.disp = D
    BY <2>1
  <2> HIDE DEF D
  <2>3. \A s \in SgSignals : SgFits(s, "dfl")
    BY DEF SgFits, SgActions
  <2> QED
    BY <2>2, <2>3, <1>d, <1>s, <1>4
<1> QED
  BY <1>1, <1>2, <1>3, <1>4

\* Where the function stands.
LEMMA SgPlaced ==
  ASSUME SgShape
  PROVE  /\ SgPc \in 1..9 /\ (SgQuiet => SgIns = SgCode[sgProg][SgPc])
         /\ SgDozing => SgCode[sgProg][SgPc][1] \in SgDozes
         /\ SgPlace(sgProg, SgPc, SgCode[sgProg][SgPc])
<1>1. /\ SgPc \in Nat /\ SgPc \in 1..Len(SgCode[sgProg]) /\ sgProg \in SgCodes
      /\ (SgQuiet => SgIns = SgCode[sgProg][SgPc])
  BY SgStacked DEF SgFrameSet, SgPc
<1>2. Len(SgCode[sgProg]) \in 1..9
  BY <1>1, SgOps
<1>3. \A a, b \in Int : a \in 1..b /\ b \in 1..9 => a \in 1..9
  OBVIOUS
<1>4. SgPc \in Int /\ Len(SgCode[sgProg]) \in Int
  BY <1>1, <1>2
<1>5. SgPc \in 1..9
  BY <1>1, <1>2, <1>3, <1>4
<1>6. SgDozing => SgCode[sgProg][SgPc][1] \in SgDozes
  BY DEF SgShape, SgStack, SgDozing, SgPc
<1>7. SgPlace(sgProg, SgPc, SgCode[sgProg][SgPc])
  BY <1>1, SgOps
<1> QED
  BY <1>1, <1>5, <1>6, <1>7

\* The jumps of sleep2().
LEMMA SgJumps ==
  ASSUME SgShape, SgJump
  PROVE  /\ SgStack' /\ sgProg = "sleep2"
         /\ \/ /\ SgGoes(1) /\ SgPc = 2 /\ sgJmp' = "set" /\ sgLife' = sgLife
            \/ /\ ~SgQuiet /\ "jump" \in SgHandling /\ sgJmp # "no" /\ sgJmp' \in {"cut", sgJmp}
               /\ SgQuiet' /\ SgPc' = 5 /\ ~SgDozing' /\ SgHandling' = {} /\ sgLife' = sgLife
            \/ /\ "jump" \in SgHandling /\ sgJmp = "no" /\ sgJmp' = "no" /\ SgStays
               /\ sgLife' = "wild"
<1>1. sgMask' = sgMask /\ sgProg' = sgProg /\ sgCaller' = sgCaller
  BY DEF SgJump, SgFixed
<1>2. CASE SgRuns("setjmp") /\ sgJmp' = "set" /\ SgForward /\ UNCHANGED sgLife
  <2>1. SgStack' /\ (SgMakes \/ SgWorks) /\ SgIns[1] = "setjmp"
    BY <1>1, <1>2, SgCalling
  <2>2. SgMakes /\ sgProg = "sleep2" /\ SgPc = 2
    BY <2>1 DEF SgMakes, SgWorks, SgPlace, SgHandlers
  <2> QED
    BY <2>1, <2>2, <1>2 DEF SgMakes
<1>3. CASE /\ SgRuns("longjmp") /\ sgJmp # "no"
           /\ sgJmp' = IF Len(sgFrames) > 2 THEN "cut" ELSE sgJmp
           /\ sgFrames' = <<[sgFrames[1] EXCEPT !.pc = SgLanding, !.asleep = FALSE]>>
           /\ UNCHANGED sgLife
  BY <1>1, <1>3, SgCuts
<1>4. CASE SgRuns("longjmp") /\ sgJmp = "no" /\ sgLife' = "wild" /\ UNCHANGED <<sgJmp, sgFrames>>
  <2>1. SgTop.code = "jump"
    BY <1>4, SgRunning DEF SgPlace
  <2>2. "jump" \in SgHandling /\ sgProg = "sleep2"
    BY <1>4, <2>1, SgRunning DEF SgFits, SgPrograms, SgSleeps
  <2> QED
    BY <1>1, <1>4, <2>2, SgUnmoved
<1> QED
  BY <1>2, <1>3, <1>4 DEF SgJump

\* fork(2), of which system() makes one.
LEMMA SgForks ==
  ASSUME SgShape, SgFork
  PROVE  /\ SgStack' /\ sgProg = "system" /\ SgPc = 4
         /\ \/ SgGoes(1) /\ sgChild' = "starting" /\ sgRet' = sgRet
            \/ SgGoes(2) /\ sgChild' = sgChild /\ sgRet' = -1
<1>1. SgRuns("fork") /\ sgMask' = sgMask /\ sgProg' = sgProg /\ sgCaller' = sgCaller
  BY DEF SgFork, SgFixed
<1>2. CASE sgChild' = "starting" /\ SgForward /\ UNCHANGED sgRet
  <2>1. SgStack' /\ (SgMakes \/ SgWorks) /\ SgIns[1] = "fork"
    BY <1>1, <1>2, SgCalling
  <2>2. SgMakes /\ sgProg = "system" /\ SgPc = 4
    BY <2>1 DEF SgMakes, SgWorks, SgPlace, SgHandlers
  <2> QED
    BY <2>1, <2>2, <1>2 DEF SgMakes
<1>3. CASE sgRet' = -1 /\ sgFrames' = SgAdvance(SgAdvance(sgFrames)) /\ UNCHANGED sgChild
  BY <1>1, <1>3, SgForkFails
<1> QED
  BY <1>2, <1>3 DEF SgFork

\* A signal is delivered: dropped, deadly or handled.
LEMMA SgDelivers ==
  ASSUME SgShape, SgDeliver
  PROVE  /\ SgStack'
         /\ \E s \in SgSignals :
              /\ s \in sgPend /\ s \notin sgMask /\ sgPend' = sgPend \ {s}
              /\ \/ /\ SgStays /\ UNCHANGED <<sgFrames, sgMask, sgDisp, sgRet, sgLife>>
                    /\ sgDisp[s] = "ign" \/ s = "CHLD"
                 \/ /\ SgStays /\ UNCHANGED <<sgFrames, sgMask, sgDisp, sgRet>>
                    /\ sgDisp[s] = "dfl" /\ sgLife' = s
                 \/ /\ SgEnters(sgDisp[s]) /\ SgFits(s, sgDisp[s]) /\ sgLife' = sgLife
                    /\ sgDisp[s] \in SgHandlers /\ SgTop'.pc = 1 /\ SgEnter(s)
<1>1. sgProg' = sgProg /\ sgCaller' = sgCaller
  BY DEF SgDeliver, SgFixed
<1>2. PICK s \in sgPend \ sgMask :
           /\ sgPend' = sgPend \ {s}
           /\ \/ /\ UNCHANGED <<sgFrames, sgMask, sgDisp, sgRet, sgLife>>
                 /\ sgDisp[s] = "ign" \/ s = "CHLD"
              \/ /\ sgDisp[s] = "dfl" /\ sgLife' = s
                 /\ UNCHANGED <<sgFrames, sgMask, sgDisp, sgRet>>
              \/ SgEnter(s) /\ sgDisp[s] \notin {"ign", "dfl"}
  <2>1. PICK s \in sgPend \ sgMask :
           /\ sgPend' = sgPend \ {s}
           /\ CASE sgDisp[s] = "ign" \/ (sgDisp[s] = "dfl" /\ s = "CHLD") ->
                     UNCHANGED <<sgFrames, sgMask, sgDisp, sgRet, sgLife>>
                [] sgDisp[s] = "dfl" /\ s # "CHLD" ->
                     sgLife' = s /\ UNCHANGED <<sgFrames, sgMask, sgDisp, sgRet>>
                [] OTHER -> SgEnter(s)
    BY DEF SgDeliver
  <2>2. CASE sgDisp[s] = "ign" \/ (sgDisp[s] = "dfl" /\ s = "CHLD")
    BY <2>1, <2>2
  <2>3. CASE sgDisp[s] = "dfl" /\ s # "CHLD"
    BY <2>1, <2>3
  <2>4. CASE sgDisp[s] \notin {"ign", "dfl"}
    BY <2>1, <2>4
  <2> QED
    BY <2>2, <2>3, <2>4
<1>3. s \in SgSignals /\ s \in sgPend /\ s \notin sgMask /\ sgDisp[s] \in SgActions
  BY DEF SgShape, SgValues
<1>4. UNCHANGED <<sgFrames, sgMask>> => SgStack' /\ SgStays
  BY <1>1, SgUnmoved
<1>5. SgEnter(s) /\ sgDisp[s] \notin {"ign", "dfl"} =>
        /\ SgStack' /\ SgEnters(sgDisp[s]) /\ SgFits(s, sgDisp[s])
        /\ SgTop'.pc = 1 /\ sgDisp[s] \in SgHandlers /\ sgLife' = sgLife
  BY <1>1, <1>3, SgStarts DEF SgActions, SgEnter
<1> QED
  BY <1>2, <1>3, <1>4, <1>5

\* The end of the function.
LEMMA SgEnds ==
  ASSUME SgShape, SgReturn, SgQuiet
  PROVE  /\ SgStack' /\ SgStays /\ sgLife' = "returned" /\ sgPend \subseteq sgMask
         /\ SgPlace(sgProg, SgPc, SgIns) /\ SgIns[1] = "return" /\ sgProg \in SgPrograms
         /\ SgBack = sgMask /\ ~SgDozing
<1>1. SgRuns("return") /\ sgProg' = sgProg /\ sgCaller' = sgCaller
  BY DEF SgReturn, SgFixed
<1>2. /\ sgPend \subseteq sgMask /\ SgIns[1] = "return" /\ SgPlace(SgTop.code, SgTop.pc, SgIns)
      /\ SgTop = sgFrames[1] /\ SgTop.code = sgProg /\ sgProg \in SgPrograms /\ ~SgTop.asleep
  BY <1>1, SgRunning
<1>3. sgLife' = "returned" /\ sgFrames' = sgFrames /\ sgMask' = sgMask
  BY DEF SgReturn, SgQuiet
<1> QED
  BY <1>1, <1>2, <1>3, SgUnmoved DEF SgPc, SgBack, SgDozing

\* What is left of the steps.
SgOutside == SgTick \/ SgSend \/ SgChild
\* What happens outside the process leaves the stack alone.
LEMMA SgStands ==
  ASSUME SgShape, SgOutside
  PROVE  SgStack' /\ SgStays
  BY SgUnmoved DEF SgOutside, SgTick, SgSend, SgChild, SgFixed

\* What a step is: a call, a handler's or the function's return, or something outside.
LEMMA SgSteps ==
  SgNext => \/ SgCall \/ SgFallAsleep \/ SgNanoEnds \/ SgJump \/ SgFork \/ SgReturn
            \/ SgDeliver \/ SgOutside
  BY DEF SgNext, SgStep, SgCall, SgOutside

\* Every step keeps the shape of the stack.
LEMMA SgStackNext == ASSUME SgShape, SgNext PROVE SgStack'
  BY SgSteps, SgCalls, SgFallsAsleep, SgNanoWakes, SgJumps, SgForks, SgReturns, SgEnds,
     SgDelivers, SgStands

\* The mask at each place of the functions that change it and put it back.
SgMaskAt(p, pc) ==
  CASE p = "sleep3" /\ pc \in 2..7 -> sgCaller.mask \cup {"ALRM"}
    [] p = "abort" /\ pc > 3 -> SgSignals \ {"ABRT"}
    [] p = "pause_demo" /\ pc \in 2..4 -> {"INT"}
    [] p = "pending_demo" /\ pc \in 2..5 -> {"INT"}
    [] OTHER -> sgCaller.mask
SgMasks ==
  /\ sgProg \in {"sleep3", "sleep4", "system", "pause_demo", "pending_demo"} =>
       sgSaved.mask = sgCaller.mask
  /\ sgProg \in {"sleep3", "sleep4", "system", "pause_demo", "pending_demo", "abort"} =>
       SgBack = SgMaskAt(sgProg, SgPc)

\* The signal actions at each place of the functions that put them back.
SgActionAt(p, pc, s) ==
  CASE p = "sleep2" /\ s = "ALRM" /\ pc \in 2..5 -> "jump"
    [] p = "sleep3" /\ s = "ALRM" /\ pc \in 3..6 -> "nop"
    [] p = "system" /\ s = "QUIT" /\ pc \in 2..7 -> "ign"
    [] p = "system" /\ s = "INT" /\ pc \in 3..6 -> "ign"
    [] OTHER -> sgCaller.disp[s]
SgActs ==
  sgProg \in {"sleep2", "sleep3", "sleep4", "system"} =>
    /\ sgSaved.disp = sgCaller.disp
    /\ \A s \in SgSignals : sgDisp[s] = SgActionAt(sgProg, SgPc, s)
    /\ "jump" \in SgHandling => SgPc \in 2..5

\* sleep2() leaves its handler only to where setjmp(3) was called.
SgJumping ==
  /\ sgJmp = "cut" => sgProg = "sleep2"
  /\ sgProg = "sleep2" /\ SgPc >= 3 => sgJmp # "no"
  /\ sgProg = "sleep2" /\ sgCaller.alarm = 0 /\ SgPc <= 3 =>
       sgTimer.alarm = 0 /\ "ALRM" \notin sgPend /\ "jump" \notin SgHandling
  /\ sgLife = "wild" => sgProg = "sleep2" /\ sgCaller.alarm # 0

\* A function returns from its last call.
SgReturned == sgLife = "returned" => SgQuiet /\ SgCode[sgProg][SgPc][1] = "return"

\* The child of system() exists during waitpid(2), when SIGINT is ignored.
SgSparing ==
  sgProg = "system" =>
    /\ "user" \in SgHandling => SgPc \notin 3..6
    /\ sgChild \in {"starting", "running", "zombie"} => SgPc = 5
    /\ SgPc < 5 => sgChild = "none"
    /\ SgPc = 5 /\ sgChild = "reaped" => sgCaller.disp["CHLD"] = "chld"
    /\ sgRet = -1 => (sgChild = "none" /\ SgPc >= 6) \/ sgCaller.disp["CHLD"] = "chld"

\* Another handler prints, and SIGINT came between fflush(3) and sigprocmask(2).
SgLossy ==
  /\ sgCaller.disp["INT"] = "printer"
  /\ \E i \in DOMAIN sgSent : sgSent[i].code = "abort" /\ sgSent[i].pc = 3

\* SIGABRT is pending only where the stream has been flushed, or lossy.
SgAborting ==
  sgProg = "abort" =>
    /\ SgPc = 1 => sgDisp["ABRT"] = sgCaller.disp["ABRT"]
    /\ SgPc \in 2..6 =>
         sgDisp["ABRT"] = IF sgCaller.disp["ABRT"] = "abrt" THEN "abrt" ELSE "dfl"
    /\ SgPc >= 7 => sgDisp["ABRT"] = "dfl"
    /\ SgPc > 3 /\ ~SgQuiet => Len(sgFrames) = 2 /\ sgMask = SgSignals
    /\ "abrt" \in SgHandling => SgPc = 5
    /\ "printer" \in SgHandling => SgPc <= 3
    /\ SgPc = 3 /\ sgCaller.disp["INT"] = "printer" /\ ("INT" \in sgPend \/ ~SgQuiet) =>
         SgLossy
    /\ SgPc \in {3, 4} /\ sgOut => SgLossy
    /\ SgPc >= 6 => ~sgOut
    /\ "ABRT" \in sgPend => SgPc \in {5, 9} /\ SgQuiet /\ (sgOut => SgLossy)
    /\ SgPc = 9 /\ sgLife = "running" => "ABRT" \in sgPend
    /\ sgLife = "ABRT" /\ sgOut => SgLossy /\ sgCaller.disp["ABRT"] # "abrt"
    /\ sgLife # "returned"

\* The only SIGINT of the demonstration of pause(2) comes before the call.
SgPausing ==
  sgProg = "pause_demo" =>
    /\ sgLife = "running" /\ sgPend \subseteq {"INT"} /\ SgPc <= 5
    /\ sgPend # {} => SgQuiet /\ ~SgDozing /\ SgPc \in 3..5
    /\ SgDozing => SgQuiet
    /\ SgPc >= 4 => sgDisp["INT"] = "nop"

\* A SIGINT sent in time is pending only until it is ignored.
SgPending ==
  sgProg = "pending_demo" /\ (\A i \in DOMAIN sgSent : sgSent[i].pc \in 2..3) =>
    sgLife # "INT" /\ ("INT" \in sgPend => SgPc \in 2..3)

\* SIGQUIT has its default action at the start of signal.c and of its handler.
SgQuits ==
  sgProg = "signal_demo" =>
    /\ sgDisp["QUIT"] \in {"dfl", "sigquit"}
    /\ (\A i \in DOMAIN sgSent : sgSent[i].pc # 1 /\ sgSent[i].code # "sigquit") =>
         /\ sgLife # "QUIT"
         /\ sgDisp["QUIT"] = "dfl" => "QUIT" \notin sgPend /\ SgTop.pc = 1

\* What is left of the time asked for, by a timer in ticks and by a result in seconds.
SgLeft(t) == t + sgSlept >= SgAsked
SgTold(n) == n * SgPerSec + sgSlept > SgAsked - SgPerSec

\* The time slept and what is left of it make up the time asked for, but for the rounding.
SgTelling ==
  LET Timed(from, to) == /\ SgPc \in from..to => SgLeft(sgTimer.alarm)
                         /\ SgPc > to => SgTold(sgRet)
  IN
  /\ sgProg = "sleep1" => Timed(3, 4)
  /\ sgProg = "sleep2" /\ sgCaller.alarm = 0 => Timed(4, 6)
  /\ sgProg = "sleep3" => Timed(4, 5)
  /\ sgProg = "sleep4" =>
       /\ SgDozing /\ SgQuiet => SgLeft(sgTimer.nano)
       /\ SgDozing /\ ~SgQuiet => SgTold(sgRet)
       /\ SgPc = 2 => SgTold(sgRet) \/ sgTimer.nano = 0

SgInv ==
  /\ SgShape /\ SgMasks /\ SgActs /\ SgJumping /\ SgReturned /\ SgSparing /\ SgAborting
  /\ SgPausing /\ SgPending /\ SgQuits /\ SgTelling

\* Only a program that runs makes a step, and it stays the same program.
LEMMA SgLives ==
  SgNext => sgLife = "running" /\ sgProg' = sgProg /\ sgCaller' = sgCaller
<1>1. SgStep => sgLife = "running" /\ sgProg' = sgProg /\ sgCaller' = sgCaller
  BY DEF SgStep, SgSigaction, SgReaction, SgSigprocmask, SgRaise, SgAlarm, SgFallAsleep,
         SgNanoEnds, SgJump, SgOutput, SgFork, SgWaitpid, SgReturn, SgRuns, SgFixed
<1>2. SgGetchar \/ SgDeliver \/ SgTick \/ SgSend \/ SgChild =>
        sgLife = "running" /\ sgProg' = sgProg /\ sgCaller' = sgCaller
  BY DEF SgGetchar, SgDeliver, SgTick, SgSend, SgChild, SgRuns, SgFixed
<1> QED
  BY <1>1, <1>2 DEF SgNext

\* An action is set, as sigaction(2) and signal(2) do.
LEMMA SgSet ==
  ASSUME SgValues, NEW s \in SgSignals, NEW h, SgFits(s, h),
         SgSetAction(s, h), sgProg' = sgProg, sgCaller' = sgCaller
  PROVE  /\ sgDisp' \in [SgSignals -> SgActions] /\ sgPend' \subseteq SgSignals
         /\ sgDisp'[s] = h /\ \A t \in SgSignals : t # s => sgDisp'[t] = sgDisp[t]
         /\ \A t \in SgSignals : SgFits(t, sgDisp'[t])
         /\ sgPend' \subseteq sgPend /\ (h = "ign" => s \notin sgPend')
<1>1. sgDisp \in [SgSignals -> SgActions] /\ h \in SgActions
  BY DEF SgValues, SgFits
<1>2. sgDisp' = [sgDisp EXCEPT ![s] = h]
  BY DEF SgSetAction
<1>3. /\ sgDisp' \in [SgSignals -> SgActions]
      /\ sgDisp'[s] = h /\ \A t \in SgSignals : t # s => sgDisp'[t] = sgDisp[t]
  BY <1>1, <1>2
<1>4. \A t \in SgSignals : SgFits(t, sgDisp[t])
  BY DEF SgValues
<1>5. \A t \in SgSignals : SgFits(t, sgDisp'[t])
  BY <1>3, <1>4
<1>6. sgPend' \subseteq sgPend /\ (h = "ign" => s \notin sgPend')
  BY DEF SgSetAction
<1> QED
  BY <1>3, <1>5, <1>6 DEF SgValues

\* sigaction(2) and signal(2).
LEMMA SgSigactions ==
  ASSUME SgShape, SgSigaction
  PROVE  LET s == SgIns[2]  h == SgIns[3] IN
         /\ SgStack' /\ (SgMakes \/ SgWorks) /\ SgIns[1] = "sigaction"
         /\ s \in SgSignals /\ SgFits(s, h) /\ h \in {"nop", "jump", "ign", "dfl", "sigquit"}
         /\ sgDisp' \in [SgSignals -> SgActions] /\ sgPend' \subseteq sgPend
         /\ sgDisp'[s] = h /\ \A t \in SgSignals : t # s => sgDisp'[t] = sgDisp[t]
         /\ \A t \in SgSignals : SgFits(t, sgDisp'[t])
         /\ h = "ign" => s \notin sgPend'
         /\ sgSaved'.mask = sgSaved.mask /\ sgSaved'.disp[s] = sgDisp[s]
         /\ \A t \in SgSignals : t # s => sgSaved'.disp[t] = sgSaved.disp[t]
         /\ sgSaved' \in [disp : [SgSignals -> SgActions], mask : SUBSET SgSignals]
<1> DEFINE s == SgIns[2]
           h == SgIns[3]
<1>1. SgStack' /\ (SgMakes \/ SgWorks) /\ SgIns[1] = "sigaction"
  BY SgCalls DEF SgCall, SgSigaction, SgRuns
<1>2. s \in SgSignals /\ h \in {"nop", "jump", "ign", "dfl", "sigquit"} /\ SgFits(s, h)
  <2>1. CASE SgMakes
    BY <2>1, <1>1 DEF SgMakes, SgPlace, SgFits, SgActions, SgHandlers, SgSignals, SgPrograms, SgSleeps
  <2>2. CASE SgWorks
    <3>1. SgTop.code = "sigquit" /\ s = "QUIT" /\ h = "sigquit"
      BY <2>2, <1>1 DEF SgWorks, SgPlace, SgHandlers
    <3>2. sgProg = "signal_demo"
      BY <2>2, <3>1 DEF SgWorks, SgFits
    <3> QED
      BY <3>1, <3>2 DEF SgFits, SgActions, SgHandlers, SgSignals
  <2> QED
    BY <1>1, <2>1, <2>2
<1>3. SgSetAction(s, h) /\ sgProg' = sgProg /\ sgCaller' = sgCaller
  BY DEF SgSigaction, SgFixed
<1>v. SgValues
  BY DEF SgShape
<1>4. /\ sgDisp' \in [SgSignals -> SgActions] /\ sgPend' \subseteq sgPend
      /\ sgDisp'[s] = h /\ \A t \in SgSignals : t # s => sgDisp'[t] = sgDisp[t]
      /\ \A t \in SgSignals : SgFits(t, sgDisp'[t])
      /\ h = "ign" => s \notin sgPend'
  BY <1>v, <1>2, <1>3, SgSet
<1>5. /\ sgSaved \in [disp : [SgSignals -> SgActions], mask : SUBSET SgSignals]
      /\ sgDisp[s] \in SgActions
  BY <1>v, <1>2 DEF SgValues
<1> HIDE DEF s, h
<1>6. sgSaved' = [sgSaved EXCEPT !.disp = [sgSaved.disp EXCEPT ![s] = sgDisp[s]]]
  BY DEF SgSigaction, s
<1> DEFINE d == [sgSaved.disp EXCEPT ![s] = sgDisp[s]]
<1>7. /\ d \in [SgSignals -> SgActions] /\ d[s] = sgDisp[s]
      /\ \A t \in SgSignals : t # s => d[t] = sgSaved.disp[t]
  BY <1>2, <1>5
<1>8. sgSaved' = [sgSaved EXCEPT !.disp = d]
  BY <1>6
<1> HIDE DEF d
<1>9. sgSaved' \in [disp : [SgSignals -> SgActions], mask : SUBSET SgSignals]
  BY <1>5, <1>7, <1>8, Zenon
<1>10. sgSaved'.disp = d /\ sgSaved'.mask = sgSaved.mask
  BY <1>5, <1>8
<1> QED
  BY <1>1, <1>2, <1>4, <1>7, <1>9, <1>10 DEF s, h

\* The action saved before is set, or the default in place of SIG_IGN.
LEMMA SgReactions ==
  ASSUME SgShape, SgReaction
  PROVE  LET s == SgIns[2] IN
         /\ SgStack' /\ SgMakes /\ s \in SgSignals
         /\ \/ /\ SgIns[1] = "restore" /\ sgDisp'[s] = sgSaved.disp[s]
            \/ /\ SgIns[1] = "unignore" /\ SgPc = 1 /\ sgProg = "abort" /\ s = "ABRT"
               /\ sgDisp'[s] = IF sgDisp[s] = "ign" THEN "dfl" ELSE sgDisp[s]
         /\ sgDisp' \in [SgSignals -> SgActions] /\ sgPend' \subseteq sgPend
         /\ \A t \in SgSignals : t # s => sgDisp'[t] = sgDisp[t]
         /\ \A t \in SgSignals : SgFits(t, sgDisp'[t])
<1> DEFINE s == SgIns[2]
<1>v. SgValues
  BY DEF SgShape
<1>1. SgStack' /\ (SgMakes \/ SgWorks) /\ SgRuns(SgIns[1])
  BY SgCalls DEF SgCall
<1>2. SgIns[1] \in {"restore", "unignore"}
  BY DEF SgReaction, SgRuns
<1>3. SgMakes /\ s \in SgSignals
  BY <1>1, <1>2 DEF SgMakes, SgWorks, SgPlace, SgHandlers, SgSignals
<1>f. sgProg' = sgProg /\ sgCaller' = sgCaller
  BY DEF SgReaction, SgFixed
<1>4. CASE SgIns[1] = "restore"
  <2>1. SgSetAction(s, sgSaved.disp[s])
    BY <1>4 DEF SgReaction, SgRuns
  <2>2. SgFits(s, sgSaved.disp[s])
    BY <1>v, <1>3 DEF SgValues
  <2>3. /\ sgDisp' \in [SgSignals -> SgActions] /\ sgPend' \subseteq sgPend
        /\ sgDisp'[s] = sgSaved.disp[s] /\ \A t \in SgSignals : t # s => sgDisp'[t] = sgDisp[t]
        /\ \A t \in SgSignals : SgFits(t, sgDisp'[t])
    BY <1>v, <1>f, <1>3, <2>1, <2>2, SgSet
  <2> QED
    BY <1>1, <1>3, <1>4, <2>3
<1>5. CASE SgIns[1] = "unignore"
  <2> DEFINE h == IF sgDisp[s] = "ign" THEN "dfl" ELSE sgDisp[s]
  <2>1. SgSetAction(s, h)
    BY <1>5 DEF SgReaction, SgRuns
  <2>2. SgFits(s, h)
    <3>1. SgFits(s, sgDisp[s])
      BY <1>v, <1>3 DEF SgValues
    <3>2. SgFits(s, "dfl")
      BY DEF SgFits, SgActions
    <3> QED
      BY <3>1, <3>2
  <2> HIDE DEF h
  <2>3. /\ sgDisp' \in [SgSignals -> SgActions] /\ sgPend' \subseteq sgPend
        /\ sgDisp'[s] = h /\ \A t \in SgSignals : t # s => sgDisp'[t] = sgDisp[t]
        /\ \A t \in SgSignals : SgFits(t, sgDisp'[t])
    BY <1>v, <1>f, <1>3, <2>1, <2>2, SgSet
  <2>4. SgPc = 1 /\ sgProg = "abort" /\ s = "ABRT"
    BY <1>3, <1>5 DEF SgMakes, SgPlace
  <2> QED
    BY <1>1, <1>3, <1>5, <2>3, <2>4 DEF h
<1> QED
  BY <1>2, <1>4, <1>5

\* The other calls, where they are made.
LEMMA SgMasked ==
  ASSUME SgShape, SgSigprocmask
  PROVE  /\ SgStack' /\ SgMakes
         /\ \/ SgIns[1] = "block" /\ sgMask' = sgMask \cup SgIns[2]
               /\ sgSaved'.mask = sgMask
            \/ SgIns[1] = "setmask" /\ sgMask' = SgIns[2] /\ sgSaved'.mask = sgMask
            \/ SgIns[1] = "oldmask" /\ sgMask' = sgSaved.mask /\ sgSaved' = sgSaved
         /\ sgMask' \subseteq SgSignals /\ sgSaved'.disp = sgSaved.disp
         /\ sgSaved' \in [disp : [SgSignals -> SgActions], mask : SUBSET SgSignals]
<1>1. SgStack' /\ (SgMakes \/ SgWorks) /\ SgIns[1] \in {"block", "setmask", "oldmask"}
  BY SgCalls DEF SgCall, SgSigprocmask, SgRuns
<1>2. SgMakes
  BY <1>1 DEF SgWorks, SgPlace, SgHandlers
<1>3. /\ sgSaved \in [disp : [SgSignals -> SgActions], mask : SUBSET SgSignals]
      /\ sgMask \in SUBSET SgSignals
  BY DEF SgShape, SgValues
<1>4. SgIns[1] \in {"block", "setmask"} => SgIns[2] \subseteq SgSignals
  BY <1>2 DEF SgMakes, SgPlace, SgSignals
<1>5. \/ SgIns[1] = "block" /\ sgMask' = sgMask \cup SgIns[2]
         /\ sgSaved' = [sgSaved EXCEPT !.mask = sgMask]
      \/ SgIns[1] = "setmask" /\ sgMask' = SgIns[2] /\ sgSaved' = [sgSaved EXCEPT !.mask = sgMask]
      \/ SgIns[1] = "oldmask" /\ sgMask' = sgSaved.mask /\ sgSaved' = sgSaved
  BY DEF SgSigprocmask, SgRuns
<1>6. [sgSaved EXCEPT !.mask = sgMask] \in
        [disp : [SgSignals -> SgActions], mask : SUBSET SgSignals]
  BY <1>3, Zenon
<1>7. /\ [sgSaved EXCEPT !.mask = sgMask].mask = sgMask
      /\ [sgSaved EXCEPT !.mask = sgMask].disp = sgSaved.disp
  BY <1>3
<1>8. sgSaved.mask \subseteq SgSignals
  BY <1>3
<1>9. sgMask' \subseteq SgSignals
  BY <1>3, <1>4, <1>5, <1>8
<1>10. sgSaved'.disp = sgSaved.disp
  BY <1>5, <1>7
<1>11. sgSaved' \in [disp : [SgSignals -> SgActions], mask : SUBSET SgSignals]
  BY <1>3, <1>5, <1>6
<1> QED
  BY <1>1, <1>2, <1>5, <1>7, <1>9, <1>10, <1>11

\* raise(3) makes the signal pending, unless it is ignored and not blocked.
LEMMA SgRaises ==
  ASSUME SgShape, SgRaise
  PROVE  /\ SgStack' /\ SgMakes /\ SgIns[1] = "raise" /\ SgIns[2] \in SgSignals
         /\ sgPend' = IF sgDisp[SgIns[2]] = "ign" /\ SgIns[2] \notin sgMask
                      THEN sgPend ELSE sgPend \cup {SgIns[2]}
<1>1. SgStack' /\ (SgMakes \/ SgWorks) /\ SgIns[1] = "raise"
  BY SgCalls DEF SgCall, SgRaise, SgRuns
<1>2. SgMakes /\ SgIns[2] \in SgSignals
  BY <1>1 DEF SgMakes, SgWorks, SgPlace, SgHandlers, SgSignals
<1> QED
  BY <1>1, <1>2 DEF SgRaise

\* The time asked for, and a tick, are numbers.
LEMMA SgTimes ==
  ASSUME SgAssumption
  PROVE  SgAsked \in Nat /\ SgSeconds \in Nat /\ SgPerSec \in Nat /\ SgPerSec > 0
  BY DEF SgAssumption, SgAsked

\* The seconds that alarm(2) and sleep4() tell are less than one short.
LEMMA SgRounds ==
  ASSUME SgAssumption, NEW t \in Nat, NEW n \in SgRounded(t)
  PROVE  /\ n \in Nat /\ n * SgPerSec \in Nat /\ n * SgPerSec > t - SgPerSec
         /\ t = 0 => n = 0
<1>1. SgPerSec \in Nat /\ SgPerSec > 0
  BY SgTimes
<1>2. n \in 0..(t + 1) /\ t - SgPerSec < n * SgPerSec /\ n * SgPerSec < t + SgPerSec
  BY DEF SgRounded
<1>3. n \in Nat
  BY <1>2
<1>4. n * SgPerSec \in Nat
  BY <1>1, <1>3
<1>5. t = 0 => n = 0
  <2>1. t = 0 => n = 0 \/ n = 1
    BY <1>2
  <2>2. n = 1 => n * SgPerSec = SgPerSec
    BY <1>1
  <2> QED
    BY <1>1, <1>2, <2>1, <2>2
<1> QED
  BY <1>1, <1>2, <1>3, <1>4, <1>5

LEMMA SgWholes ==
  ASSUME SgAssumption, NEW t \in Nat
  PROVE  /\ t \div SgPerSec \in Nat /\ (t \div SgPerSec) * SgPerSec \in Nat
         /\ (t \div SgPerSec) * SgPerSec > t - SgPerSec
<1>1. SgPerSec \in Nat /\ SgPerSec > 0
  BY SgTimes
<1>2. /\ t \div SgPerSec \in Nat
      /\ t = (t \div SgPerSec) * SgPerSec + (t % SgPerSec) /\ t % SgPerSec \in 0..(SgPerSec - 1)
  BY <1>1
<1> DEFINE q == t \div SgPerSec
<1>3. q * SgPerSec \in Nat
  BY <1>1, <1>2
<1> QED
  BY <1>1, <1>2, <1>3

\* alarm(2) and its variants arm the timer and leave the sleeping time alone.
LEMMA SgAlarmed ==
  ASSUME SgShape, SgAlarm, SgAssumption
  PROVE  /\ SgStack' /\ SgMakes /\ sgTimer' \in [alarm : Nat, nano : Nat]
         /\ sgTimer'.nano = sgTimer.nano
         /\ \/ SgIns[1] = "alarm" /\ sgTimer'.alarm = SgAsked /\ sgRet' = sgRet
            \/ /\ SgIns[1] = "alarm_min" /\ sgRet' = sgRet
               /\ sgTimer.alarm = 0 => sgTimer'.alarm = SgAsked
            \/ SgIns[1] = "unslept" /\ sgRet' \in SgRounded(sgTimer.alarm) /\ sgTimer'.alarm = 0
<1>1. SgStack' /\ (SgMakes \/ SgWorks) /\ SgIns[1] \in {"alarm", "alarm_min", "unslept"}
  BY SgCalls DEF SgCall, SgAlarm, SgRuns
<1>2. SgMakes
  BY <1>1 DEF SgWorks, SgPlace, SgHandlers
<1>3. /\ sgTimer \in [alarm : Nat, nano : Nat] /\ sgTimer.alarm \in Nat
      /\ SgAsked \in Nat /\ SgSeconds \in Nat /\ SgPerSec \in Nat
  BY SgTimes DEF SgShape, SgValues
<1> DEFINE Armed(n) ==
      /\ sgTimer' = [sgTimer EXCEPT !.alarm = n]
      /\ \/ SgIns[1] = "alarm" /\ n = SgAsked /\ sgRet' = sgRet
         \/ /\ SgIns[1] = "alarm_min" /\ sgRet' = sgRet
            /\ sgTimer.alarm = 0 => n = SgAsked
         \/ SgIns[1] = "unslept" /\ sgRet' \in SgRounded(sgTimer.alarm) /\ n = 0
<1>4. \E n \in Nat : Armed(n)
  <2>1. CASE SgRuns("alarm") /\ sgTimer' = [sgTimer EXCEPT !.alarm = SgAsked] /\ UNCHANGED sgRet
    BY <2>1, <1>3 DEF SgRuns
  <2>2. ASSUME SgRuns("alarm_min"), UNCHANGED sgRet, NEW secs \in SgRounded(sgTimer.alarm),
               sgTimer' = [sgTimer EXCEPT !.alarm =
                             IF secs # 0 /\ secs < SgSeconds THEN secs * SgPerSec ELSE SgAsked]
        PROVE  \E n \in Nat : Armed(n)
    <3> DEFINE n == IF secs # 0 /\ secs < SgSeconds THEN secs * SgPerSec ELSE SgAsked
    <3>1. secs * SgPerSec \in Nat /\ (sgTimer.alarm = 0 => secs = 0)
      BY <1>3, SgRounds
    <3>2. n \in Nat /\ (sgTimer.alarm = 0 => n = SgAsked)
      BY <1>3, <3>1
    <3>3. sgTimer' = [sgTimer EXCEPT !.alarm = n]
      BY <2>2
    <3> HIDE DEF n
    <3>4. Armed(n)
      BY <2>2, <3>2, <3>3 DEF SgRuns
    <3> QED
      BY <3>2, <3>4
  <2>3. CASE /\ SgRuns("unslept") /\ sgRet' \in SgRounded(sgTimer.alarm)
             /\ sgTimer' = [sgTimer EXCEPT !.alarm = 0]
    BY <2>3 DEF SgRuns
  <2> QED
    BY <2>1, <2>2, <2>3 DEF SgAlarm
<1>5. PICK n \in Nat : Armed(n)
  BY <1>4
<1>6. sgTimer' \in [alarm : Nat, nano : Nat]
  BY <1>3, <1>5, Zenon
<1>7. sgTimer'.alarm = n /\ sgTimer'.nano = sgTimer.nano
  BY <1>3, <1>5
<1> QED
  BY <1>1, <1>2, <1>5, <1>6, <1>7

\* What is printed is in the stream until it is flushed.
LEMMA SgOutputs ==
  ASSUME SgShape, SgOutput
  PROVE  /\ SgStack'
         /\ \/ SgWorks /\ SgIns[1] = "print" /\ sgOut' = TRUE
            \/ SgMakes /\ SgIns[1] = "fflush" /\ sgOut' = FALSE
            \/ SgWorks /\ SgIns[1] = "work" /\ sgOut' = sgOut
<1>1. SgStack' /\ (SgMakes \/ SgWorks)
  BY SgCalls DEF SgCall
<1>2. \/ SgIns[1] = "print" /\ sgOut' = TRUE
      \/ SgIns[1] = "fflush" /\ sgOut' = FALSE
      \/ SgIns[1] = "work" /\ sgOut' = sgOut
  BY DEF SgOutput, SgRuns
<1>3. SgMakes => SgIns[1] \notin {"print", "work"}
  BY DEF SgMakes, SgPlace, SgPrograms, SgSleeps
<1>4. SgWorks => SgIns[1] # "fflush"
  BY DEF SgWorks, SgPlace, SgHandlers
<1> QED
  BY <1>1, <1>2, <1>3, <1>4

\* waitpid(2) in system(): it reaps the child, fails when a handler did, or is waited in.
LEMMA SgWaits ==
  ASSUME SgShape, SgWaitpid
  PROVE  /\ SgStack' /\ sgProg = "system"
         /\ \/ SgMakes /\ SgPc = 5 /\ sgChild = "zombie" /\ sgChild' = "reaped" /\ sgRet' = 0
            \/ SgMakes /\ SgPc = 5 /\ sgChild = "reaped" /\ sgChild' = "reaped" /\ sgRet' = -1
            \/ /\ SgWorks /\ sgRet' = sgRet /\ sgCaller.disp["CHLD"] = "chld"
               /\ sgChild' = IF sgChild = "zombie" THEN "reaped" ELSE sgChild
<1>1. SgStack' /\ (SgMakes \/ SgWorks)
  BY SgCalls DEF SgCall
<1>2. \/ SgIns[1] = "waitpid" /\ sgChild = "zombie" /\ sgChild' = "reaped" /\ sgRet' = 0
      \/ SgIns[1] = "waitpid" /\ sgChild = "reaped" /\ sgChild' = "reaped" /\ sgRet' = -1
      \/ /\ SgIns[1] = "reap" /\ sgRet' = sgRet
         /\ sgChild' = IF sgChild = "zombie" THEN "reaped" ELSE sgChild
  BY DEF SgWaitpid, SgRuns
<1>3. CASE SgIns[1] = "waitpid"
  <2>1. SgMakes
    BY <1>1, <1>3 DEF SgWorks, SgPlace, SgHandlers
  <2>2. SgPc = 5 /\ sgProg = "system"
    BY <2>1, <1>3 DEF SgMakes, SgPlace
  <2> QED
    BY <1>1, <1>2, <1>3, <2>1, <2>2
<1>4. CASE SgIns[1] = "reap"
  <2>1. SgWorks
    BY <1>1, <1>4 DEF SgMakes, SgPlace, SgPrograms, SgSleeps
  <2>2. SgTop.code = "chld"
    BY <2>1, <1>4 DEF SgWorks, SgPlace
  <2>3. sgProg = "system" /\ sgCaller.disp["CHLD"] = "chld"
    BY <2>1, <2>2 DEF SgWorks, SgFits
  <2> QED
    BY <1>1, <1>2, <1>4, <2>1, <2>3
<1> QED
  BY <1>2, <1>3, <1>4

\* The user of pending_signals presses return.
LEMMA SgGetchars ==
  ASSUME SgShape, SgGetchar
  PROVE  SgStack' /\ SgMakes /\ sgProg = "pending_demo" /\ SgPc \in {2, 6}
<1>1. SgStack' /\ (SgMakes \/ SgWorks) /\ SgIns[1] = "getchar"
  BY SgCalls DEF SgCall, SgGetchar, SgRuns
<1>2. SgMakes
  BY <1>1 DEF SgWorks, SgPlace, SgHandlers
<1> QED
  BY <1>1, <1>2 DEF SgMakes, SgPlace

\* Where something falls asleep, and with which mask and timer.
LEMMA SgSleepers ==
  ASSUME SgShape, SgFallAsleep, SgAssumption
  PROVE  /\ sgMask' \subseteq SgSignals /\ sgTimer' \in [alarm : Nat, nano : Nat]
         /\ sgTimer'.alarm = sgTimer.alarm
         /\ SgIns[1] = "nanosleep" => sgTimer'.nano = SgAsked
<1>1. /\ sgTimer \in [alarm : Nat, nano : Nat] /\ SgAsked \in Nat /\ sgMask \subseteq SgSignals
      /\ sgSaved.mask \subseteq SgSignals
  BY SgTimes DEF SgShape, SgValues
<1>2. SgPlace(sgProg, SgPc, SgIns)
  BY SgFallsAsleep
<1>3. \/ SgIns[1] # "nanosleep" /\ sgTimer' = sgTimer
      \/ SgIns[1] = "nanosleep" /\ sgTimer' = [sgTimer EXCEPT !.nano = SgAsked]
  BY DEF SgFallAsleep, SgRuns
<1>4. \/ sgMask' = sgMask
      \/ SgIns[1] = "suspend" /\ sgMask' = SgIns[2]
      \/ sgMask' = sgSaved.mask \ SgIns[2]
  BY DEF SgFallAsleep, SgRuns
<1>5. sgMask' \subseteq SgSignals
  BY <1>1, <1>2, <1>4 DEF SgPlace
<1>6. [sgTimer EXCEPT !.nano = SgAsked] \in [alarm : Nat, nano : Nat]
  BY <1>1, Zenon
<1>7. /\ [sgTimer EXCEPT !.nano = SgAsked].nano = SgAsked
      /\ [sgTimer EXCEPT !.nano = SgAsked].alarm = sgTimer.alarm
  BY <1>1
<1> QED
  BY <1>1, <1>3, <1>5, <1>6, <1>7

\* A tick passes.
LEMMA SgTicks ==
  ASSUME SgShape, SgTick, SgAssumption
  PROVE  /\ sgTimer' \in [alarm : Nat, nano : Nat] /\ sgSlept' \in Nat /\ sgProg \in SgSleeps
         /\ sgTimer'.alarm = SgDown(sgTimer.alarm) /\ sgTimer'.nano = SgDown(sgTimer.nano)
         /\ sgSlept' = sgSlept + 1 \/ (sgSlept' = sgSlept /\ sgSlept > SgAsked)
         /\ sgPend' = sgPend \/ (sgPend' = sgPend \cup {"ALRM"} /\ sgTimer.alarm = 1)
<1>1. sgTimer.alarm \in Nat /\ sgTimer.nano \in Nat /\ sgSlept \in Nat /\ SgAsked \in Nat
  BY SgTimes DEF SgShape, SgValues
<1>2. SgDown(sgTimer.alarm) \in Nat /\ SgDown(sgTimer.nano) \in Nat
  <2>1. \A n \in Nat : SgDown(n) \in Nat
    BY DEF SgDown
  <2> QED
    BY <1>1, <2>1
<1>3. sgTimer' = [alarm |-> SgDown(sgTimer.alarm), nano |-> SgDown(sgTimer.nano)]
  BY DEF SgTick
<1>4. sgSlept' = IF sgSlept > SgAsked THEN sgSlept ELSE sgSlept + 1
  BY DEF SgTick
<1>5. sgPend' = sgPend \/ (sgPend' = sgPend \cup {"ALRM"} /\ sgTimer.alarm = 1)
  BY DEF SgTick
<1>6. sgProg \in SgSleeps
  BY DEF SgTick
<1> QED
  BY <1>1, <1>2, <1>3, <1>4, <1>5, <1>6

\* A signal is sent from outside.
LEMMA SgSendsOne ==
  ASSUME SgShape, SgSend
  PROVE  /\ sgSent' \in Seq([code : SgCodes, pc : Nat]) /\ Len(sgSent') = Len(sgSent) + 1
         /\ \A i \in DOMAIN sgSent : i \in DOMAIN sgSent' /\ sgSent'[i] = sgSent[i]
         /\ \E i \in DOMAIN sgSent' : sgSent'[i].code = SgTop.code /\ sgSent'[i].pc = SgTop.pc
         /\ sgPend' \subseteq sgPend \cup {SgTyped, "CHLD"} /\ sgProg # "pause_demo"
         /\ sgPend \subseteq sgPend'
         /\ sgChild' # sgChild => sgChild = "running" /\ sgChild' = "zombie"
         /\ SgTyped \in sgPend' => sgDisp[SgTyped] # "ign" \/ SgTyped \in sgMask \/ SgTyped \in sgPend
         /\ "CHLD" \in sgPend' => "CHLD" \in sgPend \/ sgChild = "running"
<1>1. SgTop \in SgFrameSet /\ sgSent \in Seq([code : SgCodes, pc : Nat])
  BY SgStacked DEF SgShape, SgValues
<1> DEFINE e == [code |-> SgTop.code, pc |-> SgTop.pc]
<1>2. e \in [code : SgCodes, pc : Nat] /\ e.code = SgTop.code /\ e.pc = SgTop.pc
  BY <1>1 DEF SgFrameSet
<1>3. sgSent' = Append(sgSent, e)
  BY DEF SgSend
<1> HIDE DEF e
<1>4. /\ sgSent' \in Seq([code : SgCodes, pc : Nat]) /\ Len(sgSent') = Len(sgSent) + 1
      /\ sgSent'[Len(sgSent) + 1] = e /\ Len(sgSent) + 1 \in DOMAIN sgSent'
      /\ \A i \in DOMAIN sgSent : i \in DOMAIN sgSent' /\ sgSent'[i] = sgSent[i]
  BY <1>1, <1>2, <1>3
<1>5. /\ sgPend' \subseteq sgPend \cup {SgTyped, "CHLD"} /\ sgProg # "pause_demo"
      /\ sgPend \subseteq sgPend'
      /\ sgChild' # sgChild => sgChild = "running" /\ sgChild' = "zombie"
  BY DEF SgSend
<1>6. /\ SgTyped \in sgPend' => sgDisp[SgTyped] # "ign" \/ SgTyped \in sgMask \/ SgTyped \in sgPend
      /\ "CHLD" \in sgPend' => "CHLD" \in sgPend \/ sgChild = "running"
  BY DEF SgSend, SgTyped
<1> QED
  BY <1>2, <1>4, <1>5, <1>6

\* A frame remembers a set of signals.
LEMMA SgMasksTop ==
  ASSUME SgShape PROVE SgTop.mask \subseteq SgSignals
  BY SgStacked DEF SgFrameSet

\* Every step keeps the values in their ranges.
LEMMA SgValuesNext ==
  ASSUME SgShape, SgNext, SgAssumption
  PROVE  SgValues'
<1>l. sgProg' = sgProg /\ sgCaller' = sgCaller
  BY SgLives
<1>v. /\ sgProg \in SgPrograms /\ sgCaller \in SgCallers(sgProg)
      /\ sgMask \subseteq SgSignals /\ sgPend \subseteq SgSignals
      /\ sgDisp \in [SgSignals -> SgActions]
      /\ sgSaved \in [disp : [SgSignals -> SgActions], mask : SUBSET SgSignals]
      /\ \A s \in SgSignals : SgFits(s, sgDisp[s]) /\ SgFits(s, sgSaved.disp[s])
      /\ sgTimer \in [alarm : Nat, nano : Nat] /\ sgSlept \in Nat /\ sgRet \in Int
      /\ sgSent \in Seq([code : SgCodes, pc : Nat])
      /\ sgProg # "system" => sgChild = "none"
  BY DEF SgShape, SgValues
<1>f. \A s, h : SgFits(s, h)' <=> SgFits(s, h)
  BY <1>l DEF SgFits
<1>0. \/ /\ sgMask' \subseteq SgSignals /\ sgPend' \subseteq SgSignals
         /\ sgDisp' \in [SgSignals -> SgActions]
         /\ sgSaved' \in [disp : [SgSignals -> SgActions], mask : SUBSET SgSignals]
         /\ \A s \in SgSignals : SgFits(s, sgDisp'[s]) /\ SgFits(s, sgSaved'.disp[s])
         /\ sgTimer' \in [alarm : Nat, nano : Nat] /\ sgSlept' \in Nat /\ sgRet' \in Int
         /\ sgSent' \in Seq([code : SgCodes, pc : Nat])
         /\ sgProg # "system" => sgChild' = "none"
      => SgValues'
  BY <1>v, <1>l, <1>f DEF SgValues
<1>1. CASE SgSigaction
  <2>1. UNCHANGED <<sgMask, sgTimer, sgSlept, sgChild, sgRet, sgSent>>
    BY <1>1 DEF SgSigaction
  <2>2. /\ SgIns[2] \in SgSignals
        /\ sgDisp' \in [SgSignals -> SgActions] /\ sgPend' \subseteq sgPend
        /\ \A t \in SgSignals : SgFits(t, sgDisp'[t])
        /\ sgSaved'.disp[SgIns[2]] = sgDisp[SgIns[2]]
        /\ \A t \in SgSignals : t # SgIns[2] => sgSaved'.disp[t] = sgSaved.disp[t]
        /\ sgSaved' \in [disp : [SgSignals -> SgActions], mask : SUBSET SgSignals]
    BY <1>1, SgSigactions
  <2>3. \A t \in SgSignals : SgFits(t, sgSaved'.disp[t])
    BY <2>2, <1>v
  <2> QED
    BY <1>0, <1>v, <2>1, <2>2, <2>3
<1>2. CASE SgReaction
  <2>1. UNCHANGED <<sgMask, sgSaved, sgTimer, sgSlept, sgChild, sgRet, sgSent>>
    BY <1>2 DEF SgReaction
  <2>2. /\ sgDisp' \in [SgSignals -> SgActions] /\ sgPend' \subseteq sgPend
        /\ \A t \in SgSignals : SgFits(t, sgDisp'[t])
    BY <1>2, SgReactions
  <2> QED
    BY <1>0, <1>v, <2>1, <2>2
<1>3. CASE SgSigprocmask
  <2>1. UNCHANGED <<sgPend, sgDisp, sgTimer, sgSlept, sgChild, sgRet, sgSent>>
    BY <1>3 DEF SgSigprocmask
  <2>2. /\ sgMask' \subseteq SgSignals /\ sgSaved'.disp = sgSaved.disp
        /\ sgSaved' \in [disp : [SgSignals -> SgActions], mask : SUBSET SgSignals]
    BY <1>3, SgMasked
  <2> QED
    BY <1>0, <1>v, <2>1, <2>2
<1>4. CASE SgRaise
  <2>1. UNCHANGED <<sgMask, sgDisp, sgSaved, sgTimer, sgSlept, sgChild, sgRet, sgSent>>
    BY <1>4 DEF SgRaise
  <2>2. sgPend' \subseteq SgSignals
    BY <1>v, <1>4, SgRaises
  <2> QED
    BY <1>0, <1>v, <2>1, <2>2
<1>5. CASE SgAlarm
  <2>1. UNCHANGED <<sgMask, sgPend, sgDisp, sgSaved, sgSlept, sgChild, sgSent>>
    BY <1>5 DEF SgAlarm
  <2>2. /\ sgTimer' \in [alarm : Nat, nano : Nat]
        /\ sgRet' = sgRet \/ sgRet' \in SgRounded(sgTimer.alarm)
    BY <1>5, SgAlarmed
  <2>3. sgRet' \in Int
    BY <1>v, <2>2 DEF SgRounded
  <2> QED
    BY <1>0, <1>v, <2>1, <2>2, <2>3
<1>6. CASE SgOutput \/ SgGetchar
  BY <1>0, <1>v, <1>6 DEF SgOutput, SgGetchar
<1>7. CASE SgWaitpid
  <2>1. UNCHANGED <<sgMask, sgPend, sgDisp, sgSaved, sgTimer, sgSlept, sgSent>>
    BY <1>7 DEF SgWaitpid
  <2>2. sgProg = "system" /\ sgRet' \in {sgRet, 0, -1}
    BY <1>7, SgWaits
  <2> QED
    BY <1>0, <1>v, <2>1, <2>2
<1>8. CASE SgFallAsleep
  <2>1. UNCHANGED <<sgPend, sgDisp, sgSaved, sgSlept, sgChild, sgRet, sgSent>>
    BY <1>8 DEF SgFallAsleep
  <2>2. sgMask' \subseteq SgSignals /\ sgTimer' \in [alarm : Nat, nano : Nat]
    BY <1>8, SgSleepers
  <2> QED
    BY <1>0, <1>v, <2>1, <2>2
<1>9. CASE SgNanoEnds
  <2>1. UNCHANGED <<sgMask, sgPend, sgDisp, sgSaved, sgTimer, sgSlept, sgChild, sgSent>>
    BY <1>9 DEF SgNanoEnds
  <2>2. sgRet' \in Int
    BY <1>9 DEF SgNanoEnds, SgAssumption
  <2> QED
    BY <1>0, <1>v, <2>1, <2>2
<1>10. CASE SgJump
  BY <1>0, <1>v, <1>10 DEF SgJump
<1>11. CASE SgFork
  <2>1. UNCHANGED <<sgMask, sgPend, sgDisp, sgSaved, sgTimer, sgSlept, sgSent>>
    BY <1>11 DEF SgFork
  <2>2. sgProg = "system" /\ sgRet' \in {sgRet, -1}
    BY <1>11, SgForks
  <2> QED
    BY <1>0, <1>v, <2>1, <2>2
<1>12. CASE SgReturn
  <2>1. UNCHANGED <<sgPend, sgDisp, sgSaved, sgTimer, sgSlept, sgChild, sgRet, sgSent>>
    BY <1>12 DEF SgReturn
  <2>2. sgMask' = sgMask \/ sgMask' = SgTop.mask
    BY <1>12 DEF SgReturn
  <2> QED
    BY <1>0, <1>v, <2>1, <2>2, SgMasksTop
<1>13. CASE SgDeliver
  <2>1. UNCHANGED <<sgSaved, sgTimer, sgSlept, sgChild, sgSent>>
    BY <1>13 DEF SgDeliver
  <2>2. PICK s \in SgSignals :
              /\ sgPend' = sgPend \ {s}
              /\ UNCHANGED <<sgMask, sgDisp, sgRet>> \/ SgEnter(s)
    BY <1>13, SgDelivers
  <2>3. SgFits(s, "dfl") /\ "dfl" \in SgActions
    BY DEF SgFits, SgActions
  <2>4. /\ sgMask' \subseteq SgSignals /\ sgPend' \subseteq SgSignals
        /\ sgDisp' = sgDisp \/ sgDisp' = [sgDisp EXCEPT ![s] = "dfl"]
        /\ sgRet' \in {sgRet, sgTimer.nano \div SgPerSec}
    BY <1>v, <2>2 DEF SgEnter
  <2>5. sgDisp' \in [SgSignals -> SgActions] /\ \A t \in SgSignals : SgFits(t, sgDisp'[t])
    BY <1>v, <2>3, <2>4, SMTT(30)
  <2>6. sgRet' \in Int
    <3>1. sgTimer.nano \in Nat
      BY <1>v
    <3>2. sgTimer.nano \div SgPerSec \in Int
      BY <3>1, SgWholes
    <3> QED
      BY <1>v, <2>4, <3>2
  <2> QED
    BY <1>0, <1>v, <2>1, <2>4, <2>5, <2>6
<1>14. CASE SgTick
  <2>1. UNCHANGED <<sgMask, sgDisp, sgSaved, sgChild, sgRet, sgSent>>
    BY <1>14 DEF SgTick
  <2>2. sgTimer' \in [alarm : Nat, nano : Nat] /\ sgSlept' \in Nat /\ sgPend' \subseteq SgSignals
    BY <1>v, <1>14, SgTicks DEF SgSignals
  <2> QED
    BY <1>0, <1>v, <2>1, <2>2
<1>15. CASE SgSend
  <2>1. UNCHANGED <<sgMask, sgDisp, sgSaved, sgTimer, sgSlept, sgRet>>
    BY <1>15 DEF SgSend
  <2>2. /\ sgSent' \in Seq([code : SgCodes, pc : Nat])
        /\ sgPend' \subseteq sgPend \cup {SgTyped, "CHLD"}
        /\ sgChild' # sgChild => sgChild = "running"
    BY <1>15, SgSendsOne
  <2>3. SgTyped \in SgSignals /\ "CHLD" \in SgSignals
    BY DEF SgTyped, SgSignals
  <2>4. sgProg # "system" => sgChild' = "none"
    BY <1>v, <2>2
  <2> QED
    BY <1>0, <1>v, <2>1, <2>2, <2>3, <2>4
<1>16. CASE SgChild
  <2>1. UNCHANGED <<sgMask, sgDisp, sgSaved, sgTimer, sgSlept, sgRet, sgSent>>
    BY <1>16 DEF SgChild
  <2>2. sgPend' \subseteq SgSignals /\ (sgProg # "system" => sgChild' = "none")
    BY <1>v, <1>16 DEF SgChild, SgSignals
  <2> QED
    BY <1>0, <1>v, <2>1, <2>2
<1> QED
  BY <1>1, <1>2, <1>3, <1>4, <1>5, <1>6, <1>7, <1>8, <1>9, <1>10, <1>11, <1>12, <1>13,
     <1>14, <1>15, <1>16 DEF SgNext, SgStep

\* The shape of the state, of every function and its handlers.
LEMMA SgShapeNext ==
  ASSUME SgShape, SgNext, SgAssumption
  PROVE  SgShape'
  BY SgStackNext, SgValuesNext DEF SgShape

\* The calls that change the mask stand where SgMaskAt changes.
LEMMA SgMaskKept ==
  ASSUME SgShape, NEW p \in 1..9, SgPc = p,
         SgCode[sgProg][p][1] \notin {"block", "setmask", "oldmask"}
  PROVE  sgProg \in {"sleep3", "sleep4", "system", "pause_demo", "pending_demo", "abort"} =>
           SgMaskAt(sgProg, p + 1) = SgMaskAt(sgProg, p)
<1>1. CASE sgProg = "sleep3"
  <2>1. p # 1 /\ p # 7
    BY <1>1 DEF SgCode, Sleep3
  <2> QED
    BY <1>1, <2>1 DEF SgMaskAt
<1>2. CASE sgProg = "pause_demo"
  <2>1. p # 1 /\ p # 4
    BY <1>2 DEF SgCode, PauseDemo
  <2> QED
    BY <1>2, <2>1 DEF SgMaskAt
<1>3. CASE sgProg = "pending_demo"
  <2>1. p # 1 /\ p # 5
    BY <1>3 DEF SgCode, PendingDemo
  <2> QED
    BY <1>3, <2>1 DEF SgMaskAt
<1>4. CASE sgProg = "abort"
  <2>1. p # 3
    BY <1>4 DEF SgCode, AbortFunc
  <2> QED
    BY <1>4, <2>1 DEF SgMaskAt
<1>5. CASE sgProg \in {"sleep4", "system"}
  BY <1>5 DEF SgMaskAt
<1> QED
  BY <1>1, <1>2, <1>3, <1>4, <1>5

\* What a call that leaves the mask alone does to SgMasks, and so does everything
\* that happens outside the function.
LEMMA SgMasksKept ==
  ASSUME SgShape, SgMasks, sgProg' = sgProg, sgCaller' = sgCaller,
         sgSaved'.mask = sgSaved.mask,
         \/ SgMakes /\ sgMask' = sgMask /\ SgIns[1] \notin {"block", "setmask", "oldmask"}
         \/ SgBack' = SgBack /\ SgPc' = SgPc
         \/ SgBack' = SgBack /\ SgPc' = SgPc + 1 /\ SgDozing
  PROVE  SgMasks'
<1>1. /\ SgPc \in 1..9 /\ (SgQuiet => SgIns = SgCode[sgProg][SgPc])
      /\ SgDozing => SgCode[sgProg][SgPc][1] \in SgDozes
  BY SgPlaced
<1>3. /\ SgBack' = SgBack
      /\ \/ SgPc' = SgPc
         \/ /\ SgPc' = SgPc + 1
            /\ SgCode[sgProg][SgPc][1] \notin {"block", "setmask", "oldmask"}
  BY <1>1 DEF SgMakes, SgGoes, SgDozes
<1> DEFINE M == {"sleep3", "sleep4", "system", "pause_demo", "pending_demo", "abort"}
<1>4. sgProg \in M => SgMaskAt(sgProg, SgPc') = SgMaskAt(sgProg, SgPc)
  BY <1>1, <1>3, SgMaskKept
<1>5. SgMaskAt(sgProg, SgPc)' = SgMaskAt(sgProg, SgPc')
  BY DEF SgMaskAt
<1>6. (sgProg \in M => SgBack = SgMaskAt(sgProg, SgPc))
  BY DEF SgMasks
<1>7. (sgProg \in M => SgBack = SgMaskAt(sgProg, SgPc))'
  BY <1>3, <1>4, <1>5, <1>6
<1>8. (sgProg \in {"sleep3", "sleep4", "system", "pause_demo", "pending_demo"} =>
         sgSaved.mask = sgCaller.mask)'
  BY DEF SgMasks
<1> QED
  BY <1>7, <1>8 DEF SgMasks

\* The calls that change it.
LEMMA SgMasksChanged ==
  ASSUME SgShape, SgMasks, SgSigprocmask
  PROVE  SgMasks'
<1>1. /\ SgMakes
      /\ \/ SgIns[1] = "block" /\ sgMask' = sgMask \cup SgIns[2] /\ sgSaved'.mask = sgMask
         \/ SgIns[1] = "setmask" /\ sgMask' = SgIns[2] /\ sgSaved'.mask = sgMask
         \/ SgIns[1] = "oldmask" /\ sgMask' = sgSaved.mask /\ sgSaved' = sgSaved
  BY SgMasked
<1>2. sgProg' = sgProg /\ sgCaller' = sgCaller
  BY DEF SgSigprocmask, SgFixed
<1>3. SgBack = sgMask /\ SgBack' = sgMask' /\ SgPc' = SgPc + 1 /\ SgPlace(sgProg, SgPc, SgIns)
  BY <1>1 DEF SgMakes, SgGoes
<1>4. SgPc \in Nat
  BY SgStacked DEF SgFrameSet, SgPc
<1>c. sgProg # "abort" => sgCaller.mask = {}
  BY SgCalled DEF SgShape, SgValues
<1>h. /\ sgProg \in {"sleep3", "sleep4", "system", "pause_demo", "pending_demo"} =>
           sgSaved.mask = sgCaller.mask
      /\ sgProg \in {"sleep3", "sleep4", "system", "pause_demo", "pending_demo", "abort"} =>
           sgMask = SgMaskAt(sgProg, SgPc)
  BY <1>3 DEF SgMasks
<1> DEFINE A == sgProg \in {"sleep3", "sleep4", "system", "pause_demo", "pending_demo"} =>
                  sgSaved'.mask = sgCaller.mask
           B == sgProg \in {"sleep3", "sleep4", "system", "pause_demo", "pending_demo", "abort"} =>
                  sgMask' = SgMaskAt(sgProg, SgPc + 1)
<1>5. ASSUME SgIns[1] = "block" PROVE A /\ B
  <2>1. (sgProg = "sleep3" /\ SgPc = 1 /\ SgIns[2] = {"ALRM"}) \/
        (sgProg = "system" /\ SgPc = 3 /\ SgIns[2] = {})
    BY <1>3, <1>5 DEF SgPlace
  <2> QED
    BY <1>1, <1>5, <1>h, <2>1 DEF SgMaskAt
<1>6. ASSUME SgIns[1] = "setmask" PROVE A /\ B
  <2>1. \/ sgProg \in {"pause_demo", "pending_demo"} /\ SgPc = 1 /\ SgIns[2] = {"INT"}
        \/ sgProg = "suspend_demo"
        \/ sgProg = "abort" /\ SgPc \in {3, 7} /\ SgIns[2] = SgSignals \ {"ABRT"}
    BY <1>3, <1>6 DEF SgPlace
  <2> QED
    BY <1>1, <1>6, <1>h, <2>1 DEF SgMaskAt
<1>7. ASSUME SgIns[1] = "oldmask" PROVE A /\ B
  <2>1. \/ sgProg = "sleep3" /\ SgPc = 7
        \/ sgProg = "pause_demo" /\ SgPc = 4
        \/ sgProg = "suspend_demo"
        \/ sgProg = "system" /\ SgPc = 8
        \/ sgProg = "pending_demo" /\ SgPc = 5
    BY <1>3, <1>7 DEF SgPlace
  <2> QED
    BY <1>1, <1>7, <1>h, <2>1 DEF SgMaskAt
<1>8. A /\ B
  BY <1>1, <1>5, <1>6, <1>7
<1>9. SgMaskAt(sgProg, SgPc)' = SgMaskAt(sgProg, SgPc + 1)
  BY <1>2, <1>3 DEF SgMaskAt
<1>10. (sgProg \in {"sleep3", "sleep4", "system", "pause_demo", "pending_demo", "abort"} =>
          SgBack = SgMaskAt(sgProg, SgPc))'
  BY <1>2, <1>3, <1>8, <1>9
<1>11. (sgProg \in {"sleep3", "sleep4", "system", "pause_demo", "pending_demo"} =>
          sgSaved.mask = sgCaller.mask)'
  BY <1>2, <1>8
<1> QED
  BY <1>10, <1>11 DEF SgMasks

\* Every step keeps the masks as they are at each place.
LEMMA SgMasksNext ==
  ASSUME SgShape, SgMasks, SgNext
  PROVE  SgMasks'
<1>l. sgProg' = sgProg /\ sgCaller' = sgCaller
  BY SgLives
<1>1. CASE SgSigprocmask
  BY <1>1, SgMasksChanged
<1>2. CASE SgCall /\ ~SgSigprocmask
  <2>1. sgMask' = sgMask /\ sgSaved'.mask = sgSaved.mask
        /\ SgIns[1] \notin {"block", "setmask", "oldmask"}
    <3>1. SgSigaction => sgSaved'.mask = sgSaved.mask
      BY SgSigactions
    <3> QED
      BY <3>1, <1>2 DEF SgCall, SgSigaction, SgReaction, SgRaise, SgAlarm, SgOutput, SgWaitpid,
             SgGetchar, SgRuns
  <2>2. SgMakes \/ SgWorks
    BY <1>2, SgCalls
  <2> QED
    BY <1>l, <2>1, <2>2, SgMasksKept DEF SgWorks, SgStays
<1>3. CASE SgFallAsleep
  <2>1. SgBack' = SgBack /\ SgPc' = SgPc /\ sgSaved' = sgSaved
    BY <1>3, SgFallsAsleep DEF SgFallAsleep
  <2> QED
    BY <1>l, <2>1, SgMasksKept
<1>4. CASE SgNanoEnds
  <2>1. SgBack' = SgBack /\ SgPc' = SgPc + 1 /\ SgDozing /\ sgSaved' = sgSaved
    BY <1>4, SgNanoWakes DEF SgNanoEnds
  <2> QED
    BY <1>l, <2>1, SgMasksKept
<1>5. CASE SgJump
  <2>1. sgProg = "sleep2"
    BY <1>5, SgJumps
  <2> QED
    BY <1>l, <2>1 DEF SgMasks
<1>6. CASE SgFork
  <2>1. sgProg = "system" /\ SgBack = sgMask /\ SgBack' = sgMask' /\ SgPc = 4 /\ SgPc' \in {5, 6}
    BY <1>6, SgForks DEF SgGoes
  <2>2. sgMask' = sgMask /\ sgSaved' = sgSaved
    BY <1>6 DEF SgFork
  <2> QED
    BY <1>l, <2>1, <2>2 DEF SgMasks, SgMaskAt
<1>7. CASE SgReturn
  <2>1. SgBack' = SgBack /\ (SgPc' = SgPc \/ (SgPc' = SgPc + 1 /\ SgDozing))
    BY <1>7, SgReturns, SgEnds DEF SgLeaves, SgStays
  <2>2. sgSaved' = sgSaved
    BY <1>7 DEF SgReturn
  <2> QED
    BY <1>l, <2>1, <2>2, SgMasksKept
<1>8. CASE SgDeliver
  <2>1. SgStays \/ \E h : SgEnters(h)
    BY <1>8, SgDelivers
  <2>2. SgBack' = SgBack /\ SgPc' = SgPc /\ sgSaved' = sgSaved
    BY <1>8, <2>1 DEF SgStays, SgEnters, SgDeliver
  <2> QED
    BY <1>l, <2>2, SgMasksKept
<1>9. CASE SgOutside
  <2>1. SgBack' = SgBack /\ SgPc' = SgPc
    BY <1>9, SgStands DEF SgStays
  <2>2. sgSaved' = sgSaved
    BY <1>9 DEF SgOutside, SgTick, SgSend, SgChild
  <2> QED
    BY <1>l, <2>1, <2>2, SgMasksKept
<1> QED
  BY <1>1, <1>2, <1>3, <1>4, <1>5, <1>6, <1>7, <1>8, <1>9, SgSteps

\* The calls that set an action stand where SgActionAt changes.
LEMMA SgActionKept ==
  ASSUME SgShape, NEW p \in 1..9, SgPc = p,
         SgCode[sgProg][p][1] \notin {"sigaction", "restore", "unignore"}
  PROVE  /\ sgProg \in {"sleep2", "sleep3", "sleep4", "system"} =>
              \A s \in SgSignals : SgActionAt(sgProg, p + 1, s) = SgActionAt(sgProg, p, s)
         /\ sgProg = "sleep2" /\ p \in 2..5 => p + 1 \in 2..5
<1>1. CASE sgProg = "sleep2"
  <2>1. p # 1 /\ p # 5
    BY <1>1 DEF SgCode, Sleep2
  <2> QED
    BY <1>1, <2>1 DEF SgActionAt
<1>2. CASE sgProg = "sleep3"
  <2>1. p # 2 /\ p # 6
    BY <1>2 DEF SgCode, Sleep3
  <2> QED
    BY <1>2, <2>1 DEF SgActionAt
<1>3. CASE sgProg = "system"
  <2>1. p \notin {1, 2, 6, 7}
    BY <1>3 DEF SgCode, SystemFunc
  <2> QED
    BY <1>3, <2>1 DEF SgActionAt
<1>4. CASE sgProg = "sleep4"
  BY <1>4 DEF SgActionAt
<1> QED
  BY <1>1, <1>2, <1>3, <1>4

\* A step that sets no signal action keeps the actions as they are at each place.
LEMMA SgActsKept ==
  ASSUME SgShape, SgActs, sgProg' = sgProg, sgCaller' = sgCaller,
         sgDisp' = sgDisp, sgSaved'.disp = sgSaved.disp, SgHandling' \subseteq SgHandling,
         \/ SgMakes /\ SgIns[1] \notin {"sigaction", "restore", "unignore"}
         \/ SgPc' = SgPc
         \/ SgPc' = SgPc + 1 /\ SgDozing
  PROVE  SgActs'
<1>1. /\ SgPc \in 1..9 /\ (SgQuiet => SgIns = SgCode[sgProg][SgPc])
      /\ SgDozing => SgCode[sgProg][SgPc][1] \in SgDozes
  BY SgPlaced
<1>2. \/ SgPc' = SgPc
      \/ /\ SgPc' = SgPc + 1
         /\ SgCode[sgProg][SgPc][1] \notin {"sigaction", "restore", "unignore"}
  BY <1>1 DEF SgMakes, SgGoes, SgDozes
<1> DEFINE M == {"sleep2", "sleep3", "sleep4", "system"}
<1>3. sgProg \in M => \A s \in SgSignals :
                        SgActionAt(sgProg, SgPc', s) = SgActionAt(sgProg, SgPc, s)
  BY <1>1, <1>2, SgActionKept
<1>4. \A s : SgActionAt(sgProg, SgPc, s)' = SgActionAt(sgProg, SgPc', s)
  BY DEF SgActionAt
<1>5. sgProg \in M => /\ sgSaved.disp = sgCaller.disp
                      /\ \A s \in SgSignals : sgDisp[s] = SgActionAt(sgProg, SgPc, s)
                      /\ "jump" \in SgHandling => SgPc \in 2..5
  BY DEF SgActs
<1>6. "jump" \in SgHandling => sgProg = "sleep2"
  BY DEF SgHandling, SgShape, SgStack, SgFits
<1>7. sgProg \in M /\ "jump" \in SgHandling' => SgPc' \in 2..5
  BY <1>1, <1>2, <1>5, <1>6, SgActionKept
<1>8. (sgProg \in M => /\ sgSaved.disp = sgCaller.disp
                       /\ \A s \in SgSignals : sgDisp[s] = SgActionAt(sgProg, SgPc, s)
                       /\ "jump" \in SgHandling => SgPc \in 2..5)'
  BY <1>3, <1>4, <1>5, <1>7
<1> QED
  BY <1>8 DEF SgActs

\* sigaction(2) sets an action where SgActionAt does, and saves the caller's.
LEMMA SgActsSet ==
  ASSUME SgShape, SgActs, SgSigaction \/ SgReaction
  PROVE  SgActs'
<1>f. sgProg' = sgProg /\ sgCaller' = sgCaller
  BY DEF SgSigaction, SgReaction, SgFixed
<1> DEFINE M == {"sleep2", "sleep3", "sleep4", "system"}
<1>0. CASE sgProg \notin M
  BY <1>0, <1>f DEF SgActs
<1>1. CASE sgProg \in M
  <2>c. /\ sgCaller.disp \in [SgSignals -> SgActions]
        /\ sgSaved.disp \in [SgSignals -> SgActions]
    BY SgCalled DEF SgShape, SgValues
  <2>h. /\ sgSaved.disp = sgCaller.disp
        /\ \A s \in SgSignals : sgDisp[s] = SgActionAt(sgProg, SgPc, s)
    BY <1>1 DEF SgActs
  <2>w. SgWorks => SgIns[1] # "sigaction"
    <3>1. SgWorks /\ SgIns[1] = "sigaction" => SgTop.code = "sigquit"
      BY DEF SgWorks, SgPlace, SgHandlers
    <3>2. SgWorks /\ SgTop.code = "sigquit" => sgProg = "signal_demo"
      BY DEF SgWorks, SgFits
    <3> QED
      BY <1>1, <3>1, <3>2
  <2>1. /\ SgMakes /\ SgIns[2] \in SgSignals
        /\ \A t \in SgSignals : t # SgIns[2] => sgDisp'[t] = sgDisp[t]
        /\ \/ /\ SgIns[1] = "sigaction" /\ sgDisp'[SgIns[2]] = SgIns[3]
              /\ sgSaved'.disp[SgIns[2]] = sgDisp[SgIns[2]]
              /\ \A t \in SgSignals : t # SgIns[2] => sgSaved'.disp[t] = sgSaved.disp[t]
              /\ sgSaved'.disp \in [SgSignals -> SgActions]
           \/ /\ SgIns[1] = "restore" /\ sgDisp'[SgIns[2]] = sgSaved.disp[SgIns[2]]
              /\ sgSaved' = sgSaved
    <3>1. CASE SgSigaction
      BY <3>1, <2>w, SgSigactions
    <3>2. CASE SgReaction
      <4>1. sgSaved' = sgSaved
        BY <3>2 DEF SgReaction
      <4> QED
        BY <3>2, <4>1, <1>1, SgReactions
    <3> QED
      BY <3>1, <3>2
  <2>2. SgPc' = SgPc + 1 /\ SgHandling' = {} /\ SgPlace(sgProg, SgPc, SgIns)
    BY <2>1 DEF SgMakes, SgGoes
  <2>3. \/ sgProg = "sleep2" /\ SgPc = 1 /\ SgIns[2] = "ALRM" /\ SgIns[1] = "sigaction" /\ SgIns[3] = "jump"
        \/ sgProg = "sleep3" /\ SgPc = 2 /\ SgIns[2] = "ALRM" /\ SgIns[1] = "sigaction" /\ SgIns[3] = "nop"
        \/ sgProg = "system" /\ SgPc = 1 /\ SgIns[2] = "QUIT" /\ SgIns[1] = "sigaction" /\ SgIns[3] = "ign"
        \/ sgProg = "system" /\ SgPc = 2 /\ SgIns[2] = "INT" /\ SgIns[1] = "sigaction" /\ SgIns[3] = "ign"
        \/ sgProg = "sleep2" /\ SgPc = 5 /\ SgIns[2] = "ALRM" /\ SgIns[1] = "restore"
        \/ sgProg = "sleep3" /\ SgPc = 6 /\ SgIns[2] = "ALRM" /\ SgIns[1] = "restore"
        \/ sgProg = "system" /\ SgPc = 6 /\ SgIns[2] = "INT" /\ SgIns[1] = "restore"
        \/ sgProg = "system" /\ SgPc = 7 /\ SgIns[2] = "QUIT" /\ SgIns[1] = "restore"
    BY <1>1, <2>1, <2>2 DEF SgPlace
  <2>4. \A s \in SgSignals : s # SgIns[2] =>
          SgActionAt(sgProg, SgPc + 1, s) = SgActionAt(sgProg, SgPc, s)
    BY <2>3 DEF SgActionAt
  <2>5. /\ SgIns[1] = "sigaction" => /\ SgActionAt(sgProg, SgPc + 1, SgIns[2]) = SgIns[3]
                                     /\ SgActionAt(sgProg, SgPc, SgIns[2]) = sgCaller.disp[SgIns[2]]
        /\ SgIns[1] = "restore" =>
             SgActionAt(sgProg, SgPc + 1, SgIns[2]) = sgCaller.disp[SgIns[2]]
    BY <2>3 DEF SgActionAt
  <2>6. \A s \in SgSignals : sgDisp'[s] = SgActionAt(sgProg, SgPc + 1, s)
    BY <2>1, <2>4, <2>5, <2>h
  <2>7. sgSaved'.disp = sgCaller.disp
    BY <2>1, <2>5, <2>h, <2>c
  <2>8. \A s : SgActionAt(sgProg, SgPc, s)' = SgActionAt(sgProg, SgPc + 1, s)
    BY <1>f, <2>2 DEF SgActionAt
  <2>9. (/\ sgSaved.disp = sgCaller.disp
         /\ \A s \in SgSignals : sgDisp[s] = SgActionAt(sgProg, SgPc, s)
         /\ "jump" \in SgHandling => SgPc \in 2..5)'
    BY <1>f, <2>2, <2>6, <2>7, <2>8
  <2> QED
    BY <2>9 DEF SgActs
<1> QED
  BY <1>0, <1>1

\* Every step keeps the actions as they are at each place.
LEMMA SgActsNext ==
  ASSUME SgShape, SgActs, SgNext
  PROVE  SgActs'
<1>l. sgProg' = sgProg /\ sgCaller' = sgCaller
  BY SgLives
<1> DEFINE M == {"sleep2", "sleep3", "sleep4", "system"}
<1>1. CASE SgSigaction \/ SgReaction
  BY <1>1, SgActsSet
<1>2. CASE SgCall /\ ~SgSigaction /\ ~SgReaction
  <2>1. sgDisp' = sgDisp /\ sgSaved'.disp = sgSaved.disp
        /\ SgIns[1] \notin {"sigaction", "restore", "unignore"}
    <3>1. SgSigprocmask => sgSaved'.disp = sgSaved.disp
      BY SgMasked
    <3> QED
      BY <3>1, <1>2 DEF SgCall, SgSigprocmask, SgRaise, SgAlarm, SgOutput, SgWaitpid,
             SgGetchar, SgRuns
  <2>2. (SgMakes \/ SgWorks) /\ SgHandling' \subseteq SgHandling
    BY <1>2, SgCalls DEF SgMakes, SgGoes, SgWorks, SgStays
  <2> QED
    BY <1>l, <2>1, <2>2, SgActsKept DEF SgWorks, SgStays
<1>3. CASE SgFallAsleep \/ SgNanoEnds
  <2>1. /\ SgHandling' \subseteq SgHandling /\ (SgPc' = SgPc \/ (SgPc' = SgPc + 1 /\ SgDozing))
        /\ sgSaved' = sgSaved /\ sgDisp' = sgDisp
    <3>1. SgFallAsleep => SgHandling' = {} /\ SgPc' = SgPc
      BY SgFallsAsleep
    <3>2. SgNanoEnds => SgHandling' = {} /\ SgPc' = SgPc + 1 /\ SgDozing
      BY SgNanoWakes
    <3> QED
      BY <1>3, <3>1, <3>2 DEF SgFallAsleep, SgNanoEnds
  <2> QED
    BY <1>l, <2>1, SgActsKept
<1>4. CASE SgJump
  <2>1. sgDisp' = sgDisp /\ sgSaved' = sgSaved
    BY <1>4 DEF SgJump
  <2>2. \/ SgGoes(1) /\ SgPc = 2 /\ sgProg = "sleep2"
        \/ /\ "jump" \in SgHandling /\ SgPc' = 5 /\ SgHandling' = {} /\ sgProg = "sleep2"
        \/ SgStays
    BY <1>4, SgJumps
  <2>3. CASE SgStays
    BY <1>l, <2>1, <2>3, SgActsKept DEF SgStays
  <2>4. CASE /\ sgProg = "sleep2" /\ SgPc \in 2..5 /\ SgPc' \in 2..5 /\ SgHandling' = {}
    <3>1. \A s \in SgSignals : SgActionAt(sgProg, SgPc, s)' = SgActionAt(sgProg, SgPc, s)
      BY <1>l, <2>4 DEF SgActionAt
    <3>2. (/\ sgSaved.disp = sgCaller.disp
           /\ \A s \in SgSignals : sgDisp[s] = SgActionAt(sgProg, SgPc, s)
           /\ "jump" \in SgHandling => SgPc \in 2..5)'
      BY <1>l, <2>1, <2>4, <3>1 DEF SgActs
    <3> QED
      BY <3>2 DEF SgActs
  <2>5. SgGoes(1) /\ SgPc = 2 => SgPc' = 3 /\ SgHandling' = {}
    BY DEF SgGoes
  <2>6. sgProg = "sleep2" /\ "jump" \in SgHandling => SgPc \in 2..5
    BY DEF SgActs
  <2> QED
    BY <2>2, <2>3, <2>4, <2>5, <2>6
<1>5. CASE SgFork
  <2>1. sgProg = "system" /\ SgPc = 4 /\ SgPc' \in {5, 6} /\ SgHandling' = {}
    BY <1>5, SgForks DEF SgGoes
  <2>2. sgDisp' = sgDisp /\ sgSaved' = sgSaved
    BY <1>5 DEF SgFork
  <2>3. \A s \in SgSignals : SgActionAt(sgProg, SgPc, s)' = SgActionAt(sgProg, SgPc, s)
    BY <1>l, <2>1 DEF SgActionAt
  <2>4. (/\ sgSaved.disp = sgCaller.disp
         /\ \A s \in SgSignals : sgDisp[s] = SgActionAt(sgProg, SgPc, s)
         /\ "jump" \in SgHandling => SgPc \in 2..5)'
    BY <1>l, <2>1, <2>2, <2>3 DEF SgActs
  <2> QED
    BY <2>4 DEF SgActs
<1>6. CASE SgReturn
  <2>1. SgHandling' \subseteq SgHandling /\ (SgPc' = SgPc \/ (SgPc' = SgPc + 1 /\ SgDozing))
    BY <1>6, SgReturns, SgEnds DEF SgLeaves, SgStays
  <2>2. sgSaved' = sgSaved /\ sgDisp' = sgDisp
    BY <1>6 DEF SgReturn
  <2> QED
    BY <1>l, <2>1, <2>2, SgActsKept
<1>7. CASE SgDeliver
  <2>1. PICK s \in SgSignals :
              \/ SgStays /\ sgDisp' = sgDisp
              \/ /\ SgEnters(sgDisp[s]) /\ SgFits(s, sgDisp[s]) /\ sgDisp[s] \in SgHandlers
                 /\ SgEnter(s)
    BY <1>7, SgDelivers
  <2>2. sgSaved' = sgSaved
    BY <1>7 DEF SgDeliver
  <2>3. CASE SgStays /\ sgDisp' = sgDisp
    BY <1>l, <2>2, <2>3, SgActsKept DEF SgStays
  <2>4. CASE /\ SgEnters(sgDisp[s]) /\ SgFits(s, sgDisp[s]) /\ sgDisp[s] \in SgHandlers
             /\ SgEnter(s) /\ sgProg \in M
    <3>1. sgDisp[s] # "sigquit"
      BY <2>4 DEF SgFits
    <3>2. sgDisp' = sgDisp
      BY <2>4, <3>1 DEF SgEnter
    <3>3. SgPc' = SgPc /\ SgHandling' = SgHandling \cup {sgDisp[s]}
      BY <2>4 DEF SgEnters
    <3>4. sgCaller.disp[s] # "jump"
      BY SgCalled DEF SgShape, SgValues
    <3>5. sgDisp[s] = "jump" => SgPc \in 2..5
      BY <2>4, <3>4 DEF SgActs, SgActionAt
    <3>6. \A t \in SgSignals : SgActionAt(sgProg, SgPc, t)' = SgActionAt(sgProg, SgPc, t)
      BY <1>l, <3>3 DEF SgActionAt
    <3>7. (/\ sgSaved.disp = sgCaller.disp
           /\ \A t \in SgSignals : sgDisp[t] = SgActionAt(sgProg, SgPc, t)
           /\ "jump" \in SgHandling => SgPc \in 2..5)'
      BY <1>l, <2>2, <2>4, <3>2, <3>3, <3>5, <3>6 DEF SgActs
    <3> QED
      BY <3>7 DEF SgActs
  <2>5. CASE sgProg \notin M
    BY <1>l, <2>5 DEF SgActs
  <2> QED
    BY <2>1, <2>3, <2>4, <2>5
<1>8. CASE SgOutside
  <2>1. SgStays
    BY <1>8, SgStands
  <2>2. sgSaved' = sgSaved /\ sgDisp' = sgDisp
    BY <1>8 DEF SgOutside, SgTick, SgSend, SgChild
  <2> QED
    BY <1>l, <2>1, <2>2, SgActsKept DEF SgStays
<1> QED
  BY <1>1, <1>2, <1>3, <1>4, <1>5, <1>6, <1>7, <1>8, SgSteps

\* How the program ends: the function returns, a signal kills it, or it jumps nowhere.
LEMMA SgDies ==
  ASSUME SgShape, SgNext
  PROVE  \/ sgLife' = "running"
         \/ SgReturn /\ SgQuiet /\ sgLife' = "returned"
         \/ SgJump /\ sgLife' = "wild"
         \/ /\ SgDeliver /\ SgStays
            /\ \E s \in SgSignals : /\ s \in sgPend /\ s \notin sgMask /\ sgDisp[s] = "dfl"
                                    /\ sgLife' = s
<1>1. sgLife = "running"
  BY SgLives
<1>2. CASE SgCall \/ SgFallAsleep \/ SgNanoEnds \/ SgFork \/ SgOutside
  BY <1>1, <1>2 DEF SgCall, SgFallAsleep, SgNanoEnds, SgFork, SgOutside, SgSigaction,
     SgReaction, SgSigprocmask, SgRaise, SgAlarm, SgOutput, SgWaitpid, SgGetchar, SgTick,
     SgSend, SgChild
<1>3. CASE SgJump
  BY <1>1, <1>3, SgJumps
<1>4. CASE SgReturn
  BY <1>1, <1>4, SgReturns, SgEnds
<1>5. CASE SgDeliver
  BY <1>1, <1>5, SgDelivers
<1> QED
  BY <1>2, <1>3, <1>4, <1>5, SgSteps

\* The process is back from its function only after the last call of it.
LEMMA SgReturnedNext ==
  ASSUME SgShape, SgNext
  PROVE  SgReturned'
<1>1. SUFFICES ASSUME sgLife' = "returned" PROVE SgReturned'
  BY DEF SgReturned
<1>2. SgReturn /\ SgQuiet
  BY <1>1, SgDies DEF SgSignals
<1>3. SgStays /\ SgIns[1] = "return" /\ sgProg' = sgProg /\ SgIns = SgCode[sgProg][SgPc]
  BY <1>2, SgEnds, SgLives, SgPlaced
<1> QED
  BY <1>2, <1>3 DEF SgStays, SgReturned

\* sleep2() sets its alarm only after setjmp(3).
LEMMA SgJumpingNext ==
  ASSUME SgShape, SgActs, SgJumping, SgNext, SgAssumption
  PROVE  SgJumping'
<1>l. sgProg' = sgProg /\ sgCaller' = sgCaller
  BY SgLives
<1>p. SgPc \in 1..9
  BY SgPlaced
<1>h. /\ sgJmp = "cut" => sgProg = "sleep2"
      /\ sgProg = "sleep2" /\ SgPc >= 3 => sgJmp # "no"
      /\ sgProg = "sleep2" /\ sgCaller.alarm = 0 /\ SgPc <= 3 =>
           sgTimer.alarm = 0 /\ "ALRM" \notin sgPend /\ "jump" \notin SgHandling
  BY DEF SgJumping
<1>0. CASE sgProg # "sleep2"
  <2>1. sgLife' # "wild"
    BY <1>0, SgDies, SgJumps DEF SgSignals
  <2>2. sgJmp' = sgJmp
    <3>1. ~SgJump
      BY <1>0, SgJumps
    <3> QED
      BY <3>1, SgSteps DEF SgCall, SgFallAsleep, SgNanoEnds, SgFork, SgOutside, SgSigaction,
         SgReaction, SgSigprocmask, SgRaise, SgAlarm, SgOutput, SgWaitpid, SgGetchar, SgTick,
         SgSend, SgChild, SgReturn, SgDeliver
  <2> QED
    BY <1>0, <1>l, <1>h, <2>1, <2>2 DEF SgJumping
<1>1. CASE sgProg = "sleep2"
  \* What does not concern the jump.
  <2>k. ASSUME sgJmp' = sgJmp, sgLife' # "wild", SgPc' <= 3 => SgPc <= 3,
               SgPc' >= 3 => SgPc >= 3,
               SgPc' <= 3 /\ sgTimer.alarm = 0 => sgTimer'.alarm = 0,
               "ALRM" \in sgPend' => "ALRM" \in sgPend \/ sgTimer.alarm # 0,
               "jump" \in SgHandling' => "jump" \in SgHandling \/ "ALRM" \in sgPend
        PROVE  SgJumping'
    BY <1>1, <1>l, <1>h, <2>k DEF SgJumping
  <2>w. ~SgJump => sgLife' # "wild"
    BY SgDies DEF SgSignals
  <2>1. CASE SgCall
    <3>1. sgJmp' = sgJmp
      BY <2>1 DEF SgCall, SgSigaction, SgReaction, SgSigprocmask, SgRaise, SgAlarm, SgOutput,
         SgWaitpid, SgGetchar
    <3>2. sgLife' # "wild"
      BY <2>1, SgLives DEF SgCall, SgSigaction, SgReaction, SgSigprocmask, SgRaise, SgAlarm,
         SgOutput, SgWaitpid, SgGetchar
    <3>3. SgMakes \/ SgWorks
      BY <2>1, SgCalls
    <3>4. SgHandling' = SgHandling /\ (SgPc' = SgPc \/ (SgPc' = SgPc + 1 /\ SgMakes))
      BY <3>3 DEF SgMakes, SgGoes, SgWorks, SgStays
    <3>5. SgMakes /\ SgPc = 2 => FALSE
      <4>1. SgMakes => SgPlace(sgProg, SgPc, SgIns) /\ SgQuiet
        BY DEF SgMakes, SgGoes
      <4>2. SgQuiet /\ SgPc = 2 => SgIns[1] = "setjmp"
        BY <1>1, SgPlaced DEF SgCode, Sleep2
      <4>3. SgIns[1] # "setjmp"
        BY <2>1 DEF SgCall, SgSigaction, SgReaction, SgSigprocmask, SgRaise, SgAlarm, SgOutput,
           SgWaitpid, SgGetchar, SgRuns
      <4> QED
        BY <4>1, <4>2, <4>3
    <3>6. sgPend' \subseteq sgPend
      <4>1. SgRaise => FALSE
        BY <1>1, SgRaises DEF SgMakes, SgPlace
      <4> QED
        BY <2>1, <4>1, SgSigactions, SgReactions DEF SgCall, SgSigprocmask, SgAlarm, SgOutput,
           SgWaitpid, SgGetchar
    <3>7. SgPc' <= 3 => sgTimer' = sgTimer
      <4>1. SgAlarm => SgMakes /\ SgPc \in {3, 6}
        <5>1. SgAlarm => SgMakes /\ SgIns[1] \in {"alarm", "alarm_min", "unslept"}
          BY SgAlarmed
        <5> QED
          BY <1>1, <5>1 DEF SgMakes, SgPlace
      <4>2. SgMakes => SgPc' = SgPc + 1
        BY DEF SgMakes, SgGoes
      <4>3. ~SgAlarm => sgTimer' = sgTimer
        BY <2>1 DEF SgCall, SgSigaction, SgReaction, SgSigprocmask, SgRaise, SgOutput,
           SgWaitpid, SgGetchar
      <4> QED
        BY <4>1, <4>2, <4>3
    <3>8. (SgPc' <= 3 => SgPc <= 3) /\ (SgPc' >= 3 => SgPc >= 3)
      BY <1>p, <3>4, <3>5
    <3> QED
      BY <2>k, <3>1, <3>2, <3>4, <3>6, <3>7, <3>8
  <2>2. CASE SgFallAsleep
    <3>1. sgTimer'.alarm = sgTimer.alarm /\ SgPc' = SgPc /\ SgHandling' = {}
      BY <2>2, SgFallsAsleep, SgSleepers
    <3>2. sgJmp' = sgJmp /\ sgPend' = sgPend /\ sgLife' = sgLife
      BY <2>2 DEF SgFallAsleep
    <3> QED
      BY <2>k, <3>1, <3>2, SgLives
  <2>3. CASE SgNanoEnds \/ SgFork
    BY <1>1, <2>3, SgNanoWakes, SgForks
  <2>4. CASE SgJump
    <3>1. sgTimer' = sgTimer /\ sgPend' = sgPend
      BY <2>4 DEF SgJump
    <3>2. CASE SgGoes(1) /\ SgPc = 2 /\ sgJmp' = "set" /\ sgLife' = sgLife
      <4>1. SgPc' = 3 /\ SgHandling' = {} /\ sgLife' = "running"
        BY <3>2, SgLives DEF SgGoes
      <4> QED
        BY <1>1, <1>l, <1>h, <3>1, <3>2, <4>1 DEF SgJumping
    <3>3. CASE /\ sgJmp # "no" /\ sgJmp' \in {"cut", sgJmp}
               /\ SgPc' = 5 /\ SgHandling' = {} /\ sgLife' = sgLife
      <4>1. sgLife' = "running" /\ ~(SgPc' <= 3)
        BY <3>3, SgLives
      <4> QED
        BY <1>1, <1>l, <1>h, <3>1, <3>3, <4>1 DEF SgJumping
    <3>4. CASE /\ "jump" \in SgHandling /\ sgJmp = "no" /\ sgJmp' = "no" /\ SgStays
               /\ sgLife' = "wild"
      <4>1. SgPc \in 2..5
        BY <1>1, <3>4 DEF SgActs
      <4>2. SgPc <= 3
        BY <1>1, <1>h, <3>4, <4>1
      <4>3. sgCaller.alarm # 0
        BY <1>1, <1>h, <3>4, <4>2
      <4>4. SgPc' = SgPc /\ SgHandling' = SgHandling
        BY <3>4 DEF SgStays
      <4> QED
        BY <1>1, <1>l, <1>h, <3>1, <3>4, <4>3, <4>4 DEF SgJumping
    <3> QED
      BY <2>4, <3>2, <3>3, <3>4, SgJumps
  <2>5. CASE SgReturn
    <3>1. SgHandling' \subseteq SgHandling /\ (SgPc' = SgPc \/ (SgPc' = SgPc + 1 /\ SgDozing))
      BY <2>5, SgReturns, SgEnds DEF SgLeaves, SgStays
    <3>2. sgJmp' = sgJmp /\ sgPend' = sgPend /\ sgTimer' = sgTimer
      BY <2>5 DEF SgReturn
    <3>3. sgLife' # "wild"
      BY <2>5, SgReturns, SgEnds, SgLives
    <3>4. SgDozing => SgPc = 4
      BY <1>1, SgPlaced DEF SgPlace, SgDozes
    <3>5. (SgPc' <= 3 => SgPc <= 3) /\ (SgPc' >= 3 => SgPc >= 3)
      BY <1>p, <3>1, <3>4
    <3> QED
      BY <2>k, <3>1, <3>2, <3>3, <3>5
  <2>6. CASE SgDeliver
    <3>1. PICK s \in SgSignals :
            /\ s \in sgPend /\ sgPend' = sgPend \ {s}
            /\ \/ SgStays
               \/ SgEnters(sgDisp[s]) /\ SgFits(s, sgDisp[s])
      BY <2>6, SgDelivers
    <3>2. sgJmp' = sgJmp /\ sgTimer' = sgTimer
      BY <2>6 DEF SgDeliver
    <3>3. sgLife' # "wild"
      BY <2>6, SgDelivers, SgLives DEF SgSignals
    <3>4. SgPc' = SgPc
      BY <3>1 DEF SgStays, SgEnters
    <3>5. "jump" \in SgHandling' => "jump" \in SgHandling \/ "ALRM" \in sgPend
      BY <3>1 DEF SgStays, SgEnters, SgFits
    <3> QED
      BY <2>k, <3>1, <3>2, <3>3, <3>4, <3>5
  <2>7. CASE SgOutside
    <3>1. SgStays
      BY <2>7, SgStands
    <3>2. sgJmp' = sgJmp /\ sgLife' = sgLife
      BY <2>7 DEF SgOutside, SgTick, SgSend, SgChild
    <3>3. sgTimer.alarm = 0 => sgTimer'.alarm = 0
      <4>1. SgTick => sgTimer'.alarm = SgDown(sgTimer.alarm)
        BY SgTicks
      <4> QED
        BY <2>7, <4>1 DEF SgOutside, SgSend, SgChild, SgDown
    <3>4. "ALRM" \in sgPend' => "ALRM" \in sgPend \/ sgTimer.alarm # 0
      <4>1. SgSend => sgPend' \subseteq sgPend \cup {"INT", "QUIT", "CHLD"}
        BY SgSendsOne DEF SgTyped
      <4> QED
        BY <2>7, <4>1, SgTicks DEF SgOutside, SgChild
    <3>5. SgPc' = SgPc /\ SgHandling' = SgHandling
      BY <3>1 DEF SgStays
    <3> QED
      BY <2>k, <3>2, <3>3, <3>4, <3>5, SgLives
  <2> QED
    BY <2>1, <2>2, <2>3, <2>4, <2>5, <2>6, <2>7, SgSteps
<1> QED
  BY <1>0, <1>1

\* Only the function of the four sleeps and of the two demonstrations sleeps.
LEMMA SgAwake ==
  ASSUME SgShape, sgProg \in {"system", "abort", "signal_demo", "pending_demo"}
  PROVE  ~SgDozing /\ ~SgTop.asleep /\ ~SgFallAsleep /\ ~SgNanoEnds /\ ~SgJump /\ ~SgTick
         /\ (sgProg # "system" => ~SgFork /\ ~SgWaitpid)
<1>1. ~SgDozing
  BY SgPlaced DEF SgPlace, SgDozes
<1>2. ~SgTop.asleep
  BY <1>1, SgStacked DEF SgDozing
<1>3. ~SgFallAsleep
  BY SgFallsAsleep DEF SgPlace, SgDozes
<1>4. ~SgTick
  BY DEF SgTick, SgSleeps
<1> QED
  BY <1>1, <1>2, <1>3, <1>4, SgNanoWakes, SgJumps, SgForks, SgWaits

\* The child of system() and the handlers of its caller.
LEMMA SgSparingNext ==
  ASSUME SgShape, SgActs, SgSparing, SgNext
  PROVE  SgSparing'
<1>l. sgProg' = sgProg /\ sgCaller' = sgCaller
  BY SgLives
<1>0. CASE sgProg # "system"
  BY <1>0, <1>l DEF SgSparing
<1>1. CASE sgProg = "system"
  <2>h. /\ "user" \in SgHandling => SgPc \notin 3..6
        /\ sgChild \in {"starting", "running", "zombie"} => SgPc = 5
        /\ SgPc < 5 => sgChild = "none"
        /\ SgPc = 5 /\ sgChild = "reaped" => sgCaller.disp["CHLD"] = "chld"
        /\ sgRet = -1 => (sgChild = "none" /\ SgPc >= 6) \/ sgCaller.disp["CHLD"] = "chld"
    BY <1>1 DEF SgSparing
  <2>p. SgPc \in 1..9
    BY SgPlaced
  <2>a. ~SgFallAsleep /\ ~SgNanoEnds /\ ~SgJump /\ ~SgTick /\ ~SgTop.asleep /\ ~SgDozing
    BY <1>1, SgAwake
  \* What does not concern the child.
  <2>k. ASSUME sgChild' = sgChild, sgRet' = sgRet, SgPc' = SgPc,
               "user" \in SgHandling' => "user" \in SgHandling \/ SgPc \notin 3..6
        PROVE  SgSparing'
    BY <1>l, <2>h, <2>k DEF SgSparing
  <2>1. CASE SgWaitpid
    <3>1. \/ SgMakes /\ SgPc = 5 /\ sgChild = "zombie" /\ sgChild' = "reaped" /\ sgRet' = 0
          \/ SgMakes /\ SgPc = 5 /\ sgChild = "reaped" /\ sgChild' = "reaped" /\ sgRet' = -1
          \/ /\ SgWorks /\ sgRet' = sgRet /\ sgCaller.disp["CHLD"] = "chld"
             /\ sgChild' = IF sgChild = "zombie" THEN "reaped" ELSE sgChild
      BY <2>1, SgWaits
    <3>2. SgMakes => SgPc' = SgPc + 1 /\ SgHandling' = {}
      BY DEF SgMakes, SgGoes
    <3>3. SgWorks => SgPc' = SgPc /\ SgHandling' = SgHandling
      BY DEF SgWorks, SgStays
    <3>4. CASE /\ SgMakes /\ SgPc = 5 /\ sgChild' = "reaped"
               /\ (sgChild = "zombie" /\ sgRet' = 0) \/ (sgChild = "reaped" /\ sgRet' = -1)
      <4>1. SgPc' = 6 /\ SgHandling' = {}
        BY <3>2, <3>4
      <4>2. sgChild' = "reaped" /\ (sgRet' # -1 \/ sgCaller.disp["CHLD"] = "chld")
        BY <2>h, <3>4
      <4> QED
        BY <1>l, <4>1, <4>2 DEF SgSparing
    <3>5. CASE /\ SgWorks /\ sgRet' = sgRet /\ sgCaller.disp["CHLD"] = "chld"
               /\ sgChild' = IF sgChild = "zombie" THEN "reaped" ELSE sgChild
      BY <1>l, <2>h, <3>3, <3>5 DEF SgSparing
    <3> QED
      BY <3>1, <3>4, <3>5
  <2>2. CASE SgCall /\ ~SgWaitpid
    <3>1. sgChild' = sgChild
      BY <2>2 DEF SgCall, SgSigaction, SgReaction, SgSigprocmask, SgRaise, SgAlarm, SgOutput,
         SgGetchar
    <3>2. ~SgAlarm
      <4>1. SgAlarm => SgMakes /\ SgIns[1] \in {"alarm", "alarm_min", "unslept"}
        BY <2>2, SgCalls DEF SgAlarm, SgRuns, SgWorks, SgPlace, SgHandlers
      <4> QED
        BY <1>1, <4>1 DEF SgMakes, SgPlace
    <3>3. sgRet' = sgRet
      BY <2>2, <3>2 DEF SgCall, SgSigaction, SgReaction, SgSigprocmask, SgRaise, SgOutput,
         SgGetchar
    <3>4. CASE SgWorks
      BY <2>k, <3>1, <3>3, <3>4 DEF SgWorks, SgStays
    <3>5. CASE SgMakes
      <4>1. SgPc' = SgPc + 1 /\ SgHandling' = {} /\ SgIns = SgCode["system"][SgPc]
        BY <1>1, <3>5, SgPlaced DEF SgMakes, SgGoes
      <4>2. SgIns[1] \notin {"fork", "waitpid"}
        BY <2>2 DEF SgCall, SgSigaction, SgReaction, SgSigprocmask, SgRaise, SgAlarm, SgOutput,
           SgGetchar, SgRuns
      <4>3. SgPc # 4 /\ SgPc # 5
        BY <4>1, <4>2 DEF SgCode, SystemFunc
      <4> QED
        BY <1>l, <2>h, <2>p, <3>1, <3>3, <4>1, <4>3 DEF SgSparing
    <3> QED
      BY <2>2, <3>4, <3>5, SgCalls
  <2>3. CASE SgFork
    <3>1. SgPc = 4 /\ SgHandling' = {}
          /\ \/ SgPc' = 5 /\ sgChild' = "starting" /\ sgRet' = sgRet
             \/ SgPc' = 6 /\ sgChild' = sgChild /\ sgRet' = -1
      BY <2>3, SgForks DEF SgGoes
    <3> QED
      BY <1>l, <2>h, <3>1 DEF SgSparing
  <2>4. CASE SgReturn
    <3>1. SgHandling' \subseteq SgHandling /\ SgPc' = SgPc
      BY <2>4, <2>a, SgReturns, SgEnds DEF SgLeaves, SgStays
    <3>2. sgChild' = sgChild /\ sgRet' = sgRet
      BY <2>4 DEF SgReturn
    <3> QED
      BY <2>k, <3>1, <3>2
  <2>5. CASE SgDeliver
    <3>1. PICK s \in SgSignals :
            \/ SgStays /\ sgRet' = sgRet
            \/ /\ SgEnters(sgDisp[s]) /\ SgFits(s, sgDisp[s]) /\ sgDisp[s] \in SgHandlers
               /\ SgEnter(s)
      BY <2>5, SgDelivers
    <3>2. sgChild' = sgChild /\ sgRet' = sgRet /\ SgPc' = SgPc
      BY <2>5, <2>a, <3>1 DEF SgDeliver, SgEnter, SgStays, SgEnters
    <3>3. ASSUME sgDisp[s] = "user", SgFits(s, sgDisp[s]) PROVE SgPc \notin 3..6
      <4>1. s = "INT"
        BY <1>1, <3>3 DEF SgFits, SgSleeps
      <4> QED
        BY <1>1, <3>3, <4>1 DEF SgActs, SgActionAt
    <3>4. "user" \in SgHandling' => "user" \in SgHandling \/ SgPc \notin 3..6
      BY <3>1, <3>3 DEF SgStays, SgEnters
    <3> QED
      BY <2>k, <3>2, <3>4
  <2>6. CASE SgSend \/ SgChild
    <3>1. SgPc' = SgPc /\ SgHandling' = SgHandling
      BY <2>6, SgStands DEF SgOutside, SgStays
    <3>2. sgRet' = sgRet /\ (sgChild' = sgChild \/
            (sgChild \in {"starting", "running"} /\ sgChild' \in {"running", "zombie"}))
      BY <2>6 DEF SgSend, SgChild
    <3> QED
      BY <1>l, <2>h, <3>1, <3>2 DEF SgSparing
  <2> QED
    BY <2>1, <2>2, <2>3, <2>4, <2>5, <2>6, <2>a, SgSteps DEF SgOutside
<1> QED
  BY <1>0, <1>1

\* What was sent stays sent.
LEMMA SgSentBefore ==
  ASSUME SgShape, SgNext
  PROVE  /\ sgSent' = sgSent \/ SgSend
         /\ \A i \in DOMAIN sgSent : i \in DOMAIN sgSent' /\ sgSent'[i] = sgSent[i]
<1>1. sgSent' = sgSent \/ SgSend
  BY SgSteps DEF SgCall, SgFallAsleep, SgNanoEnds, SgFork, SgOutside, SgSigaction,
     SgReaction, SgSigprocmask, SgRaise, SgAlarm, SgOutput, SgWaitpid, SgGetchar, SgTick,
     SgChild, SgReturn, SgDeliver, SgJump
<1> QED
  BY <1>1, SgSendsOne

\* What was lost stays lost.
LEMMA SgLossyStays ==
  ASSUME SgShape, SgNext, SgLossy
  PROVE  SgLossy'
<1>1. PICK i \in DOMAIN sgSent : sgSent[i].code = "abort" /\ sgSent[i].pc = 3
  BY DEF SgLossy
<1>2. i \in DOMAIN sgSent' /\ sgSent'[i] = sgSent[i]
  BY SgSentBefore
<1> QED
  BY <1>1, <1>2, SgLives DEF SgLossy

\* The mask of abort(), and what a handler that returns leaves.
LEMMA SgAbortMask ==
  ASSUME SgShape, SgMasks, SgAborting, sgProg = "abort", sgLife = "running"
  PROVE  /\ SgQuiet /\ SgPc > 3 => sgMask = SgSignals \ {"ABRT"}
         /\ SgQuiet /\ SgPc <= 3 => "INT" \notin sgMask
         /\ SgReturn /\ ~SgQuiet /\ SgPc > 3 => SgQuiet'
         /\ SgForward => Len(sgFrames') = Len(sgFrames)
<1>1. ~SgDozing
  BY SgAwake
<1>2. SgQuiet => sgMask = SgMaskAt("abort", SgPc)
  BY <1>1 DEF SgMasks, SgBack
<1>3. sgProg \in SgPrograms /\ sgCaller \in SgCallers(sgProg)
  BY DEF SgShape, SgValues
<1>4. sgCaller.mask \subseteq {"ABRT"}
  BY <1>3, SgCalled
<1>5. SgPc \in 1..9
  BY SgPlaced
<1>6. ASSUME SgReturn, ~SgQuiet, SgPc > 3
      PROVE  SgQuiet'
  <2>1. /\ Len(sgFrames) = 2 /\ sgFrames \in Seq(SgFrameSet) /\ ~sgFrames[1].asleep
    BY <1>1, <1>6 DEF SgAborting, SgShape, SgStack, SgDozing
  <2> DEFINE below == SubSeq(sgFrames, 1, Len(sgFrames) - 1)
  <2>2. Len(below) = 1 /\ below[1] = sgFrames[1]
    BY <2>1
  <2>3. sgFrames' = IF below[Len(below)].asleep
                    THEN [SgAdvance(below) EXCEPT ![Len(below)].asleep = FALSE] ELSE below
    BY <1>6 DEF SgReturn, SgQuiet
  <2> HIDE DEF below
  <2>4. sgFrames' = below
    BY <2>1, <2>2, <2>3
  <2> QED
    BY <2>2, <2>4 DEF SgQuiet
<1>7. SgForward => Len(sgFrames') = Len(sgFrames)
  BY DEF SgForward, SgAdvance, SgShape, SgStack
<1> QED
  BY <1>2, <1>4, <1>5, <1>6, <1>7 DEF SgMaskAt

\* SIGABRT, its action and the stream at each place of abort().
LEMMA SgAbortingNext ==
  ASSUME SgShape, SgMasks, SgAborting, SgNext
  PROVE  SgAborting'
<1>l. sgLife = "running" /\ sgProg' = sgProg /\ sgCaller' = sgCaller
  BY SgLives
<1>0. CASE sgProg # "abort"
  BY <1>0, <1>l DEF SgAborting
<1>1. CASE sgProg = "abort"
  <2> DEFINE Caught == IF sgCaller.disp["ABRT"] = "abrt" THEN "abrt" ELSE "dfl"
             Prints == sgCaller.disp["INT"] = "printer"
  <2>h. /\ SgPc = 1 => sgDisp["ABRT"] = sgCaller.disp["ABRT"]
        /\ SgPc \in 2..6 => sgDisp["ABRT"] = Caught
        /\ SgPc >= 7 => sgDisp["ABRT"] = "dfl"
        /\ SgPc > 3 /\ ~SgQuiet => Len(sgFrames) = 2 /\ sgMask = SgSignals
        /\ "abrt" \in SgHandling => SgPc = 5
        /\ "printer" \in SgHandling => SgPc <= 3
        /\ SgPc = 3 /\ Prints /\ ("INT" \in sgPend \/ ~SgQuiet) => SgLossy
        /\ SgPc \in {3, 4} /\ sgOut => SgLossy
        /\ SgPc >= 6 => ~sgOut
        /\ "ABRT" \in sgPend => SgPc \in {5, 9} /\ SgQuiet /\ (sgOut => SgLossy)
        /\ SgPc = 9 => "ABRT" \in sgPend
    BY <1>1, <1>l DEF SgAborting
  <2>p. SgPc \in 1..9 /\ (SgQuiet => SgIns = SgCode["abort"][SgPc])
    BY <1>1, SgPlaced
  <2>a. /\ ~SgFallAsleep /\ ~SgNanoEnds /\ ~SgJump /\ ~SgTick /\ ~SgTop.asleep /\ ~SgDozing
        /\ ~SgFork /\ ~SgWaitpid
    BY <1>1, SgAwake
  <2>m. /\ SgQuiet /\ SgPc > 3 => sgMask = SgSignals \ {"ABRT"}
        /\ SgQuiet /\ SgPc <= 3 => "INT" \notin sgMask
    BY <1>1, <1>l, SgAbortMask
  <2>y. SgLossy => SgLossy'
    BY SgLossyStays
  <2>c. Caught' = Caught /\ (Prints' <=> Prints)
    BY <1>l
  <2> HIDE DEF Caught, Prints
  <2>d. Caught \in {"dfl", "abrt"} /\ (Caught = "dfl" => sgCaller.disp["ABRT"] # "abrt")
    BY DEF Caught
  \* What is to be shown, with the conditions of a process that runs.
  <2>e. ASSUME sgLife' = "running",
               SgPc' = 1 => sgDisp'["ABRT"] = sgCaller.disp["ABRT"],
               SgPc' \in 2..6 => sgDisp'["ABRT"] = Caught,
               SgPc' >= 7 => sgDisp'["ABRT"] = "dfl",
               SgPc' > 3 /\ ~SgQuiet' => Len(sgFrames') = 2 /\ sgMask' = SgSignals,
               "abrt" \in SgHandling' => SgPc' = 5,
               "printer" \in SgHandling' => SgPc' <= 3,
               SgPc' = 3 /\ Prints /\ ("INT" \in sgPend' \/ ~SgQuiet') => SgLossy',
               SgPc' \in {3, 4} /\ sgOut' => SgLossy',
               SgPc' >= 6 => ~sgOut',
               "ABRT" \in sgPend' => SgPc' \in {5, 9} /\ SgQuiet' /\ (sgOut' => SgLossy'),
               SgPc' = 9 => "ABRT" \in sgPend'
        PROVE  SgAborting'
    BY <1>l, <2>e DEF SgAborting, Caught, Prints
  \* It goes on while nothing happens to SIGABRT, to the stream and to the handlers.
  <2>k. ASSUME sgLife' = "running", sgDisp'["ABRT"] = sgDisp["ABRT"], SgPc' = SgPc,
               SgHandling' \subseteq SgHandling \cup {"user"}, sgOut' = sgOut,
               SgPc > 3 /\ ~SgQuiet' => Len(sgFrames') = 2 /\ sgMask' = SgSignals,
               SgPc = 3 /\ Prints /\ ("INT" \in sgPend' \/ ~SgQuiet') => SgLossy',
               "ABRT" \in sgPend' <=> "ABRT" \in sgPend,
               "ABRT" \in sgPend => SgQuiet'
        PROVE  SgAborting'
    <3>1. /\ "abrt" \in SgHandling' => SgPc' = 5
          /\ "printer" \in SgHandling' => SgPc' <= 3
      BY <2>h, <2>k
    <3>2. /\ SgPc' \in {3, 4} /\ sgOut' => SgLossy'
          /\ SgPc' >= 6 => ~sgOut'
          /\ "ABRT" \in sgPend' => SgPc' \in {5, 9} /\ SgQuiet' /\ (sgOut' => SgLossy')
          /\ SgPc' = 9 => "ABRT" \in sgPend'
      BY <2>h, <2>k, <2>y
    <3>3. /\ SgPc' = 1 => sgDisp'["ABRT"] = sgCaller.disp["ABRT"]
          /\ SgPc' \in 2..6 => sgDisp'["ABRT"] = Caught
          /\ SgPc' >= 7 => sgDisp'["ABRT"] = "dfl"
      BY <2>h, <2>k
    <3> QED
      BY <2>e, <2>k, <3>1, <3>2, <3>3
  <2>1. CASE SgCall
    <3>1. sgLife' = "running"
      BY <1>l, <2>1 DEF SgCall, SgSigaction, SgReaction, SgSigprocmask, SgRaise, SgAlarm, SgOutput,
         SgWaitpid, SgGetchar
    <3>2. SgMakes \/ SgWorks
      BY <2>1, SgCalls
    <3>3. CASE SgMakes
      <4>1. /\ SgPlace("abort", SgPc, SgIns) /\ SgQuiet' /\ SgPc' = SgPc + 1 /\ SgHandling' = {}
            /\ sgPend \subseteq sgMask /\ SgQuiet
        BY <1>1, <3>3 DEF SgMakes, SgGoes
      \* With no handler, half of it holds.
      <4>q. ASSUME SgPc' = 1 => sgDisp'["ABRT"] = sgCaller.disp["ABRT"],
                   SgPc' \in 2..6 => sgDisp'["ABRT"] = Caught,
                   SgPc' >= 7 => sgDisp'["ABRT"] = "dfl",
                   SgPc' = 3 => "INT" \notin sgPend',
                   SgPc' \in {3, 4} /\ sgOut' => SgLossy',
                   SgPc' >= 6 => ~sgOut',
                   "ABRT" \in sgPend' => SgPc' \in {5, 9} /\ (sgOut' => SgLossy'),
                   SgPc' = 9 => "ABRT" \in sgPend'
            PROVE  SgAborting'
        BY <2>e, <3>1, <4>1, <4>q
      <4>2. CASE SgSigaction
        <5>1. /\ SgIns[1] = "sigaction" /\ sgDisp'[SgIns[2]] = SgIns[3] /\ sgPend' \subseteq sgPend
          BY <4>2, SgSigactions
        <5>2. SgPc = 6 /\ SgIns[2] = "ABRT" /\ SgIns[3] = "dfl"
          BY <4>1, <5>1 DEF SgPlace
        <5>3. sgOut' = sgOut
          BY <4>2 DEF SgSigaction
        <5>4. SgPc' = 7 /\ sgDisp'["ABRT"] = "dfl" /\ "ABRT" \notin sgPend' /\ ~sgOut'
          BY <2>h, <4>1, <5>1, <5>2, <5>3
        <5> QED
          BY <4>q, <5>4
      <4>3. CASE SgReaction
        <5>1. /\ SgIns[2] \in SgSignals
              /\ \/ SgIns[1] = "restore"
                 \/ /\ SgIns[1] = "unignore" /\ SgPc = 1 /\ SgIns[2] = "ABRT"
                    /\ sgDisp'["ABRT"] = IF sgDisp["ABRT"] = "ign" THEN "dfl" ELSE sgDisp["ABRT"]
              /\ sgPend' \subseteq sgPend
          BY <4>3, SgReactions
        <5>2. SgIns[1] # "restore"
          BY <4>1 DEF SgPlace
        <5>3. SgFits("ABRT", sgDisp["ABRT"])
          BY DEF SgShape, SgValues, SgSignals
        <5>4. sgDisp["ABRT"] \in {"dfl", "ign", "abrt"} /\ sgDisp["ABRT"] = sgCaller.disp["ABRT"]
          BY <1>1, <2>h, <5>1, <5>2, <5>3 DEF SgFits, SgActions, SgHandlers, SgSleeps
        <5>5. SgPc' = 2 /\ sgDisp'["ABRT"] = Caught /\ "ABRT" \notin sgPend'
          BY <2>h, <4>1, <5>1, <5>2, <5>4 DEF Caught
        <5> QED
          BY <4>q, <5>5
      <4>4. CASE SgSigprocmask
        <5>1. SgIns[1] \in {"block", "setmask", "oldmask"}
          BY <4>4, SgMasked
        <5>2. SgPc \in {3, 7}
          BY <4>1, <5>1 DEF SgPlace
        <5>3. sgDisp' = sgDisp /\ sgOut' = sgOut /\ sgPend' = sgPend
          BY <4>4 DEF SgSigprocmask
        <5>4. (SgPc' = 4 /\ SgPc = 3) \/ (SgPc' = 8 /\ SgPc = 7)
          BY <4>1, <5>2
        <5> QED
          BY <2>h, <2>y, <4>q, <5>3, <5>4
      <4>5. CASE SgRaise
        <5>1. /\ SgIns[1] = "raise"
              /\ sgPend' = IF sgDisp[SgIns[2]] = "ign" /\ SgIns[2] \notin sgMask
                           THEN sgPend ELSE sgPend \cup {SgIns[2]}
          BY <4>5, SgRaises
        <5>2. SgPc \in {4, 8} /\ SgIns[2] = "ABRT"
          BY <4>1, <5>1 DEF SgPlace
        <5>3. sgDisp' = sgDisp /\ sgOut' = sgOut
          BY <4>5 DEF SgRaise
        <5>4. (SgPc = 4 /\ SgPc' = 5) \/ (SgPc = 8 /\ SgPc' = 9)
          BY <4>1, <5>2
        <5>5. sgDisp["ABRT"] # "ign" /\ (sgOut => SgLossy) /\ (SgPc = 8 => ~sgOut)
          BY <2>d, <2>h, <5>2
        <5>6. "ABRT" \in sgPend'
          BY <5>1, <5>2, <5>5
        <5> QED
          BY <2>h, <2>y, <4>q, <5>3, <5>4, <5>5, <5>6
      <4>6. CASE SgOutput
        <5>1. sgOut' = FALSE /\ SgIns[1] = "fflush"
          <6>1. ~SgWorks
            BY <4>1 DEF SgWorks
          <6> QED
            BY <4>6, <6>1, SgOutputs
        <5>2. SgPc \in {2, 5}
          BY <4>1, <5>1 DEF SgPlace
        <5>3. sgDisp' = sgDisp /\ sgPend' = sgPend
          BY <4>6 DEF SgOutput
        <5>4. (SgPc = 2 /\ SgPc' = 3) \/ (SgPc = 5 /\ SgPc' = 6)
          BY <4>1, <5>2
        <5>5. "ABRT" \notin sgPend
          BY <2>h, <2>m, <4>1, <5>2
        <5>6. SgPc = 2 => "INT" \notin sgPend
          BY <2>m, <4>1
        <5> QED
          BY <2>h, <4>q, <5>1, <5>3, <5>4, <5>5, <5>6
      <4>7. ~SgAlarm /\ ~SgGetchar
        <5>1. SgAlarm => SgIns[1] \in {"alarm", "alarm_min", "unslept"}
          BY DEF SgAlarm, SgRuns
        <5>2. SgGetchar => SgIns[1] = "getchar"
          BY DEF SgGetchar, SgRuns
        <5> QED
          BY <4>1, <5>1, <5>2 DEF SgPlace
      <4> QED
        BY <2>1, <2>a, <4>2, <4>3, <4>4, <4>5, <4>6, <4>7 DEF SgCall
    <3>4. CASE SgWorks
      <4>1. /\ ~SgQuiet /\ (SgQuiet' <=> SgQuiet) /\ SgPc' = SgPc /\ SgHandling' = SgHandling
            /\ SgTop.code \in SgHandling
        BY <3>4 DEF SgWorks, SgStays
      <4>2. /\ SgTop.code \in {"user", "abrt", "printer"}
            /\ SgTop.code = "printer" => Prints
        BY <1>1, <3>4 DEF SgWorks, SgFits, SgHandlers, SgSleeps, Prints
      <4>3. SgIns[1] \in {"work", "print"} \/ SgIns[1] = "return"
        BY <3>4, <4>2 DEF SgWorks, SgPlace
      <4>4. SgOutput
        BY <2>1, <4>3 DEF SgCall, SgSigaction, SgReaction, SgSigprocmask, SgRaise, SgAlarm,
           SgWaitpid, SgGetchar, SgRuns
      <4>5. /\ sgDisp' = sgDisp /\ sgPend' = sgPend /\ "ABRT" \notin sgPend /\ sgMask' = sgMask
            /\ Len(sgFrames') = Len(sgFrames)
        BY <1>1, <1>l, <2>h, <4>1, <4>4, SgAbortMask DEF SgOutput
      <4>6. sgOut' = sgOut \/ SgIns[1] = "print"
        BY <3>4, <4>1, <4>4, SgOutputs DEF SgMakes, SgGoes
      <4>7. SgIns[1] = "print" => SgTop.code \in {"abrt", "printer"}
        BY <3>4, <4>2 DEF SgWorks, SgPlace
      <4>8. sgOut' = sgOut \/ SgPc = 5 \/ (SgPc <= 3 /\ Prints)
        BY <2>h, <4>1, <4>2, <4>6, <4>7
      <4>9. sgOut' /\ SgPc \in {3, 4} => SgLossy'
        <5>1. SgPc = 3 /\ Prints => SgLossy'
          BY <2>h, <2>y, <4>1
        <5>2. SgPc \in {3, 4} => (sgOut' => sgOut) \/ (SgPc = 3 /\ Prints)
          BY <2>p, <4>8
        <5> QED
          BY <2>h, <2>y, <5>1, <5>2
      <4>10. SgPc = 3 /\ Prints => SgLossy'
        BY <2>h, <2>y, <4>1
      <4>11. SgPc >= 6 => ~sgOut'
        <5>1. SgPc >= 6 => SgPc # 5 /\ ~(SgPc <= 3)
          BY <2>p
        <5> QED
          BY <2>h, <4>8, <5>1
      <4> QED
        BY <2>e, <2>h, <3>1, <4>1, <4>5, <4>9, <4>10, <4>11
    <3> QED
      BY <3>2, <3>3, <3>4
  <2>2. CASE SgReturn
    <3>1. ~SgQuiet
      <4>1. SgQuiet => sgPend \subseteq sgMask /\ SgPc = 9
        BY <1>1, <2>2, SgEnds DEF SgPlace
      <4> QED
        BY <4>1, <2>h, <2>m
    <3>2. SgHandling' \subseteq SgHandling /\ SgPc' = SgPc /\ sgLife' = sgLife
      BY <2>2, <2>a, <3>1, SgReturns DEF SgLeaves
    <3>3. sgDisp' = sgDisp /\ sgOut' = sgOut /\ sgPend' = sgPend
      BY <2>2 DEF SgReturn
    <3>4. SgPc > 3 => SgQuiet'
      BY <1>1, <1>l, <2>2, <3>1, SgAbortMask
    <3>5. SgPc = 3 /\ Prints => SgLossy'
      BY <2>h, <2>y, <3>1
    <3> QED
      BY <1>l, <2>h, <2>k, <3>1, <3>2, <3>3, <3>4, <3>5
  <2>3. CASE SgDeliver
    <3>1. PICK s \in SgSignals :
              /\ s \in sgPend /\ s \notin sgMask /\ sgPend' = sgPend \ {s}
              /\ \/ /\ SgStays /\ UNCHANGED <<sgFrames, sgMask, sgDisp, sgRet, sgLife>>
                    /\ sgDisp[s] = "ign" \/ s = "CHLD"
                 \/ /\ SgStays /\ UNCHANGED <<sgFrames, sgMask, sgDisp, sgRet>>
                    /\ sgDisp[s] = "dfl" /\ sgLife' = s
                 \/ /\ SgEnters(sgDisp[s]) /\ SgFits(s, sgDisp[s]) /\ sgLife' = sgLife
                    /\ sgDisp[s] \in SgHandlers /\ SgTop'.pc = 1 /\ SgEnter(s)
      BY <2>3, SgDelivers
    <3>2. sgOut' = sgOut
      BY <2>3 DEF SgDeliver
    <3>3. "ABRT" \in sgPend => s = "ABRT"
      BY <2>h, <2>m, <3>1
    <3>4. CASE /\ SgStays /\ UNCHANGED <<sgFrames, sgMask, sgDisp, sgRet, sgLife>>
               /\ sgDisp[s] = "ign" \/ s = "CHLD"
      <4>1. s # "ABRT"
        BY <2>d, <2>h, <3>1, <3>4
      <4>2. "ABRT" \notin sgPend /\ "ABRT" \notin sgPend'
        BY <3>1, <3>3, <4>1
      <4>3. SgPc = 3 /\ Prints /\ ("INT" \in sgPend' \/ ~SgQuiet) => SgLossy'
        BY <2>h, <2>y, <3>1
      <4> QED
        BY <1>l, <2>h, <2>k, <3>2, <3>4, <4>2, <4>3 DEF SgStays
    <3>5. CASE SgStays /\ sgFrames' = sgFrames /\ sgMask' = sgMask /\ sgDisp' = sgDisp
               /\ sgDisp[s] = "dfl" /\ sgLife' = s
      <4>1. SgPc' = SgPc /\ SgHandling' = SgHandling /\ (SgQuiet' <=> SgQuiet)
        BY <3>5 DEF SgStays
      <4>2. "ABRT" \notin sgPend'
        BY <3>1, <3>3
      <4>3. /\ sgLife' # "running" /\ sgLife' # "returned"
            /\ sgLife' = "ABRT" /\ sgOut => SgLossy' /\ Caught = "dfl"
        BY <2>h, <2>y, <3>1, <3>5 DEF SgSignals
      <4>4. SgPc = 3 /\ Prints /\ ("INT" \in sgPend' \/ ~SgQuiet) => SgLossy'
        BY <2>h, <2>y, <3>1
      <4>5. SgPc \in {3, 4} /\ sgOut => SgLossy'
        BY <2>h, <2>y
      <4>6. sgLife' = "ABRT" /\ sgOut => SgLossy' /\ sgCaller'.disp["ABRT"] # "abrt"
        BY <1>l, <2>d, <4>3
      <4> QED
        BY <1>l, <2>h, <3>2, <3>5, <4>1, <4>2, <4>3, <4>4, <4>5, <4>6
           DEF SgAborting, Caught, Prints
    <3>6. CASE /\ SgEnters(sgDisp[s]) /\ SgFits(s, sgDisp[s]) /\ sgLife' = sgLife
               /\ sgDisp[s] \in SgHandlers /\ SgEnter(s)
      <4>1. /\ sgDisp[s] \in {"user", "abrt", "printer"}
            /\ sgDisp[s] = "abrt" => s = "ABRT"
            /\ sgDisp[s] = "printer" => s = "INT" /\ Prints
            /\ sgDisp[s] = "user" => s = "INT"
        BY <1>1, <3>6 DEF SgFits, SgHandlers, SgSleeps, Prints
      <4>2. sgDisp' = sgDisp /\ sgMask' = sgMask \cup {s}
        BY <3>6, <4>1 DEF SgEnter
      <4>3. SgPc' = SgPc /\ SgHandling' = SgHandling \cup {sgDisp[s]} /\ ~SgQuiet'
        BY <3>6 DEF SgEnters
      <4>4. s = "ABRT" => SgPc = 5
        BY <2>h, <3>1, <4>1
      <4>5. "ABRT" \notin sgPend' /\ SgPc # 9
        BY <2>h, <3>1, <3>3, <4>4
      <4>6. SgPc > 3 => SgQuiet /\ s = "ABRT"
        BY <2>h, <2>m, <3>1
      <4>7. Len(sgFrames') = Len(sgFrames) + 1
        BY <3>6 DEF SgEnter, SgShape, SgStack
      <4>8. SgPc > 3 => Len(sgFrames') = 2 /\ sgMask' = SgSignals
        <5>1. SgPc > 3 => sgMask' = (SgSignals \ {"ABRT"}) \cup {"ABRT"}
          BY <2>m, <4>2, <4>6
        <5>2. (SgSignals \ {"ABRT"}) \cup {"ABRT"} = SgSignals
          BY DEF SgSignals
        <5>3. SgPc > 3 => Len(sgFrames') = 2
          <6>1. SgPc > 3 => Len(sgFrames) = 1
            BY <4>6 DEF SgQuiet
          <6>2. Len(sgFrames) = 1 => Len(sgFrames') = 1 + 1
            BY <4>7
          <6> QED
            BY <6>1, <6>2
        <5> QED
          BY <5>1, <5>2, <5>3
      <4>9. /\ "abrt" \in SgHandling' => SgPc = 5
            /\ "printer" \in SgHandling' => SgPc <= 3
        BY <2>h, <2>p, <4>1, <4>3, <4>4, <4>6
      <4>10. SgPc = 3 /\ Prints => SgLossy'
        BY <2>h, <2>y, <3>1, <4>1, <4>4
      <4>11. SgPc \in {3, 4} /\ sgOut' => SgLossy'
        BY <2>h, <2>y, <3>2
      <4> QED
        BY <1>l, <2>e, <2>h, <3>2, <3>6, <4>2, <4>3, <4>5, <4>8, <4>9, <4>10, <4>11
    <3> QED
      BY <3>1, <3>4, <3>5, <3>6
  <2>4. CASE SgSend
    <3>1. SgStays /\ sgFrames' = sgFrames /\ sgMask' = sgMask
      BY <2>4, SgStands DEF SgOutside, SgSend
    <3>2. "ABRT" \in sgPend' <=> "ABRT" \in sgPend
      BY <1>1, <2>4, SgSendsOne DEF SgTyped
    <3>3. sgDisp' = sgDisp /\ sgOut' = sgOut /\ sgLife' = sgLife
      BY <2>4 DEF SgSend
    <3>4. SgPc = 3 /\ Prints => SgLossy'
      <4>1. CASE ~SgQuiet
        BY <2>h, <2>y, <4>1
      <4>2. CASE SgQuiet
        <5>1. SgTop.code = "abort" /\ SgTop.pc = SgPc
          BY <1>1, <4>2 DEF SgQuiet, SgTop, SgPc, SgShape, SgStack
        <5> QED
          BY <1>l, <2>4, <5>1, SgSendsOne DEF SgLossy, Prints
      <4> QED
        BY <4>1, <4>2
    <3>5. SgPc > 3 /\ ~SgQuiet => Len(sgFrames') = 2 /\ sgMask' = SgSignals
      BY <2>h, <3>1
    <3> QED
      BY <1>l, <2>h, <2>k, <3>1, <3>2, <3>3, <3>4, <3>5 DEF SgStays
  <2>5. CASE SgChild
    BY <1>1, <2>5 DEF SgChild, SgShape, SgValues
  <2> QED
    BY <2>1, <2>2, <2>3, <2>4, <2>5, <2>a, SgSteps DEF SgOutside
<1> QED
  BY <1>0, <1>1

\* Which handlers the three demonstrations have.
LEMMA SgDemos ==
  ASSUME SgShape
  PROVE  /\ sgProg = "pending_demo" => SgQuiet
         /\ sgProg = "pause_demo" /\ ~SgQuiet => SgTop.code = "nop"
         /\ sgProg = "signal_demo" /\ ~SgQuiet => SgTop.code = "sigquit"
         /\ sgProg # "abort" => sgCaller.mask = {}
         /\ SgPlace(SgTop.code, SgTop.pc, SgIns)
         /\ SgQuiet => SgTop.code = sgProg /\ SgTop.pc = SgPc
<1>1. ~SgQuiet => /\ SgTop.code \in SgHandlers
                  /\ \E s \in SgSignals : SgFits(s, SgTop.code)
  BY SgStacked DEF SgShape, SgStack
<1>2. SgPlace(SgTop.code, SgTop.pc, SgIns)
  <2>1. SgTop.pc \in 1..Len(SgCode[SgTop.code]) /\ SgTop.code \in SgCodes
    BY SgStacked DEF SgShape, SgStack, SgFrameSet
  <2> QED
    BY <2>1, SgOps DEF SgIns
<1>3. SgQuiet => SgTop.code = sgProg /\ SgTop.pc = SgPc
  BY SgStacked DEF SgPc
<1>4. sgProg # "abort" => sgCaller.mask = {}
  BY SgCalled DEF SgShape, SgValues
<1>5. sgProg = "pending_demo" => SgQuiet
  BY <1>1 DEF SgFits, SgHandlers, SgSleeps
<1>6. sgProg = "pause_demo" /\ ~SgQuiet => SgTop.code = "nop"
  BY <1>1 DEF SgFits, SgHandlers, SgSleeps
<1>7. sgProg = "signal_demo" /\ ~SgQuiet => SgTop.code = "sigquit"
  BY <1>1 DEF SgFits, SgHandlers, SgSleeps
<1> QED
  BY <1>2, <1>3, <1>4, <1>5, <1>6, <1>7

\* The SIGINT of the demonstration of pause(2).
LEMMA SgPausingNext ==
  ASSUME SgShape, SgMasks, SgPausing, SgNext
  PROVE  SgPausing'
<1>l. sgLife = "running" /\ sgProg' = sgProg /\ sgCaller' = sgCaller
  BY SgLives
<1>0. CASE sgProg # "pause_demo"
  BY <1>0, <1>l DEF SgPausing
<1>1. CASE sgProg = "pause_demo"
  <2>h. /\ sgPend \subseteq {"INT"} /\ SgPc <= 5
        /\ sgPend # {} => SgQuiet /\ ~SgDozing /\ SgPc \in 3..5
        /\ SgDozing => SgQuiet
        /\ SgPc >= 4 => sgDisp["INT"] = "nop"
    BY <1>1 DEF SgPausing
  <2>p. SgPc \in 1..9 /\ (SgQuiet => SgIns = SgCode["pause_demo"][SgPc])
    BY <1>1, SgPlaced
  <2>m. SgBack = IF SgPc \in 2..4 THEN {"INT"} ELSE {}
    BY <1>1, SgDemos DEF SgMasks, SgMaskAt
  <2>n. SgQuiet /\ ~SgDozing => sgMask = SgBack
    BY DEF SgBack
  <2>1. CASE SgCall
    <3>1. sgLife' = "running"
      BY <1>l, <2>1 DEF SgCall, SgSigaction, SgReaction, SgSigprocmask, SgRaise, SgAlarm, SgOutput,
         SgWaitpid, SgGetchar
    <3>2. SgIns[1] \notin {"return", "pause"}
      BY <2>1 DEF SgCall, SgSigaction, SgReaction, SgSigprocmask, SgRaise, SgAlarm, SgOutput,
         SgWaitpid, SgGetchar, SgRuns
    <3>3. SgMakes
      <4>1. SgWorks => FALSE
        BY <1>1, <3>2, SgDemos DEF SgWorks, SgPlace
      <4> QED
        BY <2>1, <4>1, SgCalls
    <3>4. /\ SgPlace("pause_demo", SgPc, SgIns) /\ SgQuiet' /\ SgPc' = SgPc + 1 /\ ~SgDozing'
      BY <1>1, <3>3 DEF SgMakes, SgGoes
    <3>5. SgPc \in 1..4
      <4>1. SgPc # 5
        BY <2>p, <3>2, <3>3 DEF SgCode, PauseDemo, SgMakes, SgGoes
      <4> QED
        BY <2>h, <2>p, <4>1
    <3>6. sgPend' \subseteq {"INT"} /\ (SgPc = 1 => sgPend' = {})
      <4>1. SgRaise => SgPc = 2 /\ SgIns[2] = "INT" /\ sgPend' \subseteq sgPend \cup {SgIns[2]}
        BY <3>4, SgRaises DEF SgPlace
      <4>2. ~SgRaise => sgPend' \subseteq sgPend
        BY <2>1, SgSigactions, SgReactions DEF SgCall, SgSigprocmask, SgAlarm, SgOutput,
           SgWaitpid, SgGetchar
      <4>3. SgPc = 1 => sgPend = {} /\ ~SgRaise
        BY <2>h, <4>1
      <4>4. sgPend' \subseteq sgPend \cup {"INT"}
        BY <4>1, <4>2
      <4> QED
        BY <2>h, <4>2, <4>3, <4>4
    <3>7. SgPc = 3 => sgDisp'["INT"] = "nop"
      <4>1. SgPc = 3 => SgIns[1] = "sigaction" /\ SgIns[2] = "INT" /\ SgIns[3] = "nop"
        BY <2>p, <3>3 DEF SgCode, PauseDemo, SgMakes, SgGoes
      <4>2. SgIns[1] = "sigaction" => SgSigaction
        BY <2>1 DEF SgCall, SgReaction, SgSigprocmask, SgRaise, SgAlarm, SgOutput,
           SgWaitpid, SgGetchar, SgRuns
      <4> QED
        BY <4>1, <4>2, SgSigactions
    <3>8. SgPc = 4 => sgDisp'["INT"] = "nop"
      <4>1. SgPc = 4 => SgIns[1] = "oldmask"
        BY <2>p, <3>3 DEF SgCode, PauseDemo, SgMakes, SgGoes
      <4>2. SgIns[1] = "oldmask" => sgDisp' = sgDisp
        BY <2>1 DEF SgCall, SgSigaction, SgReaction, SgSigprocmask, SgRaise, SgAlarm, SgOutput,
           SgWaitpid, SgGetchar, SgRuns
      <4> QED
        BY <2>h, <4>1, <4>2
    <3>9. /\ SgPc' <= 5 /\ (SgPc' >= 4 => SgPc \in {3, 4}) /\ (SgPc # 1 => SgPc' \in 3..5)
      BY <3>4, <3>5
    <3> QED
      BY <1>1, <1>l, <3>1, <3>4, <3>6, <3>7, <3>8, <3>9 DEF SgPausing
  <2>2. CASE SgFallAsleep
    <3>1. /\ SgPlace("pause_demo", SgPc, SgIns) /\ SgIns[1] \in SgDozes /\ sgPend \subseteq sgMask
          /\ SgQuiet' /\ SgPc' = SgPc /\ SgBack = sgMask
      BY <1>1, <2>2, SgFallsAsleep
    <3>2. SgPc = 5
      BY <3>1 DEF SgPlace, SgDozes
    <3>3. sgPend' = {} /\ sgDisp' = sgDisp /\ sgLife' = sgLife
      BY <2>m, <2>2, <3>1, <3>2 DEF SgFallAsleep
    <3> QED
      BY <1>1, <1>l, <2>h, <3>1, <3>3 DEF SgPausing
  <2>3. CASE SgReturn
    <3>1. ~SgQuiet
      BY <1>1, <2>h, <2>3, SgEnds DEF SgPlace
    <3>2. ~SgDozing /\ sgPend = {}
      BY <2>h, <3>1
    <3>3. SgPc' = SgPc /\ ~SgDozing' /\ sgLife' = sgLife
      BY <2>3, <3>1, <3>2, SgReturns DEF SgLeaves
    <3>4. sgPend' = sgPend /\ sgDisp' = sgDisp
      BY <2>3 DEF SgReturn
    <3> QED
      BY <1>1, <1>l, <2>h, <3>2, <3>3, <3>4 DEF SgPausing
  <2>4. CASE SgDeliver
    <3>1. PICK s \in SgSignals :
              /\ s \in sgPend /\ s \notin sgMask /\ sgPend' = sgPend \ {s}
              /\ \/ sgDisp[s] = "ign" \/ s = "CHLD"
                 \/ sgDisp[s] = "dfl"
                 \/ /\ SgEnters(sgDisp[s]) /\ sgLife' = sgLife /\ SgEnter(s)
      BY <2>4, SgDelivers
    <3>2. s = "INT" /\ SgPc = 5 /\ ~SgDozing /\ sgPend' = {}
      BY <2>h, <2>m, <2>n, <3>1
    <3>3. sgDisp["INT"] = "nop"
      BY <2>h, <3>2
    <3>4. SgEnters("nop") /\ sgLife' = sgLife /\ sgDisp' = sgDisp
      BY <3>1, <3>2, <3>3 DEF SgEnter
    <3>5. SgPc' = SgPc /\ ~SgDozing'
      BY <3>2, <3>4 DEF SgEnters
    <3> QED
      BY <1>1, <1>l, <2>h, <3>2, <3>4, <3>5 DEF SgPausing
  <2>5. ~SgNanoEnds /\ ~SgJump /\ ~SgFork /\ ~SgOutside
    <3>1. ~SgTick /\ ~SgSend /\ ~SgChild
      BY <1>1 DEF SgTick, SgSleeps, SgSend, SgChild, SgShape, SgValues
    <3> QED
      BY <1>1, <3>1, SgNanoWakes, SgJumps, SgForks DEF SgOutside
  <2> QED
    BY <2>1, <2>2, <2>3, <2>4, <2>5, SgSteps
<1> QED
  BY <1>0, <1>1

\* SIGINT of pending_signals.
LEMMA SgPendingNext ==
  ASSUME SgShape, SgMasks, SgPending, SgNext
  PROVE  SgPending'
<1>l. sgLife = "running" /\ sgProg' = sgProg /\ sgCaller' = sgCaller
  BY SgLives
<1>0. SUFFICES ASSUME sgProg = "pending_demo", \A i \in DOMAIN sgSent' : sgSent'[i].pc \in 2..3
               PROVE  sgLife' # "INT" /\ ("INT" \in sgPend' => SgPc' \in 2..3)
  BY <1>l DEF SgPending
<1>1. \A i \in DOMAIN sgSent : sgSent[i].pc \in 2..3
  BY <1>0, SgSentBefore
<1>h. "INT" \in sgPend => SgPc \in 2..3
  BY <1>0, <1>1 DEF SgPending
<1>a. /\ ~SgFallAsleep /\ ~SgNanoEnds /\ ~SgJump /\ ~SgTick /\ ~SgDozing /\ ~SgFork /\ ~SgWaitpid
      /\ SgQuiet /\ SgPc \in 1..9
  BY <1>0, SgAwake, SgDemos, SgPlaced
<1>m. "INT" \in sgPend => "INT" \in sgMask
  BY <1>0, <1>a, <1>h DEF SgMasks, SgMaskAt, SgBack
<1>2. CASE SgCall
  <2>1. sgLife' = "running"
    BY <1>l, <1>2 DEF SgCall, SgSigaction, SgReaction, SgSigprocmask, SgRaise, SgAlarm, SgOutput,
       SgWaitpid, SgGetchar
  <2>2. SgPlace("pending_demo", SgPc, SgIns) /\ SgPc' = SgPc + 1
        /\ SgIns = SgCode["pending_demo"][SgPc]
    BY <1>0, <1>2, <1>a, SgCalls, SgPlaced DEF SgMakes, SgGoes, SgWorks
  <2>3. sgPend' \subseteq sgPend
    <3>1. ~SgRaise
      BY <2>2, SgRaises DEF SgPlace
    <3> QED
      BY <1>2, <3>1, SgSigactions, SgReactions DEF SgCall, SgSigprocmask, SgAlarm, SgOutput,
         SgWaitpid, SgGetchar
  <2>4. SgPc = 3 => "INT" \notin sgPend'
    <3>1. SgPc = 3 => SgIns[1] = "sigaction" /\ SgIns[2] = "INT" /\ SgIns[3] = "ign"
      BY <2>2 DEF SgCode, PendingDemo
    <3>2. SgIns[1] = "sigaction" => SgSigaction
      BY <1>2 DEF SgCall, SgReaction, SgSigprocmask, SgRaise, SgAlarm, SgOutput,
         SgWaitpid, SgGetchar, SgRuns
    <3> QED
      BY <3>1, <3>2, SgSigactions
  <2> QED
    BY <1>h, <1>a, <2>1, <2>2, <2>3, <2>4
<1>3. CASE SgReturn
  BY <1>a, <1>h, <1>3, SgEnds DEF SgReturn, SgStays
<1>4. CASE SgDeliver
  <2>1. PICK s \in SgSignals :
            /\ s \in sgPend /\ s \notin sgMask /\ sgPend' = sgPend \ {s}
            /\ \/ SgStays /\ sgLife' \in {sgLife, s}
               \/ SgEnters(sgDisp[s]) /\ sgLife' = sgLife
    BY <1>4, SgDelivers
  <2>2. SgPc' = SgPc
    BY <2>1 DEF SgStays, SgEnters
  <2>3. s # "INT"
    BY <1>m, <2>1
  <2> QED
    BY <1>l, <1>h, <2>1, <2>2, <2>3
<1>5. CASE SgSend
  <2>1. \E i \in DOMAIN sgSent' : sgSent'[i].pc = SgPc
    BY <1>5, <1>a, SgSendsOne, SgDemos
  <2>2. SgPc \in 2..3
    BY <1>0, <2>1
  <2>3. SgPc' = SgPc /\ sgLife' = sgLife
    BY <1>5, SgStands DEF SgOutside, SgStays, SgSend
  <2> QED
    BY <1>l, <2>2, <2>3
<1>6. CASE SgChild
  BY <1>0, <1>6 DEF SgChild, SgShape, SgValues
<1> QED
  BY <1>2, <1>3, <1>4, <1>5, <1>6, <1>a, SgSteps DEF SgOutside

\* SIGQUIT of signal.c.
LEMMA SgQuitsNext ==
  ASSUME SgShape, SgQuits, SgNext
  PROVE  SgQuits'
<1>l. sgLife = "running" /\ sgProg' = sgProg /\ sgCaller' = sgCaller
  BY SgLives
<1>0. SUFFICES ASSUME sgProg = "signal_demo" PROVE SgQuits'
  BY <1>l DEF SgQuits
<1> DEFINE Free == \A i \in DOMAIN sgSent : sgSent[i].pc # 1 /\ sgSent[i].code # "sigquit"
<1>h. /\ sgDisp["QUIT"] \in {"dfl", "sigquit"}
      /\ Free => (sgDisp["QUIT"] = "dfl" => "QUIT" \notin sgPend /\ SgTop.pc = 1)
  BY <1>0 DEF SgQuits
<1>f. Free' => Free
  BY SgSentBefore
<1>a. /\ ~SgFallAsleep /\ ~SgNanoEnds /\ ~SgJump /\ ~SgTick /\ ~SgFork /\ ~SgWaitpid
      /\ SgTop.code \in {"signal_demo", "sigquit"} /\ SgPlace(SgTop.code, SgTop.pc, SgIns)
  BY <1>0, SgAwake, SgDemos
<1>k. ASSUME /\ sgDisp'["QUIT"] \in {"dfl", "sigquit"}
             /\ Free' => sgLife' # "QUIT"
             /\ Free' /\ sgDisp'["QUIT"] = "dfl" => "QUIT" \notin sgPend' /\ SgTop'.pc = 1
      PROVE  SgQuits'
  BY <1>k DEF SgQuits
<1> HIDE DEF Free
<1>2. CASE SgCall
  <2>1. sgLife' = "running" /\ SgIns[1] # "return"
    BY <1>l, <1>2 DEF SgCall, SgSigaction, SgReaction, SgSigprocmask, SgRaise, SgAlarm, SgOutput,
       SgWaitpid, SgGetchar, SgRuns
  <2>2. CASE SgSigaction
    <3>1. SgIns[2] = "QUIT" /\ SgIns[3] = "sigquit"
      BY <1>a, <2>2, SgSigactions DEF SgPlace
    <3>2. sgDisp'["QUIT"] = "sigquit"
      BY <2>2, <3>1, SgSigactions
    <3> QED
      BY <1>k, <2>1, <3>2
  <2>3. CASE ~SgSigaction
    <3>1. SgIns[1] # "sigaction"
      BY <1>2, <2>3 DEF SgCall, SgReaction, SgSigprocmask, SgRaise, SgAlarm, SgOutput,
         SgWaitpid, SgGetchar, SgRuns
    <3>2. SgIns[1] \in {"raise", "print"} /\ SgTop.pc = 2
      BY <1>a, <2>1, <3>1 DEF SgPlace
    <3>3. SgRaise \/ SgOutput
      BY <1>2, <3>2 DEF SgCall, SgSigaction, SgReaction, SgSigprocmask, SgAlarm,
         SgWaitpid, SgGetchar, SgRuns
    <3>4. sgDisp' = sgDisp
      BY <3>3 DEF SgRaise, SgOutput
    <3> QED
      BY <1>k, <1>f, <1>h, <2>1, <3>2, <3>4
  <2> QED
    BY <2>2, <2>3
<1>3. CASE SgReturn
  <2>1. SgIns[1] = "return" /\ sgDisp' = sgDisp
    BY <1>3 DEF SgReturn, SgRuns
  <2>2. SgTop.pc = 3
    BY <1>a, <2>1 DEF SgPlace
  <2>3. sgLife' \in {"running", "returned"}
    BY <1>l, <1>3 DEF SgReturn
  <2> QED
    BY <1>k, <1>f, <1>h, <2>1, <2>2, <2>3
<1>4. CASE SgDeliver
  <2>1. PICK s \in SgSignals :
            /\ s \in sgPend /\ s \notin sgMask /\ sgPend' = sgPend \ {s}
            /\ \/ UNCHANGED <<sgFrames, sgDisp, sgLife>>
               \/ UNCHANGED <<sgFrames, sgDisp>> /\ sgDisp[s] = "dfl" /\ sgLife' = s
               \/ /\ SgFits(s, sgDisp[s]) /\ sgLife' = sgLife
                  /\ sgDisp[s] \in SgHandlers /\ SgTop'.pc = 1 /\ SgEnter(s)
    BY <1>4, SgDelivers
  <2>2. CASE UNCHANGED <<sgFrames, sgDisp, sgLife>>
    <3>1. SgTop' = SgTop
      BY <2>2 DEF SgTop
    <3> QED
      BY <1>k, <1>f, <1>h, <1>l, <2>1, <2>2, <3>1
  <2>3. CASE UNCHANGED <<sgFrames, sgDisp>> /\ sgDisp[s] = "dfl" /\ sgLife' = s
    <3>1. SgTop' = SgTop
      BY <2>3 DEF SgTop
    <3>2. Free => s # "QUIT"
      BY <1>h, <2>1, <2>3
    <3> QED
      BY <1>k, <1>f, <1>h, <2>1, <2>3, <3>1, <3>2
  <2>4. CASE /\ SgFits(s, sgDisp[s]) /\ sgLife' = sgLife
             /\ sgDisp[s] \in SgHandlers /\ SgTop'.pc = 1 /\ SgEnter(s)
    <3>1. sgDisp[s] = "sigquit" /\ s = "QUIT"
      BY <1>0, <2>4 DEF SgFits, SgHandlers, SgSleeps
    <3>2. sgDisp'["QUIT"] = "dfl"
      <4>1. sgDisp' = [sgDisp EXCEPT !["QUIT"] = "dfl"]
        BY <2>4, <3>1 DEF SgEnter
      <4>2. sgDisp \in [SgSignals -> SgActions] /\ "QUIT" \in SgSignals
        BY DEF SgShape, SgValues, SgSignals
      <4> QED
        BY <4>1, <4>2
    <3> QED
      BY <1>k, <1>l, <2>1, <2>4, <3>1, <3>2
  <2> QED
    BY <2>1, <2>2, <2>3, <2>4
<1>5. CASE SgSend
  <2>1. PICK i \in DOMAIN sgSent' : sgSent'[i].code = SgTop.code /\ sgSent'[i].pc = SgTop.pc
    BY <1>5, SgSendsOne
  <2>2. Free' => SgTop.pc # 1
    BY <2>1 DEF Free
  <2>3. sgDisp' = sgDisp /\ sgLife' = sgLife
    BY <1>5 DEF SgSend
  <2> QED
    BY <1>k, <1>f, <1>h, <1>l, <2>2, <2>3
<1>6. CASE SgChild
  BY <1>0, <1>6 DEF SgChild, SgShape, SgValues
<1> QED
  BY <1>2, <1>3, <1>4, <1>5, <1>6, <1>a, SgSteps DEF SgOutside

\* What of the time asked for is left to sleep, or was returned, is never lost.
LEMMA SgTellingNext ==
  ASSUME SgShape, SgActs, SgJumping, SgTelling, SgNext, SgAssumption
  PROVE  SgTelling'
<1>l. sgProg' = sgProg /\ sgCaller' = sgCaller
  BY SgLives
<1>t. /\ sgTimer.alarm \in Nat /\ sgTimer.nano \in Nat /\ sgSlept \in Nat /\ sgRet \in Int
      /\ SgAsked \in Nat /\ SgPerSec \in Nat /\ SgPerSec > 0
  BY SgTimes DEF SgShape, SgValues
<1>p. SgPc \in 1..9 /\ (SgQuiet => SgIns = SgCode[sgProg][SgPc])
      /\ (SgDozing => SgCode[sgProg][SgPc][1] \in SgDozes)
      /\ SgPlace(sgProg, SgPc, SgCode[sgProg][SgPc])
  BY SgPlaced
<1> DEFINE Alarmed == SgLeft(sgTimer.alarm)
           Slept == SgLeft(sgTimer.nano)
           Told == SgTold(sgRet)
           Timed(from, to) == (SgPc \in from..to => Alarmed) /\ (SgPc > to => Told)
           Parts == /\ sgProg = "sleep1" => Timed(3, 4)
                    /\ sgProg = "sleep2" /\ sgCaller.alarm = 0 => Timed(4, 6)
                    /\ sgProg = "sleep3" => Timed(4, 5)
                    /\ sgProg = "sleep4" =>
                         /\ SgDozing /\ SgQuiet => Slept
                         /\ SgDozing /\ ~SgQuiet => Told
                         /\ SgPc = 2 => Told \/ sgTimer.nano = 0
<1>d. SgTelling <=> Parts
  BY DEF SgTelling
<1>e. SgTelling' <=> Parts'
  BY DEF SgTelling
<1>h. Parts
  BY <1>d
<1>z. SgDozing => /\ sgProg = "sleep1" => SgPc = 3
                  /\ sgProg = "sleep2" => SgPc = 4
                  /\ sgProg = "sleep3" => SgPc = 4
                  /\ sgProg = "sleep4" => SgPc = 1
  BY <1>p DEF SgPlace, SgDozes
\* Time, and the timers, are as they were.
<1> DEFINE Same == (Alarmed => Alarmed') /\ (Slept => Slept') /\ (Told => Told')
                   /\ (sgTimer.nano = 0 => sgTimer'.nano = 0)
<1>s. ASSUME sgTimer' = sgTimer, sgSlept' = sgSlept, sgRet' = sgRet PROVE Same
  BY <1>s DEF SgLeft, SgTold
\* Less than a second is lost in telling what a timer says.
<1>r. ASSUME NEW t \in Nat, NEW n \in Nat, n * SgPerSec \in Nat,
             n * SgPerSec > t - SgPerSec, SgLeft(t)
      PROVE  SgTold(n)
  <2>1. \A x, u, v, a, b \in Int : x > u - b /\ u + v >= a => x + v > a - b
    OBVIOUS
  <2> DEFINE x == n * SgPerSec
  <2>2. x \in Int /\ x > t - SgPerSec /\ t + sgSlept >= SgAsked
    BY <1>r DEF SgLeft
  <2>3. x + sgSlept > SgAsked - SgPerSec => SgTold(n)
    BY DEF SgTold
  <2> HIDE DEF x
  <2> QED
    BY <1>t, <2>1, <2>2, <2>3
<1> HIDE DEF Alarmed, Slept, Told
<1>k. ASSUME Same, SgPc' = SgPc, SgDozing' = SgDozing, (SgQuiet' <=> SgQuiet) \/ ~SgDozing
      PROVE  SgTelling'
  BY <1>l, <1>h, <1>e, <1>k
<1>1. CASE SgCall
  <2>0. sgSlept' = sgSlept
    BY <1>1 DEF SgCall, SgSigaction, SgReaction, SgSigprocmask, SgRaise, SgAlarm, SgOutput,
       SgWaitpid, SgGetchar
  <2>1. ~SgAlarm /\ sgProg # "system" => sgTimer' = sgTimer /\ sgRet' = sgRet
    BY <1>1, SgWaits DEF SgCall, SgSigaction, SgReaction, SgSigprocmask, SgRaise, SgOutput,
       SgGetchar
  <2>2. CASE sgProg \notin SgSleeps
    BY <1>l, <1>e, <2>2 DEF SgSleeps
  <2>3. CASE sgProg \in SgSleeps /\ SgWorks
    <3>1. ~SgAlarm
      BY <2>3, SgAlarmed DEF SgMakes, SgGoes, SgWorks
    <3>2. Same
      BY <1>s, <2>0, <2>1, <2>3, <3>1 DEF SgSleeps
    <3>3. /\ SgPc' = SgPc /\ SgDozing' = SgDozing /\ (SgQuiet' <=> SgQuiet)
      BY <2>3 DEF SgWorks, SgStays
    <3> QED
      BY <1>k, <3>2, <3>3
  <2>4. CASE sgProg \in SgSleeps /\ SgMakes
    <3>1. /\ SgPlace(sgProg, SgPc, SgIns) /\ SgQuiet' /\ SgPc' = SgPc + 1 /\ ~SgDozing'
          /\ SgIns = SgCode[sgProg][SgPc] /\ ~SgDozing
      BY <1>p, <2>4 DEF SgMakes, SgGoes
    <3>2. SgIns[1] \notin {"pause", "suspend", "suspend_old", "nanosleep", "return", "setjmp"}
      BY <1>1 DEF SgCall, SgSigaction, SgReaction, SgSigprocmask, SgRaise, SgAlarm, SgOutput,
         SgWaitpid, SgGetchar, SgRuns
    <3>3. SgIns[1] \in {"alarm", "alarm_min", "unslept"} => SgAlarm
      BY <1>1 DEF SgCall, SgSigaction, SgReaction, SgSigprocmask, SgRaise, SgOutput,
         SgWaitpid, SgGetchar, SgRuns
    <3>4. ~SgAlarm => Same
      BY <1>s, <2>0, <2>1, <2>4 DEF SgSleeps
    <3>5. CASE sgProg = "sleep1"
      <4>1. /\ SgPc = 1 => SgIns[1] = "sigaction"
            /\ SgPc = 2 => SgIns[1] = "alarm"
            /\ SgPc = 3 => SgIns[1] = "pause"
            /\ SgPc = 4 => SgIns[1] = "unslept"
            /\ SgPc = 5 => SgIns[1] = "return"
            /\ SgPc \in 1..5
        BY <3>1, <3>5, SgStacked DEF SgCode, Sleep1
      <4>2. SgPc \in {1, 2, 4}
        BY <3>2, <4>1
      <4>3. SgPc = 2 => Alarmed'
        <5>1. SgPc = 2 => sgTimer'.alarm = SgAsked
          BY <3>3, <4>1, SgAlarmed
        <5> QED
          BY <5>1, <1>t, <2>0 DEF Alarmed, SgLeft
      <4>4. SgPc = 4 => Told'
        <5>1. SgPc = 4 => sgRet' \in SgRounded(sgTimer.alarm)
          BY <3>3, <4>1, SgAlarmed
        <5>2. SgPc = 4 => Alarmed
          BY <1>h, <3>5
        <5>3. ASSUME sgRet' \in SgRounded(sgTimer.alarm), Alarmed PROVE Told'
          <6>1. PICK n \in SgRounded(sgTimer.alarm) : sgRet' = n
            BY <5>3
          <6>2. n \in Nat /\ n * SgPerSec \in Nat /\ n * SgPerSec > sgTimer.alarm - SgPerSec
            BY <1>t, SgRounds
          <6>3. SgTold(n)
            BY <1>r, <1>t, <5>3, <6>2 DEF Alarmed
          <6> QED
            BY <2>0, <6>1, <6>3 DEF Told, SgTold
        <5> QED
          BY <5>1, <5>2, <5>3
      <4> QED
        BY <1>l, <1>e, <3>1, <3>5, <4>2, <4>3, <4>4
    <3>6. CASE sgProg = "sleep2" /\ sgCaller.alarm = 0
      <4>1. /\ SgPc = 2 => SgIns[1] = "setjmp"
            /\ SgPc = 3 => SgIns[1] = "alarm_min"
            /\ SgPc = 4 => SgIns[1] = "pause"
            /\ SgPc = 5 => SgIns[1] = "restore"
            /\ SgPc = 6 => SgIns[1] = "unslept"
            /\ SgPc = 7 => SgIns[1] = "return"
            /\ SgPc \in 1..7
        BY <3>1, <3>6, SgStacked DEF SgCode, Sleep2
      <4>2. SgPc \in {1, 3, 5, 6}
        BY <3>2, <4>1
      <4>3. SgPc = 3 => Alarmed'
        <5>1. SgPc = 3 => sgTimer.alarm = 0
          BY <3>6 DEF SgJumping
        <5>2. SgPc = 3 => sgTimer'.alarm = SgAsked
          BY <3>3, <4>1, <5>1, SgAlarmed
        <5> QED
          BY <5>2, <1>t, <2>0 DEF Alarmed, SgLeft
      <4>4. SgPc = 5 => Alarmed'
        <5>1. SgPc = 5 => ~SgAlarm
          BY <4>1 DEF SgAlarm, SgRuns
        <5> QED
          BY <1>h, <3>4, <3>6, <5>1
      <4>5. SgPc = 6 => Told'
        <5>1. SgPc = 6 => sgRet' \in SgRounded(sgTimer.alarm)
          BY <3>3, <4>1, SgAlarmed
        <5>2. SgPc = 6 => Alarmed
          BY <1>h, <3>6
        <5>3. ASSUME sgRet' \in SgRounded(sgTimer.alarm), Alarmed PROVE Told'
          <6>1. PICK n \in SgRounded(sgTimer.alarm) : sgRet' = n
            BY <5>3
          <6>2. n \in Nat /\ n * SgPerSec \in Nat /\ n * SgPerSec > sgTimer.alarm - SgPerSec
            BY <1>t, SgRounds
          <6>3. SgTold(n)
            BY <1>r, <1>t, <5>3, <6>2 DEF Alarmed
          <6> QED
            BY <2>0, <6>1, <6>3 DEF Told, SgTold
        <5> QED
          BY <5>1, <5>2, <5>3
      <4> QED
        BY <1>l, <1>e, <3>1, <3>6, <4>2, <4>3, <4>4, <4>5
    <3>7. CASE sgProg = "sleep2" /\ sgCaller.alarm # 0
      BY <1>l, <1>e, <3>7
    <3>8. CASE sgProg = "sleep3"
      <4>1. /\ SgPc = 3 => SgIns[1] = "alarm"
            /\ SgPc = 4 => SgIns[1] = "suspend_old"
            /\ SgPc = 5 => SgIns[1] = "unslept"
            /\ SgPc = 6 => SgIns[1] = "restore"
            /\ SgPc = 7 => SgIns[1] = "oldmask"
            /\ SgPc = 8 => SgIns[1] = "return"
            /\ SgPc \in 1..8
        BY <3>1, <3>8, SgStacked DEF SgCode, Sleep3
      <4>2. SgPc \in {1, 2, 3, 5, 6, 7}
        BY <3>2, <4>1
      <4>3. SgPc = 3 => Alarmed'
        <5>1. SgPc = 3 => sgTimer'.alarm = SgAsked
          BY <3>3, <4>1, SgAlarmed
        <5> QED
          BY <5>1, <1>t, <2>0 DEF Alarmed, SgLeft
      <4>4. SgPc = 5 => Told'
        <5>1. SgPc = 5 => sgRet' \in SgRounded(sgTimer.alarm)
          BY <3>3, <4>1, SgAlarmed
        <5>2. SgPc = 5 => Alarmed
          BY <1>h, <3>8
        <5>3. ASSUME sgRet' \in SgRounded(sgTimer.alarm), Alarmed PROVE Told'
          <6>1. PICK n \in SgRounded(sgTimer.alarm) : sgRet' = n
            BY <5>3
          <6>2. n \in Nat /\ n * SgPerSec \in Nat /\ n * SgPerSec > sgTimer.alarm - SgPerSec
            BY <1>t, SgRounds
          <6>3. SgTold(n)
            BY <1>r, <1>t, <5>3, <6>2 DEF Alarmed
          <6> QED
            BY <2>0, <6>1, <6>3 DEF Told, SgTold
        <5> QED
          BY <5>1, <5>2, <5>3
      <4>5. SgPc \in {6, 7} => Told'
        <5>1. SgPc \in {6, 7} => ~SgAlarm
          BY <4>1 DEF SgAlarm, SgRuns
        <5> QED
          BY <1>h, <3>4, <3>8, <5>1
      <4> QED
        BY <1>l, <1>e, <3>1, <3>8, <4>2, <4>3, <4>4, <4>5
    <3>9. CASE sgProg = "sleep4"
      <4>1. SgIns[1] \in {"nanosleep", "return"}
        <5>1. SgPc \in 1..2
          BY <3>1, <3>9, SgStacked DEF SgCode, Sleep4
        <5> QED
          BY <3>1, <3>9, <5>1 DEF SgCode, Sleep4
      <4> QED
        BY <3>2, <4>1
    <3> QED
      BY <2>4, <3>5, <3>6, <3>7, <3>8, <3>9 DEF SgSleeps
  <2> QED
    BY <1>1, <2>2, <2>3, <2>4, SgCalls
<1>2. CASE SgFallAsleep
  <2>1. /\ SgQuiet' /\ ~SgDozing /\ SgDozing' /\ SgPc' = SgPc /\ SgIns = SgCode[sgProg][SgPc]
        /\ SgPlace(sgProg, SgPc, SgIns) /\ SgIns[1] \in SgDozes
    BY <1>2, SgFallsAsleep
  <2>2. /\ sgTimer'.alarm = sgTimer.alarm /\ (SgIns[1] = "nanosleep" => sgTimer'.nano = SgAsked)
    BY <1>2, SgSleepers
  <2>3. sgSlept' = sgSlept /\ sgRet' = sgRet
    BY <1>2 DEF SgFallAsleep
  <2>4. (Alarmed => Alarmed') /\ (Told => Told')
    BY <2>2, <2>3 DEF Alarmed, Told, SgLeft, SgTold
  <2>5. sgProg = "sleep4" => Slept' /\ SgPc = 1
    <3>1. sgProg = "sleep4" => SgIns[1] = "nanosleep" /\ SgPc = 1
      BY <2>1 DEF SgPlace, SgDozes
    <3> QED
      BY <1>t, <2>2, <2>3, <3>1 DEF Slept, SgLeft
  <2> QED
    BY <1>l, <1>h, <1>e, <2>1, <2>4, <2>5
<1>3. CASE SgNanoEnds
  <2>1. sgProg = "sleep4" /\ SgPc' = 2 /\ ~SgDozing'
    BY <1>3, SgNanoWakes
  <2>2. sgTimer' = sgTimer /\ sgTimer.nano = 0
    BY <1>3 DEF SgNanoEnds
  <2> QED
    BY <1>l, <1>e, <2>1, <2>2
<1>4. CASE SgJump
  <2>1. Same
    BY <1>4, <1>s DEF SgJump
  <2>2. CASE SgGoes(1) /\ SgPc = 2 /\ sgProg = "sleep2"
    <3>1. SgPc' = 3
      BY <2>2 DEF SgGoes
    <3> QED
      BY <1>l, <1>e, <2>2, <3>1
  <2>3. CASE "jump" \in SgHandling /\ sgProg = "sleep2" /\ SgPc' = 5
    <3>1. SgPc \in 2..5
      BY <2>3 DEF SgActs
    <3>2. sgCaller.alarm = 0 => SgPc \in 4..5
      BY <2>3, <3>1 DEF SgJumping
    <3> QED
      BY <1>l, <1>h, <1>e, <2>1, <2>3, <3>2
  <2>4. CASE SgStays
    BY <1>k, <2>1, <2>4 DEF SgStays
  <2> QED
    BY <1>4, <2>2, <2>3, <2>4, SgJumps
<1>5. CASE SgFork
  BY <1>l, <1>e, <1>5, SgForks
<1>6. CASE SgReturn
  <2>1. Same
    BY <1>6, <1>s DEF SgReturn
  <2>2. CASE SgQuiet
    BY <1>6, <1>k, <2>1, <2>2, SgEnds DEF SgStays
  <2>3. CASE ~SgQuiet /\ ~(SgDozing /\ SgQuiet')
    <3>1. SgPc' = SgPc /\ SgDozing' = SgDozing
      BY <1>6, <2>3, SgReturns DEF SgLeaves
    <3>2. (SgQuiet' <=> SgQuiet) \/ ~SgDozing
      BY <2>3
    <3> QED
      BY <1>k, <2>1, <3>1, <3>2
  <2>4. CASE ~SgQuiet /\ SgDozing /\ SgQuiet'
    <3>1. SgPc' = SgPc + 1 /\ ~SgDozing'
      BY <1>6, <2>4, SgReturns DEF SgLeaves
    <3>2. /\ sgProg = "sleep1" => SgPc' = 4 /\ Alarmed'
          /\ sgProg = "sleep2" => SgPc' = 5
          /\ sgProg = "sleep2" /\ sgCaller.alarm = 0 => Alarmed'
          /\ sgProg = "sleep3" => SgPc' = 5 /\ Alarmed'
          /\ sgProg = "sleep4" => SgPc' = 2 /\ Told'
      BY <1>h, <1>z, <2>1, <2>4, <3>1
    <3> QED
      BY <1>l, <1>e, <3>1, <3>2
  <2> QED
    BY <2>2, <2>3, <2>4
<1>7. CASE SgDeliver
  <2>1. sgTimer' = sgTimer /\ sgSlept' = sgSlept
    BY <1>7 DEF SgDeliver
  <2>2. PICK s \in SgSignals :
              \/ SgStays /\ sgRet' = sgRet
              \/ SgEnters(sgDisp[s]) /\ SgEnter(s)
    BY <1>7, SgDelivers
  <2>3. CASE SgStays /\ sgRet' = sgRet
    <3>1. Same
      BY <1>s, <2>1, <2>3
    <3> QED
      BY <1>k, <2>3, <3>1 DEF SgStays
  <2>4. CASE SgEnters(sgDisp[s]) /\ SgEnter(s)
    <3>1. SgPc' = SgPc /\ SgDozing' = SgDozing /\ ~SgQuiet'
      BY <2>4 DEF SgEnters
    <3>2. CASE SgDozing /\ SgQuiet /\ sgProg = "sleep4"
      <4>1. SgTop.asleep /\ SgIns[1] = "nanosleep"
        BY <1>p, <1>z, <3>2, SgStacked DEF SgDozing, SgCode, Sleep4
      <4>2. sgRet' = sgTimer.nano \div SgPerSec
        BY <2>4, <4>1 DEF SgEnter
      <4>3. Told'
        <5>1. Slept
          BY <1>h, <3>2
        <5> QED
          <6> DEFINE n == sgTimer.nano \div SgPerSec
          <6>1. n \in Nat /\ n * SgPerSec \in Nat /\ n * SgPerSec > sgTimer.nano - SgPerSec
            BY <1>t, SgWholes
          <6>2. sgRet' = n
            BY <4>2
          <6> HIDE DEF n
          <6>3. SgTold(n)
            BY <1>r, <1>t, <5>1, <6>1 DEF Slept
          <6> QED
            BY <2>1, <6>2, <6>3 DEF Told, SgTold
      <4> QED
        BY <1>l, <1>e, <1>z, <3>1, <3>2, <4>3
    <3>3. CASE ~(SgDozing /\ SgQuiet /\ sgProg = "sleep4")
      <4>1. ~(SgTop.asleep /\ SgIns[1] = "nanosleep")
        <5>1. SgTop.asleep => SgQuiet /\ SgDozing /\ SgIns = SgCode[sgProg][SgPc]
          BY SgStacked DEF SgDozing
        <5>2. SgCode[sgProg][SgPc][1] = "nanosleep" => sgProg = "sleep4"
          BY <1>p DEF SgPlace
        <5> QED
          BY <3>3, <5>1, <5>2
      <4>2. sgRet' = sgRet
        BY <2>4, <4>1 DEF SgEnter
      <4>3. Same
        BY <1>s, <2>1, <4>2
      <4> QED
        BY <1>l, <1>h, <1>e, <3>1, <3>3, <4>3
    <3> QED
      BY <3>2, <3>3
  <2> QED
    BY <2>2, <2>3, <2>4
<1>8. CASE SgTick
  <2>1. SgStays /\ sgRet' = sgRet
    BY <1>8, SgStands DEF SgOutside, SgTick
  <2>2. Same
    <3>1. /\ sgTimer'.alarm = SgDown(sgTimer.alarm) /\ sgTimer'.nano = SgDown(sgTimer.nano)
          /\ sgSlept' = sgSlept + 1 \/ (sgSlept' = sgSlept /\ sgSlept > SgAsked)
      BY <1>8, SgTicks
    <3>2. \A n, m, k, x \in Nat :
            n + m >= k /\ (x = m + 1 \/ (x = m /\ m > k)) => SgDown(n) + x >= k
      BY DEF SgDown
    <3>3. sgSlept' \in Nat
      BY <1>8, SgTicks
    <3>4. (Alarmed => Alarmed') /\ (Slept => Slept')
      BY <1>t, <3>1, <3>2, <3>3 DEF Alarmed, Slept, SgLeft
    <3>5. Told => Told'
      <4>2. sgSlept' >= sgSlept /\ sgRet * SgPerSec \in Int /\ SgAsked - SgPerSec \in Int
        BY <1>t, <3>1
      <4>3. \A x, v, w, a \in Int : x + v > a /\ w >= v => x + w > a
        OBVIOUS
      <4>4. PICK x \in Int, v \in Int, w \in Int, a \in Int :
              /\ x = sgRet * SgPerSec /\ a = SgAsked - SgPerSec
              /\ v = sgSlept /\ w = sgSlept'
        BY <1>t, <3>3, <4>2
      <4>5. w >= v
        BY <4>2, <4>4
      <4>6. Told => x + v > a
        BY <4>4 DEF Told, SgTold
      <4>7. x + w > a => Told'
        BY <2>1, <4>4 DEF Told, SgTold
      <4> QED
        BY <4>3, <4>4, <4>5, <4>6, <4>7
    <3>6. sgTimer.nano = 0 => sgTimer'.nano = 0
      BY <3>1 DEF SgDown
    <3> QED
      BY <3>4, <3>5, <3>6
  <2> QED
    BY <1>k, <2>1, <2>2 DEF SgStays
<1>9. CASE SgSend \/ SgChild
  <2>1. SgStays
    BY <1>9, SgStands DEF SgOutside
  <2>2. Same
    BY <1>9, <1>s DEF SgSend, SgChild
  <2> QED
    BY <1>k, <2>1, <2>2 DEF SgStays
<1> QED
  BY <1>1, <1>2, <1>3, <1>4, <1>5, <1>6, <1>7, <1>8, <1>9, SgSteps DEF SgOutside

\* A function is called.
LEMMA SgInvInit ==
  ASSUME SgInit, SgAssumption
  PROVE  SgInv
<1>1. PICK p \in SgPrograms : SgStart(p)
  BY DEF SgInit
<1>2. /\ sgProg = p /\ sgProg \in SgPrograms /\ sgCaller \in SgCallers(sgProg)
      /\ sgFrames = <<SgFrame(p, {})>>
      /\ sgMask = sgCaller.mask /\ sgDisp = sgCaller.disp
      /\ sgPend = {} /\ sgSaved = [disp |-> sgDisp, mask |-> sgMask]
      /\ sgTimer = [alarm |-> sgCaller.alarm, nano |-> 0]
      /\ sgSlept = 0 /\ sgJmp = "no" /\ sgOut = TRUE /\ sgChild = "none"
      /\ sgRet = 0 /\ sgLife = "running" /\ sgSent = <<>>
  BY <1>1 DEF SgStart
<1>3. /\ sgCaller.disp \in [SgSignals -> SgActions] /\ sgCaller.mask \subseteq SgSignals
      /\ sgCaller.alarm \in Nat /\ sgCaller.disp["QUIT"] = "dfl"
      /\ \A s \in SgSignals : SgFits(s, sgCaller.disp[s])
  BY <1>2, SgCalled DEF SgAssumption
<1> DEFINE f == SgFrame(p, {})
<1>4. f \in SgFrameSet /\ f.code = p /\ f.pc = 1 /\ ~f.asleep
  BY DEF SgFrame, SgFrameSet, SgCodes
<1> HIDE DEF f
<1>5. sgFrames \in Seq(SgFrameSet) /\ Len(sgFrames) = 1 /\ sgFrames[1] = f
  BY <1>2, <1>4 DEF f
<1>e. 2..1 = {} /\ \A i \in 1..1 : i = 1
  OBVIOUS
<1>6. SgStack
  <2>1. 1 \in 1..Len(SgCode[p])
    <3>1. Len(SgCode[p]) \in 1..9
      BY SgOps DEF SgCodes
    <3>2. \A n \in 1..9 : 1 \in 1..n
      OBVIOUS
    <3> QED
      BY <3>1, <3>2
  <2>2. \A i \in 1..Len(sgFrames) : sgFrames[i].pc \in 1..Len(SgCode[sgFrames[i].code])
    BY <1>4, <1>5, <1>e, <2>1
  <2>3. \A i \in 2..Len(sgFrames) : FALSE
    BY <1>5, <1>e
  <2> QED
    BY <1>2, <1>4, <1>5, <2>2, <2>3 DEF SgStack
<1>7. SgValues
  <2>1. sgSaved \in [disp : [SgSignals -> SgActions], mask : SUBSET SgSignals]
        /\ sgSaved.disp = sgCaller.disp
    BY <1>2, <1>3
  <2>2. sgTimer \in [alarm : Nat, nano : Nat]
    BY <1>2, <1>3
  <2>3. sgSent \in Seq([code : SgCodes, pc : Nat])
    BY <1>2
  <2>4. sgSlept \in Nat /\ sgRet \in Int
    BY <1>2
  <2> QED
    BY <1>2, <1>3, <2>1, <2>2, <2>3, <2>4 DEF SgValues
<1>8. SgQuiet /\ SgPc = 1 /\ ~SgDozing /\ SgHandling = {} /\ SgBack = sgCaller.mask /\ SgTop.pc = 1
  BY <1>2, <1>4, <1>5, <1>e DEF SgQuiet, SgPc, SgDozing, SgHandling, SgBack, SgTop
<1>9. SgMasks
  BY <1>2, <1>8 DEF SgMasks, SgMaskAt
<1>10. SgActs
  BY <1>2, <1>8 DEF SgActs, SgActionAt
<1>11. SgJumping /\ SgReturned
  BY <1>2, <1>8 DEF SgJumping, SgReturned
<1>12. SgSparing
  <2>1. sgRet # -1
    BY <1>2
  <2> QED
    BY <1>2, <1>8, <2>1 DEF SgSparing
<1>13. SgAborting /\ SgPausing /\ SgPending
  BY <1>2, <1>8 DEF SgAborting, SgPausing, SgPending
<1>14. SgQuits
  BY <1>2, <1>3, <1>8 DEF SgQuits
<1>15. SgTelling
  BY <1>8 DEF SgTelling
<1> QED
  BY <1>6, <1>7, <1>9, <1>10, <1>11, <1>12, <1>13, <1>14, <1>15 DEF SgInv, SgShape

\* Every step keeps the invariant.
LEMMA SgInvNext ==
  ASSUME SgInv, SgNext, SgAssumption
  PROVE  SgInv'
  BY SgShapeNext, SgMasksNext, SgActsNext, SgJumpingNext, SgReturnedNext, SgSparingNext,
     SgAbortingNext, SgPausingNext, SgPendingNext, SgQuitsNext, SgTellingNext DEF SgInv

\* A step that leaves everything alone keeps the invariant too.
LEMMA SgInvStays ==
  ASSUME SgInv, UNCHANGED sgVars
  PROVE  SgInv'
<1>1. SgShape'
  BY DEF SgInv, sgVars, SgShape, SgStack, SgValues, SgFits
<1>2. /\ SgPc' = SgPc /\ SgDozing' = SgDozing /\ (SgQuiet' <=> SgQuiet)
      /\ SgHandling' = SgHandling /\ SgBack' = SgBack /\ SgTop' = SgTop
  BY DEF sgVars, SgPc, SgDozing, SgQuiet, SgHandling, SgBack, SgTop
<1>3. SgMasks' /\ SgActs'
  BY <1>2 DEF SgInv, sgVars, SgMasks, SgMaskAt, SgActs, SgActionAt
<1>4. SgJumping' /\ SgReturned' /\ SgSparing' /\ SgAborting'
  BY <1>2 DEF SgInv, sgVars, SgJumping, SgReturned, SgSparing, SgAborting, SgLossy
<1>5. SgPausing' /\ SgPending' /\ SgQuits' /\ SgTelling'
  BY <1>2 DEF SgInv, sgVars, SgPausing, SgPending, SgQuits, SgTelling, SgLeft, SgTold
<1> QED
  BY <1>1, <1>3, <1>4, <1>5 DEF SgInv

\* What the functions promise follows.
LEMMA SgInvSound ==
  ASSUME SgInv
  PROVE  SgSound
<1>s. SgShape
  BY DEF SgInv
<1>r. sgLife = "returned" =>
        /\ SgQuiet /\ SgCode[sgProg][SgPc][1] = "return"
        /\ sgProg = "sleep1" => SgPc = 5
        /\ sgProg = "sleep2" => SgPc = 7
        /\ sgProg = "sleep3" => SgPc = 8
        /\ sgProg = "sleep4" => SgPc = 2
        /\ sgProg = "system" => SgPc = 9
  <2>1. SgPlace(sgProg, SgPc, SgCode[sgProg][SgPc])
    BY <1>s, SgPlaced
  <2>2. sgLife = "returned" => SgQuiet /\ SgCode[sgProg][SgPc][1] = "return"
    BY DEF SgInv, SgReturned
  <2> QED
    BY <2>1, <2>2 DEF SgPlace
<1>1. SgTells
  <2>1. SgTelling
    BY DEF SgInv
  <2>2. CASE sgProg = "sleep1"
    BY <1>r, <2>1, <2>2 DEF SgTells, SgTelling, SgTold
  <2>3. CASE sgProg = "sleep2"
    BY <1>r, <2>1, <2>3 DEF SgTells, SgTelling, SgTold
  <2>4. CASE sgProg = "sleep3"
    BY <1>r, <2>1, <2>4 DEF SgTells, SgTelling, SgTold
  <2>5. CASE sgProg = "sleep4"
    BY <1>r, <2>1, <2>5 DEF SgTells, SgTelling, SgTold
  <2> QED
    BY <2>2, <2>3, <2>4, <2>5 DEF SgTells, SgSleeps
<1>2. SgRestores
  <2>1. ASSUME sgLife = "returned", sgProg \in {"sleep2", "sleep3", "sleep4", "system"}
        PROVE  sgDisp = sgCaller.disp
    <3>1. sgDisp \in [SgSignals -> SgActions] /\ sgCaller.disp \in [SgSignals -> SgActions]
      BY <1>s, SgCalled DEF SgShape, SgValues
    <3>2. \A s \in SgSignals : sgDisp[s] = SgActionAt(sgProg, SgPc, s)
      BY <2>1 DEF SgInv, SgActs
    <3>3. \A s \in SgSignals : SgActionAt(sgProg, SgPc, s) = sgCaller.disp[s]
      BY <1>r, <2>1 DEF SgActionAt
    <3> QED
      BY <3>1, <3>2, <3>3
  <2>2. ASSUME sgLife = "returned", sgProg \in {"sleep3", "sleep4", "system"}
        PROVE  sgMask = sgCaller.mask
    <3>1. SgBack = sgMask
      BY <1>r, <2>2 DEF SgBack
    <3>2. SgBack = SgMaskAt(sgProg, SgPc)
      BY <2>2 DEF SgInv, SgMasks
    <3>3. SgMaskAt(sgProg, SgPc) = sgCaller.mask
      BY <1>r, <2>2 DEF SgMaskAt
    <3> QED
      BY <3>1, <3>2, <3>3
  <2>3. /\ sgJmp = "cut" => sgProg = "sleep2"
        /\ sgLife = "wild" => sgProg = "sleep2" /\ sgCaller.alarm # 0
    BY DEF SgInv, SgJumping
  <2> QED
    BY <2>1, <2>2, <2>3 DEF SgRestores
<1>3. SgSpares
  <2>1. SUFFICES ASSUME sgProg = "system" PROVE SgSpares
    BY DEF SgSpares
  <2>2. SgSparing
    BY DEF SgInv
  <2>3. ASSUME NEW i \in 1..Len(sgFrames), sgFrames[i].code = "user"
        PROVE  sgChild \notin {"starting", "running", "zombie"}
    <3>1. i # 1
      BY <1>s, <2>1, <2>3, SgStacked
    <3>2. i \in 2..Len(sgFrames)
      BY <1>s, <2>3, <3>1, SgStacked
    <3>3. "user" \in SgHandling
      BY <2>3, <3>2 DEF SgHandling
    <3> QED
      BY <2>1, <2>2, <3>3 DEF SgSparing
  <2>4. sgRet = -1 => sgChild = "none" \/ sgCaller.disp["CHLD"] = "chld"
    BY <2>1, <2>2 DEF SgSparing
  <2> QED
    BY <2>3, <2>4 DEF SgSpares
<1>4. SgAborts
  <2>1. SUFFICES ASSUME sgProg = "abort" PROVE SgAborts
    BY DEF SgAborts
  <2>2. /\ sgLife # "returned"
        /\ sgLife = "ABRT" /\ sgOut => SgLossy /\ sgCaller.disp["ABRT"] # "abrt"
    BY <2>1 DEF SgInv, SgAborting
  <2>3. ASSUME SgLossy
        PROVE  \E i \in DOMAIN sgSent : sgSent[i] = [code |-> "abort", pc |-> 3]
    <3>1. PICK i \in DOMAIN sgSent : sgSent[i].code = "abort" /\ sgSent[i].pc = 3
      BY <2>3 DEF SgLossy
    <3>2. sgSent[i] \in [code : SgCodes, pc : Nat]
      <4>1. sgSent \in Seq([code : SgCodes, pc : Nat])
        BY <1>s DEF SgShape, SgValues
      <4>2. \A R, q : q \in Seq(R) => \A k \in DOMAIN q : q[k] \in R
        OBVIOUS
      <4> QED
        BY <3>1, <4>1, <4>2, Zenon
    <3>3. sgSent[i] = [code |-> "abort", pc |-> 3]
      BY <3>1, <3>2
    <3> QED
      BY <3>3
  <2> QED
    BY <2>2, <2>3 DEF SgAborts, SgLossy
<1>5. SgCancels
  BY DEF SgInv, SgPausing, SgPending, SgQuits, SgCancels
<1> QED
  BY <1>1, <1>2, <1>3, <1>4, <1>5 DEF SgSound

\* No moment at which a signal arrives makes the functions of linux_internals that
\* are written with signals break what SgSound says each of them keeps: whatever the
\* seconds asked for, the ticks of a second, the alarms set before, and the number of
\* signals sent.
THEOREM SgIsSound == SgSpec => []SgSound
<1>1. SgInit => SgInv
  BY SgAssumption, SgInvInit
<1>2. SgInv /\ [SgNext]_sgVars => SgInv'
  BY SgAssumption, SgInvNext, SgInvStays
<1>3. SgInv => SgSound
  BY SgInvSound
<1> QED
  BY <1>1, <1>2, <1>3, PTL DEF SgSpec
=============================================================================
