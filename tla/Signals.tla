------------------------------ MODULE Signals ------------------------------
(* The programs of linux_internals that implement library functions with   *)
(* signals: sleep(3) four times, system(3), abort(3), signal(2), and the   *)
(* demonstrations of sigsuspend(2) and of cancelling a pending signal.     *)
(*                                                                         *)
(* A function is the sequence of its system calls.  A signal that arrives  *)
(* between any two of them, or while one of them sleeps, runs its handler, *)
(* which is a sequence of calls of its own on top of the interrupted one.  *)
(* Calls that cannot fail with the arguments given are taken to succeed.   *)
EXTENDS Integers, Sequences

CONSTANTS
  SgSeconds,  \* the argument of sleep1() .. sleep4()
  SgPerSec,   \* ticks of the clock in a second: time is counted in ticks
  SgAlarms,   \* ticks to an alarm the caller has set before (0: none)
  SgSends     \* bound: signals sent from outside

ASSUME SgAssumption ==
  /\ SgSeconds \in Nat \ {0} /\ SgPerSec \in Nat \ {0}
  /\ SgAlarms \subseteq Nat /\ SgSends \in Nat

VARIABLES
  sgProg,    \* the program that runs
  sgFrames,  \* its function and the handlers on top of it
  sgMask,    \* the signals blocked
  sgPend,    \* the signals pending
  sgDisp,    \* what each signal does: "dfl", "ign" or the name of a handler
  sgSaved,   \* the old actions and the old mask, as the function saved them
  sgTimer,   \* ticks left of alarm(2) and of nanosleep(2), 0 if none
  sgSlept,   \* ticks since the function was called, up to SgAsked + 1
  sgJmp,     \* "no", "set" by setjmp(3), "cut" once longjmp(3) left another handler
  sgOut,     \* TRUE while an output stream holds characters not flushed
  sgChild,   \* the child of system()
  sgRet,     \* what the function returned, in seconds
  sgLife,    \* "running", "returned", "wild", or the signal that killed it
  sgSent,    \* where the program was when each signal was sent to it
  sgCaller   \* the state in which the function was called

sgVars == <<sgProg, sgFrames, sgMask, sgPend, sgDisp, sgSaved, sgTimer, sgSlept,
            sgJmp, sgOut, sgChild, sgRet, sgLife, sgSent, sgCaller>>

SgSignals == {"ALRM", "INT", "QUIT", "CHLD", "ABRT"}
----------------------------------------------------------------------------
\* sleep1(): alarm(2) and then pause(2).
Sleep1 ==
  << <<"sigaction", "ALRM", "nop">>, <<"alarm">>, <<"pause">>, <<"unslept">>, <<"return">> >>

\* sleep2(): the handler jumps over pause(2); an earlier alarm is respected.
Sleep2 ==
  << <<"sigaction", "ALRM", "jump">>, <<"setjmp">>, <<"alarm_min">>, <<"pause">>,
     <<"restore", "ALRM">>, <<"unslept">>, <<"return">> >>

\* Where longjmp(3) goes: behind the if of sleep2().
SgLanding == 5

\* sleep3() that unblocks SIGALRM and then waits.
Sleep3Pause ==
  << <<"block", {"ALRM"}>>, <<"sigaction", "ALRM", "nop">>, <<"alarm">>,
     <<"oldmask">>, <<"pause">>, <<"unslept">>, <<"restore", "ALRM">>, <<"return">> >>

\* sleep3(): SIGALRM is blocked except inside sigsuspend(2).
Sleep3 ==
  << <<"block", {"ALRM"}>>, <<"sigaction", "ALRM", "nop">>, <<"alarm">>,
     <<"suspend_old", {"ALRM"}>>, <<"unslept">>, <<"restore", "ALRM">>,
     <<"oldmask">>, <<"return">> >>

\* sleep4(): nanosleep(2).
Sleep4 == << <<"nanosleep">>, <<"return">> >>

\* sigsuspend.c, compiled without and with USE_SIGSUSPEND.
PauseDemo ==
  << <<"setmask", {"INT"}>>, <<"raise", "INT">>, <<"sigaction", "INT", "nop">>,
     <<"oldmask">>, <<"pause">>, <<"return">> >>
SuspendDemo ==
  << <<"setmask", {"INT"}>>, <<"raise", "INT">>, <<"sigaction", "INT", "nop">>,
     <<"suspend", {}>>, <<"oldmask">>, <<"return">> >>

\* system(): block_chld is emptied and nothing is added to it.
SystemFunc ==
  << <<"sigaction", "QUIT", "ign">>, <<"sigaction", "INT", "ign">>, <<"block", {}>>,
     <<"fork">>, <<"waitpid">>, <<"restore", "INT">>, <<"restore", "QUIT">>,
     <<"oldmask">>, <<"return">> >>

\* abort() that flushes only once.
AbortFuncFlushOnce ==
  << <<"unignore", "ABRT">>, <<"fflush">>, <<"setmask", SgSignals \ {"ABRT"}>>,
     <<"raise", "ABRT">>, <<"sigaction", "ABRT", "dfl">>,
     <<"setmask", SgSignals \ {"ABRT"}>>, <<"raise", "ABRT">>, <<"return">> >>

\* abort().
AbortFunc ==
  << <<"unignore", "ABRT">>, <<"fflush">>, <<"setmask", SgSignals \ {"ABRT"}>>,
     <<"raise", "ABRT">>, <<"fflush">>, <<"sigaction", "ABRT", "dfl">>,
     <<"setmask", SgSignals \ {"ABRT"}>>, <<"raise", "ABRT">>, <<"return">> >>

\* main() of signal.c, which catches SIGQUIT once and raises it.
SignalDemo ==
  << <<"sigaction", "QUIT", "sigquit">>, <<"raise", "QUIT">>, <<"return">> >>

\* pending_signals/signals.c: a pending SIGINT is cancelled by ignoring it.
PendingDemo ==
  << <<"setmask", {"INT"}>>, <<"getchar">>, <<"sigaction", "INT", "ign">>,
     <<"restore", "INT">>, <<"oldmask">>, <<"getchar">>, <<"return">> >>

\* sigalrm() of sleep2.c.
SigalrmJump == << <<"longjmp">> >>
\* sigquit() of signal.c sets itself again before it prints.
Sigquit == << <<"sigaction", "QUIT", "sigquit">>, <<"print">>, <<"return">> >>

\* "nop" is sigalrm() of sleep1.c, sigalrm_sleep() and sigint(); "user" is a handler
\* of the caller, "chld" one that waits for any child, "abrt" and "printer" print.
SgCode == [
  sleep1 |-> Sleep1, sleep2 |-> Sleep2, sleep3 |-> Sleep3, sleep4 |-> Sleep4,
  pause_demo |-> PauseDemo, suspend_demo |-> SuspendDemo, system |-> SystemFunc,
  abort |-> AbortFunc, signal_demo |-> SignalDemo, pending_demo |-> PendingDemo,
  jump |-> SigalrmJump, sigquit |-> Sigquit,
  nop |-> << <<"return">> >>, user |-> << <<"work">>, <<"return">> >>,
  chld |-> << <<"reap">>, <<"return">> >>, abrt |-> << <<"print">>, <<"return">> >>,
  printer |-> << <<"print">>, <<"return">> >>]

SgSleeps == {"sleep1", "sleep2", "sleep3", "sleep4"}
SgPrograms ==
  SgSleeps \cup {"pause_demo", "suspend_demo", "system", "abort", "signal_demo", "pending_demo"}
----------------------------------------------------------------------------
SgFrame(c, m) == [code |-> c, pc |-> 1, mask |-> m, asleep |-> FALSE]

\* The callers: those of sleep() catch SIGINT and may have set an alarm, those of
\* system() catch SIGINT and SIGCHLD, those of abort() treat SIGABRT in any way and
\* catch SIGINT with a handler that prints or does not.
SgCallers(p) ==
  LET Default == [s \in SgSignals |-> "dfl"] IN
  CASE p \in SgSleeps ->
         {[disp |-> [Default EXCEPT !["INT"] = "user",
                                    !["ALRM"] = IF a = 0 THEN "dfl" ELSE "user"],
           mask |-> {}, alarm |-> a] : a \in SgAlarms}
    [] p = "system" ->
         {[disp |-> [Default EXCEPT !["INT"] = "user", !["CHLD"] = c],
           mask |-> {}, alarm |-> 0] : c \in {"dfl", "chld"}}
    [] p = "abort" ->
         {[disp |-> [Default EXCEPT !["ABRT"] = h, !["INT"] = g], mask |-> m, alarm |-> 0] :
           h \in {"dfl", "ign", "abrt"}, g \in {"user", "printer"}, m \in {{}, {"ABRT"}}}
    [] OTHER -> {[disp |-> Default, mask |-> {}, alarm |-> 0]}

SgStart(p) ==
  /\ sgProg = p
  /\ sgCaller \in SgCallers(p)
  /\ sgFrames = <<SgFrame(p, {})>>
  /\ sgMask = sgCaller.mask /\ sgDisp = sgCaller.disp
  /\ sgPend = {} /\ sgSaved = [disp |-> sgDisp, mask |-> sgMask]
  /\ sgTimer = [alarm |-> sgCaller.alarm, nano |-> 0]
  /\ sgSlept = 0 /\ sgJmp = "no" /\ sgOut = TRUE /\ sgChild = "none"
  /\ sgRet = 0 /\ sgLife = "running" /\ sgSent = <<>>

SgInit == \E p \in SgPrograms : SgStart(p)
----------------------------------------------------------------------------
SgTop == sgFrames[Len(sgFrames)]
SgIns == SgCode[SgTop.code][SgTop.pc]

\* A pending signal that is not blocked is delivered before the program goes on.
SgRuns(op) ==
  sgLife = "running" /\ sgPend \subseteq sgMask /\ ~SgTop.asleep /\ SgIns[1] = op

SgAdvance(fs) == [fs EXCEPT ![Len(fs)].pc = @ + 1]
SgForward == sgFrames' = SgAdvance(sgFrames)
SgFixed == <<sgProg, sgCaller>>

\* sigaction(2) and signal(2): ignoring a signal discards it if it is pending.
SgSetAction(s, h) ==
  /\ sgDisp' = [sgDisp EXCEPT ![s] = h]
  /\ sgPend' = IF h = "ign" THEN sgPend \ {s} ELSE sgPend

SgSigaction ==
  /\ SgRuns("sigaction") /\ SgForward
  /\ SgSetAction(SgIns[2], SgIns[3])
  /\ sgSaved' = [sgSaved EXCEPT !.disp[SgIns[2]] = sgDisp[SgIns[2]]]
  /\ UNCHANGED <<SgFixed, sgMask, sgTimer, sgSlept, sgJmp, sgOut, sgChild, sgRet, sgLife, sgSent>>

\* The action saved before, or SIG_DFL in place of SIG_IGN, is set.
SgReaction ==
  /\ \/ SgRuns("restore") /\ SgSetAction(SgIns[2], sgSaved.disp[SgIns[2]])
     \/ SgRuns("unignore")
        /\ SgSetAction(SgIns[2], IF sgDisp[SgIns[2]] = "ign" THEN "dfl" ELSE sgDisp[SgIns[2]])
  /\ SgForward
  /\ UNCHANGED <<SgFixed, sgMask, sgSaved, sgTimer, sgSlept, sgJmp, sgOut, sgChild, sgRet,
                 sgLife, sgSent>>

\* sigprocmask(2).
SgSigprocmask ==
  /\ \/ SgRuns("block") /\ sgMask' = sgMask \cup SgIns[2]
                      /\ sgSaved' = [sgSaved EXCEPT !.mask = sgMask]
     \/ SgRuns("setmask") /\ sgMask' = SgIns[2]
                        /\ sgSaved' = [sgSaved EXCEPT !.mask = sgMask]
     \/ SgRuns("oldmask") /\ sgMask' = sgSaved.mask /\ UNCHANGED sgSaved
  /\ SgForward
  /\ UNCHANGED <<SgFixed, sgPend, sgDisp, sgTimer, sgSlept, sgJmp, sgOut, sgChild, sgRet,
                 sgLife, sgSent>>

\* raise(3): an ignored signal that is not blocked is dropped.
SgRaise ==
  /\ SgRuns("raise") /\ SgForward
  /\ sgPend' = IF sgDisp[SgIns[2]] = "ign" /\ SgIns[2] \notin sgMask
               THEN sgPend ELSE sgPend \cup {SgIns[2]}
  /\ UNCHANGED <<SgFixed, sgMask, sgDisp, sgSaved, sgTimer, sgSlept, sgJmp, sgOut, sgChild,
                 sgRet, sgLife, sgSent>>

\* The time asked for, and what alarm(2) may say of t ticks left: whole seconds, rounded
\* in either direction but to 0 only if no alarm is set.
SgAsked == SgSeconds * SgPerSec
SgRounded(t) ==
  {n \in 0..(t + 1) : t - SgPerSec < n * SgPerSec /\ n * SgPerSec < t + SgPerSec
                      /\ (n = 0 => t = 0)}

\* alarm(2): lines 45 to 50 of sleep2.c keep the earlier of two alarms, as far as the
\* seconds that alarm(2) returns tell which one that is.
SgAlarm ==
  /\ \/ /\ SgRuns("alarm")
        /\ sgTimer' = [sgTimer EXCEPT !.alarm = SgAsked] /\ UNCHANGED sgRet
     \/ /\ SgRuns("alarm_min")
        /\ \E secs \in SgRounded(sgTimer.alarm) :
             sgTimer' = [sgTimer EXCEPT !.alarm =
               IF secs # 0 /\ secs < SgSeconds THEN secs * SgPerSec ELSE SgAsked]
        /\ UNCHANGED sgRet
     \/ /\ SgRuns("unslept")
        /\ sgRet' \in SgRounded(sgTimer.alarm) /\ sgTimer' = [sgTimer EXCEPT !.alarm = 0]
  /\ SgForward
  /\ UNCHANGED <<SgFixed, sgMask, sgPend, sgDisp, sgSaved, sgSlept, sgJmp, sgOut, sgChild,
                 sgLife, sgSent>>

\* pause(2), sigsuspend(2) and nanosleep(2) fall asleep; sigsuspend(2) changes the mask.
SgFallAsleep ==
  /\ \/ SgRuns("pause") /\ UNCHANGED <<sgMask, sgTimer>>
     \/ SgRuns("suspend") /\ sgMask' = SgIns[2] /\ UNCHANGED sgTimer
     \/ SgRuns("suspend_old") /\ sgMask' = sgSaved.mask \ SgIns[2] /\ UNCHANGED sgTimer
     \/ SgRuns("nanosleep") /\ sgTimer' = [sgTimer EXCEPT !.nano = SgAsked]
                          /\ UNCHANGED sgMask
  /\ sgFrames' = [sgFrames EXCEPT ![Len(sgFrames)].asleep = TRUE,
                                  ![Len(sgFrames)].mask = sgMask]
  /\ UNCHANGED <<SgFixed, sgPend, sgDisp, sgSaved, sgSlept, sgJmp, sgOut, sgChild, sgRet,
                 sgLife, sgSent>>

\* nanosleep(2) ends in time: it leaves unslept alone, which nobody has initialized.
SgNanoEnds ==
  /\ sgLife = "running" /\ SgTop.asleep /\ SgIns[1] = "nanosleep" /\ sgTimer.nano = 0
  /\ sgFrames' = [SgAdvance(sgFrames) EXCEPT ![Len(sgFrames)].asleep = FALSE]
  /\ sgRet' \in 0..SgSeconds
  /\ UNCHANGED <<SgFixed, sgMask, sgPend, sgDisp, sgSaved, sgTimer, sgSlept, sgJmp, sgOut,
                 sgChild, sgLife, sgSent>>

\* setjmp(3) and longjmp(3), which does not restore the mask.
SgJump ==
  /\ \/ SgRuns("setjmp") /\ sgJmp' = "set" /\ SgForward /\ UNCHANGED sgLife
     \/ /\ SgRuns("longjmp") /\ sgJmp # "no"
        /\ sgJmp' = IF Len(sgFrames) > 2 THEN "cut" ELSE sgJmp
        /\ sgFrames' = <<[sgFrames[1] EXCEPT !.pc = SgLanding, !.asleep = FALSE]>>
        /\ UNCHANGED sgLife
     \/ /\ SgRuns("longjmp") /\ sgJmp = "no"
        /\ sgLife' = "wild" /\ UNCHANGED <<sgJmp, sgFrames>>
  /\ UNCHANGED <<SgFixed, sgMask, sgPend, sgDisp, sgSaved, sgTimer, sgSlept, sgOut, sgChild,
                 sgRet, sgSent>>

\* Output: printf(3) of a handler, fflush(3), and the caller's handler at work.
SgOutput ==
  /\ \/ SgRuns("print") /\ sgOut' = TRUE
     \/ SgRuns("fflush") /\ sgOut' = FALSE
     \/ SgRuns("work") /\ UNCHANGED sgOut
  /\ SgForward
  /\ UNCHANGED <<SgFixed, sgMask, sgPend, sgDisp, sgSaved, sgTimer, sgSlept, sgJmp, sgChild,
                 sgRet, sgLife, sgSent>>

\* fork(2) of system() makes a child, or fails and lines 76 and 92 follow.
SgFork ==
  /\ SgRuns("fork")
  /\ \/ sgChild' = "starting" /\ SgForward /\ UNCHANGED sgRet
     \/ sgRet' = -1 /\ sgFrames' = SgAdvance(SgAdvance(sgFrames)) /\ UNCHANGED sgChild
  /\ UNCHANGED <<SgFixed, sgMask, sgPend, sgDisp, sgSaved, sgTimer, sgSlept, sgJmp, sgOut,
                 sgLife, sgSent>>

\* waitpid(2) in the loop of system(), and in the caller's handler of SIGCHLD.
SgWaitpid ==
  /\ \/ SgRuns("waitpid") /\ sgChild = "zombie" /\ sgChild' = "reaped" /\ sgRet' = 0
     \/ SgRuns("waitpid") /\ sgChild = "reaped" /\ sgRet' = -1 /\ UNCHANGED sgChild
     \/ /\ SgRuns("reap") /\ UNCHANGED sgRet
        /\ sgChild' = IF sgChild = "zombie" THEN "reaped" ELSE sgChild
  /\ SgForward
  /\ UNCHANGED <<SgFixed, sgMask, sgPend, sgDisp, sgSaved, sgTimer, sgSlept, sgJmp, sgOut,
                 sgLife, sgSent>>

\* The user presses return.
SgGetchar ==
  /\ SgRuns("getchar") /\ SgForward
  /\ UNCHANGED <<SgFixed, sgMask, sgPend, sgDisp, sgSaved, sgTimer, sgSlept, sgJmp, sgOut,
                 sgChild, sgRet, sgLife, sgSent>>

\* The end of the function, or of a handler: the mask is as it was and the call that
\* the handler interrupted, if it slept, returns.
SgReturn ==
  /\ SgRuns("return")
  /\ IF Len(sgFrames) = 1
     THEN sgLife' = "returned" /\ UNCHANGED <<sgFrames, sgMask>>
     ELSE LET below == SubSeq(sgFrames, 1, Len(sgFrames) - 1) IN
          /\ sgMask' = SgTop.mask
          /\ sgFrames' = IF below[Len(below)].asleep
                         THEN [SgAdvance(below) EXCEPT ![Len(below)].asleep = FALSE]
                         ELSE below
          /\ UNCHANGED sgLife
  /\ UNCHANGED <<SgFixed, sgPend, sgDisp, sgSaved, sgTimer, sgSlept, sgJmp, sgOut, sgChild,
                 sgRet, sgSent>>

SgStep ==
  \/ SgSigaction \/ SgReaction \/ SgSigprocmask \/ SgRaise \/ SgAlarm
  \/ SgFallAsleep \/ SgNanoEnds \/ SgJump \/ SgOutput \/ SgFork \/ SgWaitpid \/ SgReturn
----------------------------------------------------------------------------
\* A handler starts: its signal is blocked until it returns, except that signal.c
\* asks for SA_RESETHAND and SA_NODEFER.  nanosleep(2) that it interrupts tells what is
\* left, of which sleep4() returns the whole seconds.
SgEnter(s) ==
  LET h == sgDisp[s]
      saved == IF SgTop.asleep /\ SgIns[1] \in {"suspend", "suspend_old"}
               THEN SgTop.mask ELSE sgMask
  IN
  /\ sgFrames' = Append(sgFrames, SgFrame(h, saved))
  /\ sgMask' = IF h = "sigquit" THEN sgMask ELSE sgMask \cup {s}
  /\ sgDisp' = IF h = "sigquit" THEN [sgDisp EXCEPT ![s] = "dfl"] ELSE sgDisp
  /\ sgRet' = IF SgTop.asleep /\ SgIns[1] = "nanosleep"
             THEN sgTimer.nano \div SgPerSec ELSE sgRet
  /\ UNCHANGED sgLife

SgDeliver ==
  /\ sgLife = "running"
  /\ \E s \in sgPend \ sgMask :
       /\ sgPend' = sgPend \ {s}
       /\ CASE sgDisp[s] = "ign" \/ (sgDisp[s] = "dfl" /\ s = "CHLD") ->
                 UNCHANGED <<sgFrames, sgMask, sgDisp, sgRet, sgLife>>
            [] sgDisp[s] = "dfl" /\ s # "CHLD" ->
                 sgLife' = s /\ UNCHANGED <<sgFrames, sgMask, sgDisp, sgRet>>
            [] OTHER -> SgEnter(s)
  /\ UNCHANGED <<SgFixed, sgSaved, sgTimer, sgSlept, sgJmp, sgOut, sgChild, sgSent>>

\* A tick of the clock.
SgDown(n) == IF n = 0 THEN 0 ELSE n - 1
SgTick ==
  /\ sgLife = "running" /\ sgProg \in SgSleeps
  /\ sgSlept <= SgAsked \/ sgTimer # [alarm |-> 0, nano |-> 0]
  /\ sgSlept' = IF sgSlept > SgAsked THEN sgSlept ELSE sgSlept + 1
  /\ sgTimer' = [alarm |-> SgDown(sgTimer.alarm), nano |-> SgDown(sgTimer.nano)]
  /\ sgPend' = IF sgTimer.alarm = 1 THEN sgPend \cup {"ALRM"} ELSE sgPend
  /\ UNCHANGED <<SgFixed, sgFrames, sgMask, sgDisp, sgSaved, sgJmp, sgOut, sgChild, sgRet,
                 sgLife, sgSent>>

\* Somebody sends SIGQUIT to signal.c and SIGINT to the others; what is typed at the
\* terminal goes to the child of system() too, which it kills once it has its own actions.
SgTyped == IF sgProg = "signal_demo" THEN "QUIT" ELSE "INT"
SgSend ==
  /\ sgLife = "running" /\ Len(sgSent) < SgSends /\ sgProg # "pause_demo"
  /\ sgSent' = Append(sgSent, [code |-> SgTop.code, pc |-> SgTop.pc])
  /\ LET mine == IF sgDisp[SgTyped] = "ign" /\ SgTyped \notin sgMask
                 THEN {} ELSE {SgTyped}
     IN \/ /\ sgChild # "running" /\ UNCHANGED sgChild
           /\ sgPend' = sgPend \cup mine
        \/ /\ sgChild = "running" /\ sgChild' = "zombie"
           /\ sgPend' = sgPend \cup mine \cup {"CHLD"}
  /\ UNCHANGED <<SgFixed, sgFrames, sgMask, sgDisp, sgSaved, sgTimer, sgSlept, sgJmp, sgOut,
                 sgRet, sgLife>>

\* The child of system() restores the signals and executes the shell, and ends.
SgChild ==
  /\ sgLife = "running"
  /\ \/ sgChild = "starting" /\ sgChild' = "running" /\ UNCHANGED sgPend
     \/ sgChild = "running" /\ sgChild' = "zombie" /\ sgPend' = sgPend \cup {"CHLD"}
  /\ UNCHANGED <<SgFixed, sgFrames, sgMask, sgDisp, sgSaved, sgTimer, sgSlept, sgJmp, sgOut,
                 sgRet, sgLife, sgSent>>

SgNext == SgStep \/ SgGetchar \/ SgDeliver \/ SgTick \/ SgSend \/ SgChild

\* The process and its child are scheduled and time passes.
SgSpec ==
  /\ SgInit /\ [][SgNext]_sgVars
  /\ WF_sgVars(SgStep) /\ WF_sgVars(SgDeliver) /\ WF_sgVars(SgTick) /\ WF_sgVars(SgChild)
----------------------------------------------------------------------------
\* What sleep() returns and the time it took fall short of the time asked for by less than
\* a second (sleep4() drops the nanoseconds left, alarm(2) rounds): a caller that goes on
\* with the rest never loses a whole second, in sleep2() unless the caller's own alarm cuts
\* it short, in sleep4() unless the time was slept to its end, when the result is whatever
\* was on the stack.
SgTells ==
  sgLife = "returned" /\ sgProg \in SgSleeps =>
    \/ sgRet * SgPerSec + sgSlept > SgAsked - SgPerSec
    \/ sgProg = "sleep2" /\ sgCaller.alarm # 0
    \/ sgProg = "sleep4" /\ sgTimer.nano = 0

\* sleep2(), sleep3() and system() return with the caller's signal actions in place,
\* and all but sleep2(), which jumps out of a handler, with the caller's mask; only
\* sleep2() ever leaves another handler in the middle, or jumps before setjmp(3) when
\* the caller's alarm goes off first.
SgRestores ==
  /\ sgLife = "returned" /\ sgProg \in {"sleep2", "sleep3", "sleep4", "system"} =>
       /\ sgDisp = sgCaller.disp
       /\ sgProg # "sleep2" => sgMask = sgCaller.mask
  /\ sgJmp = "cut" => sgProg = "sleep2"
  /\ sgLife = "wild" => sgProg = "sleep2" /\ sgCaller.alarm # 0

\* While the command of system() exists, the caller's handler of SIGINT does not run;
\* and -1 means that fork(2) failed or that the caller's own SIGCHLD handler took the
\* status away.
SgSpares ==
  sgProg = "system" =>
    /\ \A i \in 1..Len(sgFrames) :
         sgFrames[i].code = "user" => sgChild \notin {"starting", "running", "zombie"}
    /\ sgLife = "returned" /\ sgRet = -1 => sgChild = "none" \/ sgCaller.disp["CHLD"] = "chld"

\* abort() never returns, and when SIGABRT kills the process whatever was printed is
\* flushed, by a handler of SIGABRT too.  Only what another handler prints between
\* fflush(3) and sigprocmask(2), lines 32 to 38, may be lost, and it is not when SIGABRT is
\* caught, since then the streams are flushed again.
SgAborts ==
  sgProg = "abort" =>
    /\ sgLife # "returned"
    /\ sgLife = "ABRT" /\ sgOut =>
         /\ sgCaller.disp["INT"] = "printer" /\ sgCaller.disp["ABRT"] # "abrt"
         /\ \E i \in DOMAIN sgSent : sgSent[i] = [code |-> "abort", pc |-> 3]

\* A SIGINT that became pending before it was ignored does not kill the process of
\* pending_signals; a SIGQUIT kills that of signal.c only before the first call of
\* my_signal() or in the window at the start of the handler; and the demonstration of
\* pause(2) never ends, for its only signal came before the call.
SgCancels ==
  /\ sgProg = "pause_demo" => sgLife = "running"
  /\ sgProg = "pending_demo" /\ sgLife = "INT" =>
       \E i \in DOMAIN sgSent : sgSent[i].pc \notin 2..3
  /\ sgProg = "signal_demo" /\ sgLife = "QUIT" =>
       \E i \in DOMAIN sgSent : sgSent[i].pc = 1 \/ sgSent[i].code = "sigquit"

\* All of the above: no moment at which a signal arrives makes these functions break
\* the promises they keep.
SgSound == SgTells /\ SgRestores /\ SgSpares /\ SgAborts /\ SgCancels

\* sleep3.c calls itself reliable: a caller that catches SIGINT is not killed by it.
SgSurvives == sgProg = "sleep3" => sgLife \in {"running", "returned"}

\* "if we call wait() or waitpid() inside the signal handler for system()'s child
\* process ID, wait() returns -1 with errno set to ECHILD, because system() has already
\* acknowledged that child's death": the caller's handler runs only after waitpid(2).
SgAcknowledged ==
  sgProg = "system" /\ (\E i \in 1..Len(sgFrames) : sgFrames[i].code = "chld") =>
    \E k \in 1..(sgFrames[1].pc - 1) : SystemFunc[k][1] = "waitpid"

\* Every sleep but sleep1() ends whatever happens between its calls, and so do
\* system(), abort() and the demonstration of sigsuspend(2).
SgWakes ==
  (sgProg \in {"sleep2", "sleep3", "sleep4", "suspend_demo", "system", "abort"}) ~>
    (sgLife # "running")
=============================================================================
