---------------------------- MODULE DesktopEngine ----------------------------
(***************************************************************************)
(* The engine process of the Windows client (windows/engine.go): Start and *)
(* Stop, called by the user and by the remote control loop, the automatic  *)
(* recovery, and for each process the goroutine that waits for it and the  *)
(* one that reads its lines.  App.mu is released between the steps of      *)
(* every one of them.  The reader goes by itself: it may hold lines of a   *)
(* process that has ended ("ended": it has been waited for, and its lines  *)
(* are still read).                                                        *)
(*                                                                         *)
(* retryToken is compared for equality only: a process or a timer is fresh *)
(* while its token is the current one.                                     *)
(***************************************************************************)
EXTENDS Integers, FiniteSets

CONSTANTS
  Procs,         \* engine processes that exist at once
  NoProc,
  Delays,        \* len(backgroundRecoveryDelays)
  MaxCalls,      \* bound: calls of Start and Stop
  MaxExits       \* bound: processes that fail to start or exit by themselves

VARIABLES
  running, busy,   \* state.Running, state.Busy
  wish,            \* settings.DesiredRunning
  engine,          \* engineCancel and engineDone: the process they belong to
  tries,           \* recoveryAttempt
  proc,            \* per process, [at, fresh]
  call,            \* the calls under way, [at, proc, next]
  timer,           \* the goroutine of scheduleRecovery, [at, fresh, attempt]
  asked,           \* history: the last call was a Start
  raced,           \* history: a Stop, or a line of an ended engine, fell into a launch
  late,            \* history: the last line heeded was of an engine that had ended
  calls, exits

engineVars ==
  <<running, busy, wish, engine, tries, proc, call, timer, asked, raced, late, calls, exits>>

Callers == {"user", "remote"}
NoTimer == [at |-> "idle", fresh |-> FALSE, attempt |-> 0]
NoCall == [at |-> "idle", proc |-> NoProc, next |-> "none"]

Init ==
  /\ running = FALSE /\ busy = FALSE /\ wish = FALSE
  /\ engine = NoProc /\ tries = 0
  /\ proc = [p \in Procs |-> [at |-> "none", fresh |-> FALSE]]
  /\ call = [c \in Callers |-> NoCall] /\ timer = NoTimer
  /\ asked = FALSE /\ raced = FALSE /\ late = FALSE /\ calls = 0 /\ exits = 0

(* retryToken++                                                            *)
Staled == [p \in Procs |-> [proc[p] EXCEPT !.fresh = FALSE]]
StaleTimer == [timer EXCEPT !.fresh = FALSE]

Calls == calls < MaxCalls /\ calls' = calls + 1

-----------------------------------------------------------------------------
(* Start and startEngine.                                                  *)

(* Mutant: an engine that is still there does not prevent a launch.        *)
MayStartBusy == ~running /\ ~busy

MayStart == ~running /\ ~busy /\ engine = NoProc

(* The first critical section, for a caller and for the recovery.          *)
Prepare(p, recovery) ==
  /\ MayStart /\ proc[p].at = "none" /\ \A c \in Callers : call[c].proc # p
  /\ busy' = TRUE /\ running' = FALSE /\ late' = FALSE
  /\ proc' = [(IF recovery THEN proc ELSE Staled) EXCEPT ![p] = [at |-> "built", fresh |-> TRUE]]
  /\ UNCHANGED <<wish, engine, raced>>

(* An engine is prepared; or one is there, or the binary or the profile is *)
(* unusable, and nothing happens.                                          *)
StartCalled(c) ==
  /\ asked' = TRUE
  /\ \/ \E p \in Procs :
          /\ Prepare(p, FALSE)
          /\ tries' = 0 /\ timer' = StaleTimer
          /\ call' = [call EXCEPT ![c] = [at |-> "launch", proc |-> p, next |-> "none"]]
     \/ /\ call' = [call EXCEPT ![c] = NoCall]
        /\ UNCHANGED <<running, busy, wish, engine, tries, proc, timer, raced, late>>

Start(c) == Calls /\ call[c] = NoCall /\ StartCalled(c) /\ UNCHANGED exits

(* Mutant: the engine is not registered.                                   *)
LaunchLoose(p) ==
  /\ engine' = NoProc /\ wish' = TRUE
  /\ proc' = [proc EXCEPT ![p].at = "running"]
  /\ UNCHANGED <<running, busy, tries>>

(* cmd.Start and the second critical section: it looks at nothing again.   *)
Launch(p) ==
  /\ engine' = p /\ wish' = TRUE
  /\ proc' = [proc EXCEPT ![p].at = "running"]
  /\ UNCHANGED <<running, busy, tries>>

LaunchFails(p) ==
  /\ exits < MaxExits /\ exits' = exits + 1
  /\ proc' = [proc EXCEPT ![p] = [at |-> "none", fresh |-> FALSE]]
  /\ busy' = FALSE
  /\ UNCHANGED <<running, wish, engine, tries>>

CallerLaunches(c) ==
  /\ call[c].at = "launch"
  /\ \/ Launch(call[c].proc) /\ UNCHANGED exits
     \/ LaunchFails(call[c].proc)
  /\ call' = [call EXCEPT ![c] = NoCall]
  /\ UNCHANGED <<timer, asked, raced, late, calls>>

-----------------------------------------------------------------------------
(* Stop.                                                                   *)

Gap == timer.at = "start" \/ \E p \in Procs : proc[p].at = "built"

(* Mutant: Stop leaves the timers of the recovery valid.                   *)
StopCalledTimid(c, next) ==
  /\ asked' = FALSE /\ raced' = (raced \/ Gap)
  /\ UNCHANGED <<wish, timer, proc>>
  /\ IF engine = NoProc
     THEN /\ running' = FALSE /\ busy' = FALSE /\ late' = FALSE
          /\ call' = [call EXCEPT ![c] = [NoCall EXCEPT !.at = IF next = "none" THEN "idle" ELSE "again"]]
     ELSE /\ busy' = TRUE /\ UNCHANGED <<running, late>>
          /\ call' = [call EXCEPT ![c] = [at |-> "stop", proc |-> engine, next |-> next]]
  /\ UNCHANGED <<engine, tries>>

StopCalled(c, next) ==
  /\ asked' = FALSE /\ raced' = (raced \/ Gap)
  /\ wish' = FALSE /\ timer' = StaleTimer
  /\ proc' = Staled
  /\ IF engine = NoProc
     THEN /\ running' = FALSE /\ busy' = FALSE /\ late' = FALSE
          /\ call' = [call EXCEPT ![c] = [NoCall EXCEPT !.at = IF next = "none" THEN "idle" ELSE "again"]]
     ELSE /\ busy' = TRUE /\ UNCHANGED <<running, late>>
          /\ call' = [call EXCEPT ![c] = [at |-> "stop", proc |-> engine, next |-> next]]
  /\ UNCHANGED <<engine, tries>>

Stop(c) == Calls /\ call[c] = NoCall /\ StopCalled(c, "none") /\ UNCHANGED exits

(* applyRemoteDesired with a newer restart generation: Stop, then Start.   *)
Restart == Calls /\ call["remote"] = NoCall /\ StopCalled("remote", "start") /\ UNCHANGED exits
StartAgain == call["remote"].at = "again" /\ StartCalled("remote") /\ UNCHANGED <<calls, exits>>

(* cancel() kills the process; Stop waits for done, which waitEngine       *)
(* closes before it takes the lock.  A killed process is gone within the   *)
(* four seconds.                                                           *)
Killed(p) == \E c \in Callers : call[c].at = "stop" /\ call[c].proc = p

StopReturns(c) ==
  /\ call[c].at = "stop" /\ proc[call[c].proc].at \in {"gone", "ended", "none"}
  /\ running' = FALSE /\ busy' = FALSE /\ late' = FALSE /\ tries' = 0
  /\ call' = [call EXCEPT ![c] = [NoCall EXCEPT !.at = IF call[c].next = "none" THEN "idle" ELSE "again"]]
  /\ raced' = (raced \/ Gap)
  /\ UNCHANGED <<wish, engine, proc, timer, asked, calls, exits>>

-----------------------------------------------------------------------------
(* The process.                                                            *)

(* Mutant: an earlier engine is heard like the current one.                *)
HeedsAny(p) == TRUE

Heeds(p) == proc[p].fresh

(* handleEngineEvent compares the token, and nothing else.                 *)
Line(p) ==
  /\ proc[p].at \in {"running", "gone", "ended"} /\ Heeds(p)
  /\ late' = (proc[p].at = "ended")
  /\ raced' = (raced \/ (proc[p].at = "ended" /\ \E q \in Procs : proc[q].at = "built"))
  /\ UNCHANGED <<wish, engine, proc, call, timer, asked, calls, exits>>

(* connecting, ready, bundle_connecting, bundle_reconnecting.              *)
Connecting(p) == Line(p) /\ busy' = TRUE /\ UNCHANGED <<running, tries>>

(* listening, bundle_listening.                                            *)
Listening(p) == Line(p) /\ running' = TRUE /\ busy' = FALSE /\ tries' = 0

(* stats of the engine itself; bundle_degraded with an active Profile.     *)
Stats(p) == Line(p) /\ running' = TRUE /\ busy' = FALSE /\ UNCHANGED tries

(* bundle_degraded without an active Profile, bundle_failed.               *)
Degraded(p) == Line(p) /\ running' = FALSE /\ busy' = FALSE /\ UNCHANGED tries

Exit(p) ==
  /\ proc[p].at = "running"
  /\ IF Killed(p)
     THEN UNCHANGED exits
     ELSE exits < MaxExits /\ exits' = exits + 1
  /\ proc' = [proc EXCEPT ![p].at = "gone"]
  /\ UNCHANGED <<running, busy, wish, engine, tries, call, timer, asked, raced, late, calls>>

(* waitEngine.  Recovery is allowed by the setting to stay in the          *)
(* background, or by remote control (effectiveBackgroundResidentLocked).   *)
Wait(p) ==
  /\ proc[p].at = "gone"
  /\ proc' = [proc EXCEPT ![p].at = "ended"]
  /\ engine' = IF engine = p THEN NoProc ELSE engine
  /\ IF ~Heeds(p)
     THEN UNCHANGED <<running, busy, timer, late>>
     ELSE /\ running' = FALSE /\ busy' = FALSE /\ late' = FALSE
          /\ IF wish
             THEN /\ timer.at \in {"idle", "schedule", "timer"} /\ ~timer.fresh
                  /\ \E resident \in BOOLEAN :
                       timer' = [at |-> IF resident THEN "schedule" ELSE "giveup",
                                 fresh |-> proc[p].fresh, attempt |-> tries]
             ELSE UNCHANGED timer
  /\ UNCHANGED <<wish, tries, call, asked, raced, calls, exits>>

(* The end of scanEngineStdout: cmd.Wait has closed the pipe.              *)
ReaderEnds(p) ==
  /\ proc[p].at = "ended"
  /\ proc' = [proc EXCEPT ![p] = [at |-> "none", fresh |-> FALSE]]
  /\ UNCHANGED <<running, busy, wish, engine, tries, call, timer, asked, raced, late, calls, exits>>

-----------------------------------------------------------------------------
(* The recovery.                                                           *)

(* scheduleRecovery, or the end of waitEngine when there is no recovery:   *)
(* that one does not look at the token again.                              *)
Schedule ==
  /\ \/ /\ timer.at = "giveup"
        /\ wish' = FALSE /\ timer' = NoTimer /\ UNCHANGED busy
     \/ /\ timer.at = "schedule" /\ timer.attempt >= Delays
        /\ wish' = (wish /\ ~timer.fresh) /\ busy' = (busy /\ ~timer.fresh) /\ timer' = NoTimer
     \/ /\ timer.at = "schedule" /\ timer.attempt < Delays
        /\ IF timer.fresh /\ wish
           THEN busy' = TRUE /\ timer' = [timer EXCEPT !.at = "timer"]
           ELSE timer' = NoTimer /\ UNCHANGED busy
        /\ UNCHANGED wish
  /\ UNCHANGED <<running, engine, tries, proc, call, asked, raced, late, calls, exits>>

(* Mutant: the client stays busy for the recovery itself.                  *)
FiresBusy ==
  /\ timer.at = "timer"
  /\ timer' = IF timer.fresh /\ wish /\ engine = NoProc THEN [timer EXCEPT !.at = "start"] ELSE NoTimer
  /\ UNCHANGED <<running, busy, wish, engine, tries, proc, call, asked, raced, late, calls, exits>>

Fires ==
  /\ timer.at = "timer"
  /\ IF timer.fresh /\ wish /\ engine = NoProc
     THEN busy' = FALSE /\ timer' = [timer EXCEPT !.at = "start"]
     ELSE timer' = NoTimer /\ UNCHANGED busy
  /\ UNCHANGED <<running, wish, engine, tries, proc, call, asked, raced, late, calls, exits>>

(* Mutant: a recovery that cannot launch is the last one.                  *)
RescheduledNot == NoTimer
Rescheduled == [timer EXCEPT !.at = "schedule", !.attempt = @ + 1]

(* startEngine(true, attempt+1): the token it uses is the current one.  It *)
(* may fail before it has looked at the state.                             *)
RecoveryPrepares ==
  /\ timer.at = "start"
  /\ \/ \E p \in Procs :
          /\ Prepare(p, TRUE)
          /\ tries' = timer.attempt + 1
          /\ timer' = [timer EXCEPT !.at = "launch"]
          /\ UNCHANGED <<call, asked, exits>>
     \/ /\ ~MayStart /\ timer' = NoTimer
        /\ UNCHANGED <<running, busy, wish, engine, tries, proc, call, asked, raced, late, exits>>
     \/ /\ exits < MaxExits /\ exits' = exits + 1
        /\ timer' = Rescheduled /\ busy' = (busy /\ ~timer.fresh)
        /\ UNCHANGED <<running, wish, engine, tries, proc, call, asked, raced, late>>
  /\ UNCHANGED calls

RecoveryLaunches ==
  /\ timer.at = "launch"
  /\ \E p \in Procs :
       /\ proc[p].at = "built" /\ \A c \in Callers : call[c].proc # p
       /\ \/ Launch(p) /\ timer' = NoTimer /\ UNCHANGED exits
          \/ LaunchFails(p) /\ timer' = Rescheduled
  /\ UNCHANGED <<call, asked, raced, late, calls>>

-----------------------------------------------------------------------------

Next ==
  \/ \E c \in Callers : Start(c) \/ Stop(c) \/ CallerLaunches(c) \/ StopReturns(c)
  \/ Restart \/ StartAgain
  \/ \E p \in Procs : Connecting(p) \/ Listening(p) \/ Stats(p) \/ Degraded(p)
  \/ \E p \in Procs : Exit(p) \/ Wait(p) \/ ReaderEnds(p)
  \/ Schedule \/ Fires \/ RecoveryPrepares \/ RecoveryLaunches

(* Goroutines go on; a killed process exits.  What an engine says, and     *)
(* whether it ever listens, is its own affair.                             *)
Fairness ==
  /\ \A c \in Callers : WF_engineVars(CallerLaunches(c)) /\ WF_engineVars(StopReturns(c))
  /\ \A p \in Procs : WF_engineVars(Wait(p)) /\ WF_engineVars(Killed(p) /\ Exit(p))
                      /\ WF_engineVars(ReaderEnds(p))
  /\ WF_engineVars(StartAgain) /\ WF_engineVars(Schedule) /\ WF_engineVars(Fires)
  /\ WF_engineVars(RecoveryPrepares) /\ WF_engineVars(RecoveryLaunches)

EngineSpec == Init /\ [][Next]_engineVars /\ Fairness
-----------------------------------------------------------------------------

TypeOK ==
  /\ {running, busy, wish, asked, raced, late} \subseteq BOOLEAN
  /\ engine \in Procs \cup {NoProc} /\ tries \in 0..Delays
  /\ proc \in [Procs -> [at : {"none", "built", "running", "gone", "ended"}, fresh : BOOLEAN]]
  /\ call \in [Callers -> [at : {"idle", "launch", "stop", "again"},
                          proc : Procs \cup {NoProc}, next : {"none", "start"}]]
  /\ timer \in [at : {"idle", "schedule", "giveup", "timer", "start", "launch"},
                fresh : BOOLEAN, attempt : 0..Delays]
  /\ calls \in 0..MaxCalls /\ exits \in 0..MaxExits

Alive(p) == proc[p].at \in {"built", "running"}

(* A Stop that met no launch under way is final: once it has returned and  *)
(* no Start has been called since, no process runs and nothing - a timer,  *)
(* the exit of an earlier process - launches one.                          *)
StopWins ==
  ~asked /\ ~raced /\ (\A c \in Callers : call[c].at = "idle")
    => \A p \in Procs : ~Alive(p)

(* DEPLOYMENT.zh-CN.md: after the user's own Stop the engine is not        *)
(* started automatically: the recovery launches only what is wished for.   *)
NoAutomaticStart ==
  [][timer.at = "launch" /\ timer'.at # "launch" /\ (\E p \in Procs : Alive(p)') => wish]_engineVars

(* There is one engine: the process the client can still cancel.           *)
OneEngine ==
  ~raced => \A p \in Procs : proc[p].at = "running" => engine = p

(* What the window shows: an engine is shown as running only while there   *)
(* is one, or while a Stop is under way, or because the last line heeded   *)
(* was of an engine that had already been waited for.                      *)
ReportsTruth ==
  ~raced /\ ~late /\ running /\ ~busy
    => \E p \in Procs : proc[p].at \in {"running", "gone"} /\ proc[p].fresh

(* The client does not stay busy without an engine that may end it: Start, *)
(* Stop and the recovery all come to an end, whatever fails (unless a      *)
(* launch was disturbed, or an ended engine said it connects).             *)
NeverStuckBusy == []<>(~busy \/ raced \/ late \/ \E p \in Procs : proc[p].at = "running")

(* An engine that exits by itself while it is wished for is brought back,  *)
(* or the wish is given up, or a Start takes over (which tells its caller  *)
(* how it went): the recovery does not die out silently, unless a line of  *)
(* the engine that ended is heeded after the goroutine that waits for it   *)
(* has reported the end.                                                   *)
Lost == timer.fresh \/ \E p \in Procs : proc[p].at = "gone" /\ proc[p].fresh /\ wish
Recovered ==
  \/ ~wish \/ raced
  \/ \E p \in Procs : proc[p].at = "running"
  \/ \E c \in Callers : call[c].at = "launch"
Recovers == Lost ~> (Recovered \/ late)
=============================================================================
