----------------------------- MODULE BackendWatch -----------------------------
(* A launched backend under watch: first while a step asks it for its canaries *)
(* (runWatchingBackend), then while it serves (waitForShutdownCrashOrWedge), or *)
(* while Claude Code talks to it (claudeHealthMonitor). A crash while serving   *)
(* starts a replacement. Time is counted in polls of the watch at work.         *)
EXTENDS Naturals

CONSTANTS
  WedgedAfter,   \* polls of silence and idleness before a verification gives up
  ConfirmAfter,  \* the same for a fatal line while serving
  Readable,      \* CPU time can be read (Linux)
  SurvivesStop,  \* the backend may outlive Stop
  Retries,       \* maxRuntimeOOMRetries
  MaxLines       \* fatal lines in a behaviour

ASSUME WatchAssumption ==
  /\ WedgedAfter \in Nat \ {0} /\ ConfirmAfter \in Nat \ {0}
  /\ Readable \in BOOLEAN /\ SurvivesStop \in BOOLEAN
  /\ Retries \in Nat /\ MaxLines \in Nat

VARIABLES
  alive, answers, hung, used,   \* the backend: exists, answers /health, does nothing
                                \* any more, used CPU since its time was last read
  lines, born,                  \* fatal lines so far, and when this one was spawned
  quiet,                        \* polls since it last used CPU (history)
  survived,                     \* the last line it is known to have survived (history)
  step,                         \* the canaries, in a goroutine of their own
  phase,                        \* where cmdLaunch is
  silent,                       \* polls since silentSince or fatalSince
  seen, fatal,                  \* lines read while serving; one is pending
  sample,                       \* failedFree: at which line it was taken, or 0
  retries, monitor, sigint

envVars == <<alive, answers, hung, used, lines, born, quiet, survived>>
ggrunVars == <<step, phase, silent, seen, fatal, sample, retries, monitor, sigint>>
watchVars == <<envVars, ggrunVars>>

QuietCap == WedgedAfter + ConfirmAfter + 1
LowerOf(a, b) == IF a < b THEN a ELSE b
Working == {"verify", "stopping", "grace", "serve", "crashed", "session", "ending"}
Ended == {"passed", "rejected", "shutdown", "exited"}

WatchTypeOK ==
  /\ alive \in BOOLEAN /\ answers \in BOOLEAN /\ hung \in BOOLEAN /\ used \in BOOLEAN
  /\ fatal \in BOOLEAN /\ sigint \in BOOLEAN
  /\ lines \in 0..MaxLines /\ born \in 0..lines /\ seen \in 0..lines
  /\ quiet \in 0..QuietCap
  /\ survived \in 0..lines /\ sample \in 0..lines
  /\ step \in {"none", "asking", "answered", "promoted", "failed"}
  /\ phase \in Working \union Ended
  /\ silent \in 0..QuietCap
  /\ retries \in 0..Retries
  /\ monitor \in {"off", "idle", "looked", "dying", "reported", "ended"}

\* The backend is loaded and runWatchingBackend is called.
WatchInit ==
  /\ alive = TRUE /\ answers = TRUE /\ hung = FALSE /\ used = FALSE
  /\ lines = 0 /\ born = 0 /\ quiet = 0 /\ survived = 0
  /\ step = "asking" /\ phase = "verify" /\ silent = 0
  /\ seen = 0 /\ fatal = FALSE /\ sample = 0
  /\ retries = 0 /\ monitor = "off" /\ sigint = FALSE

-----------------------------------------------------------------------------
(* The backend.                                                            *)

Works ==
  /\ alive /\ ~hung
  /\ used' = TRUE /\ quiet' = 0
  /\ answers' \in BOOLEAN
  /\ UNCHANGED <<alive, hung, lines, born, survived, ggrunVars>>

PrintsFatal ==
  /\ alive /\ lines < MaxLines
  /\ lines' = lines + 1
  /\ UNCHANGED <<alive, answers, hung, used, born, quiet, survived, ggrunVars>>

\* A deadlock, in the helper that writes the backtrace of an abort for example.
Hangs ==
  /\ alive /\ ~hung
  /\ hung' = TRUE /\ answers' = FALSE
  /\ UNCHANGED <<alive, used, lines, born, quiet, survived, ggrunVars>>

Dies ==
  /\ alive
  /\ alive' = FALSE /\ answers' = FALSE
  /\ UNCHANGED <<hung, used, lines, born, quiet, survived, ggrunVars>>

-----------------------------------------------------------------------------
(* The step: canaries that need answers, then the profile is promoted.      *)

StepAnswered ==
  /\ step = "asking" /\ alive /\ ~hung
  /\ step' = "answered"
  /\ UNCHANGED <<envVars, phase, silent, seen, fatal, sample, retries, monitor, sigint>>

StepEnds ==
  /\ \/ step = "asking" /\ step' = "failed"
     \/ step = "answered" /\ step' \in {"promoted", "failed"}
  /\ UNCHANGED <<envVars, phase, silent, seen, fatal, sample, retries, monitor, sigint>>

-----------------------------------------------------------------------------
(* runWatchingBackend.                                                      *)

Later(n) == LowerOf(n + 1, QuietCap)

\* What is read at a poll that /health leaves unanswered.
Idle == Readable /\ ~used

GiveUp(cause) ==
  /\ phase' = "stopping"
  /\ sample' = IF cause = "fatal" THEN lines ELSE sample

MutVerifyPollBlind ==
  /\ phase = "verify" /\ quiet' = Later(quiet) /\ used' = FALSE
  /\ silent' = IF answers THEN 0 ELSE Later(silent)
  /\ IF ~alive \/ lines > born \/ silent >= WedgedAfter
       THEN phase' = "stopping" ELSE UNCHANGED phase
  /\ UNCHANGED <<alive, answers, hung, lines, born, survived, step, seen, fatal, sample, retries, monitor, sigint>>

\* One tick. A platform that cannot read CPU time never sees a wedge.
VerifyPoll ==
  /\ phase = "verify" /\ quiet' = Later(quiet)
  /\ \/ /\ ~alive
        /\ GiveUp("exited") /\ UNCHANGED <<silent, used>>
     \/ /\ alive /\ lines > born
        /\ GiveUp("fatal") /\ UNCHANGED <<silent, used>>
     \/ /\ alive /\ lines = born /\ answers
        /\ silent' = 0 /\ UNCHANGED <<phase, sample, used>>
     \/ /\ alive /\ lines = born /\ ~answers
        /\ used' = FALSE
        /\ silent' = IF Idle THEN Later(silent) ELSE 0
        /\ IF Idle /\ silent >= WedgedAfter THEN GiveUp("wedged")
                                           ELSE UNCHANGED <<phase, sample>>
  /\ UNCHANGED <<alive, answers, hung, lines, born, survived, step, seen, fatal, retries, monitor, sigint>>

\* Stop has returned, with or without an error, and stopGrace begins.
VerifyStopped ==
  /\ phase = "stopping"
  /\ alive' \in {FALSE, alive /\ SurvivesStop} /\ answers' = (answers /\ alive')
  /\ phase' = "grace"
  /\ UNCHANGED <<hung, used, lines, born, quiet, survived, step, silent, seen, fatal, sample, retries, monitor, sigint>>

MutVerifyGivenUpWaits ==
  /\ phase = "grace" /\ step \in {"promoted", "failed"}
  /\ phase' = "rejected"
  /\ UNCHANGED <<envVars, step, silent, seen, fatal, sample, retries, monitor, sigint>>

\* The step has returned, or stopGrace has passed: a failure in any case, and
\* the step goes on if it still waits. cmdLaunch stops the backend and exits.
VerifyGivenUp ==
  /\ phase = "grace"
  /\ phase' = "rejected"
  /\ UNCHANGED <<envVars, step, silent, seen, fatal, sample, retries, monitor, sigint>>

StepDone == step \in {"promoted", "failed"}

\* The step returned before the watch lost patience.
VerifyReturns ==
  /\ phase = "verify" /\ StepDone
  /\ phase' = IF step = "promoted" THEN "passed" ELSE "rejected"
  /\ UNCHANGED <<envVars, step, silent, seen, fatal, sample, retries, monitor, sigint>>

-----------------------------------------------------------------------------
(* cmdLaunch after the verification.                                        *)

\* The serving loop, from a new watch and with no sample.
Serve ==
  /\ phase = "passed"
  /\ phase' = "serve"
  /\ seen' = born /\ fatal' = FALSE /\ silent' = 0 /\ sample' = 0
  /\ UNCHANGED <<envVars, step, retries, monitor, sigint>>

\* Claude Code instead, with the health monitor.
ServeClaude ==
  /\ phase = "passed" /\ retries = 0
  /\ phase' = "session" /\ monitor' = "idle"
  /\ UNCHANGED <<envVars, step, silent, seen, fatal, sample, retries, sigint>>

Interrupt ==
  /\ ~sigint /\ phase \in {"serve", "crashed"}
  /\ sigint' = TRUE
  /\ UNCHANGED <<envVars, step, phase, silent, seen, fatal, sample, retries, monitor>>

-----------------------------------------------------------------------------
(* waitForShutdownCrashOrWedge.                                             *)

\* A signal waits in its channel while a replacement is started.
Shutdown ==
  /\ phase = "serve" /\ sigint
  /\ phase' = "shutdown" /\ alive' = FALSE /\ answers' = FALSE
  /\ UNCHANGED <<hung, used, lines, born, quiet, survived, step, silent, seen, fatal, sample, retries, monitor, sigint>>

Crashed ==
  /\ phase = "serve" /\ ~alive
  /\ phase' = "crashed"
  /\ UNCHANGED <<envVars, step, silent, seen, fatal, sample, retries, monitor, sigint>>

\* A tick at which nothing fatal was read, now or before: /health is not asked.
ServePollCalm ==
  /\ phase = "serve" /\ alive /\ ~fatal /\ seen = lines
  /\ quiet' = Later(quiet)
  /\ UNCHANGED <<alive, answers, hung, used, lines, born, survived, ggrunVars>>

\* The line is read: CPU time and memory are sampled before anything else.
NewLine == ~fatal /\ seen < lines
Sampled == IF NewLine THEN lines ELSE sample

MutServePollAnsweredKeepsSample ==
  /\ phase = "serve" /\ alive /\ (fatal \/ NewLine) /\ answers
  /\ seen' = lines /\ fatal' = FALSE /\ sample' = Sampled
  /\ used' = (used /\ ~NewLine)
  /\ silent' = 0 /\ quiet' = Later(quiet)
  /\ survived' = lines
  /\ UNCHANGED <<alive, answers, hung, lines, born, step, phase, retries, monitor, sigint>>

\* It answers: the failure was survived, or was no failure but a text.
ServePollAnswered ==
  /\ phase = "serve" /\ alive /\ (fatal \/ NewLine) /\ answers
  /\ seen' = lines /\ fatal' = FALSE /\ sample' = 0
  /\ used' = (used /\ ~NewLine)
  /\ silent' = 0 /\ quiet' = Later(quiet)
  /\ survived' = lines
  /\ UNCHANGED <<alive, answers, hung, lines, born, step, phase, retries, monitor, sigint>>

\* It does not: it is killed once it has neither answered nor worked for long enough.
ServePollSilent ==
  /\ phase = "serve" /\ alive /\ (fatal \/ NewLine) /\ ~answers
  /\ seen' = lines /\ fatal' = TRUE /\ sample' = Sampled
  /\ used' = FALSE /\ quiet' = Later(quiet)
  /\ LET idle == Readable /\ (NewLine \/ ~used)
         since == IF NewLine THEN 0 ELSE silent
     IN /\ silent' = IF idle THEN Later(since) ELSE 1
        /\ IF idle /\ since >= ConfirmAfter
             THEN phase' = "crashed" /\ alive' = FALSE
             ELSE UNCHANGED <<phase, alive>>
  /\ UNCHANGED <<answers, hung, lines, born, survived, step, retries, monitor, sigint>>

-----------------------------------------------------------------------------
(* The recovery of a crash while serving.                                   *)

\* The reserve is recorded and a plan that respects it is started; a fresh
\* backend is verified like the first.
Relaunch ==
  /\ phase = "crashed" /\ retries < Retries
  /\ phase' = "verify" /\ retries' = retries + 1
  /\ alive' = TRUE /\ answers' = TRUE /\ hung' = FALSE /\ used' = FALSE /\ quiet' = 0
  /\ born' = lines /\ survived' = lines
  /\ step' = "asking" /\ silent' = 0 /\ fatal' = FALSE /\ sample' = 0
  /\ UNCHANGED <<lines, seen, monitor, sigint>>

\* Not recognised as memory, killed by its scope, tried too often, no better plan.
Surrender ==
  /\ phase = "crashed"
  /\ phase' = "exited"
  /\ UNCHANGED <<envVars, step, silent, seen, fatal, sample, retries, monitor, sigint>>

-----------------------------------------------------------------------------
(* claudeHealthMonitor, whose stop cancels it and waits until it is done.   *)

\* A tick; also one that comes together with the cancellation.
MonitorLooks ==
  /\ monitor = "idle" /\ ~answers
  /\ monitor' = "looked"
  /\ UNCHANGED <<envVars, step, phase, silent, seen, fatal, sample, retries, sigint>>

MonitorJudges ==
  /\ monitor = "looked"
  /\ monitor' = IF phase = "session" THEN "dying" ELSE "ended"
  /\ UNCHANGED <<envVars, step, phase, silent, seen, fatal, sample, retries, sigint>>

\* onDied: the memory is sampled if the backend still holds it, and the log is
\* searched for what to record.
MonitorReports ==
  /\ monitor = "dying"
  /\ monitor' = "reported"
  /\ sample' = IF alive THEN lines ELSE 0
  /\ UNCHANGED <<envVars, step, phase, silent, seen, fatal, retries, sigint>>

MonitorEnds ==
  /\ monitor = "idle" /\ phase # "session"
  /\ monitor' = "ended"
  /\ UNCHANGED <<envVars, step, phase, silent, seen, fatal, sample, retries, sigint>>

\* Claude Code exits.
SessionOver ==
  /\ phase = "session"
  /\ phase' = "ending"
  /\ UNCHANGED <<envVars, step, silent, seen, fatal, sample, retries, monitor, sigint>>

SessionStops ==
  /\ phase = "ending" /\ monitor \in {"ended", "reported"}
  /\ phase' = "exited" /\ alive' = FALSE /\ answers' = FALSE
  /\ UNCHANGED <<hung, used, lines, born, quiet, survived, step, silent, seen, fatal, sample, retries, monitor, sigint>>

-----------------------------------------------------------------------------
Watches ==
  \/ VerifyPoll \/ VerifyStopped \/ VerifyGivenUp \/ VerifyReturns
  \/ Shutdown \/ Crashed \/ ServePollCalm \/ ServePollAnswered \/ ServePollSilent
  \/ MonitorJudges \/ MonitorReports \/ MonitorEnds \/ SessionStops

Backend == Works \/ PrintsFatal \/ Hangs \/ Dies

WatchNext ==
  \/ Backend \/ StepAnswered \/ StepEnds
  \/ Watches \/ Serve \/ ServeClaude \/ Interrupt
  \/ Relaunch \/ Surrender \/ MonitorLooks \/ SessionOver

\* The tickers go on ticking, whatever the backend does, and Stop has a deadline.
\* Nothing is assumed of the step: it may wait for an answer for ever.
WatchFairness == WF_watchVars(Watches)

-----------------------------------------------------------------------------
\* A backend that is merely slow is never stopped: a verification gives up, and
\* the serving watch kills, only what has exited, has printed a fatal line, or
\* has used no CPU during all the polls that were to confirm it.
SlowNeverStopped ==
  [][/\ phase = "verify" /\ phase' = "stopping"
          => ~alive \/ lines > born \/ quiet >= WedgedAfter
     /\ phase = "serve" /\ phase' = "crashed" /\ alive
          => seen' > born /\ quiet >= ConfirmAfter]_watchVars

\* The memory sample that a crash is judged by is never of a failure that the
\* backend survived, nor of the backend before it.
SampleOfThisFailure ==
  phase \in {"crashed", "rejected"} /\ sample # 0 => sample > survived

\* A launch is never left waiting on a backend that has exited, has aborted or
\* hangs: verification ends, although its step may wait for ever.
DeadIsNoticed ==
  phase = "verify" /\ (~alive \/ lines > born \/ (hung /\ Readable))
    ~> phase \in {"passed", "rejected"}

=============================================================================
