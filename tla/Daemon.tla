-------------------------------- MODULE Daemon --------------------------------
(* The control daemon: requests that start, stop and replace the one backend,  *)
(* each under the mutex from its first look at the process to its answer, and  *)
(* the end of the daemon on a signal (package daemon, cmdDaemon).              *)
EXTENDS ServerProcess

CONSTANTS
  Requests,    \* control requests, each sent once
  Configs,     \* what a backend can be started with
  ParentTied,  \* a backend dies with ggrun: parent death signal, scope watch, job
  None

ASSUME DaemonAssumption == ParentTied \in BOOLEAN /\ None \notin Starts

VARIABLES
  at,          \* where the handler of each request is
  asks,        \* what it was asked for
  new,         \* the start it has made
  process,     \* Daemon.process
  config,      \* Daemon.config
  runs,        \* what each start was made with
  main         \* how far cmdDaemon has come

daemonVars == <<at, asks, new, process, config, runs, main>>
allDaemonVars == <<procVars, daemonVars>>

Kinds == {"start", "stop", "reload"}
Inside == {"preparing", "entered", "stopping", "starting", "cleaning"}

\* d.mu is held by the handler inside, or by Close while it stops the process.
Locked == main = "stopping" \/ \E r \in Requests : at[r] \in Inside

DaemonTypeOK ==
  /\ at \in [Requests -> Inside \union {"out", "waiting", "answered"}]
  /\ asks \in [Requests -> [kind : Kinds, config : Configs]]
  /\ new \in [Requests -> Starts \union {None}]
  /\ process \in Starts \union {None}
  /\ config \in Configs
  /\ runs \in [Starts -> Configs]
  /\ main \in {"serving", "signalled", "stopping", "closing", "exited"}

DaemonInit ==
  /\ at = [r \in Requests |-> "out"]
  /\ config \in Configs
  /\ asks = [r \in Requests |-> [kind |-> "start", config |-> config]]
  /\ new = [r \in Requests |-> None]
  /\ process = None
  /\ runs = [s \in Starts |-> config]
  /\ main = "serving"

\* Processes are numbered in the order they are started.
Unused == {s \in Starts : backend[s] = "none" /\ \A t \in Starts : t < s => backend[t] # "none"}

Serves == process # None /\ IsRunning(process)
Up == main # "exited"

\* What /status and /config report.
Reported == [running |-> Serves, config |-> config]

\* A start uses what the daemon has, a reload what it was sent.
Wanted(r) == IF asks[r].kind = "reload" THEN asks[r].config ELSE config

MoveTo(r, place) == at' = [at EXCEPT ![r] = place]
Answered(r) == MoveTo(r, "answered")

-----------------------------------------------------------------------------
(* A handler.                                                              *)

\* An authorised request, which then waits for the mutex.
Arrive(r) ==
  /\ at[r] = "out" /\ main \in {"serving", "signalled", "stopping"}
  /\ MoveTo(r, "waiting")
  /\ \E k \in Kinds, c \in Configs :
       (k # "reload" => c = asks[r].config) /\ asks' = [asks EXCEPT ![r] = [kind |-> k, config |-> c]]
  /\ UNCHANGED <<procVars, new, process, config, runs, main>>

\* handleReload reads its body and computes the placement under the mutex.
Enter(r) ==
  /\ at[r] = "waiting" /\ ~Locked /\ Up
  /\ MoveTo(r, IF asks[r].kind = "reload" THEN "preparing" ELSE "entered")
  /\ new' = [new EXCEPT ![r] = None]
  /\ UNCHANGED <<procVars, asks, process, config, runs, main>>

\* The body is whole, or its connection is broken, and the placement is computed. The
\* client decides when, and the tools that are asked about the hardware and the
\* backend: the server has no read timeout, and those run without one.
Prepared(r) ==
  /\ at[r] = "preparing" /\ Up
  /\ MoveTo(r, "entered")
  /\ UNCHANGED <<procVars, asks, new, process, config, runs, main>>

\* Answered with an error before anything was changed: already running, not
\* running, a body or a placement that cannot be used.
Refuse(r) ==
  /\ at[r] = "entered" /\ Up
  /\ \/ asks[r].kind = "start" /\ Serves
     \/ asks[r].kind = "stop" /\ process = None
     \/ asks[r].kind = "reload"
  /\ Answered(r)
  /\ UNCHANGED <<procVars, asks, new, process, config, runs, main>>

\* handleStop, and handleReload while a backend runs, call Stop.
BeginStop(r) ==
  /\ at[r] = "entered" /\ Up
  /\ \/ asks[r].kind = "stop" /\ process # None
     \/ asks[r].kind = "reload" /\ Serves
  /\ MoveTo(r, "stopping")
  /\ IF stop[process] = "no" THEN StopBegins(process) ELSE UNCHANGED procVars
  /\ UNCHANGED <<asks, new, process, config, runs, main>>

\* Its error leaves the process in place; once it has succeeded, a stop is
\* answered and a reload goes on to start.
Stopped(r) ==
  /\ at[r] = "stopping" /\ StopReturned(process) /\ Up
  /\ IF stop[process] = "failed"
       THEN Answered(r) /\ UNCHANGED process
       ELSE /\ process' = None
            /\ MoveTo(r, IF asks[r].kind = "stop" THEN "answered" ELSE "entered")
  /\ UNCHANGED <<procVars, asks, new, config, runs, main>>

Begin(r, s) ==
  /\ at[r] = "entered" /\ ~Serves /\ asks[r].kind # "stop" /\ Up
  /\ Spawn(s)
  /\ MoveTo(r, "starting")
  /\ new' = [new EXCEPT ![r] = s]
  /\ runs' = [runs EXCEPT ![s] = Wanted(r)]
  /\ UNCHANGED <<asks, process, config, main>>

\* The scope is refused or the command cannot be started.
CannotSpawn(r) ==
  /\ at[r] = "entered" /\ ~Serves /\ asks[r].kind # "stop" /\ Up
  /\ Answered(r)
  /\ UNCHANGED <<procVars, asks, new, process, config, runs, main>>

\* waitReady has seen it ready; only now do process and config change.
Ready(r) ==
  /\ at[r] = "starting" /\ backend[new[r]] = "serving" /\ Up
  /\ process' = new[r]
  /\ config' = Wanted(r)
  /\ Answered(r)
  /\ UNCHANGED <<procVars, asks, new, runs, main>>

MutNotReadyLeft(r) ==
  /\ at[r] = "starting" /\ backend[new[r]] # "serving" /\ Up
  /\ Answered(r)
  /\ UNCHANGED <<procVars, asks, new, process, config, runs, main>>

\* It exits during startup, or the timeout passes: it is stopped again.
NotReady(r) ==
  /\ at[r] = "starting" /\ backend[new[r]] # "serving" /\ Up
  /\ StopBegins(new[r])
  /\ MoveTo(r, "cleaning")
  /\ UNCHANGED <<asks, new, process, config, runs, main>>

\* The error of this Stop is dropped, and so is the new process.
Cleaned(r) ==
  /\ at[r] = "cleaning" /\ StopReturned(new[r]) /\ Up
  /\ Answered(r)
  /\ UNCHANGED <<procVars, asks, new, process, config, runs, main>>

-----------------------------------------------------------------------------
(* The end of the daemon.                                                  *)

Signal ==
  /\ main = "serving"
  /\ main' = "signalled"
  /\ UNCHANGED <<procVars, at, asks, new, process, config, runs>>

\* Close takes the mutex and stops the process, whatever comes of it; then the
\* control API is closed, and requests that waited for the mutex go on.
BeginClose ==
  /\ main = "signalled" /\ ~Locked
  /\ main' = "stopping"
  /\ IF process # None /\ stop[process] = "no" THEN StopBegins(process) ELSE UNCHANGED procVars
  /\ UNCHANGED <<at, asks, new, process, config, runs>>

MutEndCloseOnSuccess ==
  /\ main = "stopping"
  /\ process # None => stop[process] = "done"
  /\ process' = None
  /\ main' = "closing"
  /\ UNCHANGED <<procVars, at, asks, new, config, runs>>

EndClose ==
  /\ main = "stopping"
  /\ process # None => StopReturned(process)
  /\ process' = None
  /\ main' = "closing"
  /\ UNCHANGED <<procVars, at, asks, new, config, runs>>

Exit ==
  /\ main = "closing"
  /\ main' = "exited"
  /\ UNCHANGED <<procVars, at, asks, new, process, config, runs>>

-----------------------------------------------------------------------------
Runs(s) ==
  /\ \/ BecomesReady(s) \/ Exits(s) \/ OutOfMemory(s)
     \/ Monitor(s) /\ Up
     \/ StopEnds(s) /\ Up
  /\ UNCHANGED daemonVars

Handles(r) ==
  \/ Enter(r) \/ Refuse(r) \/ BeginStop(r) \/ Stopped(r)
  \/ (\E s \in Unused : Begin(r, s)) \/ CannotSpawn(r)
  \/ Ready(r) \/ NotReady(r) \/ Cleaned(r)

DaemonNext ==
  \/ \E r \in Requests : Arrive(r) \/ Prepared(r) \/ Handles(r)
  \/ Signal \/ BeginClose \/ EndClose \/ Exit
  \/ \E s \in Starts : Runs(s)

\* A signal reaches a backend that is stopped; what ties it to ggrun reaches one
\* that ggrun has left behind.
Signalled(s) ==
  /\ stop[s] = "begun" \/ (ParentTied /\ ~Up)
  /\ Exits(s) /\ UNCHANGED daemonVars

\* Handlers run code or calls that end, but for Prepared, to which no fairness is
\* given; the mutex is handed to waiters that starve; Stop and the readiness poll
\* have deadlines, and systemctl answers them.
DaemonFairness ==
  /\ \A r \in Requests : SF_allDaemonVars(Enter(r)) /\ WF_allDaemonVars(Handles(r))
  /\ SF_allDaemonVars(BeginClose) /\ WF_allDaemonVars(EndClose) /\ WF_allDaemonVars(Exit)
  /\ \A s \in Starts : /\ WF_allDaemonVars(Signalled(s))
                       /\ WF_allDaemonVars(StopEnds(s) /\ Up /\ UNCHANGED daemonVars)

-----------------------------------------------------------------------------
\* Two backends never hold the devices at once, whatever requests meet; and between
\* requests none runs but the one the daemon knows, with the configuration that
\* /status reports, also after a start or a reload that failed half-way. One that
\* has outlived its own stop is excepted.
OneKnownBackend ==
  LET held == {s \in Alive : stop[s] # "failed"} IN
  /\ Cardinality(held) <= 1
  /\ ~Locked /\ Up => /\ held \subseteq {process}
                      /\ Reported.running => runs[process] = Reported.config

\* After a signal the daemon ends, and nothing it started outlives it for ever,
\* a request that was waiting for the mutex when Close took it included. Only a
\* reload that is never prepared can prevent that, since its client does not end
\* the body or a tool hangs: it holds the mutex, so Close never takes it, and the
\* process is not even stopped.
HeldUp(r) == main = "signalled" /\ at[r] = "preparing"
ShutdownEnds ==
  main = "signalled" ~> \/ main = "exited" /\ Alive = {}
                        \/ \E r \in Requests : []HeldUp(r)
=============================================================================
