# TLA+ models of ggrun

ggrun plans how a llama.cpp backend is placed on a machine, launches it,
verifies it, serves it, and puts a local router in front of it for coding
agents. These modules model the parts of the Go code (and of one C library)
whose correctness depends on the order in which things happen: several
processes, goroutines or threads, failures, kills, and records that outlive the
process that wrote them; and the parts of its planner whose arithmetic is hard
to get right. Source paths below are relative to the repository; `PROJECT.json`
maps every definition to its lines.

To check a run: `tlc -config Router.cfg MCRouter.tla`; to check the proofs:
`tlapm SchedulerProofs.tla`, and likewise for the other `*Proofs` modules.

## Inventory

| component | state | operations | hard behaviour | what makes it correct |
| --- | --- | --- | --- | --- |
| Admission scheduler (`go/pkg/claudeauto/scheduler.go`) | `active`, `prefill`, the queue, the last turns and prompt sizes of conversations | acquire, promote, cancel, first token, release | one goroutine per request, cancellation against promotion, starvation | slots and prefills counted exactly, no lost wakeup, cold prompts alone, lanes and fair share |
| Request router (`go/pkg/claudeauto/claudeauto.go`, `reviewer_fallback.go`) | published counters, the scheduler | route, try the reviewer, repeat on the main model, serve | a reviewer that fails at any point, clients that leave, panics through deferred calls | one answer per request, reviews not passed by work, every request ends |
| Launch profile store (`go/pkg/controller/profile.go`) | one record per scope in a file, a lock file | begin, transition, revoke, all through `update` | several ggrun processes, kills, stale locks, failed writes | updates act one after the other, the last known good is kept |
| Launch lifecycle (`go/cmd/ggrun/main.go`, `go/pkg/placement/verified.go`) | the active profile, the verified config, the `.place` file; retries and rejected argvs of the process | plan, start, verify, save, serve, revoke, retry, relaunch | memory failures at any stage, kills between two saves or removals | nothing unproven is saved, nothing disproved is trusted, no blind retry, it comes to an end |
| Start of a main model (`go/cmd/ggrun/preflight*.go`, `main.go`) | what the launch has learnt: rejected plans, contexts refused and admitted, measured deficits | measure, replan, load, recover | nine ways round the loop, each with a limit of its own | it ends, no rejected plan is loaded again, the context ceiling follows measurements |
| Admission work budget (`go/cmd/ggrun/launch_work.go`) | loads spent, deadline, grants | begin a load, grant one more | converging preflights | loads bounded |
| Calibration (`go/cmd/ggrun/calibrate*.go`) | what serves, time left, what was measured | stop, start exactly, measure, release, restore | failures while nothing serves, an emergency deadline | the service is restored in time, a decision describes what serves |
| Autotuner (`go/pkg/tune`) | the server being measured, the tune file | measure the default, a candidate a round, confirm, save | kills between progress saves, failed saves | only confirmed winners of a finished tune |
| Allocation guard (`native/memguard/memguard.c`) | charged bytes, the table of allocations | allow, record, unrecord | threads of the backend between check and charge | the limit binds, the charge covers what is resident |
| Backend watchdog and supervision (`go/cmd/ggrun/backend_watchdog.go`, `claude_health_monitor.go`) | silence and CPU time, the memory sampled at a fatal line | poll, stop, abandon, replace | a hang, a slow prompt, an abandoned step, a crash hours after a warning | the slow are left alone, the dead are noticed, evidence is of the failure it is used for |
| Control daemon, server process (`go/pkg/daemon`, `go/pkg/server`) | the process and its scope, the configuration reported | start, reload, stop, signal | a reload whose second half fails, unkillable backends | one known backend, evidence read before it is reset, the daemon ends |
| Backend updates (`go/pkg/update/update.go`, `go/cmd/ggrun/backend_update.go`) | build, staging, backup and archive directories, the record of forks | build, validate, promote, walk back, roll back | kills between renames, renames that fail | a working build is in place, the record names what is there |
| Self-update (`go/pkg/update/update.go`) | the installed program and its backup | copy, pull, install, check, restore | a running program that cannot be overwritten, errors of copies that are ignored | unless a copy fails some program works; success means that the new one does |
| Placement planner (`go/pkg/placement/placement.go`) | none | place experts, fit the context, derate | interacting cost terms, measurements that change between two reads | no device overcommitted, the best context is taken, a derate frees what was missing |
| Placement optimizer and caches (`go/pkg/placement`) | reserve and prompt files, a lock file | rank, read, write | the lock of the profile store | not modelled |
| Claude sessions (`go/pkg/claudesession`, `go/cmd/ggrun/claude_resume*.go`) | a record of each session; transcripts and run journals are Claude Code's | record, open again, attach, record at exit | a conversation that has grown since, kills before the exit record, two clients of one session | what is opened fits, the newest run goes on |
| Usage index, model library (`go/pkg/modelusage`, `libhub`, `models`) | small JSON files | read, write | concurrent writers | not modelled |
| Detection, recommendation, benchmarks, advisor, TUI, configuration, downloads | none shared | read, score, show | I/O | not modelled |

How they interact: a **launch** asks the **planner** for an argv, lets the
**preflight** try it under the **guard** within the **work budget**, starts the
**server process**, has the **watchdog** watch every verification step, may
**calibrate** what serves, and records what it learned in the **profile store**
and the placement caches, which steer the next launch; a launch also takes flags
from the file of the **autotuner**. While it serves, the **router** sends each
HTTP request to the small reviewer model or, through the **scheduler**, to the
main model. The **daemon** keeps a backend without any of this. **Updates** change
the programs under all of them.

## Modules

| module | models | extends or instantiates |
| --- | --- | --- |
| `Admission` | what the scheduler promises, without queue or counters | |
| `Scheduler` | `scheduler.go` | instantiates `Admission` |
| `SchedulerFairShare` | the scheduler observed by history variables | extends `Scheduler` |
| `SchedulerProofs` | theorems about the scheduler and fair share | extends `SchedulerFairShare` |
| `Router` | the handler of `/v1/messages` | extends `Scheduler` and uses its actions |
| `RouterProofs` | theorems about the router | extends `Router` and `SchedulerProofs` |
| `ProfileRecord` | the operators of the record: begin, transition, revoke | |
| `ProfileLedger` | what the store promises: atomic calls on one record | extends `ProfileRecord` |
| `ProfileStore` | `Store.update` and the launches that call it | instantiates `ProfileLedger` |
| `ProfileStoreProofs` | theorems about the store | extends `ProfileStore` |
| `LaunchLifecycle` | launches of one scope, one after the other | |
| `LaunchLifecycleProofs` | theorems about the lifecycle | extends `MCLaunchLifecycle` |
| `AdmissionWork` | the budget of an admission, as operators on a record | |
| `MemoryRecovery` | which plans a launch has rejected | |
| `StartAdmission` | the admission loop | extends the two above |
| `ContextLimits` | what a launch learns of contexts | |
| `Calibration` | the experiment on what serves | |
| `MemGuard` | `memguard.c` | |
| `ServerProcess` | a backend started and stopped by package `server` | |
| `Daemon` | the control daemon | extends `ServerProcess` |
| `BackendWatch` | the three watches over a backend | |
| `BuildPromotion` | update of the generic builds | |
| `BackendBuilds` | update and rollback of a registered fork | |
| `SelfUpdate` | update of ggrun itself | |
| `Autotuner` | `ggrun tune` and the file launches read | |
| `ClaudeSessions` | records of Claude sessions and their resumption | |
| `ExpertPlacement` | `buildMoEOffload` | |
| `ContextFit` | `computeAutomaticContextStrategy` | |
| `MemoryDerate` | the next argv after a memory failure | |
| `AdmissionProofs` | theorems about the start of a model: the loop, contexts, the experiment, the guard | extends `MCAdmission` |
| `SupervisionProofs` | theorems about processes, the daemon and the watches | extends `MCSupervision` |
| `MaintenanceProofs` | theorems about updates, the tuner and sessions | extends `MCMaintenance` |
| `PlannerProofs` | theorems about placements, contexts and derates | extends `MCPlanner` |
| `MC*` | constants and symmetry sets for TLC, and the modules that put several scenes into one run | |

`MCSupervision`, `MCAdmission`, `MCMaintenance` and `MCPlanner` choose at the start
of a behaviour one of several modules that share no state (`scene`, `part`) and
leave the variables of the others alone; each of their properties is about one
scene. Their theorems are about the composed specifications; lemmas
(`PartsApart`, `StepsApart`) say that a step of one scene leaves the others alone.
`MCLaunchLifecycle` chooses between the lifecycle as its constants say and
the instance `Quiet`, without kills, Claude sessions and experts.

Definitions named `Mut...` are deliberately wrong variants of the definition
they precede: with one put in its place, TLC refutes the property it is listed
with, which shows that the property depends on that code.

### Scheduler

A client is a handler goroutine: idle, parked in the queue, granted (promoted
but not running yet) or running. A critical section of `scheduler.mu` is one
step, except that the loop of `promoteLocked` takes a step per admitted waiter,
`promoting` holding the mutex. The window between being promoted and being
scheduled again is there (`granted`), because a context may end in it and the
slot must then be handed on (`CancelGranted`). Ages are ticks that saturate just
past the only distances the code compares (`agingAfter`, `fairShareWindow`).
`request`, `waiting`, `active`, `prefill`, `served` and `promptTokens` are the
fields of the same names (`served` is the map `recent` in its order of times).
The legacy `acquire`/`release` pair has callers in tests only and is left out.
A client is a client again after it has ended, so that the clients of an
instance are concurrent requests and not a number of requests.

### Router

A handler arrives with any request, tries the reviewer or goes to the main
model, counts itself as queued, asks the scheduler, counts itself as active,
proxies, and leaves by its deferred calls in their order; each counter is a step
of its own, because it is an atomic outside the scheduler's mutex. The two
backends are external. A reviewer that breaks off after a good header is
`httputil.ReverseProxy` panicking with `http.ErrAbortHandler`; its response was
withheld, so the client is sent nothing. The rewriting of bodies, the metrics
and the verdict's text are left out. Paths other than `/v1/messages` change no
state the model has.

### ProfileStore

One scope, hence one file. A process that calls `update` creates the lock file
(or finds it stale, removes it and tries again, or gives up), reads the record,
computes the change or refuses it, writes a temporary file, renames it into place and removes
the lock file, each a step that can fail and before each of which it may be
killed. A lock file may be found stale only when its creator has died: live
updates take milliseconds and staleness is two minutes. A launch runs the ladder
of `verifyAndActivateLaunch` with an argv of its own (any, the choice is made in
`Init`), or reuses the active
profile; a memory failure revokes. `ReadErrors` lets a read fail for a reason
other than the file being absent. Ids are the launches, metrics and reasons of a profile are left out,
the history has `HistoryCap` entries.

### LaunchLifecycle

An argv is a model value, and a plan is any argv, that of the verified config or
that of the `.place` file; a saved record may be passed over, because memory may
look different. The saves after verification, the three removals of
`invalidateRuntimeOOMLaunch` and the retries are steps in the code's order, and
with `Faults` ggrun may be killed between any two. `ClaudeCode` sessions notice a
memory failure through the log only (`SessionOOM`, `RecordSessionOOM`, and
`Recovered` at the next launch if ggrun was killed first). Left out: two launches
of one scope at once, calibration, the advisor's retry, the relaunch after
measured evidence, and the sizes of the reserves: recorded evidence influences
the next plan, which is any plan anyway. All transitions of the profile within
one verification are one step here and many in `ProfileStore`. `Replan` is
bounded by `MaxReplans`, which stands for the limits of the admission work
budget.

### MemGuard

One device. The mutex covers the check, the recording and the unrecording one by
one and never a whole call; the CUDA function in between is external, hands out
any free address and may refuse. With `Reuse` it may also hand out an address
whose free it has performed but whose `record_free` has not run yet, which is
what CUDA does; the run leaves it out, see "What does not hold". Bytes
are added up by counting them one by one, so that the sums can be reasoned about. The second
device class (host memory), calls nested inside CUDA and the event log are left
out.

### Daemon, ServerProcess

A start makes a `Process`: it spawns, waits for readiness or for the child's
end, and gives back the process or the reason it failed. `Stop` runs once,
whoever asks: it reads whether the kernel killed the scope for its memory
(`memoryLimitKill`) before it resets the failed unit, asks the group to end,
waits, kills, and returns an error if even that did not help (`Unkillable`). The
daemon serves a request under its mutex from the first look at the process to
the answer; a signal closes it, which needs the same mutex. A reload also reads its
body and computes the placement under the mutex (`daemon.go:211-241`): in the model
it is `preparing` until `Prepared`, a step nothing obliges to happen. `Reported` is
what `/status` would answer. Logs, ports and the rest of the HTTP layer are left out.

### BackendWatch

Time is counted in polls. A step (canary, warm-up, verification) runs in its own
goroutine; the watch ends it when the backend is dead, or has neither printed nor
used CPU time for `WedgedAfter` polls, and abandons the goroutine when it does
not come back in its grace. While serving, a fatal line has memory sampled and is
only a suspicion until the backend dies or stays idle for `ConfirmAfter`; a crash
starts a replacement within its retries. What the backend does (prints, works,
hangs, dies) is its own choice at any time.

### StartAdmission, AdmissionWork, MemoryRecovery, ContextLimits

An admission measures a plan with a bounded probe, replaces it while it does not
fit, loads it, and replaces it again when the load runs out of memory. What
probes, planners and loads answer is open, so that every sequence of answers is
covered; a planner may propose any plan, a rejected one too, and it is the code's
checks that keep it out. The loop's limits (`MaxReplans`, `MaxConverging`,
`MaxRetries`, the loads and the window of `AdmissionWork`) are the code's, with
smaller values. `ContextLimits` is the part of the recovery state that is about
contexts, in granules: refusals, the shortest context admitted, priced cuts, and
the candidates the ceiling is chosen from.

### Calibration

Time left is a variable that every step may use up, in units of what
`calibrate_cost.go` reckons for it. What serves is measured, stopped with the
advisor's memory released, replaced by exact candidates, and the better plan or
what served before is brought back within the restart window. The choice of
candidates and of the winner by measurements is open.

### BuildPromotion, BackendBuilds, SelfUpdate

A directory is absent, or a build of a commit that works or not; commits are
numbers. Each rename, removal and record is a step, which may fail where the code
has a branch for it, and ggrun may be killed between any two. Compiling,
downloading and checking are external: they succeed or fail.

`SelfUpdate` has the three ways ggrun replaces itself. From its checkout and by the
installer of a release the program is first copied to `.bak` (`Secure`, `Secured`);
on Windows it is moved aside (`MoveAside`). A copy is two steps, since `cp` empties
its target before it writes it: in between the target is torn, and it stays so when the
write fails. The code ignores these errors, those of the reset of the checkout and
of removals, and only prints that of the restoring rename; the model takes every such
step both ways and notes in `dropped` what has failed unnoticed, so that
`ProgramKept` can say what then is no longer promised. An update removes its `.bak`
or fails to, whatever became of the copy back. `busy` says that the installed program
runs and its file cannot be written, which is what saves it from a bad copy; without
it, as where another ggrun updates, the file is overwritten in place. The installed
program is taken to work when an update begins.

### Autotuner

A measurement is a speed and, for agents, the slowest turn, and differs each time
it is taken. The rounds after the planned ones ask the model for a candidate,
which takes the default's server up again. Each save of the tune file may fail
without being noticed and may leave it unparsable. `cache.json` is left out,
because nothing but the tune's own tests reads it.

### ClaudeSessions

A conversation is as large as its next turn sends, which Claude Code compacts to
its slot; runs of workflows are numbered. A launch that opens a session plans
again for its size when it can (`ensureResumeContext`) and is refused by
`shapeMismatches`; one that finds a backend on the recorded port attaches to it.
At exit a fresh session is recorded whole and a resumed one only by its run. A
kill takes the backend along, and a record may fail to be written.

### ExpertPlacement, ContextFit, MemoryDerate

`ExpertPlacement` places layers and their experts on GPUs with the costs the code
charges: dense parts, cache, head, shared experts, buffers that come with the
first layer or expert of a device, checkpoints, and the host's share. Exact costs
per layer in whole MiB, the slot rule of llama.cpp (not the byte walk of ik),
one owner policy. Sums are counted unit by unit (`Total`) and the order of filling is a
place of each GPU (`Place`), which says the same as the sorted list of the code. Left out: `ForceMMap`, the bandwidth policy, token embeddings,
pins below a layer (the code disables them). `ContextFit` tries residency tiers,
cache types, slots and cache placements in the code's order and halves the
interval of contexts for each; whether a context fits is open, monotone in the
context except that a measurement may change between two looks
(`MaxContradictions`). `MemoryDerate` takes layers from a device, lowers the
micro-batch, or accepts a new plan, by the code's comparisons.

## Runs

| run | instance | shows |
| --- | --- | --- |
| `scheduler_phase` | 3 clients, 1 conversation and the anonymous one, sizes unknown/small/long, 2 slots, phase-aware | cold prompts apart, no lost wakeup, `ImplementsAdmission`, every parked append is promoted |
| `fair_share` | 3 clients, 3 conversations, 1 slot, window and cap of 2 | one turn per conversation apart from aging |
| `router` | 3 requests of every kind, 1 slot, reviewer seated, fair | one answer, published counters within the limit, reviews not overtaken, every review ends |
| `profile_store` | 2 launches, 2 argvs, one kill, history of 1 | one writer, only verified profiles active, last known good kept, `ImplementsLedger` |
| `profile_store_broken` | 3 launches, one kill | **violated**: an observation is lost after a stale lock is removed twice |
| `launch` | 3 argvs; a mixture of experts in Claude sessions with kills anywhere, or a quiet launch | only plans that were active are saved; no disproved argv is trusted by a quiet launch; none is retried by the process it failed; every launch comes to serve or to end |
| `launch_claude` | Claude sessions, 2 argvs | **violated**: a disproved verified config is replayed |
| `start_admission` | 3 plans (one drafting), 2 admissions, one of each retry; contexts up to 12 granules; the guard with 2 threads, 3 addresses, sizes 1 and 2, limit 3, table of 2; an experiment of 3 candidates in 12 units of time | the admission ends and loads no rejected plan; the ceiling follows measurements; the service is restored in time and its decision is its own; the guard's overshoot is bounded and its charge covers what is resident |
| `supervision` | daemon: 2 requests, 2 configurations, 2 starts, scoped and unkillable backends, a signal; watches: 2 polls, 2 fatal lines, 1 replacement | evidence kept, one known backend, samples of the failure at hand, the slow not stopped, the dead noticed, the daemon ends unless a reload in its mutex never gets prepared |
| `maintenance` | 2 builds, 3 commits, 3 updates; 4 updates and rollbacks of a fork; 2 self-updates of each kind; 2 tunes of 2 rounds; 1 Claude session, 2 ggruns, 2 ports, 2 sizes of slot; kills and failures anywhere | one good build, a failed build leaves the others alone, the record is true, a program works unless a copy of it failed, finished tunes name confirmed winners, a session opened again fits and goes on with its newest run |
| `fork_update` | as before, the same failure twice | **violated**: a refused build stays active |
| `planner` | 3 GPUs, 4 layers with uneven experts, 3 sizes of memory, 2 bandwidths; 3 granules of context, 2 slots, 2 cache types; 2 devices, 3 expert layers, 2 failures | no device overcommitted, the host holds what is left to it, the best context is taken, a derate frees what was missing |

Why these bounds are enough to be interesting. Three clients on two slots are the
fewest for which one holds, one prefills and one is parked while a fourth role
(a promoted client that has not run) is taken by any of them; three prompt sizes
are the classes the code tells apart, and one conversation with a name beside the
anonymous one makes a bounded append. Fair share needs a third conversation for a
turn to be compared with two others; two ticks of window and a cap of two make
expiry and pruning happen. Two launches contend for the lock file and for each
other's candidates; three are needed for two to remove a third's stale lock. Two
argvs suffice wherever only "this one or another" matters; three let a retry
differ both from the failed and from the saved one. Three plans are one that
failed, one the planner comes back to, and a way out; every limit of the loop is
reached. Two threads, a table of two and three addresses fill the table; with a
limit of 3 and sizes of 1 and 2 the guard denies, permits exactly, and is
overrun. Twelve units of time let an experiment run out at every step and also
finish. Two requests meet in the daemon's mutex while a signal waits; two polls
tell a pause from silence. Three commits let an update walk back past a bad one
and meet a backup of an earlier one. Speeds one apart count as equal and speeds
two apart do not, so that a win may be provisional, refuted or confirmed. Two
ports let a session be served twice at once; a slot of 5 is planned only for a
conversation that fills the larger of the two usual ones. Three
GPUs let an expert-only device stand beside two owners, and sizes are chosen so
that each may hold nothing, a part, or all. `CHECK_DEADLOCK FALSE` stands where
the system stops by itself: processes end, updates are bounded, plans are done.

## Fairness

*Scheduler and router.* Weak fairness of the promotion loop (a loop without
blocking calls), of the clock, of a granted goroutine's resumption (it is
runnable) and of every step a handler takes on its own. Strong fairness of the
operations that take `scheduler.mu` (`Release`, `Ask`), which is enabled only
while nobody else holds it: `sync.Mutex` hands itself to a waiter starved for a
millisecond. A call to a backend ends, because the backend answers, fails or is
killed by its watchdog; hence weak fairness of leaving. Nobody is made to send
requests, to give up, or to produce a first token.

*Launch lifecycle.* Weak fairness of the steps ggrun takes by itself, which are
sequential code and calls with timeouts. None for serving, for memory failures,
for kills, or for the user starting ggrun again.

*Start admission.* Weak fairness of the loop, one goroutine whose every external
call has a timeout.

*Supervision.* Weak fairness of the polls (a ticker), of the steps of a start and
of a stop (each wait in them is bounded), and strong fairness of taking the
daemon's mutex. None for what the backend does: it may hang for ever, and that is
what `DeadIsNoticed` is about. None for `Prepared` either: `handleReload` decodes
its client's body after it has taken the mutex, the `http.Server` has no read timeout
(`daemon.go:103`), and `nvidia-smi` and the backend's `--help`, which the placement
asks, are run without one (`detect.go:108`). `ShutdownEnds` therefore names the one
exception, a reload that holds the mutex in that step for ever. `systemctl` and the
starting of a process are taken to return.

The other specifications have safety properties only and no fairness.

## Findings

Three statements of the repository are refuted by runs; `PROJECT.json` quotes
them.

1. `profile_store_broken`: of two processes that find the same stale lock file the
   slower removes the lock of the faster (`profile.go:284`).
   `placement/fsatomic.go:67` has the same protocol.
2. `launch_claude`: a memory failure in a Claude session revokes nothing
   (`main.go`, `recordRuntimeOOMLog`).
3. `fork_update`: the directory for refused builds has one name per commit, and a
   second refusal can move nothing (`backend_update.go:260`).

### What does not hold

Met while modelling; no run is kept for them, and the properties above are stated
so as not to claim it.

- The phase-aware policy skips a cold request while admissible appends keep
  coming, though it has aged (`scheduler.go:319`). It also skips a review that is
  not admissible yet and lets bulk work past it, so `SafetyNotOvertaken` is checked
  on the counting policy.
- One turn per conversation is `WaitsOneFairTurnEach` because aging brings requests
  of one conversation forward several times (`scheduler.go:359`).
- A reviewer that breaks off after a good header takes the request down with it
  (`reviewer_fallback.go:230`), though `claudeauto.go:737` wants reviews never to
  depend on it.
- With `Reuse`, `record_free` returns the charge of the next owner of an address
  (`memguard.c:346`): the charge falls below what is resident. And the limit binds
  only up to what other threads are allocating at the moment (`memguard.c:183`),
  which is what `OvershootBounded` says.
- `LastKnownGoodKept` assumes that a record that is there can be read, since a read
  error counts as an empty record (`profile.go:231`). `SavedWasActive` assumes that
  checkpoints do not turn out larger than planned, because the refresh after
  verification saves a degraded plan too (`main.go:7453`). Of the `.place` file
  nothing is claimed: a plan restored from the verified config names none, so
  revoking it leaves the file behind (`main.go:7955`).
- A kill or an error between the removals of a revocation leaves the later records to be
  replayed (`main.go:7944-8008`); `ServedNotTrusted` is about quiet launches, in which
  there is neither.
- Speculation that an admission has switched off comes back when a plan is
  recovered, because the options are rebuilt from the request
  (`preflight_recovery.go:647`, `:1197`).
- `automaticContextCeiling` does not only ratchet down, as its comment says
  (`preflight_recovery.go:433`): an admission at or above the shortest refusal
  makes up for it and lifts the ceiling again.
- The experiment ends with nothing serving, on purpose, when the advisor's memory
  is not released (`calibrate.go`).
- A tune that is killed, or whose last save fails, leaves a file that names a
  provisional winner (`tune.go:264`), and launches do not look at its `complete`
  (`tune.go:375`, `picker.go:41`). The comment at `engine.go:241-247` says AI-tune
  "never caches — and the launcher never silently applies — a config that is slower
  than the default on every future launch". `WinnerConfirmed` is therefore about
  finished tunes. A tune that is started again also overwrites a finished file
  with an unfinished one at its first measurement.
- The record of a Claude session keeps the slot of its first launch
  (`claude_resume.go:437`), and `shapeMismatches` measures the conversation only
  against a smaller one (`claudesession.go:279`): a conversation that grew in a
  larger slot is opened in one it does not fit. The comment at `claude_resume.go:90`
  says a launch is refused "only when the proposed launch cannot hold the recorded
  conversation"; `ResumedFits` leaves such sessions out, as it does those opened on
  a backend that runs already, where nothing is measured (`claude_resume.go:335`).
- After a kill the record names no run or an older one, and the older one is then
  preferred to the newest (`claude_resume.go:134`), which `ggrun claude resume` has
  just announced (`:616`). `portServesLLM` takes any HTTP answer for a backend.
- A promotion that was interrupted while both builds were there makes later updates
  refuse (`update.go:1889`). For one that left no active build `promoteBackendBuild`
  has a branch (`update.go:1885`, tested at `update_test.go:575`), but an update finds
  its targets by their active builds and does not get there. And an update whose
  pull brings nothing new reports every complete build as current, one of an older
  commit too that an earlier update failed to replace (`update.go:1621`).
- With memory mapping allowed and file-backed weights, when the experts left to the
  host exceed its memory and the memory is below the working-set floor, no branch
  of `placement.go:3754-3777` applies: the plan is admitted without `MMapRequired`;
  with all experts on GPUs the host is not checked; and the strict ceiling
  (`placement.go:3593`) omits the checkpoint reserve. `cachedMoEHostMemoryFits`
  would refuse such plans, and `main.go:3767` catches some of them later.
  `HostHolds` states what the branches do guarantee.
- `candidateRelievesFailedDevice` (`preflight_recovery.go:987`) accepts a plan with
  more experts on the host though those of the failed device may have grown; the
  argument rebuilt after a derate names CUDA devices even for Vulkan
  (`placement.go:4467`); pins below a layer are taken for whole layers; and the
  layers dropped are reckoned from an average cost. `DerateSuffices` is about the
  derate by layers and micro-batch under that average.
- A client that stalls in the body of a reload, or a tool that hangs while its
  placement is computed, keeps the daemon's mutex (`daemon.go:211-236`): `/status`,
  `/stop` and every other request wait, `Close` (`daemon.go:120`) does not get the
  mutex, and since `cmdDaemon` is inside `Close` and later signals only fill the
  channel, no further SIGINT or SIGTERM ends it. Without the disjunct `HeldUp`, TLC
  refutes `ShutdownEnds` with this behaviour.
- A self-update of the source or the release installer ignores a failed copy to
  `.bak` (`update.go:484`, `:703`) and a failed copy back (`:519`, `:534`, `:736`, `:745`), which
  leaves a torn program, and then removes the `.bak` (`:521`, `:536`, `:737`, `:746`): an
  update that fails on a full disk may leave no program that works. A reset that fails
  leaves the checkout ahead of the program (`:516`, `:531`). On Windows a restoring rename that fails
  is printed and the program stays beside its place (`:923`). `ProgramKept` excepts
  exactly these.
- A request that waits for the daemon's mutex when a signal closes it may still
  start a backend, which then dies with ggrun (`ParentTied`); an unkillable
  process's error is repeated by every later stop; and a verification step that was
  abandoned may still promote with the answers it already had.

## Proofs

All theorems hold for every value of the constants that meets the named
assumptions; further premises are stated in the theorem.

*Scheduler* (`SchedulerProofs`): types, `QueueHoldsTheParked`, `CountersExact`,
`SlotsRespected`, `ColdPromptsSerialize`, `NobodyParkedNeedlessly`, and
`Spec => ImplementsAdmission`, for any finite number of clients and conversations
and any limit, under either policy. The invariant `IInv` is the conjunction of
these with `ColdIsPhaseAware`. None of them is inductive alone: whether a counter permits
another admission (`CanAdmit`) says something about the requests only because the
counters are exact; the counters stay exact only because the queue holds each
parked client once, so that a client is promoted once; and that cold prompts
stay apart needs both the counters and the fact that only the phase-aware policy
calls a request cold. Each action has a lemma; `Entering` and `Leaving` say once
for all actions what one more or one less holder does to the counters; the first
lemmas are about `RemoveAt` and `Append` on a queue without repetitions. The
refinement maps the abstract sets to the clients by stage; each step is a step of
`Admission` or a stutter by `IInv`.

`SafetyFirst` adds `SafetyNotOvertaken` for the counting policy: there a safety
request is refused only when no slot is free, so no bulk request is promoted past
it; and in one walk over the queue, where every waiter is as admissible as the one
promoted, the order of lanes decides, which aging does not change for safety
requests (`LanesRank`, `PromotedBeforeBulk`). The phase-aware
policy makes no such promise: it skips a review that is not admissible yet.

*Fair share* (`SchedulerProofs`): `WaitsOneFairTurnEach` for one slot, one lane, any number
of clients and conversations, when aging comes no later than the fair-share
window ends (90 seconds and 5 minutes in the code) and no unexpired turn is forgotten.
Pruning keeps `recentCap` turns (256), so beyond that many conversations
a turn is forgotten early and its conversation may get a second one;
`TurnsAreRemembered` proves that up to that many it is not, and
`FewWaitOneFairTurnEach` puts the two together. `FairInv` adds to `IInv` what one turn
given since a client queued means (`Behind`): that turn is remembered later than any the
waiting client's own conversation had, so that the order prefers the waiting one until
it is served or the turn expires, and by then the client has aged.
The lemmas `MovedOrder`, `EndOrder` and `PrunedOrder` say what a release, a promotion and the
pruning do to the order in which turns are remembered.

*Router* (`RouterProofs`): `RouterSpec => Spec`, so every safety theorem about `Spec`, the
scheduler alone, holds in the router too (`ReviewsFirst` restates `SafetyFirst` there), and
`RouterTypeOK`, `PublishedWithinLimit` and `AnsweredOnce`. The refinement and the
invariant need each other: a handler's call of the scheduler is a step of it only
because the handler's place in the code says at which stage its request is
(`Placed`), and the counters that the status file publishes are those of the
handlers between their increments and decrements (`HandlersCounted`). `RInv` joins these
with `IInv` and with `AnsweredOnTime`, that a handler sends nothing before its response
begins, and then once.

*Profile store* (`ProfileStoreProofs`): with no death inside an update and
readable files, `OneWriter` and `Spec => ImplementsLedger`, for any number of
launches, argvs and any history cap. The invariant says that whoever is inside an
update owns the lock file that exists, and that the draft of a writer is still
what its call makes of the record on disk (`DraftIsCurrent`): that is what a rename
needs to be an atomic call of the ledger. The premises are those the
violated run shows to be necessary. `ActiveWasVerified` and `LastKnownGoodKept` under the
same premises add `Earned`: each launch asks only for the call its ladder has next, and
what is active belongs to a launch that climbed it to the top or is about to be told so;
that another launch's candidate is not promoted follows from the id the
draft was computed for, which is the draft on disk at the rename.

*Launch lifecycle* (`LaunchLifecycleProofs`): types and `NoBlindRetry` always;
`SavedWasActive` unless checkpoints grow, for every interleaving of kills and
failures, because what stands before a save was active (`AboutToSave`);
`VerifiedNotReplayed` and `CanaryNotSkipped` while ggrun serves the model
itself and is not killed, because a disproved record exists only between the
failure and its removal (`Disproved`). `NoBlindRetry` needs that whatever failed
in this process is refused in it or is the plan being revoked (`FailedIsRejected`).
`DisprovedNotTrusted` states the same of all the
launches of the run: what a quiet behaviour does is a behaviour of the instance
`Quiet`, for which the lemmas of `Disproved` are repeated (`QuietLaunch`,
`QuietKeeps`).

*Start of a model* (`AdmissionProofs`), for any plans, limits and costs.
`NeverRejectedAgain` follows from `PassedTheHead`: between the head of the loop and
the load the plan is one that was not rejected, because everything that rejects one
goes back to the head. `CeilingMeasured` needs `ContextInv`, how the four
contexts that are remembered lie to one another; the rest is the arithmetic of
rounding down to a step. `ServiceRestored` and `DecisionDescribesServing` are proved
from `ExperimentInv`, which says for each step what serves (`ServingInv`) and how much
time is left (`TimeInv`): an exact candidate is only begun with the time to
measure it, to release it and to restore, so whatever fails leaves the restart
window.

*Guard* (`AdmissionProofs`): `OvershootBounded` and `ChargeCoversResident` for any
number of threads, addresses and sizes and a table of any size, assuming that no
address is handed out before its charge is returned (`Reuse = FALSE`, as in the run;
without it the second is false, see above). Neither is inductive. `AddressInv` says
whose an address is at each moment of a call; `ChargeInv`, that the charge covers for
each address the larger of what the table holds of it, which will be returned, and
what is resident and recorded; `LimitInv`, that what is charged and what is on its way
exceed the limit by no more than the others' largest requests.

*Processes, daemon, watches* (`SupervisionProofs`), for any number of requests,
configurations and starts and any patience of the watches. `EvidenceKept`: as long as
nobody has stopped a process that was killed for its memory its unit still tells
(`EvidenceSomewhere`). `OneKnownBackend`: `KnownInv` says what a handler knows at each
of its steps, and that a stop that has returned was either successful or failed; it
needs that only one request is inside the mutex. `SampleOfThisFailure` and
`SlowNeverStopped`: a sample is younger than any line the backend survived
(`SampledLate`), and silence as the watch counts it is no longer than the
backend's own (`SilenceIsIdle`). `TypeOK` is proved too.

*Maintenance* (`MaintenanceProofs`), for any number of builds, commits, rounds,
sessions and clients. `OneGoodBuild` for a kill between any two steps
and a failure of any of them: the invariant says which of the directories a step holds
in its hands, and that what failed is as it was. `ProgramKept` for a kill between any two
steps too, and for failures as far as it goes: a copy to or from `.bak` that fails unnoticed is its
exception, and what it says of an update that failed depends on what was dropped. `ProgramInHand` says
what is still there at each step: unless its copy failed, `kept` is the program the update began
with, and a program that runs is in its place. `RecordIsTrue` when no commit is
refused twice (`Repeats = FALSE`, as in its run; the run `fork_update` shows
why): `WhereTheyAre` follows the builds through the renames while the run was not
killed. `WinnerConfirmed`: the winner in hand at the end of a tune has been measured
twice, or is the default. `ResumedFits` and `NewestRunResumed` need an invariant that
joins the records, the open clients and the conversations (`SessionsInv`): a
conversation is no larger than the slot of its record or of the client that is
going to record it, and the record that the only client of a session left, cleanly, names its newest
run or none.

*Planner* (`PlannerProofs`). `BestIsTaken` for any request, any list of cache types and
any answers of the planner, contradictory ones too: every combination before the
current one was passed over for a reason, and the halving keeps a fitting context
below and a refused one above (`FitInv`). `DerateSuffices` for any devices, layers, sizes
and sequence of failures: rounding up covers the deficit (`DivisionUp`), the layers
dropped are the last of the device's range (`ShrunkRange`), and the layers on the host
are those of no device (`DroppedToHost`), so both arguments go on agreeing.
`NoDeviceOvercommitted` and `HostHolds` for any costs, layers, links and memories, of up to 200
GPUs: with more, every share of the split might be rounded to no hundredth at all
(`SplitIsShared`). `PlacementInv` adds what the packing owes from one layer to the next: the
room left in a GPU and what the backend would load onto it never exceed together what it
has free (`PlanFits`), which holds for GPUs that hold nothing yet too, so that the
memory an owner gets back for shared experts moved elsewhere may be spent again; and the ranges,
in the order of the places, meet without a gap at the next layer (`RangesMeet`), so
what they leave is what was counted against the host. Neither is inductive alone, and both need
that every slot of the backend's rule falls to a GPU with a share (`EverySlotHasADevice`): a GPU
whose share was rounded to nothing owns no layer.

*Only model-checked*:
- the liveness properties (`EveryAppendServed`, `EveryReviewEnds`, `Settles`,
  `EveryAdmissionEnds`, `DeadIsNoticed`, `ShutdownEnds`): fairness and ENABLED are beyond
  the prover;
- the store with a death in an update: there `OneWriter` depends on which lock file is
  stale, and the run `profile_store_broken` shows the promise failing with three
  launches.

What the proofs changed in the models: two `CASE` expressions (the restoration after an
experiment, the counting of fair turns) had arms that overlapped, where TLC
takes the first and TLA+ leaves the choice open; they are disjoint now. The planner's
sums were folds over layers, about which nothing can be proved without an
induction over data; as the number of all units, laws of finite sets apply to them. Some
assumptions on constants that the instances met without saying so are stated.

## Not modelled

The components with status `not_modelled` in `PROJECT.json`, each with its reason.
In short: the optimizer, detection, recommendation and the benchmarks are
sequential computations over hardware data and are tested with tables; the TUI,
configuration, downloads and the model library are I/O; the
usage index and the placement caches are small files written whole, whose lock, where
there is one, is that of the profile store. Of the modelled components: two
launches of one scope at once (`main.go:6578`), the community's tunes, a context
cap below one granule (`placement.go:1518`), the models, argvs and router ports of
Claude session records, and the process of a failed restart in
`restartPlacement`, which it drops.

## Plan

1. Two launches of one scope at once, over `ProfileStore`.
2. The placement caches with their lock (`fsatomic.go`) and the growth recorder.
3. Dense and pipeline placements beside `ExpertPlacement`, and the draft companion.
4. Proofs: the store with a death in an update for two launches.
