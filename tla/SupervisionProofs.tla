-------------------------- MODULE SupervisionProofs --------------------------
(***************************************************************************)
(* Proofs about the two ways ggrun keeps a backend, for every number of    *)
(* starts, requests, configurations, polls, fatal lines and retries: what  *)
(* is known of an out-of-memory kill when Stop returns, which backend runs *)
(* under the control daemon and with what, which failure a memory sample   *)
(* is of, and what a watch may stop.                                       *)
(***************************************************************************)
EXTENDS MCSupervision, FiniteSetTheorems, TLAPS

\* One process keeps its backend in one way: a step is of the daemon, of the
\* watch, or of neither.
LEMMA StepsApart == Next => [DaemonNext]_allDaemonVars /\ [WatchNext]_watchVars
BY DEF Next, DaemonStep, LaunchStep

-----------------------------------------------------------------------------
(* Types. A handler that has started a backend knows which.                *)

Chosen == \A r \in Requests : at[r] \in {"starting", "cleaning"} => new[r] \in Starts

DaemonTyped == ProcTypeOK /\ DaemonTypeOK /\ Chosen

\* What can become of a backend in one step, once it is started.
ProcGoesOn(s) ==
  \/ Monitor(s) \/ StopBegins(s) \/ StopEnds(s)
  \/ BecomesReady(s) \/ Exits(s) \/ OutOfMemory(s)

ProcMoves(s) == Spawn(s) \/ ProcGoesOn(s)

LEMMA ProcStepTyped ==
  ASSUME ProcTypeOK, NEW s \in Starts, ProcMoves(s)
  PROVE  ProcTypeOK'
<1> USE DEF ProcTypeOK
<1>1. CASE Spawn(s)
  BY <1>1 DEF Spawn
<1>2. CASE Monitor(s)
  BY <1>2 DEF Monitor
<1>3. CASE StopBegins(s)
  BY <1>3 DEF StopBegins, Seen
<1>4. CASE StopEnds(s)
  BY <1>4 DEF StopEnds
<1>5. CASE BecomesReady(s) \/ Exits(s) \/ OutOfMemory(s)
  BY <1>5 DEF BecomesReady, Exits, OutOfMemory
<1> QED BY <1>1, <1>2, <1>3, <1>4, <1>5 DEF ProcMoves, ProcGoesOn

LEMMA HandlerTyped ==
  ASSUME DaemonTyped, NEW r \in Requests, Arrive(r) \/ Prepared(r) \/ Handles(r)
  PROVE  /\ (\E s \in Starts : ProcMoves(s)) \/ UNCHANGED procVars
         /\ DaemonTypeOK' /\ Chosen'
<1> USE DEF DaemonTyped, DaemonTypeOK, Chosen, MoveTo, Answered, Inside
<1>1. CASE Arrive(r)
  <2>1. PICK k \in Kinds, c \in Configs :
          asks' = [asks EXCEPT ![r] = [kind |-> k, config |-> c]]
    BY <1>1 DEF Arrive
  <2>2. asks' \in [Requests -> [kind : Kinds, config : Configs]]
    BY <2>1
  <2> QED BY <1>1, <2>2 DEF Arrive
<1>2. CASE Enter(r) \/ Prepared(r) \/ Refuse(r) \/ CannotSpawn(r) \/ Cleaned(r)
  BY <1>2 DEF Enter, Prepared, Refuse, CannotSpawn, Cleaned
<1>3. CASE BeginStop(r)
  <2>1. process \in Starts
    BY <1>3 DEF BeginStop, Serves
  <2> QED BY <1>3, <2>1 DEF BeginStop, ProcMoves, ProcGoesOn
<1>4. CASE Stopped(r)
  BY <1>4 DEF Stopped
<1>5. CASE \E s \in Unused : Begin(r, s)
  <2>1. PICK s \in Starts : Begin(r, s)
    BY <1>5 DEF Unused
  <2>2. Wanted(r) \in Configs
    BY DEF Wanted
  <2> QED BY <2>1, <2>2 DEF Begin, ProcMoves
<1>6. CASE Ready(r)
  <2>1. Wanted(r) \in Configs
    BY DEF Wanted
  <2> QED BY <1>6, <2>1 DEF Ready
<1>7. CASE NotReady(r)
  BY <1>7 DEF NotReady, ProcMoves, ProcGoesOn
<1> QED BY <1>1, <1>2, <1>3, <1>4, <1>5, <1>6, <1>7 DEF Handles

LEMMA DaemonStepMoves ==
  ASSUME DaemonTyped, [DaemonNext]_allDaemonVars
  PROVE  /\ (\E s \in Starts : ProcMoves(s)) \/ UNCHANGED procVars
         /\ DaemonTypeOK' /\ Chosen'
<1>1. CASE \E r \in Requests : Arrive(r) \/ Prepared(r) \/ Handles(r)
  BY <1>1, HandlerTyped
<1>2. CASE Signal \/ EndClose \/ Exit
  BY <1>2 DEF DaemonTyped, DaemonTypeOK, Chosen, Signal, EndClose, Exit
<1>3. CASE BeginClose
  <2>1. process # None => process \in Starts
    BY DEF DaemonTyped, DaemonTypeOK
  <2> QED BY <1>3, <2>1 DEF DaemonTyped, DaemonTypeOK, Chosen, BeginClose, ProcMoves, ProcGoesOn
<1>4. CASE \E s \in Starts : Runs(s)
  BY <1>4 DEF DaemonTyped, DaemonTypeOK, Chosen, Runs, ProcMoves, ProcGoesOn, daemonVars
<1>5. CASE UNCHANGED allDaemonVars
  BY <1>5 DEF DaemonTyped, DaemonTypeOK, Chosen, allDaemonVars, daemonVars
<1> QED BY <1>1, <1>2, <1>3, <1>4, <1>5 DEF DaemonNext

LEMMA InitDaemonTyped == Init => DaemonTyped
BY DEF Init, ProcInit, DaemonInit, DaemonTyped, ProcTypeOK, DaemonTypeOK, Chosen, Kinds, Starts

LEMMA StepDaemonTyped == DaemonTyped /\ [DaemonNext]_allDaemonVars => DaemonTyped'
<1> SUFFICES ASSUME DaemonTyped, [DaemonNext]_allDaemonVars PROVE DaemonTyped'
  OBVIOUS
<1>1. CASE \E s \in Starts : ProcMoves(s)
  BY <1>1, ProcStepTyped, DaemonStepMoves DEF DaemonTyped
<1>2. CASE UNCHANGED procVars
  BY <1>2, DaemonStepMoves DEF DaemonTyped, ProcTypeOK, procVars
<1> QED BY <1>1, <1>2, DaemonStepMoves

-----------------------------------------------------------------------------

\* The evidence of an out-of-memory kill is recorded, or still with systemd
\* because nobody has begun to stop the process, whose end resets the unit.
EvidenceSomewhere ==
  \A s \in Starts : backend[s] = "oomed" =>
    recorded[s] \/ (unit[s] = "failed" /\ stop[s] = "no")

EvidenceInv == DaemonTyped /\ EvidenceSomewhere

LEMMA ProcStepKeepsEvidence ==
  ASSUME ProcTypeOK, EvidenceSomewhere, NEW s \in Starts, ProcMoves(s)
  PROVE  EvidenceSomewhere'
<1> USE DEF ProcTypeOK, EvidenceSomewhere
<1>1. CASE Spawn(s)
  BY <1>1 DEF Spawn
<1>2. CASE Monitor(s)
  BY <1>2 DEF Monitor
<1>3. CASE StopBegins(s)
  BY <1>3 DEF StopBegins, Seen
<1>4. CASE StopEnds(s)
  BY <1>4 DEF StopEnds
<1>5. CASE BecomesReady(s) \/ Exits(s)
  BY <1>5 DEF BecomesReady, Exits
<1>6. CASE OutOfMemory(s)
  BY <1>6 DEF OutOfMemory
<1> QED BY <1>1, <1>2, <1>3, <1>4, <1>5, <1>6 DEF ProcMoves, ProcGoesOn

\* Whoever stops it and whenever, a backend that was killed for its memory
\* before anybody stopped it is known to have been when Stop returns.
THEOREM EvidenceIsKept == Spec => []EvidenceKept
<1>1. Init => EvidenceInv
  BY InitDaemonTyped DEF EvidenceInv, EvidenceSomewhere, Init, ProcInit
<1>2. EvidenceInv /\ [Next]_allVars => EvidenceInv'
  <2> SUFFICES ASSUME DaemonTyped, EvidenceSomewhere, [DaemonNext]_allDaemonVars
               PROVE  EvidenceSomewhere'
    BY StepsApart, StepDaemonTyped DEF EvidenceInv, allVars
  <2>1. CASE \E s \in Starts : ProcMoves(s)
    BY <2>1, ProcStepKeepsEvidence DEF DaemonTyped
  <2>2. CASE UNCHANGED procVars
    BY <2>2 DEF EvidenceSomewhere, procVars
  <2> QED BY <2>1, <2>2, DaemonStepMoves
<1>3. EvidenceInv => EvidenceKept
  BY DEF EvidenceInv, EvidenceSomewhere, EvidenceKept, StopReturned
<1> QED BY <1>1, <1>2, <1>3, PTL DEF Spec

-----------------------------------------------------------------------------

Held == {s \in Alive : stop[s] # "failed"}

\* The mutex: one handler is inside, or Close stops the process.
OneInside ==
  /\ \A r, q \in Requests : at[r] \in Inside /\ at[q] \in Inside => r = q
  /\ main = "stopping" => \A r \in Requests : at[r] \notin Inside

\* A process is stopped after it was started; stopped without an error, it is gone.
StopsInOrder ==
  \A s \in Starts : /\ backend[s] = "none" => stop[s] = "no"
                    /\ stop[s] = "done" => s \notin Alive

\* What Daemon.process points to was started with Daemon.config.
ProcessIsConfigured ==
  process # None => backend[process] # "none" /\ runs[process] = config

\* What a handler that is past its first checks relies on until its answer.
HandlerKnows ==
  \A r \in Requests :
    /\ at[r] = "stopping" => process # None
    /\ at[r] = "starting" => runs[new[r]] = Wanted(r)
    /\ at[r] \in {"starting", "cleaning"} =>
         backend[new[r]] # "none" /\ Held \subseteq {new[r]}

\* Between requests, and as long as a handler has not started another.
HeldIsKnown ==
  (\A r \in Requests : at[r] \notin {"starting", "cleaning"}) => Held \subseteq {process}

KnownInv == /\ DaemonTyped /\ OneInside /\ StopsInOrder
            /\ ProcessIsConfigured /\ HandlerKnows /\ HeldIsKnown

\* A step that starts nothing adds nothing to what is held.
Settles ==
  /\ Held' \subseteq Held /\ StopsInOrder'
  /\ \A s \in Starts : backend[s] # "none" => backend'[s] # "none"

LEMMA GoingOnSettles ==
  ASSUME ProcTypeOK, StopsInOrder, (\E s \in Starts : ProcGoesOn(s)) \/ UNCHANGED procVars
  PROVE  Settles
<1> USE DEF ProcTypeOK, StopsInOrder, Settles, Held, Alive, IsRunning
<1>1. CASE UNCHANGED procVars
  BY <1>1 DEF procVars
<1>2. CASE \E s \in Starts : ProcGoesOn(s)
  <2>1. PICK s \in Starts : ProcGoesOn(s)
    BY <1>2
  <2>2. CASE Monitor(s) \/ StopBegins(s)
    BY <2>2 DEF Monitor, StopBegins
  <2>3. CASE StopEnds(s)
    BY <2>3 DEF StopEnds
  <2>4. CASE BecomesReady(s)
    BY <2>4 DEF BecomesReady
  <2>5. CASE Exits(s)
    BY <2>5 DEF Exits
  <2>6. CASE OutOfMemory(s)
    BY <2>6 DEF OutOfMemory
  <2> QED BY <2>1, <2>2, <2>3, <2>4, <2>5, <2>6 DEF ProcGoesOn
<1> QED BY <1>1, <1>2

LEMMA SpawnHolds ==
  ASSUME ProcTypeOK, StopsInOrder, NEW s \in Starts, Spawn(s)
  PROVE  /\ StopsInOrder' /\ Held' = Held \union {s}
         /\ \A t \in Starts : backend[t] # "none" => backend'[t] # "none"
         /\ backend'[s] # "none"
BY DEF ProcTypeOK, StopsInOrder, Held, Alive, Spawn

LEMMA InitKnown == Init => KnownInv
<1> SUFFICES ASSUME Init PROVE KnownInv
  OBVIOUS
<1>1. Held = {}
  BY DEF Init, ProcInit, Held, Alive
<1> QED BY <1>1, InitDaemonTyped DEF Init, ProcInit, DaemonInit, KnownInv, OneInside, StopsInOrder,
      ProcessIsConfigured, HandlerKnows, HeldIsKnown, Inside, Alive, Starts

LEMMA HandlerKeepsKnown ==
  ASSUME KnownInv, NEW r \in Requests, Arrive(r) \/ Prepared(r) \/ Handles(r)
  PROVE  /\ OneInside' /\ StopsInOrder' /\ ProcessIsConfigured'
         /\ HandlerKnows' /\ HeldIsKnown'
<1> USE DEF KnownInv, DaemonTyped, DaemonTypeOK, Chosen, OneInside, ProcessIsConfigured,
            HandlerKnows, HeldIsKnown, Inside, MoveTo, Answered, Wanted
<1>0. ProcTypeOK /\ StopsInOrder
  OBVIOUS
<1>1. CASE Arrive(r)
  <2>1. Settles
    BY <1>0, <1>1, GoingOnSettles DEF Arrive
  <2>2. PICK e \in [kind : Kinds, config : Configs] : asks' = [asks EXCEPT ![r] = e]
    BY <1>1 DEF Arrive
  <2> QED BY <1>1, <2>1, <2>2 DEF Arrive, Settles
<1>2. CASE Enter(r)
  <2>1. Settles
    BY <1>0, <1>2, GoingOnSettles DEF Enter
  <2>2. \A q \in Requests : at[q] \notin Inside
    BY <1>2 DEF Enter, Locked
  <2> QED BY <1>2, <2>1, <2>2 DEF Enter, Settles, Locked
<1>3. CASE Prepared(r) \/ Refuse(r) \/ CannotSpawn(r)
  <2>1. Settles
    BY <1>0, <1>3, GoingOnSettles DEF Prepared, Refuse, CannotSpawn
  <2> QED BY <1>3, <2>1 DEF Prepared, Refuse, CannotSpawn, Settles
<1>4. CASE BeginStop(r)
  <2>1. process \in Starts
    BY <1>4 DEF BeginStop, Serves
  <2>2. Settles
    BY <1>0, <1>4, <2>1, GoingOnSettles DEF BeginStop, ProcGoesOn
  <2> QED BY <1>4, <2>1, <2>2, DaemonAssumption DEF BeginStop, Settles
<1>5. CASE Stopped(r)
  <2>1. Settles
    BY <1>0, <1>5, GoingOnSettles DEF Stopped
  <2>2. /\ process \in Starts /\ Held \subseteq {process}
        /\ \A q \in Requests : at[q] \in Inside => q = r
    BY <1>5 DEF Stopped
  <2>3. stop[process] # "failed" => Held = {}
    BY <1>5, <2>2 DEF Stopped, StopReturned, StopsInOrder, Held, Alive
  <2> QED BY <1>5, <2>1, <2>2, <2>3 DEF Stopped, Settles
<1>6. CASE \E s \in Unused : Begin(r, s)
  <2>1. PICK s \in Starts : backend[s] = "none" /\ Begin(r, s)
    BY <1>6 DEF Unused
  <2>2. /\ StopsInOrder' /\ Held' = Held \union {s} /\ backend'[s] # "none"
        /\ \A t \in Starts : backend[t] # "none" => backend'[t] # "none"
    BY <1>0, <2>1, SpawnHolds DEF Begin
  <2>3. \A q \in Requests : at[q] \in Inside => q = r
    BY <2>1 DEF Begin
  <2>4. Held = {}
    <3>1. Held \subseteq {process}
      BY <2>1, <2>3 DEF Begin
    <3> QED BY <2>1, <3>1, DaemonAssumption DEF Begin, Serves, IsRunning, Held, Alive
  <2>5. runs' = [runs EXCEPT ![s] = Wanted(r)] /\ process # s
    BY <2>1, DaemonAssumption DEF Begin
  <2>6. ProcessIsConfigured'
    BY <2>1, <2>2, <2>5 DEF Begin
  <2>7. HandlerKnows'
    BY <2>1, <2>2, <2>3, <2>4, <2>5 DEF Begin
  <2> QED BY <2>1, <2>2, <2>6, <2>7 DEF Begin
<1>7. CASE Ready(r)
  <2>1. Settles
    BY <1>0, <1>7, GoingOnSettles DEF Ready
  <2> QED BY <1>7, <2>1 DEF Ready, Settles
<1>8. CASE NotReady(r)
  <2>1. Settles
    BY <1>0, <1>8, GoingOnSettles DEF NotReady, ProcGoesOn
  <2> QED BY <1>8, <2>1 DEF NotReady, Settles
<1>9. CASE Cleaned(r)
  <2>1. Settles
    BY <1>0, <1>9, GoingOnSettles DEF Cleaned
  <2>2. Held = {}
    BY <1>9 DEF Cleaned, StopReturned, StopsInOrder, Held, Alive
  <2> QED BY <1>9, <2>1, <2>2 DEF Cleaned, Settles
<1> QED BY <1>1, <1>2, <1>3, <1>4, <1>5, <1>6, <1>7, <1>8, <1>9 DEF Handles

LEMMA StepKnown == KnownInv /\ [DaemonNext]_allDaemonVars => KnownInv'
<1> SUFFICES ASSUME KnownInv, [DaemonNext]_allDaemonVars
             PROVE  /\ OneInside' /\ StopsInOrder' /\ ProcessIsConfigured'
                    /\ HandlerKnows' /\ HeldIsKnown'
  BY StepDaemonTyped DEF KnownInv
<1>1. CASE \E r \in Requests : Arrive(r) \/ Prepared(r) \/ Handles(r)
  BY <1>1, HandlerKeepsKnown
<1>2. CASE ~ \E r \in Requests : Arrive(r) \/ Prepared(r) \/ Handles(r)
  <2> USE DEF KnownInv, DaemonTyped, DaemonTypeOK, Chosen, OneInside, ProcessIsConfigured,
              HandlerKnows, HeldIsKnown, Inside, Wanted
  <2>0. ProcTypeOK /\ StopsInOrder
    OBVIOUS
  <2>1. CASE Signal \/ Exit
    <3>1. Settles
      BY <2>0, <2>1, GoingOnSettles DEF Signal, Exit
    <3> QED BY <2>1, <3>1 DEF Signal, Exit, Settles
  <2>2. CASE BeginClose
    <3>1. Settles
      BY <2>0, <2>2, GoingOnSettles DEF BeginClose, ProcGoesOn
    <3> QED BY <2>2, <3>1 DEF BeginClose, Settles, Locked
  <2>3. CASE EndClose
    <3>1. Settles
      BY <2>0, <2>3, GoingOnSettles DEF EndClose
    <3>2. \A r \in Requests : at[r] \notin Inside
      BY <2>3 DEF EndClose
    <3>3. process # None /\ stop[process] = "failed" => Held = {}
      BY <3>2 DEF Held
    <3>4. Held = {}
      BY <2>3, <3>2, <3>3, DaemonAssumption DEF EndClose, StopReturned, StopsInOrder, Held, Alive
    <3> QED BY <2>3, <3>1, <3>2, <3>4 DEF EndClose, Settles
  <2>4. CASE \E s \in Starts : Runs(s)
    <3>1. Settles
      BY <2>0, <2>4, GoingOnSettles DEF Runs, ProcGoesOn
    <3> QED BY <2>4, <3>1 DEF Runs, Settles, daemonVars
  <2>5. CASE UNCHANGED allDaemonVars
    <3>1. Settles
      BY <2>0, <2>5, GoingOnSettles DEF allDaemonVars
    <3> QED BY <2>5, <3>1 DEF allDaemonVars, Settles, daemonVars
  <2> QED BY <1>2, <2>1, <2>2, <2>3, <2>4, <2>5 DEF DaemonNext
<1> QED BY <1>1, <1>2

\* Two backends never hold the devices at once, and between requests none runs
\* but the one the daemon knows, with the configuration it reports.
THEOREM OneBackendAtMost == Spec => []OneKnownBackend
<1>1. KnownInv /\ [Next]_allVars => KnownInv'
  BY StepsApart, StepKnown DEF allVars, KnownInv
<1>2. KnownInv => OneKnownBackend
  <2> SUFFICES ASSUME KnownInv PROVE OneKnownBackend
    OBVIOUS
  <2>1. \E x \in Starts \union {None} : Held \subseteq {x}
    <3>1. CASE \E r \in Requests : at[r] \in {"starting", "cleaning"}
      BY <3>1 DEF KnownInv, HandlerKnows, DaemonTyped, Chosen
    <3>2. CASE \A r \in Requests : at[r] \notin {"starting", "cleaning"}
      BY <3>2 DEF KnownInv, HeldIsKnown, DaemonTyped, DaemonTypeOK
    <3> QED BY <3>1, <3>2
  <2>2. Cardinality(Held) <= 1
    <3>1. PICK x \in Starts \union {None} : Held \subseteq {x}
      BY <2>1
    <3>2. CASE Held = {}
      BY <3>2, FS_EmptySet
    <3>3. CASE Held = {x}
      BY <3>3, FS_Singleton
    <3> QED BY <3>1, <3>2, <3>3
  <2>3. ~Locked => Held \subseteq {process}
    BY DEF Locked, Inside, KnownInv, HeldIsKnown
  <2>4. Serves => runs[process] = config
    BY DEF Serves, KnownInv, ProcessIsConfigured
  <2> QED BY <2>2, <2>3, <2>4 DEF OneKnownBackend, Held, Reported
<1> QED BY InitKnown, <1>1, <1>2, PTL DEF Spec

-----------------------------------------------------------------------------
(* The watch.                                                              *)

LEMMA CapsArePositive == QuietCap \in Nat /\ WedgedAfter < QuietCap /\ ConfirmAfter < QuietCap
BY WatchAssumption DEF QuietCap

\* One more poll, up to the cap; the order of two counts is kept.
LEMMA LaterCounts ==
  ASSUME NEW n \in 0..QuietCap
  PROVE  /\ Later(n) \in 1..QuietCap
         /\ \A m \in 0..n : Later(m) <= Later(n)
BY CapsArePositive, WatchAssumption DEF Later, LowerOf

Flags == /\ alive \in BOOLEAN /\ answers \in BOOLEAN /\ hung \in BOOLEAN
         /\ used \in BOOLEAN /\ fatal \in BOOLEAN /\ sigint \in BOOLEAN

Counts == /\ lines \in 0..MaxLines /\ born \in 0..lines /\ seen \in 0..lines
          /\ survived \in 0..lines /\ sample \in 0..lines
          /\ quiet \in 0..QuietCap /\ silent \in 0..QuietCap
          /\ retries \in 0..Retries

Places == /\ step \in {"none", "asking", "answered", "promoted", "failed"}
          /\ phase \in Working \union Ended
          /\ monitor \in {"off", "idle", "looked", "dying", "reported", "ended"}

LEMMA TypeParts == WatchTypeOK <=> Flags /\ Counts /\ Places
BY Zenon DEF WatchTypeOK, Flags, Counts, Places

LEMMA InitWatchTyped == Init => WatchTypeOK
<1> SUFFICES ASSUME WatchInit PROVE Flags /\ Counts /\ Places
  BY TypeParts DEF Init
<1>1. Flags
  BY Zenon DEF WatchInit, Flags
<1>2. Counts
  BY CapsArePositive, WatchAssumption DEF WatchInit, Counts
<1>3. Places
  BY DEF WatchInit, Places, Working
<1> QED BY <1>1, <1>2, <1>3

LEMMA StepFlags == Flags /\ [WatchNext]_watchVars => Flags'
<1> SUFFICES ASSUME Flags, [WatchNext]_watchVars PROVE Flags'
  OBVIOUS
<1> USE DEF Flags, envVars, ggrunVars
<1>1. CASE Backend
  BY <1>1, Zenon DEF Backend, Works, PrintsFatal, Hangs, Dies
<1>2. CASE VerifyPoll \/ VerifyStopped \/ VerifyGivenUp \/ VerifyReturns
  BY <1>2, Zenon DEF VerifyPoll, VerifyStopped, VerifyGivenUp, VerifyReturns
<1>3. CASE ServePollCalm \/ ServePollAnswered
  BY <1>3, Zenon DEF ServePollCalm, ServePollAnswered
<1>4. CASE ServePollSilent
  <2>1. alive' \in BOOLEAN
    BY <1>4, Zenon DEF ServePollSilent
  <2> QED BY <1>4, <2>1, Zenon DEF ServePollSilent
<1>5. CASE StepAnswered \/ StepEnds \/ Serve \/ ServeClaude \/ Interrupt \/ Shutdown \/ Crashed
  BY <1>5, Zenon DEF StepAnswered, StepEnds, Serve, ServeClaude, Interrupt, Shutdown, Crashed
<1>6. CASE Relaunch \/ Surrender
  BY <1>6, Zenon DEF Relaunch, Surrender
<1>7. CASE MonitorLooks \/ MonitorJudges \/ MonitorReports \/ MonitorEnds \/ SessionOver \/ SessionStops
  BY <1>7, Zenon DEF MonitorLooks, MonitorJudges, MonitorReports, MonitorEnds, SessionOver, SessionStops
<1>8. CASE UNCHANGED watchVars
  BY <1>8, Zenon DEF watchVars
<1> QED BY <1>1, <1>2, <1>3, <1>4, <1>5, <1>6, <1>7, <1>8 DEF WatchNext, Watches

\* What a silent poll does, its verdict left aside.
LEMMA SilentPoll ==
  ASSUME ServePollSilent
  PROVE  /\ phase = "serve" /\ (phase' = "serve" \/ phase' = "crashed")
         /\ seen' = lines /\ sample' = Sampled /\ quiet' = Later(quiet)
         /\ UNCHANGED <<lines, born, survived, step, retries, monitor>>
<1>1. phase = "serve" /\ (phase' = "serve" \/ phase' = "crashed")
  BY Zenon DEF ServePollSilent
<1>2. /\ seen' = lines /\ sample' = Sampled /\ quiet' = Later(quiet)
      /\ UNCHANGED <<lines, born, survived, step, retries, monitor>>
  BY Zenon DEF ServePollSilent
<1> QED BY <1>1, <1>2

LEMMA StepCounts == Counts /\ Places /\ [WatchNext]_watchVars => Counts' /\ Places'
<1> SUFFICES ASSUME Counts, Places, [WatchNext]_watchVars PROVE Counts' /\ Places'
  OBVIOUS
<1> USE CapsArePositive, WatchAssumption DEF Counts, Places, Working, Ended, envVars, ggrunVars
<1>0. Later(quiet) \in 0..QuietCap /\ Later(silent) \in 0..QuietCap
      /\ Later(0) \in 0..QuietCap
  BY LaterCounts
<1>1. CASE Backend
  BY <1>1 DEF Backend, Works, PrintsFatal, Hangs, Dies
<1>2. CASE StepAnswered \/ StepEnds
  BY <1>2 DEF StepAnswered, StepEnds
<1>3. CASE VerifyPoll
  BY <1>0, <1>3 DEF VerifyPoll, GiveUp
<1>4. CASE VerifyStopped
  BY <1>4 DEF VerifyStopped
<1>5. CASE VerifyGivenUp \/ VerifyReturns
  BY <1>5 DEF VerifyGivenUp, VerifyReturns
<1>6. CASE Serve \/ ServeClaude \/ Interrupt
  BY <1>6 DEF Serve, ServeClaude, Interrupt
<1>7. CASE Shutdown \/ Crashed \/ Surrender
  BY <1>7 DEF Shutdown, Crashed, Surrender
<1>8. CASE ServePollCalm \/ ServePollAnswered
  BY <1>0, <1>8 DEF ServePollCalm, ServePollAnswered, Sampled
<1>9. CASE ServePollSilent
  <2>1. silent' \in 0..QuietCap
    BY <1>0, <1>9 DEF ServePollSilent
  <2>2. sample' \in 0..lines
    BY <1>9, SilentPoll DEF Sampled
  <2> QED BY <1>0, <1>9, <2>1, <2>2, SilentPoll
<1>10. CASE Relaunch
  BY <1>10 DEF Relaunch
<1>11. CASE MonitorLooks \/ MonitorJudges \/ MonitorEnds
  BY <1>11 DEF MonitorLooks, MonitorJudges, MonitorEnds
<1>12. CASE MonitorReports
  BY <1>12 DEF MonitorReports
<1>13. CASE SessionOver \/ SessionStops
  BY <1>13 DEF SessionOver, SessionStops
<1>14. CASE UNCHANGED watchVars
  BY <1>14 DEF watchVars
<1> QED BY <1>1, <1>2, <1>3, <1>4, <1>5, <1>6, <1>7, <1>8, <1>9, <1>10, <1>11, <1>12,
           <1>13, <1>14 DEF WatchNext, Watches

LEMMA StepWatchTyped == WatchTypeOK /\ [WatchNext]_watchVars => WatchTypeOK'
<1>1. (Flags /\ Counts /\ Places)' => WatchTypeOK'
  BY Zenon DEF WatchTypeOK, Flags, Counts, Places
<1> QED BY <1>1, TypeParts, StepFlags, StepCounts

\* The variables of the daemon, its backends and the watch keep their types.
THEOREM TypeCorrect == Spec => []TypeOK
<1>1. Init => DaemonTyped /\ WatchTypeOK
  BY InitDaemonTyped, InitWatchTyped
<1>2. DaemonTyped /\ WatchTypeOK /\ [Next]_allVars => (DaemonTyped /\ WatchTypeOK)'
  BY StepsApart, StepDaemonTyped, StepWatchTyped DEF allVars
<1>3. DaemonTyped /\ WatchTypeOK => TypeOK
  BY DEF TypeOK, DaemonTyped
<1> QED BY <1>1, <1>2, <1>3, PTL DEF Spec

-----------------------------------------------------------------------------

\* A verification has no sample but of a line its own backend printed; while
\* serving, every line up to the last survived one has been read; and the health
\* monitor works only during a session and its end.
SampledLate ==
  /\ phase = "verify" => sample = 0
  /\ phase \in {"verify", "stopping", "grace", "passed", "rejected"} =>
       survived = born /\ (sample = 0 \/ sample > born)
  /\ phase = "serve" => survived <= seen /\ (sample = 0 \/ sample > survived)
  /\ phase = "crashed" => sample = 0 \/ sample > survived
  /\ monitor # "off" => phase \in {"session", "ending", "exited"}

\* The silence that is counted is of polls since the backend last used CPU, unless
\* it has used some that was not read yet; and a fatal line that is pending was
\* printed by the backend that serves.
SilenceIsIdle ==
  /\ used \/ silent <= quiet
  /\ phase = "serve" => seen >= born /\ (fatal => seen > born)

WatchInv == WatchTypeOK /\ SampledLate /\ SilenceIsIdle

LEMMA StepWatch == WatchInv /\ [WatchNext]_watchVars => WatchInv'
<1> SUFFICES ASSUME WatchTypeOK, SampledLate, SilenceIsIdle, [WatchNext]_watchVars
             PROVE  SampledLate' /\ SilenceIsIdle'
  BY StepWatchTyped DEF WatchInv
<1> USE CapsArePositive, WatchAssumption
        DEF WatchTypeOK, SampledLate, SilenceIsIdle, envVars, ggrunVars
<1>0. /\ Later(quiet) \in 1..QuietCap /\ Later(quiet) >= quiet
      /\ Later(silent) \in 1..QuietCap /\ (silent <= quiet => Later(silent) <= Later(quiet))
      /\ Later(0) = 1
  <2>1. quiet \in 0..QuietCap /\ silent \in 0..QuietCap
    OBVIOUS
  <2> QED BY <2>1 DEF Later, LowerOf
<1>1. CASE Backend
  BY <1>1 DEF Backend, Works, PrintsFatal, Hangs, Dies
<1>2. CASE StepAnswered \/ StepEnds
  BY <1>2 DEF StepAnswered, StepEnds
<1>3. CASE VerifyPoll
  BY <1>0, <1>3 DEF VerifyPoll, GiveUp, Idle
<1>4. CASE VerifyStopped
  BY <1>4 DEF VerifyStopped
<1>5. CASE VerifyGivenUp \/ VerifyReturns
  BY <1>5 DEF VerifyGivenUp, VerifyReturns
<1>6. CASE Serve \/ ServeClaude \/ Interrupt
  BY <1>6 DEF Serve, ServeClaude, Interrupt
<1>7. CASE Shutdown \/ Crashed \/ Surrender
  BY <1>7 DEF Shutdown, Crashed, Surrender
<1>8. CASE ServePollCalm \/ ServePollAnswered
  BY <1>0, <1>8 DEF ServePollCalm, ServePollAnswered
<1>9. CASE ServePollSilent
  <2>1. SampledLate'
    BY <1>9, SilentPoll DEF Sampled, NewLine
  <2>2. silent' <= quiet'
    BY <1>0, <1>9 DEF ServePollSilent, NewLine
  <2>3. lines > born
    BY <1>9 DEF ServePollSilent, NewLine
  <2> QED BY <1>9, <2>1, <2>2, <2>3 DEF ServePollSilent
<1>10. CASE Relaunch
  BY <1>10 DEF Relaunch
<1>11. CASE MonitorLooks \/ MonitorJudges \/ MonitorEnds
  BY <1>11 DEF MonitorLooks, MonitorJudges, MonitorEnds
<1>12. CASE MonitorReports
  BY <1>12 DEF MonitorReports
<1>13. CASE SessionOver \/ SessionStops
  BY <1>13 DEF SessionOver, SessionStops
<1>14. CASE UNCHANGED watchVars
  BY <1>14 DEF watchVars
<1> QED BY <1>1, <1>2, <1>3, <1>4, <1>5, <1>6, <1>7, <1>8, <1>9, <1>10, <1>11, <1>12,
           <1>13, <1>14 DEF WatchNext, Watches

LEMMA WatchIsInvariant == Spec => []WatchInv
<1>1. Init => WatchInv
  BY InitWatchTyped DEF Init, WatchInit, WatchInv, SampledLate, SilenceIsIdle
<1>2. WatchInv /\ [Next]_allVars => WatchInv'
  BY StepsApart, StepWatch DEF allVars
<1> QED BY <1>1, <1>2, PTL DEF Spec

\* The sample a crash is judged by is of no failure that the backend survived,
\* and of no backend before it.
THEOREM SampleIsOfThisFailure == Spec => []SampleOfThisFailure
<1>1. WatchInv => SampleOfThisFailure
  BY DEF WatchInv, WatchTypeOK, SampledLate, SampleOfThisFailure
<1> QED BY <1>1, WatchIsInvariant, PTL

\* Only what has exited, printed a fatal line, or used no CPU for all the polls
\* that were to confirm it is stopped by a watch.
THEOREM SlowIsNeverStopped == Spec => SlowNeverStopped
<1> DEFINE Justified ==
      /\ phase = "verify" /\ phase' = "stopping"
           => ~alive \/ lines > born \/ quiet >= WedgedAfter
      /\ phase = "serve" /\ phase' = "crashed" /\ alive
           => seen' > born /\ quiet >= ConfirmAfter
<1>1. WatchInv /\ [Next]_allVars => [Justified]_watchVars
  <2> SUFFICES ASSUME WatchInv, WatchNext PROVE Justified
    BY StepsApart DEF allVars
  <2> USE WatchAssumption DEF WatchInv, WatchTypeOK, SilenceIsIdle, envVars, ggrunVars
  <2>1. CASE VerifyPoll
    BY <2>1 DEF VerifyPoll, Idle
  <2>2. CASE ServePollSilent
    <3>1. lines > born
      BY <2>2 DEF ServePollSilent, NewLine
    <3>2. phase' = "crashed" => quiet >= ConfirmAfter
      BY <2>2 DEF ServePollSilent, NewLine
    <3> QED BY <2>2, <3>1, <3>2 DEF ServePollSilent
  <2>3. CASE ~VerifyPoll /\ ~ServePollSilent
    BY <2>3 DEF WatchNext, Watches, Backend, Works, PrintsFatal, Hangs, Dies, StepAnswered, StepEnds,
      VerifyStopped, VerifyGivenUp, VerifyReturns, Serve, ServeClaude, Interrupt, Shutdown, Crashed,
      ServePollCalm, ServePollAnswered, Relaunch, Surrender, MonitorLooks, MonitorJudges,
      MonitorReports, MonitorEnds, SessionOver, SessionStops
  <2> QED BY <2>1, <2>2, <2>3
<1> QED BY <1>1, WatchIsInvariant, PTL DEF Spec, SlowNeverStopped
=============================================================================
