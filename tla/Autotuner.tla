----------------------------- MODULE Autotuner -----------------------------
(* ggrun tune (go/pkg/tune/engine.go, cmdTune): the flags a launch uses by     *)
(* default are measured, then one candidate a round, each in a server of its   *)
(* own; the fastest is confirmed against the default and written to the tune   *)
(* file, from which later launches take their flags. The file is also written  *)
(* after every round. A measurement is a speed and, for a workload of agents,  *)
(* the slowest turn; two speeds less than Margin apart are the same to it. The *)
(* score of an agent workload is the inverse of the turn time, a speed too.    *)
(* cache.json, which nothing reads back, is left out.                          *)
EXTENDS Integers, FiniteSets

CONSTANTS
  Candidates,  \* the sets of override flags that are safe and change something
  Rounds,      \* rounds of a tune
  Speeds,      \* what a measurement may say
  Margin,      \* the least lead that counts as an improvement
  MaxTunes,    \* bound: tunes of a behaviour
  Default,     \* no override flags
  NoTune       \* no tune file, or one that does not parse

ASSUME TunerConstants ==
  /\ Default \notin Candidates /\ NoTune \notin Candidates
  /\ Rounds \in Nat /\ Speeds \subseteq Nat \ {0} /\ Margin \in Nat \ {0} /\ MaxTunes \in Nat

VARIABLES
  phase,      \* where the tune is; "idle": ggrun tune does not run
  agents,     \* the workload is measured in turns of parallel agents
  planned,    \* rounds whose candidate needs no query of the model
  round,
  servers,    \* the flags of the servers that run on the port
  tried,
  best,       \* the fastest so far, provisional until it is confirmed
  measured,   \* the latest measurement of each
  file,       \* the tune file
  confirmed,  \* history: what has been confirmed since the tune began
  tunes       \* bound
tunerVars == <<phase, agents, planned, round, servers, tried, best, measured, file, confirmed, tunes>>

Measurements == [speed: Speeds, slowest: IF agents THEN {1, 2} ELSE {1}]

Faster(a, b) == a.speed >= b.speed + Margin /\ a.slowest <= b.slowest

\* What SaveTuneFile writes for the given winner: overrides only if it leads.
Report(m, winner, complete) ==
  [flags |-> IF winner # Default /\ m[winner].speed >= m[Default].speed + Margin THEN winner ELSE Default,
   complete |-> complete]

\* The file is overwritten in place, and an error is not acted upon.
Saves(m, winner, complete) == file' \in {Report(m, winner, complete), file, NoTune}

TunerInit ==
  /\ phase = "idle" /\ agents \in BOOLEAN /\ planned \in 0..Rounds /\ round = 0
  /\ servers = {} /\ tried = {} /\ best = Default
  /\ measured = [c \in Candidates \cup {Default} |-> [speed |-> 0, slowest |-> 1]]
  /\ file = NoTune /\ confirmed = {} /\ tunes = 0

-----------------------------------------------------------------------------
\* A finished tune is reused unless a fresh one is asked for.
Reusable == file # NoTune /\ file.complete

Tunes(again) ==
  /\ phase = "idle" /\ tunes < MaxTunes /\ (Reusable => again)
  /\ phase' = "baseline" /\ servers' = {Default}
  /\ round' = 1 /\ tried' = {} /\ best' = Default /\ confirmed' = {} /\ tunes' = tunes + 1
  /\ UNCHANGED <<agents, planned, measured, file>>

\* Run returns: the deferred stopBaseline.
TuneReturns == phase' = "idle" /\ servers' = {}

NoBaseline ==
  /\ phase = "baseline" /\ TuneReturns
  /\ UNCHANGED <<agents, planned, round, tried, best, measured, file, confirmed, tunes>>

MeasuresBaseline ==
  /\ phase = "baseline" /\ phase' = "round"
  /\ \E m \in Measurements : measured' = [measured EXCEPT ![Default] = m]
  /\ Saves(measured', Default, FALSE)
  /\ UNCHANGED <<agents, planned, round, servers, tried, best, confirmed, tunes>>

\* Past the planned candidates the model itself is asked, on the default's server,
\* which is started again for it.
Asking == round > planned

RestartFails ==
  /\ phase = "round" /\ round <= Rounds /\ Asking /\ servers = {} /\ TuneReturns
  /\ UNCHANGED <<agents, planned, round, tried, best, measured, file, confirmed, tunes>>

\* No safe candidate, or one that was tried, or that changes nothing.
SkipsRound ==
  /\ phase = "round" /\ round <= Rounds /\ round' = round + 1
  /\ servers' = servers \cup (IF Asking THEN {Default} ELSE {})
  /\ UNCHANGED <<phase, agents, planned, tried, best, measured, file, confirmed, tunes>>

\* The default's server is stopped before the candidate's is started.
StartsCandidate(c) ==
  /\ phase = "round" /\ round <= Rounds /\ c \notin tried
  /\ phase' = "candidate" /\ tried' = tried \cup {c}
  /\ servers' = {c}
  /\ UNCHANGED <<agents, planned, round, best, measured, file, confirmed, tunes>>

\* The candidate's server does not come up, or its benchmark fails.
CandidateFails(c) ==
  /\ phase = "candidate" /\ c \in servers
  /\ phase' = "round" /\ round' = round + 1 /\ servers' = servers \ {c}
  /\ Saves(measured, best, FALSE)
  /\ UNCHANGED <<agents, planned, tried, best, measured, confirmed, tunes>>

MeasuresCandidate(c) ==
  /\ phase = "candidate" /\ c \in servers
  /\ phase' = "round" /\ round' = round + 1 /\ servers' = servers \ {c}
  /\ \E m \in Measurements :
       /\ measured' = [measured EXCEPT ![c] = m]
       /\ best' = IF Faster(m, measured[best]) THEN c ELSE best
  /\ Saves(measured', best', FALSE)
  /\ UNCHANGED <<agents, planned, tried, confirmed, tunes>>

-----------------------------------------------------------------------------
\* The confirmation pass: the default and the winner, one after the other.
Confirms ==
  /\ phase = "round" /\ round > Rounds /\ best # Default
  /\ phase' = "confirm default" /\ servers' = {Default}
  /\ UNCHANGED <<agents, planned, round, tried, best, measured, file, confirmed, tunes>>

MeasuresDefaultAgain ==
  /\ phase = "confirm default" /\ phase' = "confirm best" /\ servers' = {best}
  /\ \E m \in Measurements : measured' = [measured EXCEPT ![Default] = m]
  /\ UNCHANGED <<agents, planned, round, tried, best, file, confirmed, tunes>>

\* The winner is measured even when the default could not be, to no effect.
ConfirmationFails ==
  /\ phase \in {"confirm default", "confirm best"}
  /\ phase' = "last" /\ servers' = {} /\ best' = Default
  /\ UNCHANGED <<agents, planned, round, tried, measured, file, confirmed, tunes>>

MutMeasuresBestAgain ==
  /\ phase = "confirm best" /\ phase' = "last" /\ servers' = {}
  /\ \E m \in Measurements :
       /\ measured' = [measured EXCEPT ![best] = m]
       /\ best' = best
       /\ confirmed' = confirmed \cup (IF Faster(m, measured[Default]) THEN {best} ELSE {})
  /\ UNCHANGED <<agents, planned, round, tried, file, tunes>>

MeasuresBestAgain ==
  /\ phase = "confirm best" /\ phase' = "last" /\ servers' = {}
  /\ \E m \in Measurements :
       /\ measured' = [measured EXCEPT ![best] = m]
       /\ best' = IF Faster(m, measured[Default]) THEN best ELSE Default
       /\ confirmed' = confirmed \cup ({best'} \ {Default})
  /\ UNCHANGED <<agents, planned, round, tried, file, tunes>>

EndsTune ==
  /\ phase = "last" \/ (phase = "round" /\ round > Rounds /\ best = Default)
  /\ TuneReturns /\ Saves(measured, best, TRUE)
  /\ UNCHANGED <<agents, planned, round, tried, best, measured, confirmed, tunes>>

\* ggrun is killed; its servers go with it.
TuneKilled ==
  /\ phase # "idle" /\ TuneReturns
  /\ UNCHANGED <<agents, planned, round, tried, best, measured, file, confirmed, tunes>>

-----------------------------------------------------------------------------
\* The overrides a launch may take: those of the file, complete or not, by itself
\* unless they are for agents, else because the file was named. They are dropped
\* when they would not fit the memory that is free.
Applies == {Default} \cup (IF file = NoTune THEN {} ELSE {file.flags})

TunerNext ==
  \/ \E again \in BOOLEAN : Tunes(again)
  \/ NoBaseline \/ MeasuresBaseline \/ RestartFails \/ SkipsRound
  \/ \E c \in Candidates : StartsCandidate(c) \/ CandidateFails(c) \/ MeasuresCandidate(c)
  \/ Confirms \/ MeasuresDefaultAgain \/ ConfirmationFails \/ MeasuresBestAgain
  \/ EndsTune \/ TuneKilled

-----------------------------------------------------------------------------
\* From the file of a tune that ran to its end a launch takes only overrides that
\* this tune has measured ahead of the default a second time, back to back.
WinnerConfirmed ==
  [][file' # file /\ Reusable' => Applies' \subseteq confirmed \cup {Default}]_tunerVars
=============================================================================
