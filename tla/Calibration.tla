----------------------------- MODULE Calibration -----------------------------
(* The experiment on a live launch (runCalibration): what serves is measured,  *)
(* stopped, replaced by exact candidates that are measured in its place, and   *)
(* the better one is brought back, all before an emergency deadline. Time is   *)
(* what is left of it, in units of the costs that calibrate_cost.go reckons.   *)
EXTENDS Naturals

CONSTANTS
  Budget,       \* MaxElapsed of the experiment
  RestartCap,   \* restartAdmissionWindow, which is also the emergency grace
  LoadCost, WorkCost, ReleaseCost, AdmissionCost,
  MaxCandidates, MaxFailures

ASSUME CalibrationAssumption ==
  /\ {Budget, RestartCap, WorkCost, ReleaseCost, AdmissionCost} \subseteq Nat
  /\ {LoadCost, MaxFailures} \subseteq Nat \ {0}
  /\ AdmissionCost + LoadCost <= RestartCap

VARIABLES
  auto,         \* calibrateAuto, or calibrateOn: fixed
  step,
  serving,      \* what runs: curP, cp or what was restored
  left,         \* until the emergency deadline
  todo, failures, measured,
  stable, inconclusive, started, exhausted,  \* what the search has met
  after,        \* what follows the release of the process that serves
  why,          \* what service is being restored for
  tried,        \* the baseline was given a window to start in
  decision      \* the winner of the pending decision

findings == <<stable, inconclusive, started, exhausted>>
calibrationVars == <<auto, step, serving, left, todo, failures, measured, findings, after, why, tried, decision>>

CalibrationInit ==
  /\ auto \in BOOLEAN /\ step = "default" /\ serving = "baseline" /\ left = Budget + RestartCap
  /\ todo \in 1..MaxCandidates /\ failures = 0 /\ measured = 0
  /\ stable = FALSE /\ inconclusive = FALSE /\ started = FALSE /\ exhausted = FALSE
  /\ after = "nothing" /\ why = "nothing" /\ tried = FALSE /\ decision = "none"

Remaining == IF left > RestartCap THEN left - RestartCap ELSE 0

\* An activity that takes no longer than it may.
Takes(bound) == \E t \in 0..bound : left' = IF t < left THEN left - t ELSE 0

\* challengerCost: what an experiment must be able to pay for, its restoration
\* included; a probe may be needed, and a baseline that runs is stopped first.
Reserve == ReleaseCost + LoadCost
Costs == {admission + LoadCost + WorkCost + Reserve
            + (IF serving = "baseline" THEN ReleaseCost ELSE 0) : admission \in {AdmissionCost, LoadCost}}
RestoreFloor == AdmissionCost + LoadCost

\* What is left for a restart, beyond what is kept for another, but never less
\* than its floor.
ServiceWindow(keep, floor) ==
  LET spare == IF left > keep THEN left - keep ELSE 0
      window == IF spare < RestartCap THEN spare ELSE RestartCap
  IN  IF floor > window THEN (IF floor < RestartCap THEN floor ELSE RestartCap) ELSE window

Outcome == <<why, tried, decision>>
Goes(next) == step' = next /\ UNCHANGED <<after, Outcome>>
ReleasesThen(next) == step' = "release" /\ after' = next /\ UNCHANGED Outcome

-----------------------------------------------------------------------------
(* The search.                                                              *)

\* The baseline is measured while it serves; it may take all the time there is.
MeasuresDefault ==
  /\ step = "default" /\ Takes(Budget)
  /\ Goes("search") \/ Goes("over")
  /\ UNCHANGED <<auto, serving, todo, failures, measured, findings>>

\* The same command line, one that was rejected before, or one that the oracle
\* refuses against the memory there will be.
SkipsCandidate ==
  /\ step = "search" /\ todo > 0 /\ Remaining > 0
  /\ todo' = todo - 1 /\ stable' \in {stable, TRUE}
  /\ UNCHANGED <<auto, step, serving, left, failures, measured, inconclusive, started, exhausted, after, Outcome>>

EndsSearch ==
  /\ step = "search" /\ todo = 0 /\ Goes("choose")
  /\ UNCHANGED <<auto, serving, left, todo, failures, measured, findings>>

\* The budget is over, or does not pay for this candidate.
OutOfBudget ==
  /\ step = "search" /\ todo > 0 /\ \E cost \in Costs : cost > Remaining
  /\ Goes("choose") /\ inconclusive' = TRUE /\ exhausted' = TRUE
  /\ UNCHANGED <<auto, serving, left, todo, failures, measured, stable, started>>

\* What serves is stopped once an experiment can be paid for.
Begins ==
  /\ step = "search" /\ todo > 0 /\ Remaining > 0 /\ \E cost \in Costs : cost <= Remaining
  /\ IF serving = "baseline" THEN ReleasesThen("exact") ELSE Goes("exact")
  /\ UNCHANGED <<auto, serving, left, todo, failures, measured, findings>>

MutExactWindow == Remaining

\* A candidate leaves time to measure it, to release it and to restore.
ExactWindow == IF Remaining > WorkCost + Reserve THEN Remaining - (WorkCost + Reserve) ELSE 0

Charge(next) ==
  /\ failures' = failures + 1
  /\ step' = IF failures + 1 >= MaxFailures THEN "choose" ELSE next

\* An exact admission that fails: for its budget, for a stable reason or another.
\* It is charged only if it has read weights.
ExactFails ==
  /\ step = "exact" /\ Takes(ExactWindow) /\ todo' = todo - 1
  /\ \/ /\ step' = "choose" /\ inconclusive' = TRUE /\ exhausted' = TRUE
        /\ UNCHANGED <<failures, stable>>
     \/ /\ \/ stable' = TRUE /\ UNCHANGED inconclusive
           \/ inconclusive' = TRUE /\ UNCHANGED stable
        /\ UNCHANGED exhausted
        /\ \/ step' = "search" /\ UNCHANGED failures
           \/ Charge("search")
  /\ UNCHANGED <<auto, serving, measured, started, after, Outcome>>

\* It starts, exactly or as memory recovery has rewritten it; then it is stopped.
ExactStarts ==
  /\ step = "exact" /\ Takes(ExactWindow) /\ todo' = todo - 1
  /\ \/ serving' = "candidate" /\ started' = TRUE /\ Goes("candidate") /\ UNCHANGED stable
     \/ serving' = "rewritten" /\ stable' = TRUE /\ ReleasesThen("charge") /\ UNCHANGED started
  /\ UNCHANGED <<auto, failures, measured, inconclusive, exhausted>>

\* It is measured, by a deadline that leaves the reserve; the first one that is
\* ends an automatic search.
MeasuresCandidate ==
  /\ step = "candidate" /\ Takes(IF Remaining > Reserve THEN Remaining - Reserve ELSE 0)
  /\ \/ /\ measured' = measured + 1 /\ ReleasesThen(IF auto THEN "choose" ELSE "search")
        /\ UNCHANGED <<inconclusive, exhausted>>
     \/ /\ inconclusive' = TRUE /\ UNCHANGED measured
        /\ \/ ReleasesThen("charge") /\ UNCHANGED exhausted
           \/ ReleasesThen("choose") /\ exhausted' = TRUE
  /\ UNCHANGED <<auto, serving, todo, failures, stable, started>>

\* stopCalibrationProcessAndWait. A process that survives goes on serving; one
\* that leaves its memory behind is followed by the baseline, and both end the
\* experiment.
Releases ==
  /\ step = "release" /\ Takes(ReleaseCost)
  /\ serving' = "none" /\ after' = "nothing"
  /\ IF after = "charge" THEN Charge("search") ELSE step' = after /\ UNCHANGED failures
  /\ UNCHANGED <<auto, todo, measured, findings, Outcome>>

ReleaseFails ==
  /\ step = "release" /\ Takes(ReleaseCost) /\ after' = "nothing"
  /\ \/ step' = "over" /\ UNCHANGED <<serving, why>>
     \/ step' = "restore" /\ why' = "release" /\ serving' = "none"
  /\ UNCHANGED <<auto, todo, failures, measured, findings, tried, decision>>

-----------------------------------------------------------------------------
(* What the search has shown, and what serves after it.                     *)

Restores(reason) == step' = "restore" /\ why' = reason

\* classifyUnmeasuredSearch, for what may be recorded without a measurement.
Settled == (exhausted /\ auto) \/ (stable /\ ~inconclusive /\ ~started)

\* The default is the winner of a search that measured nothing, if it ran on.
ChoosesDefault ==
  /\ step = "choose" /\ measured = 0
  /\ IF serving = "none" THEN Restores("unmeasured") /\ UNCHANGED decision
     ELSE step' = "over" /\ UNCHANGED why /\ decision' = IF Settled THEN "default" ELSE "none"
  /\ UNCHANGED <<auto, serving, left, todo, failures, measured, findings, after, tried>>

\* The best of the measured ones, as the advisor may correct a tie. It is asked
\* while nothing serves, and nothing may be started when it cannot be released.
ChoosesBest ==
  /\ step = "choose" /\ measured > 0
  /\ \/ Restores("winner") \/ Restores("lost")
     \/ ~auto /\ step' = "over" /\ why' = "advisor"
  /\ IF auto THEN UNCHANGED left ELSE Takes(Remaining)
  /\ UNCHANGED <<auto, serving, todo, failures, measured, findings, after, tried, decision>>

\* A winner starts only in time that a restoration of the baseline can spare.
RestoreWindow == IF why = "winner" THEN ServiceWindow(RestoreFloor + ReleaseCost, 0)
                 ELSE ServiceWindow(0, RestoreFloor)

MutRestoredAs(exact) == IF why = "winner" THEN "winner" ELSE IF why = "lost" THEN "default" ELSE "none"

\* The pending decision for a start that served its plan, or another one.
RestoredAs(exact) ==
  CASE exact /\ why = "winner" -> "winner"
    [] exact /\ why = "lost" -> "default"
    [] exact /\ why = "unmeasured" /\ Settled -> "default"
    [] exact /\ why = "winner-failed" /\ auto -> "default"
    [] OTHER -> "none"

\* restoreService, whose start may recover into another plan.
ServiceComesBack ==
  /\ step = "restore" /\ RestoreWindow > 0 /\ Takes(RestoreWindow)
  /\ step' = "over" /\ tried' = (tried \/ why # "winner")
  /\ \E exact \in BOOLEAN :
       /\ serving' = IF ~exact THEN "rewritten" ELSE IF why = "winner" THEN "winner" ELSE "baseline"
       /\ decision' = RestoredAs(exact)
  /\ UNCHANGED <<auto, todo, failures, measured, findings, after, why>>

\* It fails, or there is no time for it. The baseline follows a winner.
ServiceStaysDown ==
  /\ step = "restore" /\ Takes(RestoreWindow)
  /\ tried' = (tried \/ (RestoreWindow > 0 /\ why # "winner"))
  /\ IF why = "winner" THEN why' = "winner-failed" /\ UNCHANGED step
     ELSE step' = "over" /\ UNCHANGED why
  /\ UNCHANGED <<auto, serving, todo, failures, measured, findings, after, decision>>

CalibrationNext ==
  \/ MeasuresDefault \/ SkipsCandidate \/ EndsSearch \/ OutOfBudget \/ Begins
  \/ ExactFails \/ ExactStarts \/ MeasuresCandidate \/ Releases \/ ReleaseFails
  \/ ChoosesDefault \/ ChoosesBest \/ ServiceComesBack \/ ServiceStaysDown

-----------------------------------------------------------------------------
\* An experiment never ends with nothing that serves unless it has tried to bring
\* back what served, or the advisor's memory is not released; and when what served
\* is brought back, the emergency deadline still leaves it the time that was
\* reckoned for it, whatever was tried before.
ServiceRestored ==
  /\ step = "over" /\ serving = "none" => tried \/ why = "advisor"
  /\ step = "restore" /\ why # "winner" => left >= RestoreFloor

\* A decision is pending only for the plan that serves, to the letter.
DecisionDescribesServing ==
  step = "over" => /\ decision = "winner" => serving = "winner"
                   /\ decision = "default" => serving = "baseline"
=============================================================================
