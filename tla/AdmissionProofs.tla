---------------------------- MODULE AdmissionProofs ----------------------------
(* That a rejected plan is never loaded again, that ceilings of contexts are    *)
(* measured ones, what the guard's charge covers and its limit bounds, and that *)
(* an experiment leaves service restored or tried for, for any number of plans, *)
(* threads, addresses and candidates, and any budget.                           *)
EXTENDS MCAdmission, FiniteSetTheorems, WellFoundedInduction, TLAPS

\* A behaviour shows one scene.
LEMMA ScenesApart ==
  Next => /\ StartStep \/ UNCHANGED admissionVars
          /\ ContextStep \/ UNCHANGED contextVars
          /\ GuardStep \/ UNCHANGED guardVars
          /\ ExperimentStep \/ UNCHANGED calibrationVars
BY DEF Next, StartStep, ContextStep, GuardStep, ExperimentStep

-----------------------------------------------------------------------------
(* The admission.                                                           *)

\* What the head of the loop let pass has not been rejected since.
PassedTheHead == pc \in {"preflight", "place", "start"} /\ mode # "restore" => ~isRejected(rec, plan)

\* A plan that the launch has rejected is not loaded again, whichever planner
\* proposes it: rejecting one always leads back to the head of the loop.
THEOREM RejectedIsNotLoadedAgain == Spec => []NeverRejectedAgain
<1>1. Init => PassedTheHead
  BY DEF Init, AdmissionInit, PassedTheHead
<1>2. PassedTheHead /\ [Next]_allVars => PassedTheHead'
  <2> SUFFICES ASSUME PassedTheHead, [Next]_allVars PROVE PassedTheHead'
    OBVIOUS
  <2>1. CASE UNCHANGED admissionVars
    BY <2>1 DEF admissionVars, PassedTheHead
  <2>2. ASSUME NEW p, NEW w, NEW r, Again(p, w, r) PROVE PassedTheHead'
    BY <2>2 DEF Again, PassedTheHead
  <2>3. ASSUME NEW res, NEW w, NEW r, Ends(res, w, r) PROVE PassedTheHead'
    BY <2>3 DEF Ends, PassedTheHead
  <2>4. ASSUME NEW m, NEW p, NEW r, Admission(m, p, r) PROVE PassedTheHead'
    BY <2>4 DEF Admission, PassedTheHead
  <2>5. CASE Enter
    BY <2>5 DEF Enter, MayRetry, PassedTheHead
  <2>6. CASE Consents
    BY <2>3, <2>6 DEF Consents, PassedTheHead
  <2>7. CASE Fits
    <3>1. mode' = mode /\ plan' = plan /\ rec' = rec /\ pc = "preflight"
      BY <2>7 DEF Fits
    <3> QED BY <3>1 DEF PassedTheHead
  <2>8. CASE ProbeUnavailable \/ Stays
    BY <2>8 DEF ProbeUnavailable, Stays, PassedTheHead
  <2>9. CASE Raises
    BY <2>2, <2>9 DEF Raises, PassedTheHead
  <2>10. CASE Refuses \/ SpecMismatch \/ ProbeRefused \/ FailsClosed \/ Adjusts \/ CompanionRejected
    BY <2>2, <2>3, <2>10 DEF Refuses, SpecMismatch, ProbeRefused, FailsClosed, Adjusts, CompanionRejected
  <2>11. CASE DoesNotFit
    BY <2>2, <2>3, <2>11, Zenon DEF DoesNotFit
  <2>12. CASE Unfixed \/ Replans \/ Unsafe \/ StartRefused \/ Serves \/ FailsToStart
    BY <2>2, <2>3, <2>12 DEF Unfixed, Replans, Unsafe, StartRefused, Serves, FailsToStart
  <2>13. CASE Contradicted
    BY <2>2, <2>3, <2>13, Zenon DEF Contradicted
  <2>14. CASE OutOfMemory
    BY <2>2, <2>3, <2>14, Zenon DEF OutOfMemory
  <2>15. CASE StartsOver \/ NextAdmission
    BY <2>4, <2>15 DEF StartsOver, NextAdmission
  <2>16. CASE AdmissionNext
    BY <2>5, <2>6, <2>7, <2>8, <2>9, <2>10, <2>11, <2>12, <2>13, <2>14, <2>15, <2>16
       DEF AdmissionNext, Loops, Preflights
  <2>17. CASE UNCHANGED allVars
    BY <2>1, <2>17 DEF allVars
  <2> QED BY <2>1, <2>16, <2>17, ScenesApart DEF StartStep
<1>3. PassedTheHead => NeverRejectedAgain
  BY DEF PassedTheHead, NeverRejectedAgain
<1> QED BY <1>1, <1>2, <1>3, PTL DEF Spec

-----------------------------------------------------------------------------
(* The ceiling of contexts.                                                 *)

\* What is noted of contexts comes from refusals: an estimate is never more than
\* a step below the shortest context that was refused.
ContextInv ==
  /\ ctx \in 1..MaxCtx
  /\ {rejectedContext, acceptedContext, pricedContext, outstrippedContext} \subseteq 0..MaxCtx
  /\ rejectedContext = 0 => pricedContext = 0 /\ outstrippedContext = 0
  /\ outstrippedContext > 0 => rejectedContext <= outstrippedContext
  /\ pricedContext > 0 => rejectedContext - OneStep(rejectedContext) <= pricedContext

LEMMA Division ==
  ASSUME NEW c \in Nat, NEW d \in Nat \ {0}
  PROVE  c \div d \in Nat /\ d * (c \div d) <= c /\ c < d * (c \div d) + d
<1>1. c \div d \in Nat
  OBVIOUS
<1>2. d * (c \div d) <= c
  BY Z3
<1>3. c < d * (c \div d) + d
  BY Z3
<1> QED BY <1>1, <1>2, <1>3

\* A step is at most the context, and a longer context stays longer by a step less.
LEMMA Steps ==
  /\ \A c \in Nat : OneStep(c) \in 0..c
  /\ \A a, b \in Nat : a <= b => a - OneStep(a) <= b - OneStep(b)
<1> DEFINE d == StepDivisor
<1>1. d \in Nat \ {0}
  BY ContextAssumption
<1>2. ASSUME NEW c \in Nat
      PROVE  /\ OneStep(c) \in Nat /\ d * OneStep(c) <= c /\ c < d * OneStep(c) + d
  BY <1>1, Division DEF OneStep
<1>3. \A q \in Nat : q <= d * q
  BY <1>1
<1> HIDE DEF d
<1>4. ASSUME NEW c \in Nat PROVE OneStep(c) \in 0..c
  <2> DEFINE q == OneStep(c)
  <2>1. q \in Nat /\ d * q <= c
    BY <1>2
  <2> HIDE DEF q
  <2>2. d * q \in Nat /\ q <= d * q
    BY <1>1, <1>3, <2>1
  <2>3. q \in 0..c
    BY <2>1, <2>2
  <2> QED BY <2>3 DEF q
<1>5. ASSUME NEW a \in Nat, NEW b \in Nat, a <= b PROVE a - OneStep(a) <= b - OneStep(b)
  <2> DEFINE q == OneStep(a)
             r == OneStep(b)
  <2>1. /\ q \in Nat /\ r \in Nat /\ d * q <= a /\ a < d * q + d /\ d * r <= b
    BY <1>2
  <2> HIDE DEF q, r
  <2>2. CASE r <= q
    BY <1>5, <2>1, <2>2 DEF q, r
  <2>3. CASE r > q
    <3>1. PICK k \in Nat : r = q + 1 + k
      BY <2>1, <2>3
    <3>2. d * r = d * q + d + d * k
      BY <1>1, <2>1, <3>1
    <3>3. k <= d * k /\ d * k \in Nat /\ d * q \in Nat
      BY <1>1, <1>3, <2>1, <3>1
    <3>4. a + k < b
      BY <1>1, <1>5, <2>1, <3>1, <3>2, <3>3
    <3>5. a - q <= b - r
      BY <2>1, <3>1, <3>4
    <3> QED BY <3>5 DEF q, r
  <2> QED BY <2>1, <2>2, <2>3
<1> QED BY <1>4, <1>5

LEMMA ContextStart == Init => ContextInv
BY ContextAssumption DEF Init, ContextInit, ContextInv

LEMMA StepContexts == ContextInv /\ [Next]_allVars => ContextInv'
<1> SUFFICES ASSUME ContextInv, [Next]_allVars PROVE ContextInv'
  OBVIOUS
<1>1. CASE UNCHANGED contextVars
  BY <1>1 DEF contextVars, limitVars, ContextInv
<1>2. CASE PlansContext
  <2>1. UNCHANGED limitVars
    BY <1>2 DEF PlansContext
  <2>2. ctx' \in 1..MaxCtx
    BY <1>2, ContextAssumption DEF PlansContext, ContextInv
  <2> QED BY <2>1, <2>2 DEF limitVars, ContextInv
<1>3. CASE AcceptsContext
  BY <1>3 DEF AcceptsContext, Lowest, ContextInv
<1>4. CASE RejectsContext
  <2>1. PICK tokens \in 0..MaxCtx, majority \in BOOLEAN :
          LET cut == IF majority THEN Reclaim(tokens) ELSE 0 IN
          /\ rejectedContext' = Lowest(rejectedContext, ctx)
          /\ pricedContext' = IF cut > Granules THEN Lowest(pricedContext, ctx - cut) ELSE pricedContext
          /\ outstrippedContext' = IF Outstrips(tokens) THEN Lowest(outstrippedContext, ctx) ELSE outstrippedContext
          /\ UNCHANGED <<ctx, acceptedContext>>
    BY <1>4 DEF RejectsContext
  <2> DEFINE cut == IF majority THEN Reclaim(tokens) ELSE 0
  <2>2. /\ MaxCtx \in Nat /\ CtxFloor \in Nat \ {0} /\ ctx \in 1..MaxCtx /\ Granules \in Nat
        /\ rejectedContext \in 0..MaxCtx /\ pricedContext \in 0..MaxCtx /\ outstrippedContext \in 0..MaxCtx
    BY ContextAssumption DEF ContextInv
  <2>3. OneStep(ctx) \in 0..ctx
    BY <2>2, Steps
  <2>4. cut \in 0..OneStep(ctx) /\ cut < ctx
    BY <2>2, <2>3 DEF Reclaim
  <2>5. pricedContext' = IF cut > Granules THEN Lowest(pricedContext, ctx - cut) ELSE pricedContext
    BY <2>1
  <2> HIDE DEF cut
  <2>6. rejectedContext' \in 1..ctx /\ (rejectedContext > 0 => rejectedContext' <= rejectedContext)
    BY <2>1, <2>2 DEF Lowest
  <2>7. rejectedContext' - OneStep(rejectedContext') <= ctx - OneStep(ctx)
    BY <2>2, <2>6, Steps
  <2>8. rejectedContext > 0 =>
          rejectedContext' - OneStep(rejectedContext') <= rejectedContext - OneStep(rejectedContext)
    BY <2>2, <2>6, Steps
  <2>9. OneStep(rejectedContext) \in Nat /\ OneStep(rejectedContext') \in Nat
    BY <2>2, <2>6, Steps
  <2>10. pricedContext' \in {pricedContext, ctx - cut} /\ pricedContext' \in 0..MaxCtx
    BY <2>2, <2>3, <2>4, <2>5 DEF Lowest
  <2>11. outstrippedContext' \in {outstrippedContext, ctx} /\ acceptedContext' = acceptedContext /\ ctx' = ctx
    BY <2>1 DEF Lowest
  <2>12. pricedContext' > 0 => rejectedContext' - OneStep(rejectedContext') <= pricedContext'
    <3>1. CASE pricedContext' = ctx - cut
      BY <2>2, <2>3, <2>4, <2>6, <2>7, <2>9, <3>1
    <3>2. CASE pricedContext' = pricedContext
      <4>1. pricedContext > 0 =>
              rejectedContext > 0 /\ rejectedContext - OneStep(rejectedContext) <= pricedContext
        BY <2>2 DEF ContextInv
      <4> QED BY <2>2, <2>6, <2>8, <2>9, <3>2, <4>1
    <3> QED BY <2>10, <3>1, <3>2
  <2>13. outstrippedContext' > 0 => rejectedContext' <= outstrippedContext'
    BY <2>2, <2>6, <2>11 DEF ContextInv
  <2> QED BY <2>2, <2>6, <2>10, <2>11, <2>12, <2>13 DEF ContextInv
<1> QED BY <1>1, <1>2, <1>3, <1>4, ScenesApart DEF ContextStep, ContextNext, allVars

\* Of up to three numbers, one is the least.
LEMMA LeastOfThree ==
  ASSUME NEW S, NEW a \in Nat, NEW b \in Nat, NEW c \in Nat, S \subseteq {a, b, c}, a \in S
  PROVE  \E m \in S : \A n \in S : m <= n
<1>1. CASE b \in S /\ c \in S
  BY <1>1
<1>2. CASE b \in S /\ c \notin S
  BY <1>2
<1>3. CASE b \notin S /\ c \in S
  BY <1>3
<1>4. CASE b \notin S /\ c \notin S
  BY <1>4
<1> QED BY <1>1, <1>2, <1>3, <1>4

\* The ceiling follows what was measured: the shortest context that was admitted
\* is offered again, and without an admission the ceiling is below every refusal
\* but never by more than one step, unless at the floor.
THEOREM CeilingIsMeasured == Spec => []CeilingMeasured
<1>1. ContextInv => CeilingMeasured
  <2> SUFFICES ASSUME ContextInv PROVE CeilingMeasured
    OBVIOUS
  <2> DEFINE usable(c) == Highest(Highest(c, CtxFloor), acceptedContext)
             a == rejectedContext - 1
             b == usable(outstrippedContext - OneStep(outstrippedContext))
             p == usable(pricedContext)
  <2>1. /\ CtxFloor \in Nat /\ rejectedContext \in Nat /\ acceptedContext \in Nat
        /\ pricedContext \in Nat /\ outstrippedContext \in Nat
    BY ContextAssumption DEF ContextInv
  <2>2. /\ OneStep(outstrippedContext) \in 0..outstrippedContext
        /\ OneStep(rejectedContext) \in 0..rejectedContext
    BY <2>1, Steps
  <2>3. \A c \in Nat : usable(c) \in Nat /\ usable(c) >= acceptedContext /\ usable(c) >= c
    BY <2>1 DEF Highest
  <2>4. /\ outstrippedContext - OneStep(outstrippedContext) \in Nat
        /\ b \in Nat /\ b >= acceptedContext /\ b >= outstrippedContext - OneStep(outstrippedContext)
        /\ p \in Nat /\ p >= acceptedContext /\ p >= pricedContext
    BY <2>1, <2>2, <2>3
  <2>5. Candidates =
          (IF rejectedContext > 1 /\ ~(acceptedContext > 0 /\ acceptedContext >= rejectedContext) THEN {a} ELSE {})
          \union (IF outstrippedContext > 1 THEN {b} ELSE {})
          \union (IF pricedContext > 0 THEN {p} ELSE {})
          \union (IF acceptedContext > 0 THEN {acceptedContext} ELSE {})
    BY DEF Candidates
  <2> HIDE DEF usable, b, p
  <2>6. ASSUME NEW m \in Candidates, \A n \in Candidates : m <= n
        PROVE  AutomaticContextCeiling \in Candidates /\ \A n \in Candidates : AutomaticContextCeiling <= n
    BY <2>6 DEF AutomaticContextCeiling
  <2>7. ASSUME acceptedContext > 0 PROVE AutomaticContextCeiling = acceptedContext
    <3>1. acceptedContext \in Candidates /\ \A n \in Candidates : n \in Nat /\ acceptedContext <= n
      BY <2>1, <2>4, <2>5, <2>7
    <3>2. AutomaticContextCeiling \in Candidates /\ AutomaticContextCeiling <= acceptedContext
      BY <2>6, <3>1
    <3>3. AutomaticContextCeiling \in Nat /\ acceptedContext <= AutomaticContextCeiling
      BY <3>1, <3>2
    <3> QED BY <2>1, <3>2, <3>3
  <2>8. ASSUME acceptedContext = 0, rejectedContext > 1
        PROVE  /\ AutomaticContextCeiling < rejectedContext
               /\ \/ AutomaticContextCeiling >= rejectedContext - OneStep(rejectedContext)
                  \/ AutomaticContextCeiling = rejectedContext - 1
    <3>1. a \in Candidates /\ Candidates \subseteq {a, b, p} /\ a \in Nat
      BY <2>1, <2>5, <2>8
    <3>2. \E m \in Candidates : \A n \in Candidates : m <= n
      BY <2>4, <3>1, LeastOfThree
    <3>3. AutomaticContextCeiling \in Candidates /\ AutomaticContextCeiling <= a
      BY <2>6, <3>1, <3>2
    <3>4. outstrippedContext > 1 => b >= rejectedContext - OneStep(rejectedContext)
      <4>1. outstrippedContext > 1 =>
              rejectedContext - OneStep(rejectedContext) <= outstrippedContext - OneStep(outstrippedContext)
        BY <2>1, Steps DEF ContextInv
      <4> QED BY <2>1, <2>2, <2>4, <4>1
    <3>5. pricedContext > 0 => p >= rejectedContext - OneStep(rejectedContext)
      BY <2>1, <2>2, <2>4 DEF ContextInv
    <3>6. AutomaticContextCeiling = a \/ (outstrippedContext > 1 /\ AutomaticContextCeiling = b)
            \/ (pricedContext > 0 /\ AutomaticContextCeiling = p)
      BY <2>5, <2>8, <3>3
    <3> QED BY <2>1, <2>2, <3>1, <3>3, <3>4, <3>5, <3>6
  <2> QED BY <2>7, <2>8 DEF CeilingMeasured
<1> QED BY <1>1, ContextStart, StepContexts, PTL DEF Spec
-----------------------------------------------------------------------------
(* The experiment.                                                          *)

\* What is left of the time at each step: what the steps that follow have been
\* promised, and the restoration at the end.
TimeInv ==
  /\ left \in Nat
  /\ step = "default" => left = Budget + RestartCap
  /\ step \in {"search", "choose"} => left >= RestartCap
  /\ step = "exact" => left >= RestartCap + WorkCost + Reserve
  /\ step = "candidate" => left >= RestartCap + Reserve
  /\ step = "release" /\ after = "exact" => left >= RestartCap + ReleaseCost + WorkCost + Reserve
  /\ step = "release" => left >= RestartCap + ReleaseCost
  /\ step = "restore" => left >= RestoreFloor

\* What serves at each step: a search meets the baseline or nothing at all.
ServingInv ==
  /\ step = "default" => serving = "baseline"
  /\ step \in {"search", "choose"} => serving \in {"baseline", "none"}
  /\ step = "exact" => serving = "none"
  /\ step = "candidate" => serving = "candidate"
  /\ step = "release" => serving # "none" /\ after \in {"exact", "charge", "choose", "search"}
  /\ step # "over" => decision = "none"

ExperimentInv ==
  TimeInv /\ ServingInv /\ (step = "over" /\ serving = "none" => tried \/ why = "advisor") /\ DecisionDescribesServing

LEMMA CostsAreCounted ==
  /\ {Budget, RestartCap, WorkCost, ReleaseCost, AdmissionCost, LoadCost, Reserve, RestoreFloor} \subseteq Nat
  /\ RestoreFloor \in 1..RestartCap /\ Reserve >= ReleaseCost
BY CalibrationAssumption DEF Reserve, RestoreFloor

\* An activity leaves what its bound leaves.
LEMMA WhatIsLeft ==
  ASSUME NEW bound \in Nat, NEW rest \in Nat, left \in Nat, left >= rest + bound, Takes(bound)
  PROVE  left' \in Nat /\ left' >= rest
BY DEF Takes

\* The windows of the search end where the promises begin.
LEMMA RemainsAbove ==
  ASSUME NEW promised \in Nat, left \in Nat, left >= RestartCap + promised
  PROVE  LET window == IF Remaining > promised THEN Remaining - promised ELSE 0 IN
         window \in Nat /\ left >= RestartCap + promised + window
BY CostsAreCounted DEF Remaining

\* A window of a restoration is spent to no less than the floor, and what served
\* before is always given one.
LEMMA RestorationIsPaid ==
  ASSUME left \in Nat, left >= RestoreFloor
  PROVE  /\ RestoreWindow \in Nat
         /\ why = "winner" => left >= RestoreFloor + RestoreWindow
         /\ why # "winner" => RestoreWindow > 0
BY CostsAreCounted DEF RestoreWindow, ServiceWindow

\* An experiment that begins can pay for all its steps.
LEMMA ExperimentIsPaid ==
  ASSUME left \in Nat, NEW cost \in Costs, cost <= Remaining, Remaining > 0
  PROVE  left >= RestartCap + WorkCost + Reserve + (IF serving = "baseline" THEN ReleaseCost ELSE 0)
<1> DEFINE extra == IF serving = "baseline" THEN ReleaseCost ELSE 0
<1>1. extra \in Nat
  BY CostsAreCounted
<1>2. PICK admission \in {AdmissionCost, LoadCost} : cost = admission + LoadCost + WorkCost + Reserve + extra
  BY DEF Costs
<1>3. admission \in Nat
  BY CostsAreCounted
<1> HIDE DEF extra
<1>4. left >= RestartCap + WorkCost + Reserve + extra
  BY <1>1, <1>2, <1>3, CostsAreCounted DEF Remaining
<1> QED BY <1>4 DEF extra

LEMMA ExperimentStart == Init => ExperimentInv
BY CostsAreCounted DEF Init, CalibrationInit, ExperimentInv, TimeInv, ServingInv, DecisionDescribesServing

LEMMA ExperimentSteps == ExperimentInv /\ [Next]_allVars => ExperimentInv'
<1> SUFFICES ASSUME ExperimentInv, [Next]_allVars PROVE ExperimentInv'
  OBVIOUS
<1> USE CostsAreCounted
<1>1. left \in Nat
  BY DEF ExperimentInv, TimeInv
<1>2. CASE UNCHANGED calibrationVars
  BY <1>2 DEF calibrationVars, findings, ExperimentInv, TimeInv, ServingInv, DecisionDescribesServing,
              RestoreFloor, Reserve
<1>3. CASE MeasuresDefault
  <2>1. left = Budget + RestartCap /\ serving = "baseline" /\ decision = "none"
    BY <1>3 DEF MeasuresDefault, ExperimentInv, TimeInv, ServingInv
  <2>2. left' \in Nat /\ left' >= RestartCap
    BY <1>1, <1>3, <2>1, WhatIsLeft DEF MeasuresDefault
  <2>3. step' \in {"search", "over"} /\ serving' = "baseline" /\ decision' = "none"
    BY <1>3, <2>1 DEF MeasuresDefault, Goes, Outcome
  <2> QED BY <2>2, <2>3 DEF ExperimentInv, TimeInv, ServingInv, DecisionDescribesServing
<1>4. CASE SkipsCandidate \/ EndsSearch \/ OutOfBudget
  <2>1. step = "search" /\ step' \in {"search", "choose"} /\ UNCHANGED <<serving, left, decision>>
    BY <1>4 DEF SkipsCandidate, EndsSearch, OutOfBudget, Goes, Outcome
  <2> QED BY <2>1 DEF ExperimentInv, TimeInv, ServingInv, DecisionDescribesServing
<1>5. CASE Begins
  <2>1. /\ step = "search" /\ UNCHANGED <<serving, left, decision>> /\ serving \in {"baseline", "none"}
        /\ decision = "none"
    BY <1>5 DEF Begins, Goes, ReleasesThen, Outcome, ExperimentInv, ServingInv
  <2>2. left >= RestartCap + WorkCost + Reserve + (IF serving = "baseline" THEN ReleaseCost ELSE 0)
    BY <1>1, <1>5, ExperimentIsPaid DEF Begins
  <2>3. IF serving = "baseline" THEN step' = "release" /\ after' = "exact" ELSE step' = "exact"
    BY <1>5 DEF Begins, Goes, ReleasesThen
  <2> QED BY <1>1, <2>1, <2>2, <2>3 DEF ExperimentInv, TimeInv, ServingInv, DecisionDescribesServing
<1>6. CASE ExactFails \/ ExactStarts
  <2>1. /\ step = "exact" /\ serving = "none" /\ decision = "none" /\ decision' = "none"
        /\ left >= RestartCap + (WorkCost + Reserve)
    BY <1>1, <1>6 DEF ExactFails, ExactStarts, Goes, ReleasesThen, Outcome, ExperimentInv, TimeInv, ServingInv
  <2>2. left' \in Nat /\ left' >= RestartCap + WorkCost + Reserve
    <3>1. ExactWindow \in Nat /\ left >= RestartCap + (WorkCost + Reserve) + ExactWindow
      BY <1>1, <2>1, RemainsAbove DEF ExactWindow
    <3>2. left' \in Nat /\ left' >= RestartCap + (WorkCost + Reserve)
      BY <1>1, <1>6, <3>1, WhatIsLeft DEF ExactFails, ExactStarts
    <3> QED BY <3>2
  <2>3. \/ step' \in {"search", "choose"} /\ serving' = "none"
        \/ step' = "candidate" /\ serving' = "candidate"
        \/ step' = "release" /\ after' = "charge" /\ serving' = "rewritten"
    BY <1>6, <2>1 DEF ExactFails, ExactStarts, Charge, Goes, ReleasesThen
  <2> QED BY <2>1, <2>2, <2>3 DEF ExperimentInv, TimeInv, ServingInv, DecisionDescribesServing
<1>7. CASE MeasuresCandidate
  <2>1. /\ step = "candidate" /\ serving' = serving /\ decision' = "none" /\ left >= RestartCap + Reserve
        /\ step' = "release" /\ after' \in {"choose", "search", "charge"}
    BY <1>7 DEF MeasuresCandidate, ReleasesThen, Outcome, ExperimentInv, TimeInv, ServingInv
  <2> DEFINE window == IF Remaining > Reserve THEN Remaining - Reserve ELSE 0
  <2>2. window \in Nat /\ left >= RestartCap + Reserve + window
    BY <1>1, <2>1, RemainsAbove
  <2>3. Takes(window)
    BY <1>7 DEF MeasuresCandidate
  <2> HIDE DEF window
  <2>4. left' \in Nat /\ left' >= RestartCap + Reserve
    BY <1>1, <2>2, <2>3, WhatIsLeft
  <2>5. serving # "none"
    BY <2>1 DEF ExperimentInv, ServingInv
  <2>6. left' >= RestartCap + ReleaseCost /\ after' # "exact" /\ serving' # "none"
    BY <2>1, <2>4, <2>5
  <2> QED BY <2>1, <2>4, <2>6 DEF ExperimentInv, TimeInv, ServingInv, DecisionDescribesServing
<1>8. CASE Releases
  <2>1. /\ step = "release" /\ after \in {"exact", "charge", "choose", "search"} /\ serving' = "none"
        /\ decision' = "none" /\ left >= RestartCap + ReleaseCost
        /\ after = "exact" => left >= RestartCap + ReleaseCost + WorkCost + Reserve
    BY <1>8 DEF Releases, Outcome, ExperimentInv, TimeInv, ServingInv
  <2>2. left' \in Nat /\ left' >= RestartCap
    BY <1>1, <1>8, <2>1, WhatIsLeft DEF Releases
  <2>3. after = "exact" => left' >= RestartCap + WorkCost + Reserve
    BY <1>1, <1>8, <2>1, WhatIsLeft DEF Releases
  <2>4. step' \in {"choose", "search"} \/ (step' = "exact" /\ after = "exact")
    BY <1>8, <2>1 DEF Releases, Charge
  <2> QED BY <2>1, <2>2, <2>3, <2>4 DEF ExperimentInv, TimeInv, ServingInv, DecisionDescribesServing
<1>9. CASE ReleaseFails
  <2>1. /\ step = "release" /\ serving # "none" /\ decision' = "none" /\ left >= RestartCap + ReleaseCost
        /\ \/ step' = "over" /\ serving' = serving
           \/ step' = "restore"
    BY <1>9 DEF ReleaseFails, ExperimentInv, TimeInv, ServingInv
  <2>2. left' \in Nat /\ left' >= RestartCap
    BY <1>1, <1>9, <2>1, WhatIsLeft DEF ReleaseFails
  <2> QED BY <2>1, <2>2 DEF ExperimentInv, TimeInv, ServingInv, DecisionDescribesServing
<1>10. CASE ChoosesDefault
  <2>1. step = "choose" /\ serving \in {"baseline", "none"} /\ decision = "none" /\ left >= RestartCap
    BY <1>10 DEF ChoosesDefault, ExperimentInv, TimeInv, ServingInv
  <2>2. /\ UNCHANGED <<left, serving>>
        /\ \/ serving = "none" /\ step' = "restore" /\ decision' = "none"
           \/ serving = "baseline" /\ step' = "over" /\ decision' \in {"default", "none"}
    BY <1>10, <2>1 DEF ChoosesDefault, Restores
  <2> QED BY <1>1, <2>1, <2>2 DEF ExperimentInv, TimeInv, ServingInv, DecisionDescribesServing
<1>11. CASE ChoosesBest
  <2>1. /\ step = "choose" /\ decision' = "none" /\ left >= RestartCap
        /\ step' = "restore" \/ (step' = "over" /\ why' = "advisor")
    BY <1>11 DEF ChoosesBest, Restores, ExperimentInv, TimeInv, ServingInv
  <2>2. left' \in Nat /\ left' >= RestartCap
    <3>1. CASE auto
      BY <1>1, <1>11, <2>1, <3>1 DEF ChoosesBest
    <3>2. CASE ~auto
      <4>1. Remaining \in Nat /\ left >= RestartCap + Remaining
        BY <1>1, <2>1 DEF Remaining
      <4> QED BY <1>1, <1>11, <3>2, <4>1, WhatIsLeft DEF ChoosesBest
    <3> QED BY <3>1, <3>2
  <2> QED BY <2>1, <2>2 DEF ExperimentInv, TimeInv, ServingInv, DecisionDescribesServing
<1>12. CASE ServiceComesBack
  <2>1. step' = "over" /\ step = "restore" /\ left >= RestoreFloor
    BY <1>12 DEF ServiceComesBack, ExperimentInv, TimeInv
  <2>2. RestoreWindow \in Nat
    BY <1>1, <2>1, RestorationIsPaid
  <2>3. left' \in Nat
    BY <1>1, <1>12, <2>2 DEF ServiceComesBack, Takes
  <2>4. /\ serving' # "none"
        /\ decision' = "winner" => serving' = "winner"
        /\ decision' = "default" => serving' = "baseline"
    <3>1. PICK exact \in BOOLEAN :
            /\ serving' = IF ~exact THEN "rewritten" ELSE IF why = "winner" THEN "winner" ELSE "baseline"
            /\ decision' = RestoredAs(exact)
      BY <1>12 DEF ServiceComesBack
    <3>2. CASE ~exact
      BY <3>1, <3>2 DEF RestoredAs
    <3>3. CASE exact /\ why = "winner"
      BY <3>1, <3>3 DEF RestoredAs
    <3>4. CASE exact /\ why # "winner"
      <4>1. RestoredAs(exact) # "winner"
        BY <3>4 DEF RestoredAs
      <4> QED BY <3>1, <3>4, <4>1
    <3> QED BY <3>2, <3>3, <3>4
  <2> QED BY <2>1, <2>3, <2>4 DEF ExperimentInv, TimeInv, ServingInv, DecisionDescribesServing
<1>13. CASE ServiceStaysDown
  <2>1. step = "restore" /\ left >= RestoreFloor /\ decision = "none" /\ decision' = "none" /\ Takes(RestoreWindow)
    BY <1>13 DEF ServiceStaysDown, ExperimentInv, TimeInv, ServingInv
  <2>2. /\ RestoreWindow \in Nat
        /\ why = "winner" => left >= RestoreFloor + RestoreWindow
        /\ why # "winner" => RestoreWindow > 0
    BY <1>1, <2>1, RestorationIsPaid
  <2>3. CASE why = "winner"
    <3>1. left' \in Nat /\ left' >= RestoreFloor
      BY <1>1, <2>1, <2>2, <2>3, WhatIsLeft
    <3>2. step' = "restore"
      BY <1>13, <2>1, <2>3 DEF ServiceStaysDown
    <3> QED BY <2>1, <3>1, <3>2 DEF ExperimentInv, TimeInv, ServingInv, DecisionDescribesServing
  <2>4. CASE why # "winner"
    <3>1. step' = "over" /\ tried' = TRUE
      BY <1>13, <2>2, <2>4 DEF ServiceStaysDown
    <3>2. left' \in Nat
      BY <1>1, <2>1, <2>2 DEF Takes
    <3> QED BY <2>1, <3>1, <3>2 DEF ExperimentInv, TimeInv, ServingInv, DecisionDescribesServing
  <2> QED BY <2>3, <2>4
<1> QED BY <1>2, <1>3, <1>4, <1>5, <1>6, <1>7, <1>8, <1>9, <1>10, <1>11, <1>12, <1>13, ScenesApart
        DEF ExperimentStep, CalibrationNext, allVars

\* An experiment never ends with nothing that serves unless it has tried to bring
\* back what served, or the advisor's memory is not released, and a restoration
\* always finds the time that was reckoned for it, whatever the costs and bounds.
THEOREM ServiceIsRestored == Spec => []ServiceRestored
<1>1. ExperimentInv => ServiceRestored
  BY DEF ExperimentInv, TimeInv, ServiceRestored
<1> QED BY <1>1, ExperimentStart, ExperimentSteps, PTL DEF Spec

\* What is recorded as decided is what serves, to the letter, at the end.
THEOREM DecisionIsOfWhatServes == Spec => []DecisionDescribesServing
<1>1. ExperimentInv => DecisionDescribesServing
  BY DEF ExperimentInv
<1> QED BY <1>1, ExperimentStart, ExperimentSteps, PTL DEF Spec
-----------------------------------------------------------------------------
(* Bytes, counted one by one.                                               *)

LEMMA TheBytes ==
  ASSUME NEW S, NEW f \in [S -> Nat]
  PROVE  /\ \A x \in S : \A k \in 1..f[x] : <<x, k>> \in BytesOf(f)
         /\ \A z \in BytesOf(f) : \E x \in S, k \in Nat : k \in 1..f[x] /\ z = <<x, k>>
BY DEF BytesOf

LEMMA Rectangle ==
  ASSUME NEW S, IsFiniteSet(S), NEW m \in Nat
  PROVE  IsFiniteSet(S \X (1..m)) /\ Cardinality(S \X (1..m)) = Cardinality(S) * m
<1> DEFINE T == 1..m
<1>1. IsFiniteSet(T) /\ Cardinality(T) = m
  BY FS_Interval
<1> HIDE DEF T
<1>2. IsFiniteSet(S \X T) /\ Cardinality(S \X T) = Cardinality(S) * Cardinality(T)
  BY <1>1, FS_Product, Zenon
<1>3. IsFiniteSet(S \X T) /\ Cardinality(S \X T) = Cardinality(S) * m
  BY <1>1, <1>2, Zenon
<1> QED BY <1>3 DEF T

LEMMA Row ==
  ASSUME NEW x, NEW m \in Nat
  PROVE  IsFiniteSet({x} \X (1..m)) /\ Cardinality({x} \X (1..m)) = m
<1>1. IsFiniteSet({x}) /\ Cardinality({x}) = 1
  BY FS_Singleton
<1>2. IsFiniteSet({x} \X (1..m)) /\ Cardinality({x} \X (1..m)) = Cardinality({x}) * m
  BY <1>1, Rectangle, Zenon
<1> QED BY <1>1, <1>2

LEMMA BytesAreCounted ==
  ASSUME NEW S, IsFiniteSet(S), NEW f \in [S -> Nat]
  PROVE  IsFiniteSet(BytesOf(f)) /\ Bytes(f) \in Nat
<1> DEFINE each == [x \in S |-> {x} \X (1..f[x])]
           family == {{x} \X (1..f[x]) : x \in S}
<1>1. each \in Surjection(S, family)
  BY DEF Surjection
<1>2. IsFiniteSet(family)
  BY <1>1, FS_Surjection
<1>3. \A T \in family : IsFiniteSet(T)
  <2> SUFFICES ASSUME NEW x \in S PROVE IsFiniteSet({x} \X (1..f[x]))
    OBVIOUS
  <2>1. f[x] \in Nat
    OBVIOUS
  <2> QED BY <2>1, Row, Zenon
<1>4. BytesOf(f) = UNION family
  BY DEF BytesOf
<1> HIDE DEF family
<1>5. IsFiniteSet(BytesOf(f))
  BY <1>2, <1>3, <1>4, FS_UNION
<1> QED BY <1>5, FS_CardinalityType DEF Bytes

\* Less of each is less of all.
LEMMA FewerBytes ==
  ASSUME NEW S, IsFiniteSet(S), NEW f \in [S -> Nat], NEW g \in [S -> Nat], \A x \in S : f[x] <= g[x]
  PROVE  Bytes(f) <= Bytes(g)
<1>1. BytesOf(f) \subseteq BytesOf(g)
  <2> SUFFICES ASSUME NEW z \in BytesOf(f) PROVE z \in BytesOf(g)
    OBVIOUS
  <2>1. PICK x \in S, k \in Nat : k \in 1..f[x] /\ z = <<x, k>>
    BY TheBytes
  <2>2. k \in 1..g[x]
    BY <2>1
  <2> QED BY <2>1, <2>2, TheBytes
<1> QED BY <1>1, BytesAreCounted, FS_Subset DEF Bytes

\* One may be changed alone.
LEMMA BytesOfOne ==
  ASSUME NEW S, IsFiniteSet(S), NEW f \in [S -> Nat], NEW x \in S, NEW n \in Nat
  PROVE  Bytes([f EXCEPT ![x] = n]) = Bytes(f) - f[x] + n
<1> DEFINE none == [f EXCEPT ![x] = 0]
           only(m) == {x} \X (1..m)
<1>1. ASSUME NEW m \in Nat
      PROVE  Bytes([f EXCEPT ![x] = m]) = Bytes(none) + m
  <2> DEFINE g == [f EXCEPT ![x] = m]
  <2>1. g \in [S -> Nat] /\ none \in [S -> Nat] /\ g[x] = m /\ none[x] = 0
        /\ \A y \in S \ {x} : g[y] = f[y] /\ none[y] = f[y]
    OBVIOUS
  <2> HIDE DEF g, none
  <2>2. BytesOf(g) = BytesOf(none) \union only(m)
    <3>1. ASSUME NEW z \in BytesOf(g) PROVE z \in BytesOf(none) \union only(m)
      <4>1. PICK y \in S, k \in Nat : k \in 1..g[y] /\ z = <<y, k>>
        BY <2>1, TheBytes
      <4>2. CASE y = x
        BY <2>1, <4>1, <4>2
      <4>3. CASE y # x
        BY <2>1, <4>1, <4>3, TheBytes
      <4> QED BY <4>2, <4>3
    <3>2. ASSUME NEW z \in BytesOf(none) PROVE z \in BytesOf(g)
      <4>1. PICK y \in S, k \in Nat : k \in 1..none[y] /\ z = <<y, k>>
        BY <2>1, TheBytes
      <4>2. y # x
        BY <2>1, <4>1
      <4> QED BY <2>1, <4>1, <4>2, TheBytes
    <3>3. ASSUME NEW z \in only(m) PROVE z \in BytesOf(g)
      <4>1. PICK k \in 1..m : z = <<x, k>>
        BY <3>3
      <4> QED BY <2>1, <4>1, TheBytes
    <3> QED BY <3>1, <3>2, <3>3
  <2>3. BytesOf(none) \intersect only(m) = {}
    <3> SUFFICES ASSUME NEW z \in BytesOf(none), z \in only(m) PROVE FALSE
      OBVIOUS
    <3>1. PICK y \in S, k \in Nat : k \in 1..none[y] /\ z = <<y, k>>
      BY <2>1, TheBytes
    <3> QED BY <2>1, <3>1
  <2>4. IsFiniteSet(only(m)) /\ Cardinality(only(m)) = m
    BY Row, Zenon
  <2>5. IsFiniteSet(BytesOf(none)) /\ Bytes(none) \in Nat
    BY <2>1, BytesAreCounted
  <2> HIDE DEF only
  <2>6. Cardinality(BytesOf(g)) = Cardinality(BytesOf(none)) + m - Cardinality({})
    BY <2>2, <2>3, <2>4, <2>5, FS_Union
  <2>7. Bytes(g) = Bytes(none) + m
    BY <2>5, <2>6, FS_EmptySet DEF Bytes
  <2> QED BY <2>7 DEF g
<1>2. [f EXCEPT ![x] = f[x]] = f
  OBVIOUS
<1>3. Bytes(f) = Bytes(none) + f[x]
  BY <1>1, <1>2
<1>4. Bytes([f EXCEPT ![x] = n]) = Bytes(none) + n /\ Bytes(none) \in Nat /\ f[x] \in Nat
  BY <1>1, BytesAreCounted
<1> HIDE DEF none
<1> QED BY <1>3, <1>4

\* Each is at most all of them.
LEMMA OneOfTheBytes ==
  ASSUME NEW S, IsFiniteSet(S), NEW f \in [S -> Nat], NEW x \in S
  PROVE  f[x] <= Bytes(f)
<1> DEFINE without == [f EXCEPT ![x] = 0]
<1>1. 0 \in Nat /\ f[x] \in Nat
  OBVIOUS
<1>2. Bytes(without) = Bytes(f) - f[x] + 0
  BY <1>1, BytesOfOne, Zenon
<1>3. Bytes(without) \in Nat /\ Bytes(f) \in Nat
  BY BytesAreCounted
<1> HIDE DEF without
<1> QED BY <1>1, <1>2, <1>3

LEMMA NoBytes ==
  ASSUME NEW S, NEW f \in [S -> Nat], \A x \in S : f[x] = 0
  PROVE  Bytes(f) = 0
<1>1. BytesOf(f) = {}
  BY TheBytes
<1> QED BY <1>1, FS_EmptySet DEF Bytes

\* So many of each but one.
LEMMA BytesBut ==
  ASSUME NEW S, IsFiniteSet(S), NEW f \in [S -> Nat], NEW m \in Nat, \A x \in S : f[x] <= m,
         NEW x \in S, f[x] = 0
  PROVE  Bytes(f) <= (Cardinality(S) - 1) * m
<1> DEFINE most == (S \ {x}) \X (1..m)
<1>1. BytesOf(f) \subseteq most
  <2> SUFFICES ASSUME NEW z \in BytesOf(f) PROVE z \in most
    OBVIOUS
  <2>1. PICK y \in S, k \in Nat : k \in 1..f[y] /\ z = <<y, k>>
    BY TheBytes
  <2>2. y # x /\ k \in 1..m
    BY <2>1
  <2> QED BY <2>1, <2>2
<1>2. IsFiniteSet(S \ {x}) /\ Cardinality(S \ {x}) = Cardinality(S) - 1
  BY FS_RemoveElement
<1>3. IsFiniteSet(most) /\ Cardinality(most) = Cardinality(S \ {x}) * m
  BY <1>2, Rectangle, Zenon
<1> HIDE DEF most
<1>4. Cardinality(most) = (Cardinality(S) - 1) * m
  BY <1>2, <1>3
<1> QED BY <1>1, <1>3, <1>4, FS_Subset DEF Bytes

\* Together they are no more than both.
LEMMA BytesOfBoth ==
  ASSUME NEW S, IsFiniteSet(S), NEW f \in [S -> Nat], NEW g \in [S -> Nat], NEW h \in [S -> Nat],
         \A x \in S : f[x] <= g[x] \/ f[x] <= h[x]
  PROVE  Bytes(f) <= Bytes(g) + Bytes(h)
<1>1. BytesOf(f) \subseteq BytesOf(g) \union BytesOf(h)
  <2> SUFFICES ASSUME NEW z \in BytesOf(f) PROVE z \in BytesOf(g) \union BytesOf(h)
    OBVIOUS
  <2>1. PICK x \in S, k \in Nat : k \in 1..f[x] /\ z = <<x, k>>
    BY TheBytes
  <2>2. k \in 1..g[x] \/ k \in 1..h[x]
    BY <2>1
  <2> QED BY <2>1, <2>2, TheBytes
<1>2. /\ IsFiniteSet(BytesOf(g)) /\ Bytes(g) \in Nat
      /\ IsFiniteSet(BytesOf(h)) /\ Bytes(h) \in Nat
  BY BytesAreCounted
<1>3. /\ IsFiniteSet(BytesOf(g) \union BytesOf(h))
      /\ Cardinality(BytesOf(g) \union BytesOf(h))
           = Bytes(g) + Bytes(h) - Cardinality(BytesOf(g) \intersect BytesOf(h))
  BY <1>2, FS_Union DEF Bytes
<1>4. Cardinality(BytesOf(g) \intersect BytesOf(h)) \in Nat
  <2>1. IsFiniteSet(BytesOf(g) \intersect BytesOf(h))
    BY <1>2, FS_Subset
  <2> QED BY <2>1, FS_CardinalityType
<1>5. Bytes(f) <= Cardinality(BytesOf(g) \union BytesOf(h))
  BY <1>1, <1>3, FS_Subset DEF Bytes
<1>6. Bytes(f) \in Nat
  BY BytesAreCounted
<1> QED BY <1>2, <1>3, <1>4, <1>5, <1>6

\* What is found under another name is no more.
LEMMA BytesRenamed ==
  ASSUME NEW S, IsFiniteSet(S), NEW f \in [S -> Nat], NEW T, NEW g \in [T -> Nat],
         NEW name, \A x \in T : g[x] > 0 => \E y \in S : name[y] = x /\ f[y] = g[x]
  PROVE  Bytes(g) <= Bytes(f)
<1> DEFINE renamed == {z \in BytesOf(f) : <<name[z[1]], z[2]>> \in BytesOf(g)}
           rename == [z \in renamed |-> <<name[z[1]], z[2]>>]
<1>1. rename \in Surjection(renamed, BytesOf(g))
  <2>1. rename \in [renamed -> BytesOf(g)]
    OBVIOUS
  <2>2. ASSUME NEW w \in BytesOf(g) PROVE \E z \in renamed : rename[z] = w
    <3>1. PICK x \in T, k \in Nat : k \in 1..g[x] /\ w = <<x, k>>
      BY TheBytes
    <3>2. PICK y \in S : name[y] = x /\ f[y] = g[x]
      BY <3>1
    <3>3. <<y, k>> \in BytesOf(f)
      BY <3>1, <3>2, TheBytes
    <3>4. <<y, k>> \in renamed
      BY <3>1, <3>2, <3>3
    <3>5. rename[<<y, k>>] = w
      BY <3>1, <3>2, <3>4
    <3> QED BY <3>4, <3>5
  <2> HIDE DEF rename, renamed
  <2> QED BY <2>1, <2>2 DEF Surjection
<1>2. IsFiniteSet(BytesOf(f)) /\ Bytes(f) \in Nat
  BY BytesAreCounted
<1>3. IsFiniteSet(renamed) /\ Cardinality(renamed) <= Bytes(f)
  BY <1>2, FS_Subset DEF Bytes
<1> HIDE DEF rename, renamed
<1>4. IsFiniteSet(BytesOf(g)) /\ Bytes(g) <= Cardinality(renamed)
  BY <1>1, <1>3, FS_Surjection DEF Bytes
<1>5. Bytes(g) \in Nat /\ Cardinality(renamed) \in Nat
  BY <1>3, <1>4, FS_CardinalityType DEF Bytes
<1> QED BY <1>2, <1>3, <1>4, <1>5

-----------------------------------------------------------------------------
(* The guard.                                                               *)

Recording(t) == op[t].pc = "recording"
BeingRecorded == {op[t].ptr : t \in {u \in Threads : Recording(u)}}

GuardTypes ==
  /\ resident \in [Ptrs -> Nat]
  /\ dying \subseteq Ptrs /\ held \subseteq Ptrs
  /\ records \in [1..Slots -> [ptr : Ptrs \union {NoPtr}, size : Nat]]
  /\ active \in Nat /\ peak \in Nat /\ active <= peak
  /\ op \in [Threads -> [pc : {"idle", "allocating", "recording", "unrecording"},
                         ptr : Ptrs \union {NoPtr}, size : Nat]]
  /\ \A t \in Threads :
       /\ op[t].pc \in {"idle", "unrecording"} => op[t].size = 0
       /\ op[t].pc \in {"allocating", "recording"} => op[t].size \in Sizes
       /\ op[t].pc \in {"recording", "unrecording"} => op[t].ptr \in Ptrs

\* One party at a time has an address: the thread that is about to record it, the
\* backend that holds it, the stream that is about to free it.
AddressInv ==
  /\ \A p \in held \union dying : resident[p] > 0
  /\ held \intersect dying = {}
  /\ \A t \in Threads : Recording(t) => resident[op[t].ptr] = op[t].size /\ op[t].ptr \notin held \union dying
  /\ \A t, u \in Threads : Recording(t) /\ Recording(u) /\ op[t].ptr = op[u].ptr => t = u
  /\ \A t \in Threads : op[t].pc = "unrecording" => resident[op[t].ptr] = 0

\* What an address must still be charged for: what the table holds of it, which
\* an unrecord will return, or what is resident there once it is recorded.
Entered(table, p) == [i \in 1..Slots |-> IF table[i].ptr = p THEN table[i].size ELSE 0]
Chargeable(p) == IF p \in BeingRecorded THEN 0 ELSE resident[p]
Due(p) == IF Bytes(Entered(records, p)) > Chargeable(p) THEN Bytes(Entered(records, p)) ELSE Chargeable(p)
Dues == [p \in Ptrs |-> Due(p)]
ChargeInv == active >= Bytes(Dues)

\* What has passed the limit: what is charged and what is on its way.
Asked == [t \in Threads |-> op[t].size]
LimitInv ==
  \E most \in Sizes :
    /\ \A size \in Sizes : size <= most
    /\ active + Bytes(Asked) <= Limit + (Cardinality(Threads) - 1) * most

GuardInv == GuardTypes /\ AddressInv /\ ChargeInv /\ LimitInv

LEMMA LargestSize == \E most \in Sizes : \A size \in Sizes : size <= most
<1> DEFINE from(x) == {z \in Sizes : z >= x}
           all == {from(x) : x \in Sizes}
<1>1. all \subseteq FiniteSubsetsOf(Sizes) /\ all # {}
  <2> SUFFICES ASSUME NEW x \in Sizes PROVE from(x) \in FiniteSubsetsOf(Sizes)
    BY SizesAssumption
  <2>1. IsFiniteSet(from(x))
    BY SizesAssumption, FS_Subset
  <2> QED BY <2>1 DEF FiniteSubsetsOf
<1>2. PICK least \in all : \A other \in all : ~ (<<other, least>> \in StrictSubsetOrdering(Sizes))
  <2> HIDE DEF all
  <2> QED BY <1>1, FS_StrictSubsetOrderingWellFounded, WFMin
<1>3. PICK most \in Sizes : least = from(most)
  BY <1>2
<1>4. ASSUME NEW size \in Sizes, size > most PROVE FALSE
  <2>1. from(size) \subseteq from(most)
    <3>1. Sizes \subseteq Nat
      BY SizesAssumption
    <3>2. \A z \in Sizes : z >= size => z >= most
      BY <1>4, <3>1
    <3> QED BY <3>2
  <2>2. most \in from(most) /\ most \notin from(size)
    BY <1>4, SizesAssumption
  <2>3. <<from(size), least>> \in StrictSubsetOrdering(Sizes)
    BY <1>3, <2>1, <2>2 DEF StrictSubsetOrdering
  <2> QED BY <1>2, <2>3
<1> QED BY <1>4, SizesAssumption

LEMMA GuardStart == GuardInit => GuardInv
<1> SUFFICES ASSUME GuardInit PROVE GuardInv
  OBVIOUS
<1>1. /\ \A t \in Threads : op[t] = Idle
      /\ \A p \in Ptrs : resident[p] = 0
      /\ \A i \in 1..Slots : records[i] = Unused
      /\ active = 0 /\ peak = 0 /\ held = {} /\ dying = {}
  BY DEF GuardInit
<1>2. GuardTypes
  BY <1>1 DEF GuardInit, GuardTypes, Idle, Unused
<1>3. AddressInv
  BY <1>1 DEF AddressInv, Recording, Idle
<1>4. ChargeInv
  <2>1. ASSUME NEW p \in Ptrs PROVE Due(p) = 0
    <3>1. Entered(records, p) \in [1..Slots -> Nat] /\ \A i \in 1..Slots : Entered(records, p)[i] = 0
      BY <1>1 DEF Entered, Unused
    <3>2. Bytes(Entered(records, p)) = 0
      BY <3>1, NoBytes
    <3> QED BY <1>1, <3>2 DEF Due, Chargeable
  <2>2. Dues \in [Ptrs -> Nat] /\ \A p \in Ptrs : Dues[p] = 0
    BY <2>1 DEF Dues
  <2> QED BY <1>1, <2>2, NoBytes DEF ChargeInv
<1>5. LimitInv
  <2>1. Asked \in [Threads -> Nat] /\ \A t \in Threads : Asked[t] = 0
    BY <1>1 DEF Asked, Idle
  <2>2. PICK most \in Sizes : \A size \in Sizes : size <= most
    BY LargestSize
  <2>3. PICK t \in Threads : TRUE
    BY ThreadsAssumption
  <2>4. most \in Nat /\ Bytes(Asked) <= (Cardinality(Threads) - 1) * most
    BY <2>1, <2>2, BytesBut, ThreadsAssumption, SizesAssumption
  <2>5. Bytes(Asked) = 0 /\ (Cardinality(Threads) - 1) * most \in Int
    <3>1. Cardinality(Threads) \in Nat
      BY ThreadsAssumption, FS_CardinalityType
    <3> QED BY <2>1, <2>4, <3>1, NoBytes
  <2>6. active + Bytes(Asked) <= Limit + (Cardinality(Threads) - 1) * most
    BY <1>1, <2>4, <2>5, LimitAssumption
  <2> QED BY <2>2, <2>6 DEF LimitInv
<1> QED BY <1>2, <1>3, <1>4, <1>5 DEF GuardInv

LEMMA GuardTypeSteps == GuardTypes /\ [GuardNext]_guardVars => GuardTypes'
<1> SUFFICES ASSUME GuardTypes, [GuardNext]_guardVars PROVE GuardTypes'
  OBVIOUS
<1>1. CASE UNCHANGED guardVars
  BY <1>1 DEF guardVars, GuardTypes
<1>2. ASSUME NEW t \in Threads, NEW size \in Sizes, Allowed(t, size) PROVE GuardTypes'
  <2>1. op' = [op EXCEPT ![t] = [pc |-> "allocating", ptr |-> NoPtr, size |-> size]]
    BY <1>2 DEF Allowed
  <2> QED BY <1>2, <2>1, SizesAssumption DEF Allowed, GuardTypes
<1>3. ASSUME NEW t \in Threads, NEW size \in Sizes, Denied(t, size) PROVE GuardTypes'
  BY <1>1, <1>3 DEF Denied
<1>4. ASSUME NEW t \in Threads, Allocate(t) PROVE GuardTypes'
  <2>1. PICK p \in Ptrs :
          /\ resident' = [resident EXCEPT ![p] = op[t].size]
          /\ op' = [op EXCEPT ![t].pc = "recording", ![t].ptr = p]
    BY <1>4 DEF Allocate
  <2>2. op[t].pc = "allocating" /\ op[t] \in [pc : {"idle", "allocating", "recording", "unrecording"},
                         ptr : Ptrs \union {NoPtr}, size : Nat]
    BY <1>4 DEF Allocate, GuardTypes
  <2>3. op'[t] = [pc |-> "recording", ptr |-> p, size |-> op[t].size] /\ \A u \in Threads \ {t} : op'[u] = op[u]
    BY <2>1, <2>2 DEF GuardTypes
  <2>4. op[t].size \in Sizes /\ op[t].size \in Nat
    BY <2>2 DEF GuardTypes
  <2>5. resident' \in [Ptrs -> Nat]
    BY <2>1, <2>4 DEF GuardTypes
  <2>6. op' \in [Threads -> [pc : {"idle", "allocating", "recording", "unrecording"},
                         ptr : Ptrs \union {NoPtr}, size : Nat]]
    BY <2>1, <2>2 DEF GuardTypes
  <2>7. UNCHANGED <<dying, held, records, active, peak>>
    BY <1>4 DEF Allocate
  <2>8. \A u \in Threads :
          /\ op'[u].pc \in {"idle", "unrecording"} => op'[u].size = 0
          /\ op'[u].pc \in {"allocating", "recording"} => op'[u].size \in Sizes
          /\ op'[u].pc \in {"recording", "unrecording"} => op'[u].ptr \in Ptrs
    BY <2>3, <2>4 DEF GuardTypes
  <2> QED BY <2>5, <2>6, <2>7, <2>8 DEF GuardTypes
<1>5. ASSUME NEW t \in Threads, AllocateFails(t) PROVE GuardTypes'
  BY <1>5 DEF AllocateFails, GuardTypes, Idle
<1>6. ASSUME NEW t \in Threads, Record(t) PROVE GuardTypes'
  <2>1. /\ op[t].pc = "recording" /\ op[t].ptr \in Ptrs /\ op[t].size \in Nat
        /\ op' = [op EXCEPT ![t] = Idle] /\ active' = active + op[t].size
        /\ peak' = IF active' > peak THEN active' ELSE peak
        /\ held' = held \union {op[t].ptr} /\ UNCHANGED <<resident, dying>>
    BY <1>6 DEF Record, GuardTypes
  <2>2. records' \in [1..Slots -> [ptr : Ptrs \union {NoPtr}, size : Nat]]
    <3>1. records' = records
          \/ \E i \in DOMAIN records : records' = [records EXCEPT ![i] = [ptr |-> op[t].ptr, size |-> op[t].size]]
      BY <1>6 DEF Record, FreeEntries
    <3> QED BY <2>1, <3>1 DEF GuardTypes
  <2> QED BY <2>1, <2>2 DEF GuardTypes, Idle
<1>7. ASSUME NEW t \in Threads, NEW p \in Ptrs, Free(t, p) PROVE GuardTypes'
  BY <1>7 DEF Free, GuardTypes
<1>8. ASSUME NEW t \in Threads, NEW p \in Ptrs, FreeAsync(t, p) PROVE GuardTypes'
  BY <1>8 DEF FreeAsync, GuardTypes
<1>9. ASSUME NEW t \in Threads, Unrecord(t) PROVE GuardTypes'
  <2>1. /\ op' = [op EXCEPT ![t] = Idle] /\ UNCHANGED <<resident, dying, held, peak>>
        /\ \/ UNCHANGED <<records, active>>
           \/ \E i \in DOMAIN records :
                /\ records' = [records EXCEPT ![i] = Unused]
                /\ active' = IF active >= records[i].size THEN active - records[i].size ELSE 0
    BY <1>9 DEF Unrecord, EntriesOf
  <2>2. records' \in [1..Slots -> [ptr : Ptrs \union {NoPtr}, size : Nat]]
    BY <2>1 DEF GuardTypes, Unused
  <2>3. active' \in Nat /\ active' <= peak
    <3>1. \A i \in DOMAIN records : records[i].size \in Nat
      BY DEF GuardTypes
    <3>2. /\ active \in Nat /\ peak \in Nat /\ active <= peak
          /\ \/ active' = active
             \/ \E n \in Nat : active' = IF active >= n THEN active - n ELSE 0
      BY <2>1, <3>1 DEF GuardTypes
    <3> QED BY <3>2
  <2> QED BY <2>1, <2>2, <2>3 DEF GuardTypes, Idle
<1>10. ASSUME NEW p \in Ptrs, StreamReaches(p) PROVE GuardTypes'
  BY <1>10 DEF StreamReaches, GuardTypes
<1> QED BY <1>1, <1>2, <1>3, <1>4, <1>5, <1>6, <1>7, <1>8, <1>9, <1>10 DEF GuardNext

LEMMA AddressSteps ==
  ASSUME Reuse = FALSE
  PROVE  GuardTypes /\ AddressInv /\ [GuardNext]_guardVars => AddressInv'
<1> SUFFICES ASSUME GuardTypes, AddressInv, [GuardNext]_guardVars PROVE AddressInv'
  OBVIOUS
<1> USE DEF Recording
<1>1. CASE UNCHANGED guardVars
  BY <1>1 DEF guardVars, AddressInv
<1>2. ASSUME NEW t \in Threads, NEW size \in Sizes, Allowed(t, size) \/ Denied(t, size) PROVE AddressInv'
  <2>1. CASE Denied(t, size)
    BY <1>1, <2>1 DEF Denied
  <2>2. CASE Allowed(t, size)
    <3>1. op'[t].pc = "allocating" /\ \A u \in Threads \ {t} : op'[u] = op[u]
      BY <2>2 DEF Allowed, GuardTypes
    <3> QED BY <2>2, <3>1 DEF Allowed, AddressInv
  <2> QED BY <1>2, <2>1, <2>2
<1>3. ASSUME NEW t \in Threads, Allocate(t) PROVE AddressInv'
  <2>1. PICK p \in Ptrs :
          /\ resident[p] = 0 /\ p \notin Unrecorded
          /\ resident' = [resident EXCEPT ![p] = op[t].size]
          /\ op' = [op EXCEPT ![t].pc = "recording", ![t].ptr = p]
    BY <1>3 DEF Allocate
  <2>2. op[t].size \in Nat \ {0} /\ UNCHANGED <<dying, held>>
    BY <1>3, SizesAssumption DEF Allocate, GuardTypes
  <2>3. /\ op'[t].pc = "recording" /\ op'[t].ptr = p /\ op'[t].size = op[t].size
        /\ \A u \in Threads \ {t} : op'[u] = op[u]
    BY <2>1 DEF GuardTypes
  <2>4. resident'[p] = op[t].size /\ \A q \in Ptrs \ {p} : resident'[q] = resident[q]
    BY <2>1 DEF GuardTypes
  <2>5. p \notin held \union dying
    BY <2>1 DEF AddressInv
  <2>6. \A u \in Threads : op[u].pc = "unrecording" => op[u].ptr # p
    BY <2>1 DEF Unrecorded
  <2>7. \A u \in Threads : Recording(u) => op[u].ptr # p /\ op[u].ptr \in Ptrs
    BY <2>1, SizesAssumption DEF AddressInv, GuardTypes
  <2>8. \A q \in held' \union dying' : resident'[q] > 0
    BY <2>2, <2>4 DEF AddressInv, GuardTypes
  <2>9. \A u \in Threads : op'[u].pc = "recording" =>
          resident'[op'[u].ptr] = op'[u].size /\ op'[u].ptr \notin held' \union dying'
    BY <2>2, <2>3, <2>4, <2>5, <2>7 DEF AddressInv
  <2>10. \A u, v \in Threads :
           op'[u].pc = "recording" /\ op'[v].pc = "recording" /\ op'[u].ptr = op'[v].ptr => u = v
    BY <2>3, <2>7 DEF AddressInv
  <2>11. \A u \in Threads : op'[u].pc = "unrecording" => resident'[op'[u].ptr] = 0
    BY <2>3, <2>4, <2>6 DEF AddressInv, GuardTypes
  <2> QED BY <2>2, <2>8, <2>9, <2>10, <2>11 DEF AddressInv
<1>4. ASSUME NEW t \in Threads, AllocateFails(t) \/ Unrecord(t) PROVE AddressInv'
  <2>1. UNCHANGED <<resident, dying, held>> /\ op' = [op EXCEPT ![t] = Idle]
    BY <1>4 DEF AllocateFails, Unrecord
  <2>2. op'[t].pc = "idle" /\ \A u \in Threads \ {t} : op'[u] = op[u]
    BY <2>1 DEF GuardTypes, Idle
  <2> QED BY <2>1, <2>2 DEF AddressInv
<1>5. ASSUME NEW t \in Threads, Record(t) PROVE AddressInv'
  <2> DEFINE p == op[t].ptr
  <2>1. /\ Recording(t) /\ p \in Ptrs /\ op[t].size \in Nat \ {0}
        /\ held' = held \union {p} /\ UNCHANGED <<resident, dying>>
        /\ op' = [op EXCEPT ![t] = Idle]
    BY <1>5, SizesAssumption DEF Record, GuardTypes
  <2>2. op'[t].pc = "idle" /\ \A u \in Threads \ {t} : op'[u] = op[u]
    BY <2>1 DEF GuardTypes, Idle
  <2>3. resident[p] > 0 /\ p \notin dying
    BY <2>1 DEF AddressInv
  <2>4. \A u \in Threads \ {t} : Recording(u) => op[u].ptr # p
    BY <2>1 DEF AddressInv
  <2> HIDE DEF p
  <2> QED BY <2>1, <2>2, <2>3, <2>4 DEF AddressInv
<1>6. ASSUME NEW t \in Threads, NEW p \in Ptrs, Free(t, p) PROVE AddressInv'
  <2>1. /\ p \in held /\ held' = held \ {p} /\ dying' = dying
        /\ resident' = [resident EXCEPT ![p] = 0]
        /\ op' = [op EXCEPT ![t] = [pc |-> "unrecording", ptr |-> p, size |-> 0]]
    BY <1>6 DEF Free
  <2>2. op'[t].pc = "unrecording" /\ op'[t].ptr = p /\ \A u \in Threads \ {t} : op'[u] = op[u]
    BY <2>1 DEF GuardTypes
  <2>3. resident'[p] = 0 /\ \A q \in Ptrs \ {p} : resident'[q] = resident[q]
    BY <2>1 DEF GuardTypes
  <2>4. p \notin dying /\ \A u \in Threads : Recording(u) => op[u].ptr # p /\ op[u].ptr \in Ptrs
    BY <2>1 DEF AddressInv, GuardTypes
  <2>5. \A q \in held' \union dying' : resident'[q] > 0
    BY <2>1, <2>3, <2>4 DEF AddressInv, GuardTypes
  <2>6. \A u \in Threads : op'[u].pc = "recording" =>
          resident'[op'[u].ptr] = op'[u].size /\ op'[u].ptr \notin held' \union dying'
    BY <2>1, <2>2, <2>3, <2>4 DEF AddressInv
  <2>7. \A u \in Threads : op'[u].pc = "unrecording" => resident'[op'[u].ptr] = 0
    BY <2>2, <2>3 DEF AddressInv, GuardTypes
  <2> QED BY <2>1, <2>2, <2>5, <2>6, <2>7 DEF AddressInv
<1>7. ASSUME NEW t \in Threads, NEW p \in Ptrs, FreeAsync(t, p) PROVE AddressInv'
  BY <1>7 DEF FreeAsync, AddressInv
<1>8. ASSUME NEW p \in Ptrs, StreamReaches(p) PROVE AddressInv'
  <2>1. p \in dying /\ dying' = dying \ {p} /\ resident' = [resident EXCEPT ![p] = 0] /\ UNCHANGED <<held, op>>
    BY <1>8 DEF StreamReaches
  <2>2. resident'[p] = 0 /\ \A q \in Ptrs \ {p} : resident'[q] = resident[q]
    BY <2>1 DEF GuardTypes
  <2>3. p \notin held /\ \A u \in Threads : Recording(u) => op[u].ptr # p /\ op[u].ptr \in Ptrs
    BY <2>1 DEF AddressInv, GuardTypes
  <2>4. \A q \in held' \union dying' : resident'[q] > 0
    BY <2>1, <2>2, <2>3 DEF AddressInv, GuardTypes
  <2>5. \A u \in Threads : op'[u].pc = "unrecording" => resident'[op'[u].ptr] = 0
    BY <2>1, <2>2 DEF AddressInv, GuardTypes
  <2> QED BY <2>1, <2>2, <2>3, <2>4, <2>5 DEF AddressInv
<1> QED BY <1>1, <1>2, <1>3, <1>4, <1>5, <1>6, <1>7, <1>8 DEF GuardNext

\* What is asked changes only with the call of one thread.
LEMMA LimitSteps == GuardTypes /\ LimitInv /\ [GuardNext]_guardVars => LimitInv'
<1> SUFFICES ASSUME GuardTypes, LimitInv, [GuardNext]_guardVars PROVE LimitInv'
  OBVIOUS
<1> DEFINE others == Cardinality(Threads) - 1
<1>1. PICK most \in Sizes :
        (\A size \in Sizes : size <= most) /\ active + Bytes(Asked) <= Limit + others * most
  BY DEF LimitInv
<1>2. Asked \in [Threads -> Nat] /\ Bytes(Asked) \in Nat /\ active \in Nat /\ most \in Nat \ {0} /\ Limit \in Nat
  <2>1. Asked \in [Threads -> Nat]
    BY DEF Asked, GuardTypes
  <2> QED BY <2>1, BytesAreCounted, ThreadsAssumption, SizesAssumption, LimitAssumption DEF GuardTypes
<1>3. others * most \in Int
  <2>1. Cardinality(Threads) \in Nat
    BY ThreadsAssumption, FS_CardinalityType
  <2> QED BY <1>2, <2>1
<1> HIDE DEF others
<1>4. SUFFICES active' + Bytes(Asked') <= Limit + others * most
  <2>1. LimitInv' <=> \E m \in Sizes : /\ \A size \in Sizes : size <= m
                                       /\ active' + Bytes(Asked') <= Limit + (Cardinality(Threads) - 1) * m
    BY DEF LimitInv, Bytes, BytesOf, Asked
  <2> QED BY <1>1, <2>1 DEF others
<1>5. ASSUME NEW t \in Threads, NEW n \in Nat, op'[t].size = n, \A u \in Threads \ {t} : op'[u] = op[u]
      PROVE  Bytes(Asked') = Bytes(Asked) - op[t].size + n
  <2>1. Asked' = [Asked EXCEPT ![t] = n]
    BY <1>5 DEF Asked
  <2>2. Bytes([Asked EXCEPT ![t] = n]) = Bytes(Asked) - Asked[t] + n
    BY <1>2, BytesOfOne, ThreadsAssumption, Zenon
  <2> QED BY <2>1, <2>2 DEF Asked
<1>6. CASE UNCHANGED guardVars
  BY <1>1, <1>6 DEF guardVars, Asked
<1>7. ASSUME NEW t \in Threads, NEW size \in Sizes, Allowed(t, size)
      PROVE  active' + Bytes(Asked') <= Limit + others * most
  <2>1. /\ op[t].size = 0 /\ op'[t].size = size /\ active' = active
        /\ \A u \in Threads \ {t} : op'[u] = op[u]
    BY <1>7 DEF Allowed, Idle, GuardTypes
  <2>2. size \in Nat \ {0}
    BY SizesAssumption
  <2>3. Bytes(Asked') = Bytes(Asked) - 0 + size
    BY <1>5, <2>1, <2>2
  <2>4. active + size <= Limit
    BY <1>2, <1>7, <2>2 DEF Allowed, Left
  <2>5. Asked[t] = 0 /\ \A u \in Threads : Asked[u] <= most
    <3>1. ASSUME NEW u \in Threads PROVE op[u].size = 0 \/ op[u].size \in Sizes
      BY DEF GuardTypes
    <3> QED BY <1>1, <1>2, <2>1, <3>1 DEF Asked
  <2>6. Bytes(Asked) <= others * most
    BY <1>2, <2>5, BytesBut, ThreadsAssumption DEF others
  <2> QED BY <1>2, <1>3, <2>1, <2>2, <2>3, <2>4, <2>6
<1>8. ASSUME NEW t \in Threads, NEW size \in Sizes, Denied(t, size)
      PROVE  active' + Bytes(Asked') <= Limit + others * most
  BY <1>6, <1>8 DEF Denied
<1>9. ASSUME NEW t \in Threads, Allocate(t)
      PROVE  active' + Bytes(Asked') <= Limit + others * most
  <2>1. active' = active /\ \A u \in Threads : op'[u].size = op[u].size
    BY <1>9 DEF Allocate, GuardTypes
  <2>2. Asked' = Asked
    BY <2>1 DEF Asked
  <2> QED BY <1>1, <2>1, <2>2
<1>10. ASSUME NEW t \in Threads, AllocateFails(t) \/ Record(t) \/ Unrecord(t)
       PROVE  active' + Bytes(Asked') <= Limit + others * most
  <2>1. /\ op' = [op EXCEPT ![t] = Idle]
        /\ active' <= active + op[t].size /\ active' \in Nat /\ op[t].size \in Nat
    <3>1. CASE AllocateFails(t)
      BY <1>2, <3>1 DEF AllocateFails, GuardTypes
    <3>2. CASE Record(t)
      BY <1>2, <3>2 DEF Record, GuardTypes
    <3>3. CASE Unrecord(t)
      <4>1. \A i \in DOMAIN records : records[i].size \in Nat
        BY DEF GuardTypes
      <4>2. active' = active \/ \E n \in Nat : active' = IF active >= n THEN active - n ELSE 0
        BY <3>3, <4>1 DEF Unrecord, EntriesOf
      <4>3. op[t].size \in Nat /\ op' = [op EXCEPT ![t] = Idle]
        BY <3>3 DEF Unrecord, GuardTypes
      <4> QED BY <1>2, <4>2, <4>3
    <3> QED BY <1>10, <3>1, <3>2, <3>3
  <2>2. op'[t].size = 0 /\ \A u \in Threads \ {t} : op'[u] = op[u]
    BY <2>1 DEF GuardTypes, Idle
  <2>3. Bytes(Asked') = Bytes(Asked) - op[t].size + 0
    BY <1>5, <2>2
  <2> QED BY <1>1, <1>2, <1>3, <2>1, <2>3
<1>11. ASSUME NEW t \in Threads, NEW p \in Ptrs, Free(t, p)
       PROVE  active' + Bytes(Asked') <= Limit + others * most
  <2>1. op[t].size = 0 /\ op'[t].size = 0 /\ active' = active /\ \A u \in Threads \ {t} : op'[u] = op[u]
    BY <1>11 DEF Free, Idle, GuardTypes
  <2>2. Bytes(Asked') = Bytes(Asked) - 0 + 0
    BY <1>5, <2>1
  <2> QED BY <1>1, <1>2, <1>3, <2>1, <2>2
<1>12. ASSUME NEW t \in Threads, NEW p \in Ptrs, FreeAsync(t, p) \/ StreamReaches(p)
       PROVE  active' + Bytes(Asked') <= Limit + others * most
  <2>1. active' = active /\ Asked' = Asked
    BY <1>12 DEF FreeAsync, StreamReaches, Asked
  <2> QED BY <1>1, <2>1
<1>13. ASSUME NEW p \in Ptrs, StreamReaches(p)
       PROVE  active' + Bytes(Asked') <= Limit + others * most
  <2>1. active' = active /\ Asked' = Asked
    BY <1>13 DEF StreamReaches, Asked
  <2> QED BY <1>1, <2>1
<1> QED BY <1>6, <1>7, <1>8, <1>9, <1>10, <1>11, <1>12, <1>13 DEF GuardNext

\* A table of entries.
Entries == [1..Slots -> [ptr : Ptrs \union {NoPtr}, size : Nat]]

LEMMA EnteredBytes ==
  ASSUME NEW table \in Entries, NEW p
  PROVE  Entered(table, p) \in [1..Slots -> Nat] /\ Bytes(Entered(table, p)) \in Nat
<1>1. Entered(table, p) \in [1..Slots -> Nat]
  BY DEF Entered, Entries
<1>2. IsFiniteSet(1..Slots)
  BY FS_Interval, LimitAssumption
<1> QED BY <1>1, <1>2, BytesAreCounted

\* An entry that is changed changes what is entered of its address only.
LEMMA EntryOfOne ==
  ASSUME NEW table \in Entries, NEW i \in 1..Slots, NEW entry \in [ptr : Ptrs \union {NoPtr}, size : Nat], NEW p
  PROVE  Bytes(Entered([table EXCEPT ![i] = entry], p))
           = Bytes(Entered(table, p)) - (IF table[i].ptr = p THEN table[i].size ELSE 0)
               + (IF entry.ptr = p THEN entry.size ELSE 0)
<1> DEFINE f == Entered(table, p)
           n == IF entry.ptr = p THEN entry.size ELSE 0
<1>1. f \in [1..Slots -> Nat] /\ n \in Nat /\ IsFiniteSet(1..Slots)
  BY EnteredBytes, FS_Interval, LimitAssumption
<1>2. Entered([table EXCEPT ![i] = entry], p) = [f EXCEPT ![i] = n]
  BY DEF Entered, Entries
<1>3. f[i] = IF table[i].ptr = p THEN table[i].size ELSE 0
  BY DEF Entered
<1> HIDE DEF f, n
<1>4. Bytes([f EXCEPT ![i] = n]) = Bytes(f) - f[i] + n
  BY <1>1, BytesOfOne, Zenon
<1> QED BY <1>2, <1>3, <1>4 DEF f, n

LEMMA DuesAreCounted ==
  GuardTypes => /\ Dues \in [Ptrs -> Nat] /\ Bytes(Dues) \in Nat
                /\ \A p \in Ptrs : /\ Bytes(Entered(records, p)) \in Nat /\ Chargeable(p) \in Nat
                                   /\ Dues[p] = Due(p) /\ Due(p) >= Bytes(Entered(records, p))
                                   /\ Due(p) >= Chargeable(p)
<1> SUFFICES ASSUME GuardTypes
             PROVE  /\ Dues \in [Ptrs -> Nat] /\ Bytes(Dues) \in Nat
                    /\ \A p \in Ptrs : /\ Bytes(Entered(records, p)) \in Nat /\ Chargeable(p) \in Nat
                                       /\ Dues[p] = Due(p) /\ Due(p) >= Bytes(Entered(records, p))
                                       /\ Due(p) >= Chargeable(p)
  OBVIOUS
<1>1. ASSUME NEW p \in Ptrs PROVE Bytes(Entered(records, p)) \in Nat /\ Chargeable(p) \in Nat
  BY EnteredBytes DEF GuardTypes, Entries, Chargeable
<1>2. ASSUME NEW p \in Ptrs
      PROVE  Due(p) \in Nat /\ Due(p) >= Bytes(Entered(records, p)) /\ Due(p) >= Chargeable(p)
  BY <1>1 DEF Due
<1>3. Dues \in [Ptrs -> Nat] /\ \A p \in Ptrs : Dues[p] = Due(p)
  BY <1>2 DEF Dues
<1>4. Bytes(Dues) \in Nat
  BY <1>3, BytesAreCounted, PtrsAssumption
<1> QED BY <1>1, <1>2, <1>3, <1>4

LEMMA ChargeSteps ==
  ASSUME Reuse = FALSE
  PROVE  GuardTypes /\ GuardTypes' /\ AddressInv /\ ChargeInv /\ [GuardNext]_guardVars => ChargeInv'
<1> SUFFICES ASSUME GuardTypes, GuardTypes', AddressInv, ChargeInv, [GuardNext]_guardVars PROVE ChargeInv'
  OBVIOUS
<1>1. /\ records \in Entries /\ records' \in Entries /\ resident \in [Ptrs -> Nat] /\ resident' \in [Ptrs -> Nat]
      /\ active \in Nat /\ active' \in Nat /\ active >= Bytes(Dues)
  BY DEF GuardTypes, ChargeInv, Entries
<1>2. ASSUME NEW p \in Ptrs
      PROVE  /\ Bytes(Entered(records, p)) \in Nat /\ Bytes(Entered(records', p)) \in Nat
             /\ Chargeable(p) \in Nat /\ Chargeable(p)' \in Nat
             /\ Dues[p] = Due(p) /\ Due(p) \in Nat
             /\ Dues'[p] = Due(p)' /\ Due(p)' \in Nat
             /\ Due(p)' = IF Bytes(Entered(records', p)) > Chargeable(p)' THEN Bytes(Entered(records', p))
                                                                          ELSE Chargeable(p)'
  <2>1. Bytes(Entered(records, p)) \in Nat /\ Bytes(Entered(records', p)) \in Nat
    BY <1>1, EnteredBytes
  <2>2. Chargeable(p) \in Nat /\ Chargeable(p)' \in Nat
    BY <1>1 DEF Chargeable
  <2>3. Due(p)' = IF Bytes(Entered(records', p)) > Chargeable(p)' THEN Bytes(Entered(records', p))
                                                                  ELSE Chargeable(p)'
    BY DEF Due, Bytes, BytesOf, Entered
  <2>4. Due(p) \in Nat
    BY <2>1, <2>2 DEF Due
  <2>5. Due(p)' \in Nat
    BY <2>1, <2>2, <2>3
  <2> QED BY <2>1, <2>2, <2>3, <2>4, <2>5 DEF Dues
<1>3. Dues \in [Ptrs -> Nat] /\ Bytes(Dues) \in Nat /\ Dues' \in [Ptrs -> Nat] /\ Bytes(Dues') \in Nat
  <2>1. Dues \in [Ptrs -> Nat] /\ Dues' \in [Ptrs -> Nat]
    BY <1>2 DEF Dues
  <2> QED BY <2>1, BytesAreCounted, PtrsAssumption
<1>4. ChargeInv' <=> active' >= Bytes(Dues')
  BY DEF ChargeInv, Bytes, BytesOf
\* The table and the charge stay, and nothing more is to be charged.
<1>5. ASSUME records' = records, active' = active, \A p \in Ptrs : Chargeable(p)' <= Chargeable(p)
      PROVE  ChargeInv'
  <2>1. ASSUME NEW p \in Ptrs PROVE Dues'[p] <= Dues[p]
    <3>1. Chargeable(p)' <= Chargeable(p) /\ Entered(records', p) = Entered(records, p)
      BY <1>5
    <3>2. Due(p) = IF Bytes(Entered(records, p)) > Chargeable(p) THEN Bytes(Entered(records, p)) ELSE Chargeable(p)
      BY DEF Due
    <3> QED BY <1>2, <3>1, <3>2
  <2>2. Bytes(Dues') <= Bytes(Dues)
    BY <1>3, <2>1, FewerBytes, PtrsAssumption
  <2> QED BY <1>1, <1>3, <1>4, <1>5, <2>2
\* One address is due another sum.
<1>6. ASSUME NEW p \in Ptrs, NEW n \in Nat, Due(p)' <= n, \A q \in Ptrs \ {p} : Due(q)' <= Due(q)
      PROVE  Bytes(Dues') <= Bytes(Dues) - Due(p) + n
  <2> DEFINE bound == [Dues EXCEPT ![p] = n]
  <2>1. bound \in [Ptrs -> Nat] /\ Bytes(bound) = Bytes(Dues) - Dues[p] + n
    <3>1. IsFiniteSet(Ptrs) /\ Dues \in [Ptrs -> Nat]
      BY <1>3, PtrsAssumption
    <3>2. Bytes(bound) = Bytes(Dues) - Dues[p] + n
      BY <3>1, BytesOfOne, Zenon
    <3> QED BY <3>1, <3>2
  <2>2. \A q \in Ptrs : Dues'[q] <= bound[q]
    BY <1>2, <1>3, <1>6
  <2> HIDE DEF bound
  <2>3. Bytes(Dues') <= Bytes(bound)
    BY <1>3, <2>1, <2>2, FewerBytes, PtrsAssumption
  <2> QED BY <1>2, <2>1, <2>3
<1>7. \A p \in Ptrs : p \in BeingRecorded <=> \E t \in Threads : op[t].pc = "recording" /\ op[t].ptr = p
  BY DEF BeingRecorded, Recording
<1>8. \A p \in Ptrs : p \in BeingRecorded' <=> \E t \in Threads : op'[t].pc = "recording" /\ op'[t].ptr = p
  BY DEF BeingRecorded, Recording
<1>9. CASE UNCHANGED guardVars
  BY <1>1, <1>5, <1>9 DEF guardVars, Chargeable, BeingRecorded, Recording
<1>10. ASSUME NEW t \in Threads, NEW size \in Sizes, Allowed(t, size) \/ Denied(t, size) PROVE ChargeInv'
  <2>1. CASE Denied(t, size)
    BY <1>9, <2>1 DEF Denied
  <2>2. CASE Allowed(t, size)
    <3>1. /\ op[t].pc = "idle" /\ op'[t].pc = "allocating" /\ UNCHANGED <<records, active, resident>>
          /\ \A u \in Threads \ {t} : op'[u] = op[u]
      BY <2>2 DEF Allowed, Idle, GuardTypes
    <3> QED BY <1>1, <1>5, <1>7, <1>8, <3>1 DEF Chargeable
  <2> QED BY <1>10, <2>1, <2>2
<1>11. ASSUME NEW t \in Threads, Allocate(t) PROVE ChargeInv'
  <2>1. PICK p \in Ptrs :
          /\ resident[p] = 0 /\ resident' = [resident EXCEPT ![p] = op[t].size]
          /\ op' = [op EXCEPT ![t].pc = "recording", ![t].ptr = p]
    BY <1>11 DEF Allocate
  <2>2. /\ op[t].pc = "allocating" /\ op'[t].pc = "recording" /\ op'[t].ptr = p
        /\ \A u \in Threads \ {t} : op'[u] = op[u]
        /\ UNCHANGED <<records, active>>
    BY <1>11, <2>1 DEF Allocate, GuardTypes
  <2>3. ASSUME NEW q \in Ptrs PROVE Chargeable(q)' <= Chargeable(q)
    <3>1. CASE q = p
      <4>1. q \in BeingRecorded'
        BY <1>8, <2>2, <3>1
      <4> QED BY <1>2, <4>1 DEF Chargeable
    <3>2. CASE q # p
      <4>1. resident'[q] = resident[q] /\ (q \in BeingRecorded' <=> q \in BeingRecorded)
        <5>1. resident'[q] = resident[q]
          BY <1>1, <2>1, <3>2
        <5>2. q \in BeingRecorded' <=> q \in BeingRecorded
          BY <1>7, <1>8, <2>2, <3>2
        <5> QED BY <5>1, <5>2
      <4> QED BY <1>2, <4>1 DEF Chargeable
    <3> QED BY <3>1, <3>2
  <2> QED BY <1>5, <2>2, <2>3
<1>12. ASSUME NEW t \in Threads, AllocateFails(t) PROVE ChargeInv'
  <2>1. /\ op[t].pc = "allocating" /\ op'[t].pc = "idle" /\ UNCHANGED <<records, active, resident>>
        /\ \A u \in Threads \ {t} : op'[u] = op[u]
    BY <1>12 DEF AllocateFails, Idle, GuardTypes
  <2> QED BY <1>1, <1>5, <1>7, <1>8, <2>1 DEF Chargeable
<1>13. ASSUME NEW t \in Threads, Record(t) PROVE ChargeInv'
  <2> PICK p \in Ptrs, size \in Nat : op[t].ptr = p /\ op[t].size = size
    BY <1>13 DEF Record, GuardTypes
  <2>1. /\ op[t].pc = "recording" /\ p \in Ptrs /\ size \in Nat /\ active' = active + size
        /\ op' = [op EXCEPT ![t] = Idle] /\ resident' = resident
        /\ \/ records' = records
           \/ \E i \in FreeEntries : records' = [records EXCEPT ![i] = [ptr |-> p, size |-> size]]
    BY <1>13 DEF Record, GuardTypes
  <2>2. resident[p] = size
    BY <2>1 DEF AddressInv, Recording
  <2>3. op'[t].pc = "idle" /\ \A u \in Threads \ {t} : op'[u] = op[u]
    BY <2>1 DEF GuardTypes, Idle
  <2>4. op[t].ptr = p
    OBVIOUS
  <2>5. ASSUME NEW q \in Ptrs
        PROVE  Bytes(Entered(records', q)) <= Bytes(Entered(records, q)) + (IF q = p THEN size ELSE 0)
    <3>1. CASE records' = records
      BY <1>2, <2>1, <3>1
    <3>2. ASSUME NEW i \in FreeEntries, records' = [records EXCEPT ![i] = [ptr |-> p, size |-> size]]
          PROVE  Bytes(Entered(records', q)) <= Bytes(Entered(records, q)) + (IF q = p THEN size ELSE 0)
      <4> DEFINE entry == [ptr |-> p, size |-> size]
      <4>1. i \in 1..Slots /\ records[i].ptr = NoPtr /\ records[i].size = 0
        BY <1>1 DEF FreeEntries, Entries, Unused
      <4>2. entry \in [ptr : Ptrs \union {NoPtr}, size : Nat] /\ entry.ptr = p /\ entry.size = size
        BY <2>1
      <4>3. records' = [records EXCEPT ![i] = entry]
        BY <3>2
      <4> HIDE DEF entry
      <4>4. Bytes(Entered([records EXCEPT ![i] = entry], q))
              = Bytes(Entered(records, q)) - (IF records[i].ptr = q THEN records[i].size ELSE 0)
                  + (IF entry.ptr = q THEN entry.size ELSE 0)
        BY <1>1, <4>1, <4>2, EntryOfOne
      <4>5. Bytes(Entered(records', q)) = Bytes(Entered(records, q)) + (IF p = q THEN size ELSE 0)
        BY <1>2, <2>1, <4>1, <4>2, <4>3, <4>4
      <4> QED BY <1>2, <2>1, <4>5
    <3> QED BY <2>1, <3>1, <3>2
  <2>6. ASSUME NEW q \in Ptrs, q # p PROVE Due(q)' <= Due(q)
    <3>1. Chargeable(q)' = Chargeable(q)
      <4>1. q \in BeingRecorded' <=> q \in BeingRecorded
        BY <1>7, <1>8, <2>3, <2>4, <2>6
      <4> QED BY <2>1, <4>1 DEF Chargeable
    <3>2. Bytes(Entered(records', q)) <= Bytes(Entered(records, q))
      BY <1>2, <2>5, <2>6
    <3>3. Due(q) = IF Bytes(Entered(records, q)) > Chargeable(q) THEN Bytes(Entered(records, q)) ELSE Chargeable(q)
      BY DEF Due
    <3> QED BY <1>2, <3>1, <3>2, <3>3
  <2>7. Due(p)' <= Due(p) + size
    <3>1. Chargeable(p)' <= size
      BY <1>1, <2>1, <2>2 DEF Chargeable
    <3>2. Bytes(Entered(records', p)) <= Bytes(Entered(records, p)) + size
      BY <2>1, <2>5
    <3>3. Due(p) = IF Bytes(Entered(records, p)) > Chargeable(p) THEN Bytes(Entered(records, p)) ELSE Chargeable(p)
      BY DEF Due
    <3> QED BY <1>2, <2>1, <3>1, <3>2, <3>3
  <2>8. Due(p) + size \in Nat
    BY <1>2, <2>1
  <2>9. Bytes(Dues') <= Bytes(Dues) - Due(p) + (Due(p) + size)
    BY <1>6, <2>1, <2>6, <2>7, <2>8
  <2> QED BY <1>1, <1>2, <1>3, <1>4, <2>1, <2>9
<1>14. ASSUME NEW t \in Threads, NEW p \in Ptrs, Free(t, p) PROVE ChargeInv'
  <2>1. /\ op[t].pc = "idle" /\ op'[t].pc = "unrecording" /\ UNCHANGED <<records, active>>
        /\ resident' = [resident EXCEPT ![p] = 0]
        /\ \A u \in Threads \ {t} : op'[u] = op[u]
    BY <1>14 DEF Free, Idle, GuardTypes
  <2>2. \A q \in Ptrs : resident'[q] <= resident[q] /\ (q \in BeingRecorded' <=> q \in BeingRecorded)
    BY <1>1, <1>7, <1>8, <2>1
  <2> QED BY <1>1, <1>5, <2>1, <2>2 DEF Chargeable
<1>15. ASSUME NEW t \in Threads, NEW p \in Ptrs, FreeAsync(t, p) PROVE ChargeInv'
  BY <1>1, <1>5, <1>15 DEF FreeAsync, Chargeable, BeingRecorded, Recording
<1>16. ASSUME NEW t \in Threads, Unrecord(t) PROVE ChargeInv'
  <2> PICK p \in Ptrs : op[t].ptr = p
    BY <1>16 DEF Unrecord, GuardTypes
  <2>1. /\ op[t].pc = "unrecording" /\ p \in Ptrs /\ op' = [op EXCEPT ![t] = Idle] /\ resident' = resident
        /\ \/ UNCHANGED <<records, active>>
           \/ \E i \in EntriesOf(p) :
                /\ records' = [records EXCEPT ![i] = Unused]
                /\ active' = IF active >= records[i].size THEN active - records[i].size ELSE 0
    BY <1>16 DEF Unrecord, GuardTypes
  <2>2. resident[p] = 0
    BY <2>1 DEF AddressInv
  <2>3. op'[t].pc = "idle" /\ \A u \in Threads \ {t} : op'[u] = op[u]
    BY <2>1 DEF GuardTypes, Idle
  <2>4. \A q \in Ptrs : Chargeable(q)' = Chargeable(q)
    <3>1. \A q \in Ptrs : q \in BeingRecorded' <=> q \in BeingRecorded
      BY <1>7, <1>8, <2>1, <2>3
    <3> QED BY <2>1, <3>1 DEF Chargeable
  <2>5. CASE UNCHANGED <<records, active>>
    BY <1>2, <1>5, <2>4, <2>5
  <2>6. ASSUME NEW i \in EntriesOf(p), records' = [records EXCEPT ![i] = Unused],
               active' = IF active >= records[i].size THEN active - records[i].size ELSE 0
        PROVE  ChargeInv'
    <3> DEFINE size == records[i].size
    <3>1. i \in 1..Slots /\ records[i].ptr = p /\ size \in Nat
      BY <1>1 DEF EntriesOf, Entries
    <3>2. Unused \in [ptr : Ptrs \union {NoPtr}, size : Nat] /\ Unused.size = 0
      BY DEF Unused
    <3>3. \A q \in Ptrs : Bytes(Entered(records', q)) = Bytes(Entered(records, q)) - (IF q = p THEN size ELSE 0)
      <4> SUFFICES ASSUME NEW q \in Ptrs
                   PROVE  Bytes(Entered(records', q)) = Bytes(Entered(records, q)) - (IF q = p THEN size ELSE 0)
        OBVIOUS
      <4>1. Bytes(Entered([records EXCEPT ![i] = Unused], q))
              = Bytes(Entered(records, q)) - (IF records[i].ptr = q THEN records[i].size ELSE 0)
                  + (IF Unused.ptr = q THEN Unused.size ELSE 0)
        BY <1>1, <3>1, <3>2, EntryOfOne
      <4> QED BY <1>2, <2>6, <3>1, <3>2, <4>1
    <3> HIDE DEF size
    <3>4. ASSUME NEW q \in Ptrs, q # p PROVE Due(q)' <= Due(q)
      <4>1. Chargeable(q)' = Chargeable(q) /\ Bytes(Entered(records', q)) = Bytes(Entered(records, q))
        BY <1>2, <2>4, <3>3, <3>4
      <4>2. Due(q) = IF Bytes(Entered(records, q)) > Chargeable(q) THEN Bytes(Entered(records, q)) ELSE Chargeable(q)
        BY DEF Due
      <4> QED BY <1>2, <4>1, <4>2
    <3>5. Chargeable(p) = 0 /\ Chargeable(p)' = 0
      BY <2>1, <2>2, <2>4 DEF Chargeable
    <3>6. Due(p) = Bytes(Entered(records, p)) /\ Due(p)' = Due(p) - size /\ Due(p)' \in Nat
      <4>1. Due(p) = Bytes(Entered(records, p))
        BY <1>2, <2>1, <3>5 DEF Due
      <4>2. Due(p)' = Bytes(Entered(records', p))
        BY <1>2, <2>1, <3>5
      <4> QED BY <1>2, <2>1, <3>3, <4>1, <4>2
    <3>7. Bytes(Dues') <= Bytes(Dues) - Due(p) + (Due(p) - size)
      <4>1. Due(p) - size \in Nat /\ Due(p)' <= Due(p) - size
        BY <3>6
      <4> QED BY <1>6, <2>1, <3>4, <4>1
    <3>8. Due(p) <= Bytes(Dues) /\ Due(p) \in Nat
      <4>1. Dues[p] <= Bytes(Dues)
        BY <1>3, <2>1, OneOfTheBytes, PtrsAssumption
      <4> QED BY <1>2, <2>1, <4>1
    <3>9. active >= size
      BY <1>1, <1>3, <3>1, <3>6, <3>8
    <3>10. active' = active - size
      BY <2>6, <3>9 DEF size
    <3> QED BY <1>1, <1>3, <1>4, <3>1, <3>7, <3>8, <3>10
  <2> QED BY <2>1, <2>5, <2>6
<1>17. ASSUME NEW p \in Ptrs, StreamReaches(p) PROVE ChargeInv'
  <2>1. resident' = [resident EXCEPT ![p] = 0] /\ UNCHANGED <<records, active, op>>
    BY <1>17 DEF StreamReaches
  <2>2. \A q \in Ptrs : resident'[q] <= resident[q] /\ (q \in BeingRecorded' <=> q \in BeingRecorded)
    BY <1>1, <1>7, <1>8, <2>1
  <2> QED BY <1>1, <1>5, <2>1, <2>2 DEF Chargeable
<1> QED BY <1>9, <1>10, <1>11, <1>12, <1>13, <1>14, <1>15, <1>16, <1>17 DEF GuardNext

\* Between calls nothing is being recorded.
LEMMA ChargeCovers == GuardInv => ChargeCoversResident
<1> SUFFICES ASSUME GuardInv, NoCall PROVE Bytes(resident) <= active /\ active <= peak
  BY DEF ChargeCoversResident
<1>1. GuardTypes /\ resident \in [Ptrs -> Nat] /\ active \in Nat /\ active >= Bytes(Dues) /\ active <= peak
  BY DEF GuardInv, GuardTypes, ChargeInv
<1>2. \A p \in Ptrs : Chargeable(p) = resident[p]
  BY DEF NoCall, Idle, Chargeable, BeingRecorded, Recording
<1>3. Dues \in [Ptrs -> Nat] /\ \A p \in Ptrs : resident[p] <= Dues[p]
  BY <1>1, <1>2, DuesAreCounted
<1>4. Bytes(resident) <= Bytes(Dues)
  BY <1>1, <1>3, FewerBytes, PtrsAssumption
<1>5. Bytes(resident) \in Nat /\ Bytes(Dues) \in Nat
  BY <1>1, <1>3, BytesAreCounted, PtrsAssumption
<1> QED BY <1>1, <1>4, <1>5

\* What is resident is due, or is being recorded by the thread that asked for it.
LEMMA OvershootIsOfThreads == GuardInv => OvershootBounded
<1> SUFFICES ASSUME GuardInv PROVE OvershootBounded
  OBVIOUS
<1> DEFINE recorded == [p \in Ptrs |-> IF p \in BeingRecorded THEN resident[p] ELSE 0]
           address == [t \in Threads |-> op[t].ptr]
<1>1. GuardTypes /\ resident \in [Ptrs -> Nat] /\ active \in Nat /\ active >= Bytes(Dues) /\ AddressInv
  BY DEF GuardInv, GuardTypes, ChargeInv
<1>2. recorded \in [Ptrs -> Nat] /\ Asked \in [Threads -> Nat] /\ Dues \in [Ptrs -> Nat]
  BY <1>1, DuesAreCounted DEF GuardTypes, Asked
<1>3. \A p \in Ptrs : resident[p] <= Dues[p] \/ resident[p] <= recorded[p]
  <2> SUFFICES ASSUME NEW p \in Ptrs PROVE resident[p] <= Dues[p] \/ resident[p] <= recorded[p]
    OBVIOUS
  <2>1. CASE p \in BeingRecorded
    BY <1>1, <2>1
  <2>2. CASE p \notin BeingRecorded
    <3>1. Chargeable(p) = resident[p]
      BY <2>2 DEF Chargeable
    <3> QED BY <1>1, <3>1, DuesAreCounted
  <2> QED BY <2>1, <2>2
<1>4. \A p \in Ptrs : recorded[p] > 0 => \E t \in Threads : address[t] = p /\ Asked[t] = recorded[p]
  <2> SUFFICES ASSUME NEW p \in Ptrs, recorded[p] > 0
               PROVE  \E t \in Threads : address[t] = p /\ Asked[t] = recorded[p]
    OBVIOUS
  <2>1. PICK t \in Threads : Recording(t) /\ op[t].ptr = p
    BY DEF BeingRecorded
  <2>2. p \in BeingRecorded /\ resident[p] = op[t].size
    BY <1>1, <2>1 DEF AddressInv, BeingRecorded
  <2> QED BY <2>1, <2>2 DEF Asked
<1> HIDE DEF recorded, address
<1>5. Bytes(resident) <= Bytes(Dues) + Bytes(recorded)
  BY <1>1, <1>2, <1>3, BytesOfBoth, PtrsAssumption
<1>6. Bytes(recorded) <= Bytes(Asked)
  BY <1>2, <1>4, BytesRenamed, ThreadsAssumption
<1>7. /\ Bytes(resident) \in Nat /\ Bytes(Dues) \in Nat /\ Bytes(recorded) \in Nat /\ Bytes(Asked) \in Nat
      /\ Cardinality(Threads) \in Nat
  BY <1>1, <1>2, BytesAreCounted, PtrsAssumption, ThreadsAssumption, FS_CardinalityType
<1>8. PICK most \in Sizes : /\ \A size \in Sizes : size <= most
                            /\ active + Bytes(Asked) <= Limit + (Cardinality(Threads) - 1) * most
  BY DEF GuardInv, LimitInv
<1>9. Limit + (Cardinality(Threads) - 1) * most \in Int
  BY <1>7, <1>8, LimitAssumption, SizesAssumption
<1>10. Bytes(resident) <= Limit + (Cardinality(Threads) - 1) * most
  BY <1>1, <1>5, <1>6, <1>7, <1>8, <1>9
<1> QED BY <1>8, <1>10 DEF OvershootBounded

LEMMA GuardSteps ==
  ASSUME Reuse = FALSE
  PROVE  GuardInv /\ [Next]_allVars => GuardInv'
<1>1. [Next]_allVars => [GuardNext]_guardVars
  BY ScenesApart DEF GuardStep, allVars
<1> QED BY <1>1, GuardTypeSteps, AddressSteps, ChargeSteps, LimitSteps DEF GuardInv

LEMMA GuardStarts == Init => GuardInv
BY GuardStart DEF Init

\* The limit is exceeded by no more than what all threads but one may ask for,
\* for any number of threads, addresses and entries, as long as an address is not
\* handed out again before its free is recorded.
THEOREM OvershootIsBounded ==
  ASSUME Reuse = FALSE
  PROVE  Spec => []OvershootBounded
<1> QED BY GuardStarts, GuardSteps, OvershootIsOfThreads, PTL DEF Spec

\* Between calls the charge covers what is resident, also what the table had no
\* room for, under the same assumption.
THEOREM ChargeCoversWhatIsResident ==
  ASSUME Reuse = FALSE
  PROVE  Spec => []ChargeCoversResident
<1> QED BY GuardStarts, GuardSteps, ChargeCovers, PTL DEF Spec
=============================================================================
