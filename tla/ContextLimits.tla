---------------------------- MODULE ContextLimits ----------------------------
(* How a launch that chooses its context itself learns how much of it fits:    *)
(* the part of launchMemoryRecovery that is about contexts. Contexts are       *)
(* counted in granules; zero stands for nothing recorded.                      *)
EXTENDS Naturals, FiniteSets

CONSTANTS
  MaxCtx,      \* the longest context
  CtxFloor,    \* contextRecoveryFloorTokens
  StepDivisor, \* contextRecoveryStepDivisor
  Granules     \* the steps below which a priced cut is not worth noting

ASSUME ContextAssumption ==
  /\ {MaxCtx, CtxFloor, StepDivisor} \subseteq Nat \ {0} /\ Granules \in Nat
  /\ CtxFloor <= MaxCtx

VARIABLES
  ctx,                                     \* of the plan that is measured now
  rejectedContext, acceptedContext,        \* the shortest of each
  pricedContext, outstrippedContext

limitVars == <<rejectedContext, acceptedContext, pricedContext, outstrippedContext>>
contextVars == <<ctx, limitVars>>

ContextInit ==
  /\ ctx \in 1..MaxCtx
  /\ rejectedContext = 0 /\ acceptedContext = 0 /\ pricedContext = 0 /\ outstrippedContext = 0

Lowest(old, new) == IF old = 0 \/ new < old THEN new ELSE old
Highest(a, b) == IF a > b THEN a ELSE b
OneStep(c) == c \div StepDivisor

\* contextReclaimTokens, of the tokens that would cover the deficit: none when
\* too little context would be left, and one step at most.
Reclaim(tokens) ==
  IF ctx < CtxFloor + tokens THEN 0
  ELSE IF tokens > OneStep(ctx) THEN OneStep(ctx) ELSE tokens

\* No single cut covers it: contextDeficitOutstripsDevice.
Outstrips(tokens) == tokens > 0 /\ ctx < CtxFloor + tokens

MutCandidates ==
  (IF rejectedContext > 1 /\ ~(acceptedContext > 0 /\ acceptedContext >= rejectedContext)
     THEN {rejectedContext - 1} ELSE {})
  \union (IF outstrippedContext > 1
            THEN {Highest(outstrippedContext - OneStep(outstrippedContext), CtxFloor)} ELSE {})
  \union (IF pricedContext > 0 THEN {Highest(pricedContext, CtxFloor)} ELSE {})
  \union (IF acceptedContext > 0 THEN {acceptedContext} ELSE {})

\* What automaticContextCeiling takes the smallest of. A rejection is superseded
\* by an admission at that context or more; an estimate never undercuts one.
Candidates ==
  LET usable(c) == Highest(Highest(c, CtxFloor), acceptedContext) IN
  (IF rejectedContext > 1 /\ ~(acceptedContext > 0 /\ acceptedContext >= rejectedContext)
     THEN {rejectedContext - 1} ELSE {})
  \union (IF outstrippedContext > 1
            THEN {usable(outstrippedContext - OneStep(outstrippedContext))} ELSE {})
  \union (IF pricedContext > 0 THEN {usable(pricedContext)} ELSE {})
  \union (IF acceptedContext > 0 THEN {acceptedContext} ELSE {})

HasCeiling == Candidates # {}
AutomaticContextCeiling == CHOOSE c \in Candidates : \A d \in Candidates : c <= d

\* The plan does not fit, by as many tokens; zero when the geometry is unknown.
\* A step is noted only on the device that holds most of the cache.
RejectsContext ==
  \E tokens \in 0..MaxCtx, majority \in BOOLEAN :
    LET step == IF majority THEN Reclaim(tokens) ELSE 0 IN
    /\ rejectedContext' = Lowest(rejectedContext, ctx)
    /\ pricedContext' = IF step > Granules THEN Lowest(pricedContext, ctx - step) ELSE pricedContext
    /\ outstrippedContext' = IF Outstrips(tokens) THEN Lowest(outstrippedContext, ctx) ELSE outstrippedContext
    /\ UNCHANGED <<ctx, acceptedContext>>

AcceptsContext ==
  /\ acceptedContext' = Lowest(acceptedContext, ctx)
  /\ UNCHANGED <<ctx, rejectedContext, pricedContext, outstrippedContext>>

\* The next plan: from a planner that is told the ceiling (boundByProvenLimits),
\* from one that is not, or the cut that covers the deficit on its own, which
\* keeps to the floor.
PlansContext ==
  /\ \/ ctx' \in {c \in 1..MaxCtx : HasCeiling => c <= AutomaticContextCeiling}
     \/ ctx' \in 1..MaxCtx
     \/ ctx > CtxFloor /\ ctx' \in CtxFloor..(ctx - 1)
  /\ UNCHANGED limitVars

ContextNext == RejectsContext \/ AcceptsContext \/ PlansContext

\* The ceiling follows what was measured: the shortest context that was admitted
\* is offered again, whatever estimates say, and without an admission the ceiling
\* is below every refusal but never by more than one step, unless at the floor.
CeilingMeasured ==
  /\ acceptedContext > 0 => AutomaticContextCeiling = acceptedContext
  /\ acceptedContext = 0 /\ rejectedContext > 1 =>
       /\ AutomaticContextCeiling < rejectedContext
       /\ \/ AutomaticContextCeiling >= rejectedContext - OneStep(rejectedContext)
          \/ AutomaticContextCeiling = rejectedContext - 1
=============================================================================
