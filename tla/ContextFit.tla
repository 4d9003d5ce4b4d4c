------------------------------ MODULE ContextFit ------------------------------
(* The largest context that fits (placement.go, computeAutomaticContext-       *)
(* Strategy): residency tiers, cache types, slot counts and cache placements   *)
(* are tried in the order they are preferred in, and for each of them the      *)
(* contexts are searched by halving. What the planner says of a context is not *)
(* the same twice: it reads measurements that other launches write meanwhile.  *)
(* Contexts are counted in granules, a model's own limit in granules per slot. *)
EXTENDS Naturals, Sequences, FiniteSets

CONSTANTS
  Qualities,        \* sequence of cache types, the preferred first
  FloorContext, NativeContext, MaxSlots,
  SlotTargets,      \* contexts a slot is to have
  ContextLimits,    \* what the user allows, 0 when it is not said
  MaxContradictions \* bound on searches that contradict themselves

ASSUME RequestAssumption ==
  /\ FloorContext \in Nat \ {0} /\ NativeContext \in Nat \ {0} /\ MaxSlots \in Nat \ {0}
  /\ SlotTargets \subseteq Nat \ {0} /\ ContextLimits \subseteq Nat
  /\ Qualities \in Seq(STRING)

VARIABLES
  limit, slots, target, auto, prefer, \* of the request; slots may be fewer; placements
  fitStep, index,         \* the combination that is searched
  low, high, best,        \* of its search, best 0 when there is none
  refused, contradicted,  \* evidence: <<combination, context>>, combinations
  fit                     \* the plan: combination, context and what it is

requestVars == <<limit, slots, target, auto, prefer>>
searchVars == <<low, high, best>>
fitVars == <<requestVars, fitStep, index, searchVars, refused, contradicted, fit>>

Larger(a, b) == IF a > b THEN a ELSE b
Smaller(a, b) == IF a < b THEN a ELSE b

CapFor(n) == IF limit = 0 THEN NativeContext * n ELSE Smaller(limit, NativeContext * n)
Floor == Smaller(FloorContext, Smaller(NativeContext, CapFor(slots)))

-----------------------------------------------------------------------------
(* The combinations, in order                                                  *)

Tiers == <<"gpu-resident", "memory-resident", "mmap-last-resort">>

\* As many slots as asked for, then fewer, each with the context it is to have;
\* at last one slot and the smallest context. What fits some slots fits fewer.
Shapes ==
  LET shape(n) == [slots |-> n, least |-> Larger(n * target, Floor)]
      most == Cardinality({n \in 1..slots : shape(n).least <= CapFor(slots)})
      legal == [i \in 1..most |-> shape(most - i + 1)]
  IN IF ~auto \/ slots = 1 THEN <<[slots |-> slots, least |-> Floor]>>
     ELSE IF most = 0 \/ legal[most].least # Floor THEN Append(legal, [slots |-> 1, least |-> Floor])
     ELSE legal

Combination(t, q, s, p) == [tier |-> t, quality |-> q, slots |-> s.slots, least |-> s.least, kv |-> p]
Combinations ==
  LET P == Len(prefer) S == Len(Shapes) Q == Len(Qualities)
      at(i) == Combination(Tiers[((i - 1) \div (P * S * Q)) + 1], Qualities[(((i - 1) \div (P * S)) % Q) + 1],
                           Shapes[(((i - 1) \div P) % S) + 1], prefer[((i - 1) % P) + 1])
  IN [i \in 1..(3 * P * S * Q) |-> at(i)]

\* Only a cache on GPUs belongs to the first tier, and the model or the user may
\* not allow these slots that much.
RuledOut(c) == (c.tier = "gpu-resident" /\ c.kv # "gpu") \/ c.least > CapFor(c.slots)

\* What the planner says: no plan, one that pages weights from the file, one in
\* memory, one in memory of GPUs.
Verdicts(c) == {"none", "paged", "resident"} \cup (IF c.kv = "gpu" THEN {"gpu"} ELSE {})
Accepts(tier, v) ==
  CASE tier = "gpu-resident" -> v = "gpu"
    [] tier = "memory-resident" -> v \in {"resident", "gpu"}
    [] tier = "mmap-last-resort" -> v # "none"

Current == Combinations[index]
NoFit == [of |-> 0, context |-> 0, what |-> "none"]

FitInit ==
  /\ limit \in ContextLimits /\ slots \in 1..MaxSlots /\ target \in SlotTargets /\ auto \in BOOLEAN
  /\ prefer \in {<<"gpu">>, <<"cpu">>, <<"gpu", "cpu">>}
  /\ fitStep = "start" /\ index = 1 /\ low = 0 /\ high = 0 /\ best = 0
  /\ refused = {} /\ contradicted = {} /\ fit = NoFit

-----------------------------------------------------------------------------

\* A plan that an earlier launch has validated is reused whatever its context.
Reuse ==
  /\ fitStep = "start" /\ fit' = [of |-> 0, context |-> Floor, what |-> "verified"]
  /\ fitStep' = "fits" /\ UNCHANGED <<requestVars, index, searchVars, refused, contradicted>>

Begin ==
  /\ fitStep = "start" /\ fitStep' = "next"
  /\ UNCHANGED <<requestVars, index, searchVars, refused, contradicted, fit>>

NoneFits ==
  /\ fitStep = "next" /\ index > Len(Combinations) /\ fitStep' = "failed"
  /\ UNCHANGED <<requestVars, index, searchVars, refused, contradicted, fit>>

Skip ==
  /\ fitStep = "next" /\ index <= Len(Combinations) /\ RuledOut(Current)
  /\ index' = index + 1
  /\ UNCHANGED <<requestVars, fitStep, searchVars, refused, contradicted, fit>>

Search ==
  /\ fitStep = "next" /\ index <= Len(Combinations) /\ ~RuledOut(Current)
  /\ low' = Current.least /\ high' = CapFor(Current.slots) /\ best' = 0 /\ fitStep' = "halve"
  /\ UNCHANGED <<requestVars, index, refused, contradicted, fit>>

Probe(v) ==
  LET mid == low + (high - low) \div 2
  IN IF Accepts(Current.tier, v)
     THEN best' = mid /\ low' = mid + 1 /\ UNCHANGED <<high, refused>>
     ELSE high' = mid - 1 /\ refused' = refused \cup {<<index, mid>>} /\ UNCHANGED <<low, best>>

Halve ==
  /\ fitStep = "halve" /\ low <= high /\ \E v \in Verdicts(Current) : Probe(v)
  /\ UNCHANGED <<requestVars, fitStep, index, contradicted, fit>>

GiveUp ==
  /\ fitStep = "halve" /\ low > high /\ best = 0 /\ index' = index + 1 /\ fitStep' = "next"
  /\ UNCHANGED <<requestVars, searchVars, refused, contradicted, fit>>

AtCap ==
  /\ fitStep = "halve" /\ low > high /\ best # 0 /\ best + 1 > CapFor(Current.slots)
  /\ fitStep' = "replan" /\ UNCHANGED <<requestVars, index, searchVars, refused, contradicted, fit>>

\* The next granule is planned once more. If it fits now, the search has shown
\* nothing, and the combination is passed over.
Adjacent ==
  /\ fitStep = "halve" /\ low > high /\ best # 0 /\ best + 1 <= CapFor(Current.slots)
  /\ \E v \in Verdicts(Current) :
       IF Accepts(Current.tier, v)
       THEN Cardinality(contradicted) < MaxContradictions /\ contradicted' = contradicted \cup {index} /\ index' = index + 1 /\ fitStep' = "next" /\ UNCHANGED refused
       ELSE refused' = refused \cup {<<index, best + 1>>} /\ fitStep' = "replan" /\ UNCHANGED <<index, contradicted>>
  /\ UNCHANGED <<requestVars, searchVars, fit>>

MutReplan ==
  /\ fitStep = "replan"
  /\ \E v \in Verdicts(Current) \ {"none"} : fit' = [of |-> index, context |-> best, what |-> v]
  /\ fitStep' = "offer" /\ UNCHANGED <<requestVars, index, searchVars, refused, contradicted>>

\* The context is planned again with everything cached for it; that plan is
\* taken if it belongs to the same tier.
Replan ==
  /\ fitStep = "replan"
  /\ \E v \in Verdicts(Current), found \in {w \in Verdicts(Current) : Accepts(Current.tier, w)} :
       fit' = [of |-> index, context |-> best, what |-> IF Accepts(Current.tier, v) THEN v ELSE found]
  /\ fitStep' = "offer" /\ UNCHANGED <<requestVars, index, searchVars, refused, contradicted>>

\* A plan that offloads a dense model to memory is for the user to accept; when
\* it is not, nothing else is tried.
Offer ==
  /\ fitStep = "offer"
  /\ \/ fitStep' = "fits" /\ UNCHANGED fit
     \/ fit.what # "gpu" /\ fitStep' = "failed" /\ fit' = NoFit
  /\ UNCHANGED <<requestVars, index, searchVars, refused, contradicted>>

FitNext ==
  \/ Reuse \/ Begin \/ NoneFits \/ Skip \/ Search \/ Halve \/ GiveUp \/ AtCap
  \/ Adjacent \/ Replan \/ Offer

-----------------------------------------------------------------------------

\* A combination was passed over for a reason: its smallest context was planned
\* and refused, or it is ruled out by the tier or by a limit, or its search
\* contradicted itself.
PassedOver(i) ==
  <<i, Combinations[i].least>> \in refused \/ i \in contradicted \/ RuledOut(Combinations[i])

\* The plan that is taken is the best of them: every combination preferred to its
\* own was passed over for a reason, the plan belongs to the tier it is reported
\* under, it gives each of its slots what was asked for or the smallest context,
\* and one granule more was refused or is beyond the limit.
BestIsTaken ==
  fitStep = "fits" /\ fit.of # 0 =>
    /\ \A i \in 1..(fit.of - 1) : PassedOver(i)
    /\ Accepts(Combinations[fit.of].tier, fit.what)
    /\ fit.context >= Combinations[fit.of].least
    /\ <<fit.of, fit.context + 1>> \in refused \/ fit.context + 1 > CapFor(Combinations[fit.of].slots)
=============================================================================
