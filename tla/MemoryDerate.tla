----------------------------- MODULE MemoryDerate -----------------------------
(* What is taken back when a GPU has not the memory a launch asks of it: the   *)
(* arguments of the next attempt, from a plan made anew with what is now known *)
(* or from the arguments themselves (placement.go, DerateCUDAOOMArgsForDeficit; *)
(* preflight_recovery.go, selectChangedPreflightRecoveryWithArgs). The -ot     *)
(* argument names a range of layers for every GPU that holds experts.          *)
EXTENDS Naturals, Functions, FiniteSets

CONSTANTS
  DeviceSet, ExpertLayers,
  ExpertPerLayerMB,       \* average over the layers
  UBatches, Deficits, Allocations, \* what may be asked and lack
  MinMarginMB, MaxFailures         \* 64 in the code; bound

ASSUME DerateAssumption ==
  /\ DeviceSet # {} /\ IsFiniteSet(DeviceSet) /\ ExpertLayers \in Nat \ {0} /\ ExpertPerLayerMB \in Nat \ {0}
  /\ MinMarginMB \in Nat /\ UBatches \subseteq Nat \ {0} /\ Deficits \subseteq Nat \ {0} /\ Allocations \subseteq Nat \ {0}

Ladder == {64, 128, 256} \* UBatchFitLadder
NoFailure == [device |-> 0, compute |-> FALSE, alloc |-> 0, deficit |-> 0, measured |-> FALSE]

VARIABLES
  ranges,     \* layers whose experts are pinned to each device
  nCPUMoE,    \* layers whose experts are not, as the argument counts them
  uBatch, share, \* batch; each device's part of everything else, in hundredths
  failure,    \* of the last attempt
  method, failures

argVars == <<ranges, nCPUMoE, uBatch, share>>
derateVars == <<argVars, failure, method, failures>>

ExpertsOn(d) == Cardinality(ranges[d])
CeilDiv(a, b) == (a + b - 1) \div b
Margin(deficit) == IF CeilDiv(deficit, 10) < MinMarginMB THEN MinMarginMB ELSE CeilDiv(deficit, 10)
RequiredMB(deficit) == deficit + Margin(deficit)

\* Ranges that follow one another, whichever device is first.
Rangings ==
  {r \in [DeviceSet -> {i..j : i \in 1..ExpertLayers, j \in 0..ExpertLayers}] :
     \A d, e \in DeviceSet : d # e => r[d] \cap r[e] = {}}
FromStart == {r \in Rangings : UNION Range(r) = 1..Cardinality(UNION Range(r))}
Shares == {s \in [DeviceSet -> {0, 50, 100}] : SumFunction(s) = 100}
LayersOnHost(r) == Cardinality((1..ExpertLayers) \ UNION Range(r))

DerateInit ==
  /\ ranges \in FromStart
  /\ nCPUMoE = LayersOnHost(ranges) /\ uBatch \in UBatches /\ share \in Shares
  /\ failure = NoFailure /\ method = "none" /\ failures = 0

\* The attempt did not get its memory: which device, whether for the buffers of
\* the batch, how much was asked (if that was measured) and how much lacks.
Fails ==
  /\ failure = NoFailure /\ failures < MaxFailures /\ failures' = failures + 1
  /\ failure' \in {f \in [device : DeviceSet, compute : BOOLEAN, alloc : Allocations, deficit : Deficits, measured : BOOLEAN] :
                    f.deficit <= f.alloc}
  /\ method' = "none" /\ UNCHANGED argVars

-----------------------------------------------------------------------------
(* A plan made anew: its arguments, if they help the device that failed        *)

Replans == [ranges : FromStart, uBatch : UBatches, share : Shares]

\* Nothing that raises the batch its buffers failed for, nor the same again.
Usable(c) ==
  /\ ~(failure.compute /\ c.uBatch > uBatch)
  /\ <<c.ranges, c.uBatch, c.share>> # <<ranges, uBatch, share>>
LowersUBatch(c) == failure.compute /\ c.uBatch < uBatch

Relieves(c) ==
  LET d == failure.device
  IN \/ ExpertsOn(d) > 0 /\ (Cardinality(c.ranges[d]) < ExpertsOn(d) \/ LayersOnHost(c.ranges) > nCPUMoE)
     \/ c.share[d] < share[d]

Covers(c) ==
  LowersUBatch(c) /\ (failure.measured =>
    (failure.alloc * (uBatch - c.uBatch)) \div uBatch >= RequiredMB(failure.deficit))

First(c) == Usable(c) /\ ~LowersUBatch(c) /\ Relieves(c)
Second(c) == Usable(c) /\ (Relieves(c) \/ Covers(c))

Answer(m) == method' = m /\ failure' = NoFailure /\ UNCHANGED failures
Adopt(c) ==
  /\ ranges' = c.ranges /\ nCPUMoE' = LayersOnHost(c.ranges) /\ uBatch' = c.uBatch /\ share' = c.share
  /\ Answer("replanned")

-----------------------------------------------------------------------------
(* The same arguments with less in them                                        *)

DropLayers(count) ==
  LET needed == CeilDiv(RequiredMB(failure.deficit), ExpertPerLayerMB)
  IN IF needed > count THEN count ELSE needed

\* The last layers of the device's range.
Shrunk(r, n) == {l \in r : Cardinality({k \in r : k > l}) >= n}

CanDropExperts == ExpertsOn(failure.device) > 0

MutDropExperts ==
  /\ ranges' = [ranges EXCEPT ![failure.device] = Shrunk(@, DropLayers(ExpertsOn(failure.device)))]
  /\ nCPUMoE' = nCPUMoE + CeilDiv(RequiredMB(failure.deficit), ExpertPerLayerMB)
  /\ UNCHANGED <<uBatch, share>> /\ Answer("expert-derate")

DropExperts ==
  /\ ranges' = [ranges EXCEPT ![failure.device] = Shrunk(@, DropLayers(ExpertsOn(failure.device)))]
  /\ nCPUMoE' = nCPUMoE + DropLayers(ExpertsOn(failure.device))
  /\ UNCHANGED <<uBatch, share>> /\ Answer("expert-derate")

Lower == {u \in Ladder : u < uBatch}
Reclaims(u) == (failure.alloc * (uBatch - u)) \div uBatch >= RequiredMB(failure.deficit)
IsNextUBatch(u) ==
  IF \E v \in Lower : Reclaims(v) THEN Reclaims(u) /\ (\A v \in Lower : v > u => ~Reclaims(v))
  ELSE \A v \in Lower : u <= v

LowerUBatch ==
  /\ \E u \in Lower : IsNextUBatch(u) /\ uBatch' = u
  /\ UNCHANGED <<ranges, nCPUMoE, share>> /\ Answer("ubatch-derate")

-----------------------------------------------------------------------------
(* selectChangedPreflightRecoveryWithArgs                                      *)

Replanned ==
  /\ failure # NoFailure
  /\ \E c \in Replans :
       /\ First(c) \/ (Second(c) /\ ~(failure.compute /\ CanDropExperts))
       /\ Adopt(c)

\* There is no plan, or it does not help: buffers of the batch are made room for
\* by experts too, and the batch is lowered when there are none left.
TakeExperts ==
  /\ failure # NoFailure /\ CanDropExperts /\ DropExperts

TakeUBatch ==
  /\ failure # NoFailure /\ failure.compute /\ ~CanDropExperts /\ LowerUBatch

Nothing ==
  /\ failure # NoFailure /\ ~CanDropExperts /\ (failure.compute => Lower = {})
  /\ Answer("exhausted") /\ UNCHANGED argVars

DerateNext == Fails \/ Replanned \/ TakeExperts \/ TakeUBatch \/ Nothing

-----------------------------------------------------------------------------

GivesBack ==
  LET d == failure.device
      dropped == Cardinality(ranges[d]) - Cardinality(ranges'[d])
  IN /\ dropped > 0
     /\ dropped * ExpertPerLayerMB >= RequiredMB(failure.deficit) \/ ranges'[d] = {}
     /\ \A e \in DeviceSet \ {d} : ranges'[e] = ranges[e]
BatchGivesBack ==
  uBatch' < uBatch /\ (Reclaims(uBatch') \/ uBatch' = 64) /\ ranges[failure.device] = {}

\* Arguments that are derated give back what lacks with its margin, or all the
\* failed device has: a launch is not tried again for nothing. Nothing is taken
\* from another device, and the two arguments that say how many layers have
\* their experts in host memory go on agreeing, whatever came before.
DerateSuffices ==
  [][/\ method' = "expert-derate" => GivesBack
     /\ method' = "ubatch-derate" => BatchGivesBack
     /\ nCPUMoE' = LayersOnHost(ranges')]_derateVars
=============================================================================
