------------------------------ MODULE MCPlanner ------------------------------
(* The planner's parts: which GPU holds what, the largest context that fits,   *)
(* and the arguments of a launch that ran out of memory. A behaviour shows one *)
(* of them, chosen at its start: each begins where another has returned.       *)
EXTENDS ExpertPlacement, ContextFit, MemoryDerate

VARIABLE part
plannerVars == <<placementVars, fitVars, derateVars, part>>

\* Layer 0 has no experts; those of the others differ.
MCRouted == [l \in 1..3 |-> CASE l = 1 -> 3 [] l = 2 -> 1 [] l = 3 -> 2]
MCShared == [l \in 1..3 |-> CASE l = 1 -> 1 [] l = 2 -> 2 [] l = 3 -> 1]
MCQualities == <<"q8_0", "q4_0">>

\* The parts that are not shown stay at one of their initial states.
OnePlacement ==
  /\ free = [g \in GPUs |-> Max(FreeMB)] /\ bandwidth = [g \in GPUs |-> Max(Bandwidths)]
  /\ policy = "link" /\ onCPU = FALSE
OneRequest == limit = 0 /\ slots = 1 /\ target = Min(SlotTargets) /\ auto = FALSE /\ prefer = <<"gpu">>
OneLaunch ==
  /\ ranges = [d \in DeviceSet |-> {}] /\ uBatch = Min(UBatches)
  /\ share = [d \in DeviceSet |-> IF d = Min(DeviceSet) THEN 100 ELSE 0]

Init ==
  /\ part \in {"place", "fit", "derate"}
  /\ IF part = "place" THEN TRUE ELSE OnePlacement
  /\ IF part = "fit" THEN TRUE ELSE OneRequest
  /\ IF part = "derate" THEN TRUE ELSE OneLaunch
  /\ PlacementInit /\ FitInit /\ DerateInit

PlaceStep == part = "place" /\ PlacementNext /\ UNCHANGED <<fitVars, derateVars, part>>
FitStep == part = "fit" /\ FitNext /\ UNCHANGED <<placementVars, derateVars, part>>
DerateStep == part = "derate" /\ DerateNext /\ UNCHANGED <<placementVars, fitVars, part>>
Next == PlaceStep \/ FitStep \/ DerateStep

Spec == Init /\ [][Next]_plannerVars
=============================================================================
