---------------------------- MODULE ExpertPlacement ----------------------------
(* Which GPU holds what of a mixture-of-experts model (placement.go,           *)
(* buildMoEOffload): the fast GPUs own whole layers, experts excepted, and the *)
(* key-value cache of those; slow ones hold experts only; what experts no GPU  *)
(* takes stay in host memory. The costs of every layer are known exactly and   *)
(* are whole MiB; the backend divides layers by slots.                         *)
EXTENDS Naturals, Functions, FiniteSets, FiniteSetsExt

CONSTANTS
  GPUs,              \* ordinals 1, 2, ...
  NumLayers, MoEStart,
  DenseMB,           \* of a layer without its experts, whichever the layer
  HeadMB, KVMB,      \* output head and globals; cache of all layers
  RoutedMB, SharedMB, \* of the experts of each layer; what of them serves every token
  SplitFixedMB, ExpertOnlyFixedMB, \* what an owner of layers needs besides, and a GPU without
  FreeMB, Bandwidths, RamMB, \* of the machines
  RuntimeMB, CheckpointMB    \* host memory that cannot be reclaimed

ASSUME PlacementAssumption ==
  /\ GPUs = 1..Cardinality(GPUs) /\ GPUs # {} /\ IsFiniteSet(GPUs)
  /\ Cardinality(GPUs) <= 200 \* or the largest share may be rounded to nothing
  /\ NumLayers \in Nat \ {0} /\ MoEStart \in 0..(NumLayers - 1)
  /\ RoutedMB \in [MoEStart..(NumLayers - 1) -> Nat \ {0}]
  /\ SharedMB \in [MoEStart..(NumLayers - 1) -> Nat]
  /\ DenseMB \in Nat /\ HeadMB \in Nat /\ KVMB \in Nat /\ SplitFixedMB \in Nat /\ ExpertOnlyFixedMB \in Nat
  /\ FreeMB \subseteq Nat /\ Bandwidths \subseteq Nat \ {0} /\ RamMB \subseteq Nat
  /\ RuntimeMB \in Nat /\ CheckpointMB \in Nat

Layers == 0..(NumLayers - 1)
MoELayers == MoEStart..(NumLayers - 1)
VARIABLES
  free, bandwidth, policy, onCPU, \* the machine, and whether the cache goes to the host
  planStep,
  expertOnly, used,   \* roles
  split,              \* hundredths
  room, turn, nextLayer, layersPer, \* of the packing
  ram, noMMap, fileBacked, mmap, mmapRequired \* of the host

gpuVars == <<free, bandwidth, policy, onCPU>>
roleVars == <<expertOnly, used, split>>
packVars == <<room, turn, nextLayer, layersPer>>
hostVars == <<ram, noMMap, fileBacked, mmap, mmapRequired>>
placementVars == <<gpuVars, planStep, roleVars, packVars, hostVars>>

\* One by one: all units of f over S, and how many there are.
Units(f, S) == UNION {{x} \X (1..f[x]) : x \in S}
Total(f, S) == Cardinality(Units(f, S))
WholeMB == [l \in MoELayers |-> RoutedMB[l] + SharedMB[l]]
PerLayerMB == Max(Range(WholeMB))
Less(a, b) == IF a > b THEN a - b ELSE 0

\* Fastest link first, or the most memory first; then by number.
Rank(g) == IF policy = "capacity" THEN free[g] ELSE bandwidth[g]
Before(g) == {h \in GPUs : Rank(h) > Rank(g) \/ (Rank(h) = Rank(g) /\ h < g)}
Place(g) == Cardinality(Before(g)) + 1

PlacementInit ==
  /\ free \in [GPUs -> FreeMB] /\ bandwidth \in [GPUs -> Bandwidths]
  /\ policy \in {"link", "capacity"} /\ onCPU \in BOOLEAN
  /\ planStep = "classify" /\ expertOnly = {} /\ used = {} /\ split = [g \in GPUs |-> 0]
  /\ room = [g \in GPUs |-> 0] /\ turn = 1 /\ nextLayer = MoEStart /\ layersPer = [g \in GPUs |-> 0]
  /\ ram = 0 /\ noMMap = FALSE /\ fileBacked = FALSE /\ mmap = TRUE /\ mmapRequired = FALSE

-----------------------------------------------------------------------------
(* Roles                                                                       *)

\* A slow link, or no room for even one layer, but for experts.
ExpertCandidates ==
  LET fastest == Max(Range(bandwidth))
  IN {g \in GPUs : /\ \/ bandwidth[g] * 100 <= fastest * 33
                      \/ free[g] < SplitFixedMB + DenseMB
                   /\ free[g] >= ExpertOnlyFixedMB + PerLayerMB}

\* The slowest of them, the larger first, as long as one owner of layers remains.
ExpertOnlyGPUs ==
  LET slower(g, h) ==
        \/ bandwidth[g] < bandwidth[h]
        \/ bandwidth[g] = bandwidth[h] /\ (free[g] > free[h] \/ (free[g] = free[h] /\ g < h))
      owners == Cardinality({g \in GPUs : free[g] > SplitFixedMB})
  IN {g \in ExpertCandidates :
        Cardinality({h \in ExpertCandidates : slower(h, g)}) + 1 < owners}

Classify ==
  /\ planStep = "classify" /\ expertOnly' = ExpertOnlyGPUs
  /\ used' = {g \in GPUs \ expertOnly' : free[g] > SplitFixedMB}
  /\ planStep' = "split" /\ UNCHANGED <<gpuVars, split, packVars, hostVars>>

\* The owner of layers may be prescribed; then no other GPU owns any.
ClassifyForced(owner) ==
  /\ planStep = "classify" /\ expertOnly' = GPUs \ {owner}
  /\ used' = {g \in {owner} : free[g] > SplitFixedMB}
  /\ planStep' = "split" /\ UNCHANGED <<gpuVars, split, packVars, hostVars>>

-----------------------------------------------------------------------------
(* Owners of layers                                                            *)

SplitOver(S) ==
  LET share == [g \in GPUs |-> IF g \in S THEN (free[g] - SplitFixedMB) * (IF policy = "capacity" THEN 1 ELSE bandwidth[g]) ELSE 0]
      all == Total(share, GPUs)
  IN [g \in GPUs |-> (200 * share[g] + all) \div (2 * all)]

\* The backend's rule: the first device whose cumulated share exceeds the slot's.
DeviceOf(sp, slot) ==
  LET cum(g) == Total(sp, 1..g)
  IN CHOOSE g \in GPUs : /\ cum(g) * (NumLayers + 1) > slot * Total(sp, GPUs)
                         /\ \A h \in 1..(g - 1) : cum(h) * (NumLayers + 1) <= slot * Total(sp, GPUs)
Owned(sp, g) == {l \in Layers : DeviceOf(sp, l) = g}

NonExpertMB(sp, g) ==
  Cardinality(Owned(sp, g)) * DenseMB + Total(SharedMB, Owned(sp, g) \cap MoELayers)
  + (IF DeviceOf(sp, NumLayers) = g THEN HeadMB ELSE 0)
CacheMB(sp, g) ==
  IF onCPU THEN 0 ELSE (KVMB * Cardinality(Owned(sp, g)) + NumLayers - 1) \div NumLayers

\* What the owner of its layers needs does not fit.
Overfull(sp, S) == {g \in S : SplitFixedMB + NonExpertMB(sp, g) + CacheMB(sp, g) > free[g]}

NoOwner ==
  /\ planStep = "split" /\ used = {} /\ planStep' = "refused"
  /\ UNCHANGED <<gpuVars, roleVars, packVars, hostVars>>

\* One round: the layers are divided, and GPUs that cannot hold theirs own none.
Drop ==
  /\ planStep = "split" /\ used # {}
  /\ split' = SplitOver(used) /\ Overfull(split', used) # {}
  /\ used' = used \ Overfull(split', used)
  /\ UNCHANGED <<gpuVars, planStep, expertOnly, packVars, hostVars>>

\* Everything owned fits. A GPU that owns nothing may hold experts after all.
Settle ==
  /\ planStep = "split" /\ used # {}
  /\ split' = SplitOver(used) /\ Overfull(split', used) = {}
  /\ expertOnly' = expertOnly \cup
       {g \in GPUs \ used : split'[g] = 0 /\ free[g] >= ExpertOnlyFixedMB + PerLayerMB}
  /\ room' = [g \in GPUs |->
       IF g \in expertOnly' THEN Less(free[g], ExpertOnlyFixedMB)
       ELSE IF split'[g] > 0 THEN Less(free[g], SplitFixedMB + NonExpertMB(split', g) + CacheMB(split', g))
       ELSE 0]
  /\ planStep' = "pack" /\ UNCHANGED <<gpuVars, used, turn, nextLayer, layersPer, hostVars>>

-----------------------------------------------------------------------------
(* Experts, layer after layer, GPU after GPU                                   *)

MutPack(g) ==
  LET owner == DeviceOf(split, nextLayer)
      charge == IF owner = g THEN RoutedMB[nextLayer] ELSE WholeMB[nextLayer]
  IN /\ charge <= room[g]
     /\ room' = [room EXCEPT ![g] = @ - charge, ![owner] = @ + SharedMB[nextLayer]]
     /\ layersPer' = [layersPer EXCEPT ![g] = @ + 1] /\ nextLayer' = nextLayer + 1

\* A layer on another GPU than its owner takes its shared experts along.
Pack(g) ==
  LET owner == DeviceOf(split, nextLayer)
      charge == IF owner = g THEN RoutedMB[nextLayer] ELSE WholeMB[nextLayer]
  IN /\ charge <= room[g]
     /\ room' = IF owner = g THEN [room EXCEPT ![g] = @ - charge]
                ELSE [room EXCEPT ![g] = @ - charge, ![owner] = @ + SharedMB[nextLayer]]
     /\ layersPer' = [layersPer EXCEPT ![g] = @ + 1] /\ nextLayer' = nextLayer + 1

Takes(g) ==
  LET charge == IF DeviceOf(split, nextLayer) = g THEN RoutedMB[nextLayer] ELSE WholeMB[nextLayer]
  IN nextLayer < NumLayers /\ charge <= room[g]

PackLayer ==
  /\ planStep = "pack"
  /\ \E g \in GPUs : Place(g) = turn /\ Takes(g) /\ Pack(g)
  /\ UNCHANGED <<gpuVars, planStep, roleVars, turn, hostVars>>

NextGPU ==
  /\ planStep = "pack" /\ turn' = turn + 1
  /\ \E g \in GPUs : Place(g) = turn /\ ~Takes(g)
  /\ UNCHANGED <<gpuVars, planStep, roleVars, room, nextLayer, layersPer, hostVars>>

-----------------------------------------------------------------------------
(* The rest, in host memory                                                    *)

HostExpertsMB == Total(RoutedMB, nextLayer..(NumLayers - 1))
PinnedHostMB == RuntimeMB + (IF onCPU THEN KVMB ELSE 0)

\* All experts resident; or mapped from the file, when the backend keeps them so.
FitsResident == HostExpertsMB <= Less(ram', PinnedHostMB)
MutFitsMapped == fileBacked' /\ ram' >= PinnedHostMB + CheckpointMB
FitsMapped == ~noMMap' /\ fileBacked' /\ ram' >= PinnedHostMB + CheckpointMB

Machine == ram' \in RamMB /\ noMMap' \in BOOLEAN /\ fileBacked' \in BOOLEAN

RefuseHost ==
  /\ planStep = "pack" /\ turn > Cardinality(GPUs) /\ Machine
  /\ \/ nextLayer < NumLayers /\ ~FitsResident /\ ~FitsMapped
     \/ ~noMMap' /\ ~fileBacked' /\ HostExpertsMB + PinnedHostMB + CheckpointMB > ram'
  /\ planStep' = "refused" /\ UNCHANGED <<gpuVars, roleVars, packVars, mmap, mmapRequired>>

Plan ==
  /\ planStep = "pack" /\ turn > Cardinality(GPUs) /\ Machine
  /\ nextLayer < NumLayers => FitsResident \/ FitsMapped
  /\ LET needed == HostExpertsMB + PinnedHostMB + CheckpointMB
     IN /\ ~(~noMMap' /\ ~fileBacked' /\ needed > ram')
        /\ mmapRequired' = (needed > ram' /\ FitsMapped)
        /\ mmap' = (~noMMap' /\ needed > ram')
  /\ planStep' = "planned" /\ UNCHANGED <<gpuVars, roleVars, packVars>>

PlacementNext ==
  \/ Classify \/ (\E g \in GPUs : ClassifyForced(g)) \/ NoOwner \/ Drop \/ Settle
  \/ PackLayer \/ NextGPU \/ RefuseHost \/ Plan

-----------------------------------------------------------------------------
(* What the backend loads, by the plan's split and its -ot ranges              *)

\* The ranges follow one another in the order in which the GPUs are filled.
Range0(g) == MoEStart + Total(layersPer, Before(g))
PinnedTo(g) == Range0(g)..(Range0(g) + layersPer[g] - 1)
Unpinned == MoELayers \ UNION {PinnedTo(g) : g \in GPUs}

LoadedMB(g) ==
  (IF split[g] > 0 THEN SplitFixedMB ELSE ExpertOnlyFixedMB)
  + Cardinality(Owned(split, g)) * DenseMB + CacheMB(split, g)
  + (IF DeviceOf(split, NumLayers) = g THEN HeadMB ELSE 0)
  + Total(SharedMB, Owned(split, g) \cap Unpinned)
  + Total(WholeMB, PinnedTo(g))

\* A plan never loads onto a GPU more than it has free: the layers it owns under
\* the backend's rule, their cache, the output head and the experts of its range
\* are counted anew, although the planner moved shared experts between GPUs,
\* dropped owners and made others hold experts only while it divided them.
NoDeviceOvercommitted ==
  planStep = "planned" =>
    \A g \in GPUs : layersPer[g] > 0 \/ split[g] > 0 => LoadedMB(g) <= free[g]

\* When experts stay in host memory, what the host cannot reclaim fits it: the
\* runtime's own memory and the cache, and the experts of the layers no range
\* names, unless the backend maps them from the file. (No check is made when all
\* experts are on GPUs, nor of the checkpoints when the experts fit resident.)
HostHolds ==
  planStep = "planned" /\ Unpinned # {} =>
    (IF noMMap \/ ~fileBacked \/ ~mmap THEN Total(RoutedMB, Unpinned) ELSE 0)
      + PinnedHostMB + (IF mmapRequired THEN CheckpointMB ELSE 0) <= ram
=============================================================================
