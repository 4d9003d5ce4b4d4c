---------------------- MODULE LaunchLifecycleProofs -----------------------
(***************************************************************************)
(* Proofs about the launch lifecycle, for every set of plans and every     *)
(* bound: what is saved was active, whoever is killed when; no process     *)
(* starts an argv twice that failed under it; and, as long as ggrun serves  *)
(* the model itself and is not killed, an argv that ran out of memory is    *)
(* neither replayed from the verified config nor spared its canaries.      *)
(***************************************************************************)
EXTENDS MCLaunchLifecycle, TLAPS

\* There is a plan while there is a process.
Planned == stage # "none" => argv \in Args

TypedAndPlanned == TypeOK /\ Planned

LEMMA InitTyped == Init => TypedAndPlanned
<1> SUFFICES ASSUME Init PROVE TypeOK /\ Planned
  BY DEF TypedAndPlanned
<1>1. disk \in [active : MaybeArgs, verified : MaybeArgs, place : MaybeArgs]
  BY DEF Init, MaybeArgs
<1>2. retries \in 0..MaxRetries /\ replans \in 0..MaxReplans
  BY BoundsAssumption DEF Init
<1>3. reused \in BOOLEAN /\ relaunched \in BOOLEAN
  BY DEF Init
<1> QED BY <1>1, <1>2, <1>3 DEF Init, TypeOK, Planned, MaybeArgs, Stages

LEMMA LaunchChooses ==
  ASSUME TypeOK, Launch
  PROVE  argv' \in Args /\ source' \in {"cold", "verified", "place"}
         /\ reused' \in BOOLEAN /\ unread' \in MaybeArgs
         /\ (source' = "verified" => argv' = disk.verified)
<1>1. PICK p \in Plans : \E q \in Recovered(p) :
        /\ argv' = q.args
        /\ source' = q.from
        /\ reused' = (q.from = "verified")
        /\ unread' = IF unread = p.args THEN NoArgs ELSE unread
  BY DEF Launch
<1>2. /\ p \in [from : {"cold", "verified", "place"}, args : Args]
      /\ p.from = "verified" => p.args = disk.verified
  BY DEF Plans, TypeOK, MaybeArgs
<1>3. PICK q \in Recovered(p) :
        argv' = q.args /\ source' = q.from /\ reused' = (q.from = "verified")
  BY <1>1
<1>4. /\ q \in [from : {"cold", "verified", "place"}, args : Args]
      /\ q.from = "verified" => q.args = disk.verified
  BY <1>2 DEF Recovered
<1>5. reused' \in BOOLEAN
  BY <1>3
<1>6. unread' \in MaybeArgs
  BY <1>1 DEF TypeOK, MaybeArgs
<1> QED BY <1>3, <1>4, <1>5, <1>6

LEMMA StepTyped == TypedAndPlanned /\ [Next]_vars => TypedAndPlanned'
<1> SUFFICES ASSUME TypeOK, Planned, [Next]_vars PROVE TypeOK' /\ Planned'
  BY DEF TypedAndPlanned
<1> USE DEF TypeOK, Planned, MaybeArgs, Stages, disks, plan, recovery, history
<1>1. CASE Launch
  <2>0. TypeOK
    OBVIOUS
  <2>1. /\ argv' \in Args /\ source' \in {"cold", "verified", "place"}
        /\ reused' \in BOOLEAN /\ unread' \in Args \union {NoArgs}
    BY <1>1, <2>0, LaunchChooses
  <2>2. retries' \in 0..MaxRetries /\ replans' \in 0..MaxReplans
    BY <1>1, BoundsAssumption DEF Launch
  <2>3. relaunched' \in BOOLEAN
    BY <1>1 DEF Launch
  <2> QED BY <1>1, <2>1, <2>2, <2>3 DEF Launch
<1>2. CASE Replan
  BY <1>2, BoundsAssumption DEF Replan
<1>3. CASE Retry
  <2>1. retries' \in 0..MaxRetries /\ replans' \in 0..MaxReplans
    BY <1>3, BoundsAssumption DEF Retry
  <2>2. argv' \in Args /\ rejected' \subseteq Args
    BY <1>3 DEF Retry
  <2>3. reused' \in BOOLEAN
    BY <1>3 DEF Retry
  <2> QED BY <1>3, <2>1, <2>2, <2>3 DEF Retry
<1>4. CASE VerificationOOM \/ ServingOOM \/ HostOOM \/ SessionOOM
  BY <1>4 DEF VerificationOOM, ServingOOM, HostOOM, SessionOOM, RunsOutOfMemory
<1>5. CASE Start \/ Reuse \/ Degrade \/ Serve \/ End \/ Relaunch \/ GiveUp \/ Killed
  BY <1>5 DEF Start, Reuse, Degrade, Serve, RefreshCheckpoints, End, Relaunch, GiveUp, Killed
<1>6. CASE StartFails \/ Activate \/ RecordSessionOOM
  BY <1>6 DEF StartFails, Activate, RecordSessionOOM
<1>7. CASE SavePlace \/ SaveVerified
  BY <1>7 DEF SavePlace, SaveVerified
<1>8. CASE Revoke \/ RemovePlace \/ RemoveVerified
  BY <1>8 DEF Revoke, RemovePlace, RemoveVerified
<1>9. CASE UNCHANGED vars
  BY <1>9 DEF vars
<1> QED BY <1>1, <1>2, <1>3, <1>4, <1>5, <1>6, <1>7, <1>8, <1>9 DEF Next

\* The variables keep their types.
THEOREM TypeCorrect == Spec => []TypeOK
BY InitTyped, StepTyped, PTL DEF Spec, TypedAndPlanned

-----------------------------------------------------------------------------

\* What is about to be saved, and what the store calls active, was active once.
AboutToSave ==
  /\ stage \in {"saving_place", "saving_verified"} => argv \in activated
  /\ disk.active \in activated \union {NoArgs}

SavedInv == TypedAndPlanned /\ AboutToSave /\ SavedWasActive

\* Unless checkpoints turn out larger than planned, only plans that passed every
\* check are saved, wherever ggrun is killed.
THEOREM SavedPlansWereActive ==
  ASSUME CheckpointsGrow = FALSE
  PROVE  Spec => []SavedWasActive
<1>1. Init => SavedInv
  <2>1. Init => AboutToSave /\ SavedWasActive
    BY DEF Init, AboutToSave, SavedWasActive
  <2> QED BY <2>1, InitTyped DEF SavedInv
<1>2. SavedInv /\ [Next]_vars => SavedInv'
  <2> SUFFICES ASSUME TypeOK, Planned, AboutToSave, SavedWasActive, [Next]_vars
               PROVE  AboutToSave' /\ SavedWasActive'
    BY StepTyped DEF SavedInv, TypedAndPlanned
  <2> USE DEF TypeOK, Planned, MaybeArgs, AboutToSave, SavedWasActive, disks, plan,
              recovery, history
  <2>1. CASE Launch
    BY <2>1 DEF Launch
  <2>2. CASE Replan \/ Start \/ Degrade \/ Serve \/ End \/ Retry \/ Relaunch \/ GiveUp
             \/ Killed
    BY <2>2 DEF Replan, Start, Degrade, Serve, RefreshCheckpoints, End, Retry, Relaunch, GiveUp, Killed
  <2>3. CASE StartFails \/ RecordSessionOOM
    BY <2>3 DEF StartFails, RecordSessionOOM
  <2>4. CASE Reuse
    BY <2>4, NoArgsAssumption DEF Reuse
  <2>5. CASE Activate
    BY <2>5 DEF Activate
  <2>6. CASE SavePlace \/ SaveVerified
    BY <2>6 DEF SavePlace, SaveVerified
  <2>7. CASE VerificationOOM \/ ServingOOM \/ HostOOM \/ SessionOOM
    BY <2>7 DEF VerificationOOM, ServingOOM, HostOOM, SessionOOM, RunsOutOfMemory
  <2>8. CASE Revoke \/ RemovePlace \/ RemoveVerified
    BY <2>8 DEF Revoke, RemovePlace, RemoveVerified
  <2>9. CASE UNCHANGED vars
    BY <2>9 DEF vars
  <2> QED BY <2>1, <2>2, <2>3, <2>4, <2>5, <2>6, <2>7, <2>8, <2>9 DEF Next
<1> QED BY <1>1, <1>2, PTL DEF Spec, SavedInv

-----------------------------------------------------------------------------

\* An argv that failed in this process is rejected before anything is started
\* again; only the one being revoked is not rejected yet.
FailedIsRejected ==
  /\ stage = "starting" => failedHere \subseteq rejected
  /\ failedHere \subseteq rejected \union {argv}

\* One process never starts an argv twice that failed under it.
THEOREM NeverRetriedBlindly == Spec => NoBlindRetry
<1>1. Init => FailedIsRejected
  BY DEF Init, FailedIsRejected
<1>2. FailedIsRejected /\ [Next]_vars => FailedIsRejected'
  <2> SUFFICES ASSUME FailedIsRejected, [Next]_vars PROVE FailedIsRejected'
    OBVIOUS
  <2> USE DEF FailedIsRejected, disks, plan, recovery, history
  <2>1. CASE Launch
    BY <2>1 DEF Launch
  <2>2. CASE Replan
    BY <2>2 DEF Replan
  <2>3. CASE Retry
    BY <2>3 DEF Retry
  <2>4. CASE VerificationOOM \/ ServingOOM \/ HostOOM \/ SessionOOM
    BY <2>4 DEF VerificationOOM, ServingOOM, HostOOM, SessionOOM, RunsOutOfMemory
  <2>5. CASE Start \/ StartFails \/ Reuse \/ Activate \/ Degrade \/ Serve \/ End
    BY <2>5 DEF Start, StartFails, Reuse, Activate, Degrade, Serve, RefreshCheckpoints, End
  <2>6. CASE SavePlace \/ SaveVerified \/ RecordSessionOOM
    BY <2>6 DEF SavePlace, SaveVerified, RecordSessionOOM
  <2>7. CASE Revoke \/ RemovePlace \/ RemoveVerified \/ Relaunch \/ GiveUp \/ Killed
    BY <2>7 DEF Revoke, RemovePlace, RemoveVerified, Relaunch, GiveUp, Killed
  <2>8. CASE UNCHANGED vars
    BY <2>8 DEF vars
  <2> QED BY <2>1, <2>2, <2>3, <2>4, <2>5, <2>6, <2>7, <2>8 DEF Next
<1>3. FailedIsRejected /\ [Next]_vars => [Start => argv \notin failedHere]_vars
  BY DEF FailedIsRejected, Start
<1> QED BY <1>1, <1>2, <1>3, PTL DEF Spec, NoBlindRetry

-----------------------------------------------------------------------------

\* What a memory failure leaves on disk, until the revocation has removed it.
Disproved ==
  /\ stage \in {"saving_place", "saving_verified"} => argv \notin condemned
  /\ disk.active \in condemned => stage = "revoking" /\ disk.active = argv
  /\ disk.verified \in condemned =>
       stage \in {"revoking", "removing_place", "removing_verified"}

DisprovedInv == TypedAndPlanned /\ Disproved

LEMMA DisprovedIsInvariant ==
  ASSUME CheckpointsGrow = FALSE, ClaudeCode = FALSE, Faults = FALSE
  PROVE  Spec => []DisprovedInv
<1>1. Init => DisprovedInv
  <2>1. Init => Disproved
    BY DEF Init, Disproved
  <2> QED BY <2>1, InitTyped DEF DisprovedInv
<1>2. DisprovedInv /\ [Next]_vars => DisprovedInv'
  <2> SUFFICES ASSUME TypeOK, Planned, Disproved, [Next]_vars PROVE Disproved'
    BY StepTyped DEF DisprovedInv, TypedAndPlanned
  <2> USE NoArgsAssumption DEF TypeOK, Planned, MaybeArgs, Disproved, disks, plan,
          recovery, history
  <2>1. CASE Launch
    BY <2>1 DEF Launch
  <2>2. CASE Replan \/ Start \/ Degrade \/ Serve \/ End \/ Retry \/ Relaunch \/ GiveUp
    BY <2>2 DEF Replan, Start, Degrade, Serve, RefreshCheckpoints, End, Retry, Relaunch, GiveUp
  <2>3. CASE StartFails \/ Reuse
    BY <2>3 DEF StartFails, Reuse
  <2>4. CASE Activate
    BY <2>4 DEF Activate
  <2>5. CASE SavePlace \/ SaveVerified
    BY <2>5 DEF SavePlace, SaveVerified
  <2>6. CASE SessionOOM \/ Killed
    BY <2>6 DEF SessionOOM, Killed
  <2>7. CASE VerificationOOM \/ ServingOOM \/ HostOOM
    BY <2>7 DEF VerificationOOM, ServingOOM, HostOOM, RunsOutOfMemory
  <2>8. CASE RecordSessionOOM
    BY <2>8 DEF RecordSessionOOM
  <2>9. CASE Revoke
    BY <2>9 DEF Revoke
  <2>10. CASE RemovePlace \/ RemoveVerified
    BY <2>10 DEF RemovePlace, RemoveVerified
  <2>11. CASE UNCHANGED vars
    BY <2>11 DEF vars
  <2> QED BY <2>1, <2>2, <2>3, <2>4, <2>5, <2>6, <2>7, <2>8, <2>9, <2>10, <2>11 DEF Next
<1> QED BY <1>1, <1>2, PTL DEF Spec

\* While ggrun serves the model itself and is not killed, the verified config of
\* an argv that ran out of memory is not replayed.
THEOREM DisprovedNotReplayed ==
  ASSUME CheckpointsGrow = FALSE, ClaudeCode = FALSE, Faults = FALSE
  PROVE  Spec => VerifiedNotReplayed
<1>1. DisprovedInv /\ [Next]_vars
        => [Launch => ~(source' = "verified" /\ argv' \in condemned)]_vars
  BY LaunchChooses DEF DisprovedInv, TypedAndPlanned, Disproved, Launch
<1> QED BY <1>1, DisprovedIsInvariant, PTL DEF Spec, VerifiedNotReplayed

\* Nor does the active profile of one spare it the canaries.
THEOREM DisprovedNotReused ==
  ASSUME CheckpointsGrow = FALSE, ClaudeCode = FALSE, Faults = FALSE
  PROVE  Spec => CanaryNotSkipped
<1>1. DisprovedInv /\ [Next]_vars => [Reuse => argv \notin condemned]_vars
  BY DEF DisprovedInv, Disproved, Reuse
<1> QED BY <1>1, DisprovedIsInvariant, PTL DEF Spec, CanaryNotSkipped

-----------------------------------------------------------------------------
(* The same of the quiet behaviours among all of them.                     *)

LEMMA QuietLaunch ==
  ASSUME TypeOK, Quiet!Launch
  PROVE  /\ argv' \in Args /\ source' \in {"cold", "verified"}
         /\ reused' \in BOOLEAN /\ unread' \in MaybeArgs
         /\ (source' = "verified" => argv' = disk.verified)
<1>1. PICK p \in Quiet!Plans : \E q \in Quiet!Recovered(p) :
        /\ argv' = q.args
        /\ source' = q.from
        /\ reused' = (q.from = "verified")
        /\ unread' = IF unread = p.args THEN NoArgs ELSE unread
  BY DEF Quiet!Launch
<1>2. /\ p \in [from : {"cold", "verified"}, args : Args]
      /\ p.from = "verified" => p.args = disk.verified
  BY DEF Quiet!Plans, TypeOK, MaybeArgs
<1>3. argv' = p.args /\ source' = p.from /\ reused' = (p.from = "verified")
  BY <1>1 DEF Quiet!Recovered
<1>4. reused' \in BOOLEAN
  BY <1>3
<1>5. unread' \in MaybeArgs
  BY <1>1 DEF TypeOK, MaybeArgs
<1> QED BY <1>2, <1>3, <1>4, <1>5

LEMMA QuietKeeps ==
  ASSUME CheckpointsGrow = FALSE, TypedAndPlanned, Disproved, Quiet!Next
  PROVE  TypedAndPlanned' /\ Disproved'
<1> USE NoArgsAssumption DEF TypedAndPlanned, TypeOK, Planned, MaybeArgs, Disproved, Stages, disks, plan,
        recovery, history, Quiet!disks, Quiet!plan, Quiet!recovery, Quiet!history
<1>1. CASE Quiet!Launch
  <2>1. TypeOK
    OBVIOUS
  <2>2. /\ argv' \in Args /\ source' \in {"cold", "verified"}
        /\ reused' \in BOOLEAN /\ unread' \in MaybeArgs
        /\ (source' = "verified" => argv' = disk.verified)
    BY ONLY <2>1, <1>1, QuietLaunch
  <2> QED BY <1>1, <2>2, BoundsAssumption DEF Quiet!Launch
<1>2. CASE Quiet!Replan
  BY <1>2, BoundsAssumption DEF Quiet!Replan
<1>3. CASE Quiet!Retry
  <2>1. retries' \in 0..MaxRetries /\ replans' \in 0..MaxReplans
    BY <1>3, BoundsAssumption DEF Quiet!Retry
  <2>2. argv' \in Args /\ rejected' \subseteq Args
    BY <1>3 DEF Quiet!Retry
  <2>3. reused' \in BOOLEAN
    BY <1>3 DEF Quiet!Retry
  <2> QED BY <1>3, <2>1, <2>2, <2>3 DEF Quiet!Retry
<1>4. CASE Quiet!Start \/ Quiet!Reuse \/ Quiet!Degrade \/ Quiet!End \/ Quiet!Relaunch \/ Quiet!GiveUp
  BY <1>4 DEF Quiet!Start, Quiet!Reuse, Quiet!Degrade, Quiet!End, Quiet!Relaunch, Quiet!GiveUp
<1>5. CASE Quiet!StartFails \/ Quiet!Activate
  BY <1>5 DEF Quiet!StartFails, Quiet!Activate
<1>6. CASE Quiet!SavePlace \/ Quiet!SaveVerified \/ Quiet!Serve
  BY <1>6 DEF Quiet!SavePlace, Quiet!SaveVerified, Quiet!Serve, Quiet!RefreshCheckpoints,
     Quiet!HasPlacementCachePath
<1>7. CASE Quiet!VerificationOOM \/ Quiet!ServingOOM \/ Quiet!HostOOM
  BY <1>7 DEF Quiet!VerificationOOM, Quiet!ServingOOM, Quiet!HostOOM, Quiet!RunsOutOfMemory
<1>8. CASE Quiet!SessionOOM \/ Quiet!RecordSessionOOM \/ Quiet!Killed
  BY <1>8 DEF Quiet!SessionOOM, Quiet!RecordSessionOOM, Quiet!Killed
<1>9. CASE Quiet!Revoke \/ Quiet!RemovePlace \/ Quiet!RemoveVerified
  BY <1>9 DEF Quiet!Revoke, Quiet!RemovePlace, Quiet!RemoveVerified, Quiet!HasPlacementCachePath
<1> QED BY <1>1, <1>2, <1>3, <1>4, <1>5, <1>6, <1>7, <1>8, <1>9 DEF Quiet!Next

\* Among launches of any kind, those of a quiet process neither replay the verified
\* config of an argv that ran out of memory nor spare it the canaries.
THEOREM DisprovedNotTrusted ==
  ASSUME CheckpointsGrow = FALSE
  PROVE  LaunchesSpec => ServedNotTrusted
<1> DEFINE Inv == quiet => TypedAndPlanned /\ Disproved
<1>1. LaunchesInit => Inv
  BY InitTyped DEF LaunchesInit, Init, Disproved
<1>2. ASSUME Inv, [LaunchesNext]_launchVars PROVE Inv'
  <2>1. CASE UNCHANGED launchVars
    <3>1. quiet' = quiet
      BY <2>1 DEF launchVars
    <3>2. TypedAndPlanned /\ Disproved => TypedAndPlanned' /\ Disproved'
      BY <2>1 DEF launchVars, vars, disks, plan, recovery, history, TypedAndPlanned, TypeOK,
         Planned, MaybeArgs, Disproved
    <3> QED BY <1>2, <3>1, <3>2, Zenon
  <2>2. CASE LaunchesNext
    BY <1>2, <2>2, QuietKeeps DEF LaunchesNext
  <2> QED BY <1>2, <2>1, <2>2
<1>3. ASSUME Inv, [LaunchesNext]_launchVars
      PROVE  [quiet => /\ Quiet!Launch => ~(source' = "verified" /\ argv' \in condemned)
                       /\ Reuse => argv \notin condemned]_vars
  <2>1. ASSUME quiet, Quiet!Launch PROVE ~(source' = "verified" /\ argv' \in condemned)
    BY <1>3, <2>1, QuietLaunch DEF TypedAndPlanned, Disproved, Quiet!Launch
  <2>2. ASSUME quiet, Reuse PROVE argv \notin condemned
    BY <1>3, <2>2 DEF Disproved, Reuse
  <2> QED BY <2>1, <2>2
<1> HIDE DEF Inv
<1> QED BY <1>1, <1>2, <1>3, PTL DEF LaunchesSpec, ServedNotTrusted
=============================================================================
