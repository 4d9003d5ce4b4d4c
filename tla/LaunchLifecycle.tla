------------------------- MODULE LaunchLifecycle --------------------------
(***************************************************************************)
(* One launch after the other of the same model, request and machine       *)
(* (go/cmd/ggrun/main.go): plan, start, verify, promote, serve, and what    *)
(* ggrun does about a memory failure.  Three artifacts outlive a launch and *)
(* steer the next one:                                                     *)
(*                                                                         *)
(*   active    the profile the canaries proved (the profile store); a      *)
(*             launch with the same argv skips the canaries                *)
(*   verified  the verified config, a whole plan replayed as it is         *)
(*   place     the .place file, an expert placement replayed as it is      *)
(*                                                                         *)
(* Each is written and removed by a step of its own, and ggrun may be      *)
(* killed between any two.  An argv is a model value.                      *)
(***************************************************************************)
EXTENDS Naturals, FiniteSets

CONSTANTS
  Args,             \* the argvs a plan may come to
  NoArgs,           \* no record
  MoE,              \* the model has experts: its placement is kept in a .place file
  ClaudeCode,       \* serving means handing the terminal to Claude Code
  CheckpointsGrow,  \* the canary may measure larger context checkpoints than planned
  Faults,           \* ggrun may be killed
  MaxRetries,       \* maxRuntimeOOMRetries
  MaxReplans        \* bound: re-plans at one start boundary

ASSUME NoArgsAssumption == NoArgs \notin Args
ASSUME SwitchesAssumption == {MoE, ClaudeCode, CheckpointsGrow, Faults} \subseteq BOOLEAN
ASSUME BoundsAssumption == MaxRetries \in Nat /\ MaxReplans \in Nat

VARIABLES
  disk,       \* the three artifacts
  unread,     \* the argv whose fatal line is in the last Claude log, not recorded yet
  stage,      \* where ggrun is ("none": no ggrun process)
  argv,       \* the command line of the plan
  source,     \* where the plan came from
  reused,     \* the plan handed to the start boundary was a verified config
  cause,      \* what the revocation under way is for
  retries,    \* runtimeOOMRetries
  replans,    \* re-plans at this start boundary
  rejected,   \* the argvs launchMemoryRecovery refuses
  relaunched, \* this process already replaces one whose verification ran out of memory
  activated,  \* history: the argvs that ever reached the active state
  condemned,  \* history: the argvs that ran out of memory since their last canary
  failedHere  \* history: the argvs that ran out of memory in this process

disks == <<disk, unread>>
plan == <<argv, source, reused>>
recovery == <<cause, retries, replans, rejected, relaunched>>
history == <<activated, condemned, failedHere>>
vars == <<disks, stage, plan, recovery, history>>

Stages == {"none", "relaunching", "starting", "verifying", "saving_place",
           "saving_verified", "verified", "serving", "session_dead", "revoking",
           "removing_place", "removing_verified", "revoked"}

-----------------------------------------------------------------------------

Init ==
  /\ disk = [active |-> NoArgs, verified |-> NoArgs, place |-> NoArgs]
  /\ unread = NoArgs
  /\ stage = "none"
  /\ argv = NoArgs
  /\ source = "cold"
  /\ reused = FALSE
  /\ cause = "none"
  /\ retries = 0
  /\ replans = 0
  /\ rejected = {}
  /\ relaunched = FALSE
  /\ activated = {}
  /\ condemned = {}
  /\ failedHere = {}

\* The plans Compute may come to.  A saved record may be there and still be
\* passed over, because more memory is free now than when it was written.
Plans ==
  [from : {"cold"}, args : Args]
    \union [from : {"verified"}, args : {disk.verified} \ {NoArgs}]
    \union [from : {"place"}, args : IF MoE THEN {disk.place} \ {NoArgs} ELSE {}]

\* The previous Claude log of this very argv ends in a memory failure nobody has
\* recorded: it is recorded now, and if that makes the reserve grow the launch
\* plans again without its saved records.
Recovered(p) ==
  IF ClaudeCode /\ unread = p.args
  THEN {p} \union [from : {"cold"}, args : Args]
  ELSE {p}

Launch ==
  /\ stage \in {"none", "relaunching"}
  /\ \E p \in Plans : \E q \in Recovered(p) :
       /\ argv' = q.args
       /\ source' = q.from
       /\ reused' = (q.from = "verified")
       /\ unread' = IF unread = p.args THEN NoArgs ELSE unread
  /\ stage' = "starting"
  /\ relaunched' = (stage = "relaunching")
  /\ cause' = "none"
  /\ retries' = 0
  /\ replans' = 0
  /\ rejected' = {}
  /\ failedHere' = {}
  /\ UNCHANGED <<disk, activated, condemned>>

\* The preflight or the start itself refuses the plan, or a measurement improves
\* it: another one is derived, never from the verified config.
Replan ==
  /\ stage = "starting"
  /\ replans < MaxReplans
  /\ \E next \in Args \ {argv} : argv' = next
  /\ source' = "cold"
  /\ rejected' \in {rejected, rejected \union {argv}}
  /\ replans' = replans + 1
  /\ UNCHANGED <<disks, stage, reused, cause, retries, relaunched, history>>

\* An argv that was rejected in this process is refused.
Start ==
  /\ stage = "starting"
  /\ argv \notin rejected
  /\ stage' = "verifying"
  /\ UNCHANGED <<disks, plan, recovery, history>>

\* No server comes up, for want of memory or for any other reason.  A verified
\* config that led here is deleted.
StartFails ==
  /\ stage = "starting"
  /\ stage' = "none"
  /\ disk' = IF reused THEN [disk EXCEPT !.verified = NoArgs] ELSE disk
  /\ UNCHANGED <<unread, plan, recovery, history>>

\* The exact profile is active: the canary result is reused.
Reuse ==
  /\ stage = "verifying"
  /\ disk.active = argv
  /\ stage' = "saving_place"
  /\ UNCHANGED <<disks, plan, recovery, history>>

\* Every canary passes: the profile becomes the active one.
Activate ==
  /\ stage = "verifying"
  /\ disk.active # argv
  /\ disk' = [disk EXCEPT !.active = argv]
  /\ stage' = "saving_place"
  /\ activated' = activated \union {argv}
  /\ condemned' = condemned \ {argv}
  /\ UNCHANGED <<unread, plan, recovery, failedHere>>

\* Mutant: a degraded profile is not told from a proven one.
MutDegradeSaves ==
  /\ stage = "verifying"
  /\ disk.active # argv
  /\ stage' = "saving_place"
  /\ UNCHANGED <<disks, plan, recovery, history>>

\* The cache canary is not convincing: the server goes on, unpromoted.
Degrade ==
  /\ stage = "verifying"
  /\ disk.active # argv
  /\ stage' = "verified"
  /\ UNCHANGED <<disks, plan, recovery, history>>

\* A plan restored from the verified config names no .place file.
HasPlacementCachePath == MoE /\ source # "verified"

SavePlace ==
  /\ stage = "saving_place"
  /\ disk' = IF HasPlacementCachePath THEN [disk EXCEPT !.place = argv] ELSE disk
  /\ stage' = "saving_verified"
  /\ UNCHANGED <<unread, plan, recovery, history>>

SaveVerified ==
  /\ stage = "saving_verified"
  /\ disk' = [disk EXCEPT !.verified = argv]
  /\ stage' = "verified"
  /\ UNCHANGED <<unread, plan, recovery, history>>

\* If the canary showed larger context checkpoints than the plan reserved, the
\* verified config is written again before the launch goes on to serve.
RefreshCheckpoints(d) ==
  {d} \union (IF CheckpointsGrow THEN {[d EXCEPT !.verified = argv]} ELSE {})

Serve ==
  /\ stage = "verified"
  /\ disk' \in RefreshCheckpoints(disk)
  /\ stage' = "serving"
  /\ UNCHANGED <<unread, plan, recovery, history>>

\* The launch ends without a memory failure: the canaries reject the profile, the
\* user stops the server, the client exits, the server crashes for another
\* reason.
End ==
  /\ stage \in {"verifying", "serving"}
  /\ stage' = "none"
  /\ UNCHANGED <<disks, plan, recovery, history>>

RunsOutOfMemory ==
  /\ condemned' = condemned \union {argv}
  /\ failedHere' = failedHere \union {argv}

\* The backend runs out of memory under the canaries, or is found dead when they
\* have just passed.
VerificationOOM ==
  /\ stage \in {"verifying", "verified"}
  /\ RunsOutOfMemory
  /\ cause' = "verification"
  /\ stage' = "revoking"
  /\ UNCHANGED <<disks, plan, retries, replans, rejected, relaunched, activated>>

\* CUDA memory runs out while ggrun watches the server itself.
ServingOOM ==
  /\ stage = "serving"
  /\ ~ClaudeCode
  /\ RunsOutOfMemory
  /\ cause' = "serving"
  /\ stage' = "revoking"
  /\ UNCHANGED <<disks, plan, retries, replans, rejected, relaunched, activated>>

\* The kernel kills the server in its memory cgroup.
HostOOM ==
  /\ stage = "serving"
  /\ RunsOutOfMemory
  /\ cause' = "host"
  /\ stage' = "revoking"
  /\ UNCHANGED <<disks, plan, retries, replans, rejected, relaunched, activated>>

\* CUDA memory runs out during a Claude session ...
SessionOOM ==
  /\ stage = "serving"
  /\ ClaudeCode
  /\ RunsOutOfMemory
  /\ unread' = argv
  /\ stage' = "session_dead"
  /\ UNCHANGED <<disk, plan, recovery, activated>>

\* ... and the health monitor or the end of the session records it.
RecordSessionOOM ==
  /\ stage = "session_dead"
  /\ unread' = NoArgs
  /\ stage' = "none"
  /\ UNCHANGED <<disk, plan, recovery, history>>

\* invalidateRuntimeOOMLaunch, its three removals in their order.
Revoke ==
  /\ stage = "revoking"
  /\ disk' = [disk EXCEPT !.active = IF @ = argv THEN NoArgs ELSE @]
  /\ stage' = "removing_place"
  /\ UNCHANGED <<unread, plan, recovery, history>>

RemovePlace ==
  /\ stage = "removing_place"
  /\ disk' = IF HasPlacementCachePath THEN [disk EXCEPT !.place = NoArgs] ELSE disk
  /\ stage' = "removing_verified"
  /\ UNCHANGED <<unread, plan, recovery, history>>

\* Mutant: the verified config is kept.
MutKeepVerified ==
  /\ stage = "removing_verified"
  /\ stage' = "revoked"
  /\ UNCHANGED <<disks, plan, recovery, history>>

RemoveVerified ==
  /\ stage = "removing_verified"
  /\ disk' = [disk EXCEPT !.verified = NoArgs]
  /\ stage' = "revoked"
  /\ UNCHANGED <<unread, plan, recovery, history>>

\* Mutant: the retry does not reject the argv that failed.
MutRetryUnrejected ==
  /\ stage = "revoked"
  /\ cause = "serving"
  /\ retries < MaxRetries
  /\ argv' \in Args \ {argv}
  /\ source' = "cold"
  /\ reused' = FALSE
  /\ stage' = "starting"
  /\ retries' = retries + 1
  /\ replans' = 0
  /\ UNCHANGED <<disks, cause, rejected, relaunched, history>>

\* A serving failure is answered with another argv, the failed one being
\* rejected for the rest of this process.
Retry ==
  /\ stage = "revoked"
  /\ cause = "serving"
  /\ retries < MaxRetries
  /\ rejected' = rejected \union {argv}
  /\ argv' \in Args \ {argv}
  /\ source' = "cold"
  /\ reused' = FALSE
  /\ stage' = "starting"
  /\ retries' = retries + 1
  /\ replans' = 0
  /\ UNCHANGED <<disks, cause, relaunched, history>>

\* Mutant: the environment does not carry the mark of the relaunch.
MutRelaunchAgain ==
  /\ stage = "revoked"
  /\ cause = "verification"
  /\ stage' = "relaunching"
  /\ UNCHANGED <<disks, plan, recovery, history>>

\* A verification failure is answered, once, by replacing the process.
Relaunch ==
  /\ stage = "revoked"
  /\ cause = "verification"
  /\ ~relaunched
  /\ stage' = "relaunching"
  /\ UNCHANGED <<disks, plan, recovery, history>>

\* No retry or relaunch is left, none helps the cause, or none could be made.
GiveUp ==
  /\ stage = "revoked"
  /\ stage' = "none"
  /\ UNCHANGED <<disks, plan, recovery, history>>

\* ggrun is killed, or an error makes it exit between two steps.
Killed ==
  /\ Faults
  /\ stage # "none"
  /\ stage' = "none"
  /\ UNCHANGED <<disks, plan, recovery, history>>

Next ==
  \/ Launch \/ Replan \/ Start \/ StartFails
  \/ Reuse \/ Activate \/ Degrade
  \/ SavePlace \/ SaveVerified \/ Serve \/ End
  \/ VerificationOOM \/ ServingOOM \/ HostOOM \/ SessionOOM \/ RecordSessionOOM
  \/ Revoke \/ RemovePlace \/ RemoveVerified
  \/ Retry \/ Relaunch \/ GiveUp
  \/ Killed

Spec == Init /\ [][Next]_vars

\* ggrun keeps going: each of its steps is sequential code or has a timeout.
\* Nothing obliges a server that serves to stop, or a user to launch again.
Working == {"relaunching", "starting", "verifying", "saving_place", "saving_verified",
            "verified", "session_dead", "revoking", "removing_place",
            "removing_verified", "revoked"}
FairSpec == Spec /\ WF_vars(stage \in Working /\ Next)

-----------------------------------------------------------------------------
(* What the lifecycle must do                                              *)

MaybeArgs == Args \union {NoArgs}

\* The variables keep their types.
TypeOK ==
  /\ disk \in [active : MaybeArgs, verified : MaybeArgs, place : MaybeArgs]
  /\ unread \in MaybeArgs
  /\ stage \in Stages
  /\ argv \in MaybeArgs
  /\ source \in {"cold", "verified", "place"}
  /\ reused \in BOOLEAN
  /\ cause \in {"none", "verification", "serving", "host"}
  /\ retries \in 0..MaxRetries
  /\ replans \in 0..MaxReplans
  /\ rejected \subseteq Args
  /\ relaunched \in BOOLEAN
  /\ activated \subseteq Args
  /\ condemned \subseteq Args
  /\ failedHere \subseteq Args

\* A saved plan is evidence of a launch whose every check passed: whatever a
\* degraded, failing or killed launch does, no other plan is saved to be replayed.
SavedWasActive == {disk.verified, disk.place} \subseteq activated \union {NoArgs}

\* A launch does not replay the verified config of an argv that ran out of memory
\* since it last passed its canaries.
VerifiedNotReplayed ==
  [][Launch => ~(source' = "verified" /\ argv' \in condemned)]_vars

\* Nor are the canaries skipped for such an argv, even if a fresh plan comes to it again.
CanaryNotSkipped == [][Reuse => argv \notin condemned]_vars

\* One process never starts an argv twice that ran out of memory under it.
NoBlindRetry == [][Start => argv \notin failedHere]_vars

\* Every launch comes to serve or to end: the retries, the re-plans and the
\* relaunch after a verification failure do not go round in circles.
Settles == stage = "starting" ~> stage \in {"serving", "none"}
=============================================================================
