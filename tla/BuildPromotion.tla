--------------------------- MODULE BuildPromotion ---------------------------
(* ggrun update of the generic backends (pkg/update): several builds of one    *)
(* checkout are brought to the newest commit that compiles. Each is built      *)
(* beside the active one and takes its place by renaming directories; ggrun    *)
(* may be killed before any of these steps. Commits are numbers.               *)
EXTENDS Naturals, FiniteSets

CONSTANTS
  Targets,    \* the builds of the checkout
  NoBuild,    \* of a directory that does not exist
  MaxCommit, Walkback, MaxUpdates

ASSUME PromotionAssumption ==
  /\ Targets # {} /\ {MaxCommit, Walkback} \subseteq Nat \ {0} /\ MaxUpdates \in Nat
  /\ NoBuild \notin [commit : Nat, ok : BOOLEAN]

VARIABLES
  upstream, tip,            \* of the remote and of the local branch
  head, detached,           \* what is checked out
  current, backup, staging, \* the directories of each target
  upStep, old, todo, attempt, promoted,
  results,
  before,                   \* what was active when the update began
  updates,
  marked                    \* fallback markers

checkout == <<upstream, tip, head, detached>>
directories == <<current, backup, staging>>
run == <<old, todo, attempt, promoted, before, updates>>
report == <<results, marked>>
promotionVars == <<checkout, directories, upStep, run, report>>

\* A build has a commit, and passes its checks in its place or not (ok).
Found == {t \in Targets : current[t] # NoBuild}
All(status) == [t \in Targets |-> IF t \in Found THEN status ELSE "none"]

PromotionInit ==
  /\ upstream = 1 /\ tip = 1 /\ head = 1 /\ detached = FALSE
  /\ current = [t \in Targets |-> [commit |-> 1, ok |-> TRUE]]
  /\ backup = [t \in Targets |-> NoBuild] /\ staging = backup
  /\ upStep = "idle" /\ old = 1 /\ todo = {} /\ attempt = 0 /\ promoted = FALSE
  /\ results = [t \in Targets |-> "none"] /\ before = current /\ updates = 0 /\ marked = {}

UpstreamMoves ==
  /\ upStep = "idle" /\ upstream < MaxCommit /\ upstream' = upstream + 1
  /\ UNCHANGED <<tip, head, detached, directories, upStep, run, report>>

Starts == upStep = "idle" /\ updates < MaxUpdates /\ Found # {} /\ updates' = updates + 1

\* Changes in the checkout, or a pull that fails; a detached checkout may have
\* been attached by then.
PullFails ==
  /\ Starts /\ results' = All("failed") /\ before' = current
  /\ \/ UNCHANGED <<head, detached>>
     \/ head' = tip /\ detached' = FALSE
  /\ UNCHANGED <<upstream, tip, directories, upStep, old, todo, attempt, promoted, marked>>

Pulled == tip' = upstream /\ head' = upstream /\ detached' = FALSE /\ UNCHANGED upstream
Changed == head # upstream \/ \E t \in Found : ~current[t].ok

\* The pull changes nothing and every build passes its checks.
NothingToBuild ==
  /\ Starts /\ ~Changed /\ Pulled
  /\ results' = All("current") /\ before' = current
  /\ UNCHANGED <<directories, upStep, old, todo, attempt, promoted, marked>>

Begin ==
  /\ Starts /\ Changed /\ Pulled
  /\ upStep' = "build" /\ old' = head /\ todo' = Found /\ attempt' = 0 /\ promoted' = FALSE
  /\ results' = [t \in Targets |-> "none"] /\ before' = current
  /\ UNCHANGED <<directories, marked>>

Target == CHOOSE t \in todo : TRUE
Commit == tip - attempt
Tries == upStep = "build" /\ todo # {} /\ attempt < Walkback /\ attempt < tip

\* The next older commit, with whatever the staging directory holds removed.
NextAttempt ==
  /\ upStep' = "build" /\ attempt' = attempt + 1 /\ staging' = [staging EXCEPT ![Target] = NoBuild]
  /\ UNCHANGED <<old, todo, promoted, before, updates, report>>

CheckoutFails ==
  /\ Tries /\ NextAttempt /\ UNCHANGED <<checkout, current, backup>>

BuildFails ==
  /\ Tries /\ NextAttempt
  /\ head' = Commit /\ detached' = TRUE /\ UNCHANGED <<upstream, tip, current, backup>>

\* It compiles and passes its checks where it was built; it may still fail them
\* in the place of the active one.
Stage ==
  /\ Tries /\ head' = Commit /\ detached' = TRUE
  /\ \E ok \in BOOLEAN : staging' = [staging EXCEPT ![Target] = [commit |-> Commit, ok |-> ok]]
  /\ upStep' = "promote"
  /\ UNCHANGED <<upstream, tip, current, backup, run, report>>

-----------------------------------------------------------------------------
(* promoteBackendBuild.                                                     *)

\* A backup beside an active build: somebody has to look at them.
RefuseStale ==
  /\ upStep = "promote" /\ backup[Target] # NoBuild /\ current[Target] # NoBuild
  /\ NextAttempt /\ UNCHANGED <<checkout, current, backup>>

\* A backup without an active build is the active build of an interrupted update.
Preserve ==
  /\ upStep = "promote" /\ (backup[Target] = NoBuild \/ current[Target] = NoBuild)
  /\ backup' = [backup EXCEPT ![Target] = IF @ = NoBuild THEN current[Target] ELSE @]
  /\ current' = [current EXCEPT ![Target] = NoBuild]
  /\ upStep' = "activate"
  /\ UNCHANGED <<checkout, staging, run, report>>

MutActivate ==
  /\ upStep = "activate" /\ current' = [current EXCEPT ![Target] = staging[Target]]
  /\ staging' = [staging EXCEPT ![Target] = NoBuild] /\ backup' = [backup EXCEPT ![Target] = NoBuild]
  /\ upStep' = "validate"
  /\ UNCHANGED <<checkout, run, report>>

Activate ==
  /\ upStep = "activate" /\ current' = [current EXCEPT ![Target] = staging[Target]]
  /\ staging' = [staging EXCEPT ![Target] = NoBuild]
  /\ upStep' = "validate"
  /\ UNCHANGED <<checkout, backup, run, report>>

Validate ==
  /\ upStep = "validate" /\ current[Target].ok /\ upStep' = "clean"
  /\ UNCHANGED <<checkout, directories, run, report>>

Reject ==
  /\ upStep = "validate" /\ ~current[Target].ok
  /\ current' = [current EXCEPT ![Target] = backup[Target]]
  /\ backup' = [backup EXCEPT ![Target] = NoBuild]
  /\ NextAttempt /\ UNCHANGED checkout

\* Only now the backup goes; a fallback leaves a marker.
Clean ==
  /\ upStep = "clean" /\ backup' = [backup EXCEPT ![Target] = NoBuild]
  /\ results' = [results EXCEPT ![Target] = IF attempt = 0 THEN "updated" ELSE "fallback"]
  /\ marked' = IF attempt = 0 THEN marked ELSE marked \union {Target}
  /\ upStep' = "build" /\ todo' = todo \ {Target} /\ attempt' = 0 /\ promoted' = TRUE
  /\ UNCHANGED <<checkout, current, staging, old, before, updates>>

\* It cannot be removed, or not all of it: the attempt counts as failed.
CleanFails ==
  /\ upStep = "clean"
  /\ \E left \in {backup[Target], [backup[Target] EXCEPT !.ok = FALSE]} : backup' = [backup EXCEPT ![Target] = left]
  /\ NextAttempt /\ UNCHANGED <<checkout, current>>

-----------------------------------------------------------------------------
Exhausted ==
  /\ upStep = "build" /\ todo # {} /\ (attempt >= Walkback \/ attempt >= tip)
  /\ results' = [results EXCEPT ![Target] = "failed"]
  /\ todo' = todo \ {Target} /\ attempt' = 0
  /\ UNCHANGED <<checkout, directories, upStep, old, promoted, before, updates, marked>>

\* The branch is checked out again, or what was before if nothing could be built.
Finish ==
  /\ upStep = "build" /\ todo = {} /\ upStep' = "idle"
  /\ IF promoted THEN head' = tip /\ detached' = FALSE ELSE head' = old /\ detached' = TRUE
  /\ UNCHANGED <<upstream, tip, directories, run, report>>

\* Only directories and the checkout survive; a removal may be half done.
Killed ==
  /\ upStep # "idle" /\ upStep' = "idle"
  /\ results' = [t \in Targets |-> "none"] /\ todo' = {} /\ attempt' = 0 /\ promoted' = FALSE
  /\ backup' \in IF upStep = "clean" THEN {backup, [backup EXCEPT ![Target].ok = FALSE]} ELSE {backup}
  /\ UNCHANGED <<checkout, current, staging, old, before, updates, marked>>

PromotionNext ==
  \/ UpstreamMoves \/ PullFails \/ NothingToBuild \/ Begin
  \/ CheckoutFails \/ BuildFails \/ Stage
  \/ RefuseStale \/ Preserve \/ Activate \/ Validate \/ Reject \/ Clean \/ CleanFails
  \/ Exhausted \/ Finish \/ Killed

-----------------------------------------------------------------------------
\* Wherever an update is killed, and whatever fails in it, each target has a
\* build that passes its checks, active or as its backup; and one that is reported
\* as failed is as it was, unless its backup is left behind to be looked at.
OneGoodBuild ==
  \A t \in Targets :
    /\ \E b \in {current[t], backup[t]} : b # NoBuild /\ b.ok
    /\ upStep = "idle" /\ results[t] = "failed" /\ backup[t] = NoBuild => current[t] = before[t]
=============================================================================
