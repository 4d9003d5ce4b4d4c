-------------------------- MODULE MaintenanceProofs --------------------------
(***************************************************************************)
(* Proofs about the commands that keep an installation up to date, and     *)
(* about the sessions of Claude Code it records: for every set of targets, *)
(* every number of commits, archives, versions, updates, rounds, clients   *)
(* and sessions, wherever ggrun is killed.                                 *)
(***************************************************************************)
EXTENDS MCMaintenance, TLAPS

\* A behaviour shows one command.
LEMMA PartsApart ==
  Next => /\ [PromotionNext]_promotionVars /\ [BuildsNext]_buildVars
          /\ [SelfNext]_selfVars /\ [TunerNext]_tunerVars /\ [SessionsNext]_sessionVars
BY DEF Next, GenericStep, ForkStep, SelfStep, TuneStep, SessionStep

-----------------------------------------------------------------------------
(* The generic backends.                                                   *)

Builds == [commit : Nat, ok : BOOLEAN]
Good(b) == b # NoBuild /\ b.ok

PromotionTyped ==
  /\ {upstream, tip, attempt} \subseteq Nat
  /\ current \in [Targets -> Builds \union {NoBuild}]
  /\ backup \in [Targets -> Builds \union {NoBuild}]
  /\ staging \in [Targets -> Builds \union {NoBuild}]
  /\ before \in [Targets -> Builds \union {NoBuild}]
  /\ todo \subseteq Targets
  /\ results \in [Targets -> {"none", "failed", "current", "updated", "fallback"}]
  /\ upStep \in {"idle", "build", "promote", "activate", "validate", "clean"}

Swapping == {"activate", "validate", "clean"}

\* What a promotion has done so far to the directories of its target.
InHand ==
  /\ upStep = "idle" => todo = {}
  /\ upStep \in Swapping \union {"promote"} => todo # {}
  /\ upStep \in {"promote", "activate"} => staging[Target] # NoBuild
  /\ upStep = "activate" => current[Target] = NoBuild
  /\ upStep \in {"validate", "clean"} => current[Target] # NoBuild
  /\ upStep \in Swapping => Good(backup[Target]) /\ backup[Target] = before[Target]
  /\ upStep = "clean" => Good(current[Target])

\* A target that failed, or is still to be built, is as it was before the update,
\* unless its backup is left behind; only the one in hand is not.
AsBefore(t) == backup[t] = NoBuild => current[t] = before[t]

FailedIsAsBefore == \A t \in Targets : results[t] = "failed" => t \notin todo /\ AsBefore(t)

TodoIsAsBefore ==
  \A t \in todo : (upStep \in Swapping => t # Target) => current[t] # NoBuild /\ AsBefore(t)

OneGoodEach == \A t \in Targets : Good(current[t]) \/ Good(backup[t])

PromotionInv == PromotionTyped /\ InHand /\ FailedIsAsBefore /\ TodoIsAsBefore /\ OneGoodEach

LEMMA TargetIsToDo == todo # {} => Target \in todo
BY DEF Target

LEMMA TargetStays == todo' = todo => Target' = Target
BY DEF Target

LEMMA InitPromotion == Init => PromotionInv
<1> SUFFICES ASSUME PromotionInit PROVE PromotionInv
  BY DEF Init
<1>1. [commit |-> 1, ok |-> TRUE] \in Builds /\ NoBuild \notin Builds
  BY PromotionAssumption DEF Builds
<1>2. PromotionTyped
  BY <1>1 DEF PromotionInit, PromotionTyped
<1> QED BY <1>1, <1>2 DEF PromotionInit, PromotionInv, InHand, Swapping, FailedIsAsBefore, TodoIsAsBefore,
      OneGoodEach, Good

LEMMA StepPromotionTyped ==
  ASSUME PromotionTyped, InHand, [PromotionNext]_promotionVars
  PROVE  PromotionTyped'
<1>0. todo # {} => Target \in Targets
  BY TargetIsToDo DEF PromotionTyped
<1> USE DEF PromotionTyped, checkout, directories, run, report
<1>1. CASE UpstreamMoves \/ PullFails \/ NothingToBuild \/ Begin
  BY <1>1 DEF UpstreamMoves, PullFails, NothingToBuild, Begin, Starts, Pulled, All, Found
<1>2. CASE CheckoutFails \/ BuildFails \/ RefuseStale
  BY <1>2 DEF CheckoutFails, BuildFails, RefuseStale, NextAttempt
<1>3. CASE Stage
  <2>1. Commit \in Nat
    BY <1>3 DEF Stage, Tries, Commit
  <2>2. PICK ok \in BOOLEAN : staging' = [staging EXCEPT ![Target] = [commit |-> Commit, ok |-> ok]]
    BY <1>3 DEF Stage
  <2>3. [commit |-> Commit, ok |-> ok] \in Builds
    BY <2>1 DEF Builds
  <2> QED BY <1>3, <2>2, <2>3 DEF Stage
<1>4. CASE Preserve
  BY <1>0, <1>4 DEF Preserve, InHand
<1>5. CASE Activate \/ Validate
  BY <1>0, <1>5 DEF Activate, Validate, InHand, Swapping
<1>6. CASE Reject
  BY <1>0, <1>6 DEF Reject, NextAttempt, InHand, Swapping
<1>7. CASE Clean
  <2>1. results' \in [Targets -> {"none", "failed", "current", "updated", "fallback"}]
    BY <1>7 DEF Clean
  <2>2. backup' \in [Targets -> Builds \union {NoBuild}] /\ todo' \subseteq Targets
    BY <1>7 DEF Clean
  <2> QED BY <1>7, <2>1, <2>2 DEF Clean
<1>8. CASE CleanFails
  <2>1. \A b \in Builds : [b EXCEPT !.ok = FALSE] \in Builds
    BY DEF Builds
  <2>2. backup[Target] \in Builds
    BY <1>0, <1>8 DEF CleanFails, InHand, Swapping, Good
  <2>3. PICK left \in Builds : backup' = [backup EXCEPT ![Target] = left]
    BY <1>8, <2>1, <2>2 DEF CleanFails
  <2>4. backup' \in [Targets -> Builds \union {NoBuild}]
    BY <2>3
  <2>5. staging' \in [Targets -> Builds \union {NoBuild}]
    BY <1>8 DEF CleanFails, NextAttempt
  <2> QED BY <1>8, <2>4, <2>5 DEF CleanFails, NextAttempt
<1>9. CASE Exhausted \/ Finish
  BY <1>9 DEF Exhausted, Finish
<1>10. CASE Killed
  <2>1. \A b \in Builds : [b EXCEPT !.ok = FALSE] \in Builds
    BY DEF Builds
  <2>2. upStep = "clean" => backup[Target] \in Builds
    BY <1>0 DEF InHand, Swapping, Good
  <2>3. backup' \in [Targets -> Builds \union {NoBuild}]
    BY <1>10, <2>1, <2>2 DEF Killed
  <2> QED BY <1>10, <2>3 DEF Killed
<1>11. CASE UNCHANGED promotionVars
  BY <1>11 DEF promotionVars
<1> QED BY <1>1, <1>2, <1>3, <1>4, <1>5, <1>6, <1>7, <1>8, <1>9, <1>10, <1>11 DEF PromotionNext

LEMMA StepPromotion == PromotionInv /\ [PromotionNext]_promotionVars => PromotionInv'
<1> SUFFICES ASSUME PromotionInv, [PromotionNext]_promotionVars
             PROVE  InHand' /\ FailedIsAsBefore' /\ TodoIsAsBefore' /\ OneGoodEach'
  BY StepPromotionTyped DEF PromotionInv
<1>a. /\ todo # {} => Target \in todo /\ Target \in Targets
      /\ todo' = todo => Target' = Target
  BY TargetIsToDo, TargetStays DEF PromotionInv, PromotionTyped
<1>b. PromotionTyped /\ NoBuild \notin Builds
  BY PromotionAssumption DEF PromotionInv, Builds
<1> USE DEF PromotionInv, InHand, FailedIsAsBefore, TodoIsAsBefore, OneGoodEach, AsBefore, Swapping,
            checkout, directories, run, report
<1>1. CASE UpstreamMoves
  BY <1>1, <1>a DEF UpstreamMoves
<1>2. CASE PullFails \/ NothingToBuild
  <2>1. \A t \in Targets : results'[t] = "failed" => AsBefore(t)'
    BY <1>2, <1>b DEF PullFails, NothingToBuild, Starts, PromotionTyped
  <2> QED BY <1>2, <1>a, <2>1 DEF PullFails, NothingToBuild, Starts
<1>3. CASE Begin
  <2>1. \A t \in todo' : current'[t] # NoBuild /\ AsBefore(t)'
    BY <1>3 DEF Begin, Starts, Found
  <2> QED BY <1>3, <1>b, <2>1 DEF Begin, Starts, PromotionTyped
<1>4. CASE CheckoutFails \/ BuildFails
  BY <1>4, <1>a DEF CheckoutFails, BuildFails, NextAttempt, Tries
<1>5. CASE Stage
  <2>1. Commit \in Nat
    BY <1>5, <1>b DEF Stage, Tries, Commit, PromotionTyped
  <2>2. PICK ok \in BOOLEAN : staging' = [staging EXCEPT ![Target] = [commit |-> Commit, ok |-> ok]]
    BY <1>5 DEF Stage
  <2>3. [commit |-> Commit, ok |-> ok] # NoBuild
    BY <1>b, <2>1 DEF Builds
  <2>4. staging'[Target] # NoBuild
    BY <1>5, <1>a, <1>b, <2>2, <2>3 DEF Stage, Tries, PromotionTyped
  <2> QED BY <1>5, <1>a, <2>4 DEF Stage, Tries
<1>6. CASE RefuseStale
  BY <1>6, <1>a DEF RefuseStale, NextAttempt
<1>7. CASE Preserve
  <2>1. /\ Target \in Targets /\ Target' = Target /\ current[Target] # NoBuild
        /\ backup[Target] = NoBuild /\ current[Target] = before[Target]
    BY <1>7, <1>a DEF Preserve
  <2>2. /\ current' = [current EXCEPT ![Target] = NoBuild]
        /\ backup' = [backup EXCEPT ![Target] = current[Target]]
    BY <1>7, <2>1 DEF Preserve
  <2>3. Good(current[Target])
    BY <2>1 DEF Good
  <2>4. backup'[Target] = current[Target] /\ current'[Target] = NoBuild
    BY <1>b, <2>1, <2>2 DEF PromotionTyped
  <2>5. \A t \in Targets : t # Target => backup'[t] = backup[t] /\ current'[t] = current[t]
    BY <1>b, <2>2 DEF PromotionTyped
  <2>6. Good(backup[Target])'
    BY <2>1, <2>3, <2>4 DEF Good
  <2> QED BY <1>7, <1>b, <2>1, <2>4, <2>5, <2>6 DEF Preserve, Good, PromotionTyped
<1>8. CASE Activate
  BY <1>8, <1>a, <1>b DEF Activate, Good, PromotionTyped
<1>9. CASE Validate
  BY <1>9, <1>a, <1>b DEF Validate, Good, PromotionTyped
<1>10. CASE Reject
  <2>1. /\ Target \in Targets /\ Target' = Target /\ todo' = todo /\ results' = results
    BY <1>10, <1>a DEF Reject, NextAttempt
  <2>2. current'[Target] = before[Target] /\ Good(current[Target])' /\ before' = before
    BY <1>10, <1>b, <2>1 DEF Reject, NextAttempt, Good, PromotionTyped
  <2>3. \A t \in Targets : t # Target => backup'[t] = backup[t] /\ current'[t] = current[t]
    BY <1>10, <1>b DEF Reject, PromotionTyped
  <2> QED BY <1>10, <1>a, <1>b, <2>1, <2>2, <2>3 DEF Reject, NextAttempt, Good, PromotionTyped
<1>11. CASE Clean
  <2>1. Target \in Targets /\ Target \in todo /\ todo' = todo \ {Target}
    BY <1>11, <1>a DEF Clean
  <2>2. \A t \in Targets : t # Target => backup'[t] = backup[t] /\ results'[t] = results[t]
    BY <1>11, <1>b DEF Clean, PromotionTyped
  <2>3. results'[Target] # "failed"
    BY <1>11, <1>b, <2>1 DEF Clean, PromotionTyped
  <2> QED BY <1>11, <1>b, <2>1, <2>2, <2>3 DEF Clean, Good, PromotionTyped
<1>12. CASE CleanFails
  <2>1. Target \in Targets /\ Target' = Target /\ todo' = todo
    BY <1>12, <1>a DEF CleanFails, NextAttempt
  <2>2. backup[Target] \in Builds
    BY <1>12, <1>b, <2>1 DEF CleanFails, Good, PromotionTyped
  <2>3. \A b \in Builds : [b EXCEPT !.ok = FALSE] \in Builds
    BY DEF Builds
  <2>4. PICK left \in Builds : backup' = [backup EXCEPT ![Target] = left]
    BY <1>12, <2>2, <2>3 DEF CleanFails
  <2>5. backup'[Target] # NoBuild
    BY <1>b, <2>1, <2>4 DEF PromotionTyped
  <2>6. \A t \in Targets : t # Target => backup'[t] = backup[t]
    BY <1>b, <2>4 DEF PromotionTyped
  <2> QED BY <1>12, <1>b, <2>1, <2>5, <2>6 DEF CleanFails, NextAttempt, Good, PromotionTyped
<1>13. CASE Exhausted
  <2>1. Target \in Targets /\ Target \in todo /\ todo' = todo \ {Target} /\ AsBefore(Target)
    BY <1>13, <1>a DEF Exhausted
  <2>2. \A t \in Targets : t # Target => results'[t] = results[t]
    BY <1>13, <1>b DEF Exhausted, PromotionTyped
  <2> QED BY <1>13, <1>b, <2>1, <2>2 DEF Exhausted, Good, PromotionTyped
<1>14. CASE Finish
  BY <1>14, <1>a, <1>b DEF Finish, Good, PromotionTyped
<1>15. CASE Killed
  <2>1. \A t \in Targets : Good(current[t])' \/ Good(backup[t])'
    <3>1. CASE backup' = backup
      BY <1>15, <3>1 DEF Killed, Good
    <3>2. CASE upStep = "clean" /\ backup' = [backup EXCEPT ![Target].ok = FALSE]
      <4>1. Good(current[Target]) /\ Target \in Targets
        BY <1>a, <3>2
      <4>2. \A t \in Targets : t # Target => backup'[t] = backup[t]
        BY <1>b, <3>2 DEF PromotionTyped
      <4> QED BY <1>15, <4>1, <4>2 DEF Killed, Good
    <3> QED BY <1>15, <3>1, <3>2 DEF Killed
  <2>2. \A t \in Targets : results'[t] # "failed"
    BY <1>15 DEF Killed
  <2> QED BY <1>15, <2>1, <2>2 DEF Killed
<1>16. CASE UNCHANGED promotionVars
  BY <1>16, <1>a DEF promotionVars, Good
<1> QED BY <1>1, <1>2, <1>3, <1>4, <1>5, <1>6, <1>7, <1>8, <1>9, <1>10, <1>11, <1>12, <1>13,
           <1>14, <1>15, <1>16 DEF PromotionNext

\* Wherever an update of the generic backends is killed, and whatever fails in it,
\* each target keeps a build that passes its checks, and one that is reported as
\* failed is as it was.
THEOREM OneGoodBuildIsKept == Spec => []OneGoodBuild
<1>1. PromotionInv /\ [Next]_maintenanceVars => PromotionInv'
  BY PartsApart, StepPromotion DEF maintenanceVars
<1>2. PromotionInv => OneGoodBuild
  BY Zenon DEF PromotionInv, OneGoodEach, FailedIsAsBefore, AsBefore, OneGoodBuild, Good
<1> QED BY InitPromotion, <1>1, <1>2, PTL DEF Spec

-----------------------------------------------------------------------------
(* A registered fork.                                                      *)

Trees == [commit : 1..MaxCommits, ok : BOOLEAN]
MaybeTree == Trees \union {NoTree}
MaybeName == Names \union {NoName}

BuildsTyped ==
  /\ newest \in 1..MaxCommits
  /\ active \in MaybeTree /\ work \in MaybeTree
  /\ archives \in [Names -> MaybeTree]
  /\ record \in [commit : 1..MaxCommits, path : MaybeName, prev : 0..MaxCommits]
  /\ record.path # NoName => record.prev \in 1..MaxCommits
  /\ archived \in MaybeName /\ stale \in MaybeName

RollingBack == {"aside", "back", "keep", "verify"}

\* What a run has in hand at each of its steps, whatever earlier runs left.
RunInHand ==
  /\ forkStep \in {"archive", "activate"} =>
       work \in Trees /\ (work.commit \in invalid => work.ok)
  /\ forkStep \in {"check", "register", "prune"} => active \in Trees
  /\ forkStep = "check" => (active.commit \in invalid => active.ok)
  /\ forkStep \in {"register", "prune"} => active.ok
  /\ forkStep = "prune" => active.commit = record.commit
  /\ forkStep \in RollingBack => record.path # NoName
  /\ forkStep \in {"aside", "back", "verify"} => archives[record.path] \in Trees
  /\ forkStep \in {"back", "keep"} => work \in Trees
  /\ forkStep \in {"keep", "verify"} => active \in Trees
  /\ forkStep \notin {"aside", "back", "keep"} => ~reverting

Now(b) == b \in Trees /\ b.ok /\ b.commit = record.commit
Previous(b) == b \in Trees /\ b.commit = record.prev
PreviousKept == record.path # NoName => Previous(archives[record.path])

\* Where, without a kill, the recorded build and the one before it are at each step.
WhereTheyAre ==
  /\ forkStep \in {"idle", "archive"} => Now(active) /\ PreviousKept
  /\ forkStep \in {"activate", "check", "register"} =>
       /\ archived # NoName /\ archived # record.path
       /\ Now(archives[archived]) /\ PreviousKept
  /\ forkStep = "prune" => PreviousKept /\ stale # record.path
  /\ forkStep = "aside" => IF reverting THEN Previous(active) /\ Now(archives[record.path])
                                       ELSE Now(active) /\ PreviousKept
  /\ forkStep = "back" => IF reverting THEN Previous(work) /\ Now(archives[record.path])
                                      ELSE Now(work) /\ PreviousKept
  /\ forkStep = "keep" => IF reverting THEN Previous(work) /\ Now(active)
                                      ELSE Now(work) /\ Previous(active)
  /\ forkStep = "verify" => Previous(active) /\ Now(archives[record.path])

\* An update that reports success has left the recorded build active.
UpdatedIsActive == forkStep = "idle" /\ outcome = "updated" => Now(active)

BuildsInv ==
  BuildsTyped /\ RunInHand /\ UpdatedIsActive /\ (~interrupted => WhereTheyAre)

LEMMA BuildBounds ==
  /\ MaxCommits \in Nat /\ 1 \in 1..MaxCommits /\ NoTree \notin Trees /\ NoName \notin Names
  /\ \A c \in 1..MaxCommits, i \in 1..MaxArchives : <<c, i>> \in Names
<1>1. /\ MaxCommits \in Nat \ {0} /\ MaxArchives \in Nat \ {0}
      /\ NoTree \notin [commit : Nat, ok : BOOLEAN] /\ NoName \notin Nat \X Nat
  BY BuildsAssumption
<1>2. NoTree \notin Trees
  BY <1>1 DEF Trees
<1>3. NoName \notin Names
  BY <1>1 DEF Names
<1> QED BY <1>1, <1>2, <1>3 DEF Names

LEMMA InitBuilds == Init => BuildsInv
<1> SUFFICES ASSUME BuildsInit PROVE BuildsInv
  BY DEF Init
<1>1. active \in Trees
  BY BuildBounds DEF BuildsInit, Trees
<1>2. BuildsTyped
  BY <1>1, BuildBounds DEF BuildsInit, BuildsTyped, MaybeTree, MaybeName, Unused
<1> QED BY <1>1, <1>2 DEF BuildsInit, BuildsInv, RunInHand, RollingBack, UpdatedIsActive, WhereTheyAre, Now,
      PreviousKept

LEMMA StepBuildsTyped ==
  ASSUME BuildsTyped, RunInHand, Repeats = FALSE, [BuildsNext]_buildVars
  PROVE  BuildsTyped' /\ RunInHand'
<1> USE BuildBounds DEF BuildsTyped, RunInHand, MaybeTree, MaybeName, RollingBack, trees, progress
<1>1. CASE ForkMoves
  BY <1>1 DEF ForkMoves
<1>2. CASE NoCandidate \/ NoRollback
  BY <1>2 DEF NoCandidate, NoRollback, Calls, Returns
<1>3. CASE Candidate
  <2>1. \A ok \in BOOLEAN : [commit |-> newest, ok |-> ok] \in Trees
    BY DEF Trees
  <2>2. PICK ok \in IF Refused(newest) THEN {TRUE} ELSE BOOLEAN : work' = [commit |-> newest, ok |-> ok]
    BY <1>3 DEF Candidate
  <2>3. work' \in Trees
    BY <2>1, <2>2
  <2>4. newest \in invalid => ok = TRUE
    BY <2>2 DEF Refused
  <2>5. work'.commit \in invalid => work'.ok
    BY <2>2, <2>4
  <2> QED BY <1>3, <2>3, <2>5 DEF Candidate, Calls
<1>4. CASE Archive
  <2>1. archived' \in Names
    BY <1>4 DEF Archive, Free
  <2> QED BY <1>4, <2>1 DEF Archive, Goes
<1>5. CASE NoArchive \/ TooManyArchives
  BY <1>5 DEF NoArchive, TooManyArchives, Goes, Returns
<1>6. CASE ActivateCandidate
  BY <1>6 DEF ActivateCandidate, Goes
<1>7. CASE Conforms
  BY <1>7 DEF Conforms, Goes
<1>8. CASE RefusedAfterPromotion
  BY <1>8 DEF RefusedAfterPromotion, PutBack, Returns
<1>9. CASE RegisterFails
  BY <1>9 DEF RegisterFails, PutBack, Returns
<1>10. CASE Register
  <2>1. active.commit \in 1..MaxCommits
    BY <1>10 DEF Register, Trees
  <2>2. /\ record' \in [commit : 1..MaxCommits, path : Names \union {NoName}, prev : 0..MaxCommits]
        /\ record'.path # NoName => record'.prev \in 1..MaxCommits
        /\ record'.commit = active.commit
    BY <1>10, <2>1 DEF Register
  <2> QED BY <1>10, <2>2 DEF Register, Goes
<1>11. CASE Prune
  BY <1>11 DEF Prune, Returns
<1>12. CASE Rollback
  BY <1>12 DEF Rollback, CanRollBack, Calls
<1>13. CASE Aside
  BY <1>13 DEF Aside, Returns, Goes
<1>14. CASE Back
  BY <1>14 DEF Back, Goes
<1>15. CASE Keep
  BY <1>15 DEF Keep, Returns, Goes
<1>16. CASE Revert
  BY <1>16 DEF Revert, Goes
<1>17. CASE RolledBack
  <2>0. record.path # NoName
    BY <1>17 DEF RolledBack
  <2>1. record.commit \in 1..MaxCommits /\ record.prev \in 1..MaxCommits
    BY <2>0
  <2>2. record' = [commit |-> record.prev, path |-> record.path, prev |-> record.commit]
    BY <1>17 DEF RolledBack
  <2>3. record.path \in Names \union {NoName} /\ record.commit \in 0..MaxCommits
    BY <2>1
  <2> QED BY <1>17, <2>1, <2>2, <2>3 DEF RolledBack, Returns
<1>18. CASE KilledHere
  BY <1>18 DEF KilledHere
<1>19. CASE UNCHANGED buildVars
  BY <1>19 DEF buildVars
<1> QED BY <1>1, <1>2, <1>3, <1>4, <1>5, <1>6, <1>7, <1>8, <1>9, <1>10, <1>11, <1>12, <1>13,
           <1>14, <1>15, <1>16, <1>17, <1>18, <1>19 DEF BuildsNext

LEMMA StepWhereTheyAre ==
  ASSUME BuildsTyped, RunInHand, WhereTheyAre, Repeats = FALSE,
         [BuildsNext]_buildVars, ~interrupted'
  PROVE  WhereTheyAre'
<1>0. BuildsTyped' /\ RunInHand'
  BY StepBuildsTyped
<1> USE BuildBounds DEF BuildsTyped, RunInHand, MaybeTree, MaybeName, RollingBack, trees, progress,
        WhereTheyAre, PreviousKept, Now, Previous
<1>1. CASE ForkMoves
  BY <1>1 DEF ForkMoves
<1>2. CASE NoCandidate \/ NoRollback
  BY <1>2 DEF NoCandidate, NoRollback, Calls, Returns
<1>3. CASE Candidate
  BY <1>3 DEF Candidate, Calls
<1>4. CASE Archive
  <2>1. archived' \in Names /\ archives[archived'] = NoTree
    BY <1>4 DEF Archive, Free
  <2>2. archived' # record.path
    BY <1>4, <2>1 DEF Archive
  <2>3. archives'[archived'] = active
    BY <1>4, <2>1 DEF Archive
  <2>4. \A n \in Names : n # archived' => archives'[n] = archives[n]
    BY <1>4, <2>1 DEF Archive
  <2> QED BY <1>4, <2>1, <2>2, <2>3, <2>4 DEF Archive, Goes
<1>5. CASE NoArchive \/ TooManyArchives
  BY <1>5 DEF NoArchive, TooManyArchives, Goes, Returns
<1>6. CASE ActivateCandidate
  BY <1>6 DEF ActivateCandidate, Goes
<1>7. CASE Conforms
  BY <1>7 DEF Conforms, Goes
<1>8. CASE RefusedAfterPromotion
  BY <1>8 DEF RefusedAfterPromotion, PutBack, Returns
<1>9. CASE RegisterFails
  BY <1>9 DEF RegisterFails, PutBack, Returns
<1>10. CASE Register
  <2>1. archived # NoName /\ record'.path = archived /\ record'.prev = record.commit
    BY <1>10 DEF Register
  <2> QED BY <1>10, <2>1 DEF Register, Goes
<1>11. CASE Prune
  BY <1>11 DEF Prune, Returns
<1>12. CASE Rollback
  BY <1>12 DEF Rollback, CanRollBack, Calls
<1>13. CASE Aside
  BY <1>13 DEF Aside, Returns, Goes
<1>14. CASE Back
  BY <1>14 DEF Back, Goes
<1>15. CASE Keep
  BY <1>15 DEF Keep, Returns, Goes
<1>16. CASE Revert
  BY <1>16 DEF Revert, Goes
<1>17. CASE RolledBack
  <2>1. record'.commit = record.prev /\ record'.prev = record.commit /\ record'.path = record.path
    BY <1>17 DEF RolledBack
  <2> QED BY <1>17, <2>1 DEF RolledBack, Returns
<1>18. CASE KilledHere
  BY <1>18 DEF KilledHere
<1>19. CASE UNCHANGED buildVars
  BY <1>19 DEF buildVars
<1> QED BY <1>1, <1>2, <1>3, <1>4, <1>5, <1>6, <1>7, <1>8, <1>9, <1>10, <1>11, <1>12, <1>13,
           <1>14, <1>15, <1>16, <1>17, <1>18, <1>19 DEF BuildsNext

LEMMA StepUpdated ==
  ASSUME BuildsTyped, RunInHand, UpdatedIsActive, [BuildsNext]_buildVars
  PROVE  UpdatedIsActive'
<1> USE DEF UpdatedIsActive, RunInHand, Now, trees, progress
<1>1. CASE ForkMoves
  BY <1>1 DEF ForkMoves
<1>2. CASE Prune
  BY <1>2 DEF Prune, Returns
<1>3. CASE NoCandidate \/ NoRollback \/ TooManyArchives \/ RefusedAfterPromotion \/ RegisterFails
  BY <1>3 DEF NoCandidate, NoRollback, TooManyArchives, RefusedAfterPromotion, RegisterFails, Returns
<1>4. CASE RolledBack \/ KilledHere
  BY <1>4 DEF RolledBack, KilledHere, Returns
<1>5. CASE Aside \/ Keep
  BY <1>5 DEF Aside, Keep, Returns, Goes
<1>6. CASE Candidate \/ Rollback
  BY <1>6 DEF Candidate, Rollback
<1>7. CASE Archive \/ NoArchive \/ ActivateCandidate \/ Conforms \/ Register \/ Back \/ Revert
  BY <1>7 DEF Archive, NoArchive, ActivateCandidate, Conforms, Register, Back, Revert, Goes
<1>8. CASE UNCHANGED buildVars
  BY <1>8 DEF buildVars
<1> QED BY <1>1, <1>2, <1>3, <1>4, <1>5, <1>6, <1>7, <1>8 DEF BuildsNext

\* Unless what failed once after a promotion fails so again, the record of a fork
\* is true between runs without a kill, and after every update that succeeds.
THEOREM RecordStaysTrue ==
  ASSUME Repeats = FALSE
  PROVE  Spec => []RecordIsTrue
<1>1. BuildsInv /\ [Next]_maintenanceVars => BuildsInv'
  <2> SUFFICES ASSUME BuildsInv, [BuildsNext]_buildVars PROVE BuildsInv'
    BY PartsApart DEF maintenanceVars
  <2>1. BuildsTyped' /\ RunInHand' /\ UpdatedIsActive'
    BY StepBuildsTyped, StepUpdated DEF BuildsInv
  <2>2. ~interrupted' => ~interrupted
    BY DEF BuildsNext, ForkMoves, NoCandidate, Candidate, Archive, NoArchive, TooManyArchives, ActivateCandidate,
      Conforms, RefusedAfterPromotion, RegisterFails, Register, Prune, NoRollback, Rollback, Aside, Back, Keep,
      Revert, RolledBack, KilledHere, Returns, Goes, buildVars
  <2>3. ~interrupted' => WhereTheyAre'
    BY <2>2, StepWhereTheyAre DEF BuildsInv
  <2> QED BY <2>1, <2>3 DEF BuildsInv
<1>2. BuildsInv => RecordIsTrue
  <2> SUFFICES ASSUME BuildsInv PROVE RecordIsTrue
    OBVIOUS
  <2>1. forkStep = "idle" /\ (~interrupted \/ outcome = "updated") => Now(active)
    BY DEF BuildsInv, UpdatedIsActive, WhereTheyAre
  <2>2. forkStep = "idle" /\ ~interrupted => PreviousKept
    BY DEF BuildsInv, WhereTheyAre
  <2> QED BY <2>1, <2>2, BuildBounds DEF RecordIsTrue, Now, PreviousKept, Previous
<1> QED BY InitBuilds, <1>1, <1>2, PTL DEF Spec

-----------------------------------------------------------------------------
(* ggrun itself.                                                           *)

Programs == [version : Nat, works : BOOLEAN]
SelfSteps == {"idle", "copy", "fetch", "install", "check", "restore", "restored", "moving"}

\* What an update has in hand: unless a copy of it has failed, the program that was
\* there is kept once that has been copied, and whatever still runs is in its place.
ProgramInHand ==
  /\ released \in Nat /\ selfStep \in SelfSteps /\ flow \in {"source", "installer", "windows"}
  /\ installed \in Programs \union {NoFile} /\ kept \in Programs \union {NoFile}
  /\ dropped \subseteq {"copy", "restore", "reset"}
  /\ selfStep # "idle" =>
       /\ prior \in Programs /\ prior.works /\ "restore" \notin dropped
       /\ selfStep # "restored" => "reset" \notin dropped
       /\ selfStep # "copy" /\ "copy" \notin dropped => kept = prior
       /\ busy => installed = prior
       /\ flow # "source" => source = oldSource
  /\ selfStep = "copy" => dropped = {}
  /\ selfStep \in {"copy", "fetch"} => flow # "windows" /\ installed = prior /\ source = oldSource
  /\ selfStep # "idle" /\ flow = "windows" => "copy" \notin dropped /\ ~busy
  /\ selfStep = "install" /\ flow # "windows" => installed = prior
  /\ selfStep = "check" => ~busy /\ installed \in Programs
  /\ selfStep = "restored" => flow # "windows" /\ ("reset" \notin dropped => source = oldSource)
  /\ selfStep = "moving" => flow = "windows"

SelfInv == ProgramInHand /\ ProgramKept

LEMMA NoProgram == NoFile \notin Programs
BY SelfUpdateAssumption DEF Programs

LEMMA TornIsProgram ==
  ASSUME NEW f \in Programs
  PROVE  Torn(f) \in Programs
BY DEF Torn, Programs

LEMMA OutcomesArePrograms == released \in Nat => Outcomes \subseteq Programs
BY DEF Outcomes, Programs

LEMMA StepSelf == SelfInv /\ [SelfNext]_selfVars => SelfInv'
<1> SUFFICES ASSUME ProgramInHand, ProgramKept, [SelfNext]_selfVars
             PROVE  ProgramInHand' /\ ProgramKept'
  BY DEF SelfInv
<1> USE NoProgram DEF ProgramInHand, ProgramKept, Works, SelfSteps, Moves, Over, begunVars
<1>1. CASE Releases
  BY <1>1 DEF Releases
<1>2. CASE Secure
  <2>1. installed \in Programs /\ installed.works
    BY <1>2 DEF Secure, Begins
  <2>2. Torn(installed) \in Programs
    BY <2>1, TornIsProgram
  <2> QED BY <1>2, <2>1, <2>2 DEF Secure, Begins
<1>3. CASE Secured
  BY <1>3 DEF Secured
<1>4. CASE MoveAside
  BY <1>4 DEF MoveAside, Begins
<1>5. CASE CannotFetch
  BY <1>5 DEF CannotFetch, Discards
<1>6. CASE Fetch
  BY <1>6 DEF Fetch
<1>7. CASE CannotInstall
  <2>1. installed' \in Programs \union {NoFile}
    BY <1>7, OutcomesArePrograms DEF CannotInstall
  <2> QED BY <1>7, <2>1 DEF CannotInstall
<1>8. CASE Install
  <2>1. installed' \in Programs
    BY <1>8, OutcomesArePrograms DEF Install
  <2> QED BY <1>8, <2>1 DEF Install
<1>9. CASE SelfCheckFails
  BY <1>9 DEF SelfCheckFails
<1>10. CASE SelfCheckPasses
  BY <1>10 DEF SelfCheckPasses, Discards
<1>11. CASE Restore
  <2>1. installed' \in Programs \union {NoFile}
    BY <1>11, TornIsProgram DEF Restore
  <2> QED BY <1>11, <2>1 DEF Restore
<1>12. CASE Restored
  BY <1>12 DEF Restored, Discards
<1>13. CASE ClearTarget
  BY <1>13 DEF ClearTarget
<1>14. CASE MoveBack
  BY <1>14 DEF MoveBack
<1>15. CASE SelfKilled
  BY <1>15 DEF SelfKilled
<1>16. CASE UNCHANGED selfVars
  BY <1>16 DEF selfVars
<1> QED BY <1>1, <1>2, <1>3, <1>4, <1>5, <1>6, <1>7, <1>8, <1>9, <1>10, <1>11, <1>12, <1>13,
           <1>14, <1>15, <1>16 DEF SelfNext

\* Wherever an update of ggrun is killed a program that works is in its place or
\* kept, unless a copy to or from the .bak file has failed in it unnoticed; on Windows
\* always. One that succeeds has left a program that works, and one that fails the
\* program as it was if its copies succeeded, and the checkout if that could be reset.
THEOREM ProgramIsKept == Spec => []ProgramKept
<1>1. Init => SelfInv
  <2> SUFFICES ASSUME SelfInit PROVE SelfInv
    BY DEF Init
  <2>1. Whole(1) \in Programs /\ Whole(1).works
    BY DEF Whole, Programs
  <2> QED BY <2>1, NoProgram DEF SelfInit, SelfInv, SelfSteps, Works, ProgramInHand, ProgramKept
<1>2. SelfInv /\ [Next]_maintenanceVars => SelfInv'
  BY PartsApart, StepSelf DEF maintenanceVars
<1>3. SelfInv => ProgramKept
  BY DEF SelfInv
<1> QED BY <1>1, <1>2, <1>3, PTL DEF Spec

-----------------------------------------------------------------------------
(* ggrun tune.                                                             *)

\* When a tune is about to end, its winner is confirmed or the default.
WinnerInHand == phase = "last" => best \in confirmed \union {Default}

\* What a finished tune leaves for launches to take it has measured ahead of the
\* default a second time.
THEOREM WinnerIsConfirmed == Spec => WinnerConfirmed
<1> DEFINE Earned == file' # file /\ Reusable' => Applies' \subseteq confirmed \cup {Default}
<1>1. Init => WinnerInHand
  BY DEF Init, TunerInit, WinnerInHand
<1>2. WinnerInHand /\ [Next]_maintenanceVars => WinnerInHand'
  <2> SUFFICES ASSUME WinnerInHand, [TunerNext]_tunerVars PROVE WinnerInHand'
    BY PartsApart DEF maintenanceVars
  <2> USE DEF WinnerInHand
  <2>1. CASE MeasuresBestAgain
    BY <2>1 DEF MeasuresBestAgain
  <2>2. CASE ConfirmationFails
    BY <2>2 DEF ConfirmationFails
  <2>3. CASE \E c \in Candidates : StartsCandidate(c) \/ CandidateFails(c) \/ MeasuresCandidate(c)
    BY <2>3 DEF StartsCandidate, CandidateFails, MeasuresCandidate
  <2>4. CASE UNCHANGED tunerVars
    BY <2>4 DEF tunerVars
  <2>5. CASE ~MeasuresBestAgain /\ ~ConfirmationFails
    BY <2>3, <2>4, <2>5 DEF TunerNext, Tunes, NoBaseline, MeasuresBaseline, RestartFails, SkipsRound, Confirms,
      MeasuresDefaultAgain, EndsTune, TuneKilled, TuneReturns
  <2> QED BY <2>1, <2>2, <2>5
<1>3. WinnerInHand /\ [Next]_maintenanceVars => [Earned]_tunerVars
  <2> SUFFICES ASSUME WinnerInHand, TunerNext PROVE Earned
    BY PartsApart DEF maintenanceVars
  <2>1. ASSUME NEW m, NEW w, Saves(m, w, FALSE) PROVE Earned
    BY <2>1 DEF Saves, Report, Reusable
  <2>2. CASE EndsTune
    <3>1. best \in confirmed \union {Default}
      BY <2>2 DEF EndsTune, WinnerInHand
    <3>2. Report(measured, best, TRUE).flags \in {best, Default}
      BY DEF Report
    <3>3. file' \in {Report(measured, best, TRUE), file, NoTune}
      BY <2>2 DEF EndsTune, Saves
    <3>4. file' # file /\ file' # NoTune => Applies' = {Default} \union {Report(measured, best, TRUE).flags}
      BY <3>3 DEF Applies
    <3> QED BY <3>1, <3>2, <3>4 DEF Reusable
  <2>3. CASE MeasuresBaseline
    BY <2>1, <2>3 DEF MeasuresBaseline
  <2>4. CASE \E c \in Candidates : StartsCandidate(c) \/ CandidateFails(c) \/ MeasuresCandidate(c)
    BY <2>1, <2>4 DEF StartsCandidate, CandidateFails, MeasuresCandidate
  <2>5. CASE UNCHANGED file
    BY <2>5
  <2>6. CASE ~EndsTune /\ ~MeasuresBaseline
    BY <2>4, <2>5, <2>6 DEF TunerNext, Tunes, NoBaseline, RestartFails, SkipsRound, Confirms,
      MeasuresDefaultAgain, ConfirmationFails, MeasuresBestAgain, TuneKilled
  <2> QED BY <2>2, <2>3, <2>6
<1> QED BY <1>1, <1>2, <1>3, PTL DEF Spec, WinnerConfirmed

-----------------------------------------------------------------------------
(* The sessions of Claude Code.                                            *)

SessionRecords == [slot : 1..Trained, port : Ports, run : Nat]
OpenClients == [session : Sessions, slot : 1..Trained, port : Ports, run : Nat, owns : BOOLEAN,
                resumed : BOOLEAN, checked : BOOLEAN, leaving : BOOLEAN]

SessionsTyped ==
  /\ records \in [Sessions -> SessionRecords \union {NoRecord}]
  /\ minted \subseteq Sessions
  /\ conversation \in [Sessions -> Nat] /\ workflows \in [Sessions -> Nat]
  /\ clients \in [Clients -> OpenClients \union {NoClient}]

\* A session is minted once: its first client owns a port, with the context that is
\* recorded, and only recorded sessions are opened again.
ClientsKnown ==
  /\ \A s \in Sessions \ minted : records[s] = NoRecord /\ conversation[s] = 0
  /\ \A c \in On :
       LET k == clients[c] IN
       /\ k.session \in minted
       /\ k.resumed => records[k.session] # NoRecord
       /\ ~k.resumed => /\ k.owns
                        /\ records[k.session] # NoRecord => records[k.session].slot = k.slot
  /\ \A c, d \in On :
       /\ ~clients[c].resumed /\ ~clients[d].resumed /\ clients[c].session = clients[d].session => c = d
       /\ clients[c].owns /\ clients[d].owns /\ clients[c].port = clients[d].port => c = d

\* Unless it had more context than was recorded, a conversation fits what is
\* recorded, or the client that will record it.
ConversationFits ==
  \A s \in Sessions \ widened :
    /\ records[s] # NoRecord => conversation[s] <= records[s].slot
    /\ \A c \in On : clients[c].session = s /\ ~clients[c].resumed => conversation[s] <= clients[c].slot

\* No run is known that was not started; and the run that the only client leaves
\* with, or has left on record, is the newest, or there is none on record.
RunsKnown ==
  /\ \A s \in Sessions : records[s] # NoRecord => records[s].run <= workflows[s]
  /\ \A c \in On : clients[c].run <= workflows[clients[c].session]
  /\ \A s \in Sessions \ unsettled :
       /\ records[s] # NoRecord /\ (\A c \in On : clients[c].session # s) => records[s].run \in {0, workflows[s]}
       /\ \A c \in On : clients[c].session = s /\ clients[c].leaving =>
            /\ clients[c].run = workflows[s]
            /\ \A d \in On : clients[d].session = s => d = c

SessionsInv == SessionsTyped /\ ClientsKnown /\ ConversationFits /\ RunsKnown

LEMMA SessionBounds ==
  /\ NoRecord \notin SessionRecords /\ NoClient \notin OpenClients
  /\ Slots \subseteq 1..Trained /\ Trained \in Nat /\ Headroom \in Nat \ {0}
<1>1. 1..Trained \subseteq Nat
  BY SessionAssumption
<1>2. SessionRecords \subseteq [slot : Nat, port : Ports, run : Nat]
  BY <1>1 DEF SessionRecords
<1>3. OpenClients \subseteq [session : Sessions, slot : Nat, port : Ports, run : Nat, owns : BOOLEAN,
                            resumed : BOOLEAN, checked : BOOLEAN, leaving : BOOLEAN]
  BY <1>1 DEF OpenClients
<1> QED BY <1>2, <1>3, SessionAssumption

LEMMA OnAreOpen ==
  ASSUME SessionsTyped, NEW c \in Clients
  PROVE  /\ c \in On <=> clients[c] # NoClient
         /\ c \in On <=> clients[c] \in OpenClients
BY SessionBounds DEF SessionsTyped, On

\* A client more, and nothing else, is what any way of opening a session adds.
LEMMA Opening ==
  ASSUME SessionsTyped, NEW c \in Clients, clients[c] = NoClient,
         NEW k \in OpenClients, clients' = [clients EXCEPT ![c] = k]
  PROVE  /\ clients' \in [Clients -> OpenClients \union {NoClient}]
         /\ c \notin On /\ On' = On \union {c}
         /\ \A d \in Clients : d # c => clients'[d] = clients[d]
         /\ clients'[c] = k
<1>1. k # NoClient
  BY SessionBounds
<1>2. /\ clients' \in [Clients -> OpenClients \union {NoClient}] /\ clients'[c] = k
      /\ \A d \in Clients : d # c => clients'[d] = clients[d]
  BY DEF SessionsTyped
<1>3. c \notin On /\ On' = On \union {c}
  BY <1>1, <1>2 DEF On
<1> QED BY <1>2, <1>3

LEMMA Closing ==
  ASSUME SessionsTyped, NEW c \in On, clients' = [clients EXCEPT ![c] = NoClient]
  PROVE  /\ clients' \in [Clients -> OpenClients \union {NoClient}]
         /\ On' = On \ {c}
         /\ \A d \in Clients : d # c => clients'[d] = clients[d]
BY DEF SessionsTyped, On

LEMMA RunOfTyped ==
  ASSUME SessionsTyped, RunsKnown, NEW s \in Sessions, records[s] # NoRecord
  PROVE  RunOf(s) \in Nat /\ RunOf(s) <= workflows[s]
<1>1. records[s] \in SessionRecords /\ workflows[s] \in Nat /\ records[s].run \in Nat
  BY DEF SessionsTyped, SessionRecords
<1> QED BY <1>1 DEF RunOf, RunsKnown

LEMMA FreshKnown ==
  ASSUME SessionsInv, NEW c \in Clients, NEW s \in Sessions, NEW slot \in Slots, NEW port \in Ports,
         Fresh(c, s, slot, port)
  PROVE  SessionsInv'
<1> USE SessionBounds DEF SessionsInv
<1>1. /\ clients[c] = NoClient /\ s \notin minted /\ Owners(port) = {} /\ minted' = minted \union {s}
      /\ Opens(c, s, slot, port, TRUE, FALSE, FALSE)
      /\ conversation' = conversation /\ workflows' = workflows /\ widened' = widened
  BY DEF Fresh, claudeKept
<1>2. PICK saved \in {NoRecord, [slot |-> slot, port |-> port, run |-> 0]} :
        records' = [records EXCEPT ![s] = saved]
  BY DEF Fresh
<1>3. saved \in SessionRecords \union {NoRecord} /\ (saved # NoRecord => saved.slot = slot /\ saved.run = 0)
  BY DEF SessionRecords
<1>4. /\ clients' \in [Clients -> OpenClients \union {NoClient}] /\ c \notin On /\ On' = On \union {c}
      /\ \A d \in Clients : d # c => clients'[d] = clients[d]
      /\ clients'[c].session = s /\ clients'[c].slot = slot /\ clients'[c].port = port
      /\ clients'[c].owns /\ ~clients'[c].resumed /\ ~clients'[c].leaving /\ clients'[c].run = 0
  <2> DEFINE k == [session |-> s, slot |-> slot, port |-> port, owns |-> TRUE, resumed |-> FALSE,
                   checked |-> FALSE, run |-> 0, leaving |-> FALSE]
  <2>1. k \in OpenClients
    BY DEF OpenClients
  <2>2. clients' = [clients EXCEPT ![c] = k]
    BY <1>1 DEF Opens
  <2>3. /\ k.session = s /\ k.slot = slot /\ k.port = port /\ k.owns /\ ~k.resumed /\ ~k.leaving
        /\ k.run = 0
    OBVIOUS
  <2> HIDE DEF k
  <2> QED BY <1>1, <2>1, <2>2, <2>3, Opening
<1>5. /\ records' \in [Sessions -> SessionRecords \union {NoRecord}] /\ records'[s] = saved
      /\ \A r \in Sessions : r # s => records'[r] = records[r]
  BY <1>2, <1>3 DEF SessionsTyped
<1>6. \A d \in On : d \in Clients /\ clients[d].session # s
  BY <1>1 DEF ClientsKnown, On
<1>7. \A d \in On : ~(clients[d].owns /\ clients[d].port = port)
  BY <1>1 DEF Owners
<1>8. conversation[s] = 0 /\ workflows[s] \in Nat /\ unsettled \subseteq unsettled'
  BY <1>1 DEF ClientsKnown, SessionsTyped, Opens
<1>9. SessionsTyped'
  BY <1>1, <1>4, <1>5 DEF SessionsTyped
<1>10. ClientsKnown'
  <2>1. \A r \in Sessions \ minted' : records'[r] = NoRecord /\ conversation'[r] = 0
    BY <1>1, <1>5 DEF ClientsKnown
  <2>2. \A d \in On : clients'[d] = clients[d] /\ records'[clients[d].session] = records[clients[d].session]
    BY <1>4, <1>5, <1>6 DEF ClientsKnown, SessionsTyped
  <2>3. \A d \in On' :
          LET k == clients'[d] IN
          /\ k.session \in minted'
          /\ k.resumed => records'[k.session] # NoRecord
          /\ ~k.resumed => /\ k.owns
                           /\ records'[k.session] # NoRecord => records'[k.session].slot = k.slot
    BY <1>1, <1>3, <1>4, <1>5, <2>2 DEF ClientsKnown
  <2>4. \A d, e \in On' :
       /\ ~clients'[d].resumed /\ ~clients'[e].resumed /\ clients'[d].session = clients'[e].session => d = e
       /\ clients'[d].owns /\ clients'[e].owns /\ clients'[d].port = clients'[e].port => d = e
    BY <1>4, <1>6, <1>7, <2>2 DEF ClientsKnown
  <2> QED BY <2>1, <2>3, <2>4 DEF ClientsKnown
<1>11. ConversationFits'
  BY <1>1, <1>3, <1>4, <1>5, <1>6, <1>8 DEF ConversationFits
<1>12. RunsKnown'
  BY <1>1, <1>3, <1>4, <1>5, <1>6, <1>8 DEF RunsKnown
<1> QED BY <1>9, <1>10, <1>11, <1>12

LEMMA ResumingKnown ==
  ASSUME SessionsInv, NEW c \in Clients, NEW s \in Sessions, clients[c] = NoClient, records[s] # NoRecord,
         NEW k \in OpenClients, k.session = s, k.resumed, ~k.leaving, k.run = RunOf(s),
         k.owns => Owners(k.port) = {},
         clients' = [clients EXCEPT ![c] = k],
         unsettled' = IF With(s) = {} THEN unsettled ELSE unsettled \cup {s},
         widened \subseteq widened', UNCHANGED <<records, minted, claudeKept>>
  PROVE  SessionsInv' /\ clients'[c] = k
<1> USE SessionBounds DEF SessionsInv
<1>1. RunOf(s) \in Nat /\ RunOf(s) <= workflows[s]
  BY RunOfTyped
<1>2. /\ clients' \in [Clients -> OpenClients \union {NoClient}] /\ c \notin On /\ On' = On \union {c}
      /\ \A d \in Clients : d # c => clients'[d] = clients[d]
      /\ clients'[c] = k
  BY Opening
<1>3. records' = records /\ minted' = minted /\ conversation' = conversation /\ workflows' = workflows
  BY DEF claudeKept
<1>4. SessionsTyped'
  BY <1>2, <1>3 DEF SessionsTyped
<1>5. \A d \in On : d \in Clients /\ d # c /\ clients'[d] = clients[d]
  BY <1>2 DEF On
<1>6. ClientsKnown'
  <2>1. s \in minted
    BY DEF ClientsKnown
  <2>2. \A d \in On' :
          LET l == clients'[d] IN
          /\ l.session \in minted'
          /\ l.resumed => records'[l.session] # NoRecord
          /\ ~l.resumed => /\ l.owns
                           /\ records'[l.session] # NoRecord => records'[l.session].slot = l.slot
    BY <1>2, <1>3, <1>5, <2>1 DEF ClientsKnown
  <2>3. \A d \in On : clients[d].owns /\ k.owns => clients[d].port # k.port
    BY <1>5 DEF Owners
  <2>4. \A d, e \in On' :
       /\ ~clients'[d].resumed /\ ~clients'[e].resumed /\ clients'[d].session = clients'[e].session => d = e
       /\ clients'[d].owns /\ clients'[e].owns /\ clients'[d].port = clients'[e].port => d = e
    BY <1>2, <1>5, <2>3 DEF ClientsKnown
  <2> QED BY <1>3, <2>2, <2>4 DEF ClientsKnown
<1>7. ConversationFits'
  BY <1>2, <1>3, <1>5 DEF ConversationFits
<1>8. RunsKnown'
  <2>1. \A d \in On' : clients'[d].run <= workflows'[clients'[d].session]
    BY <1>1, <1>2, <1>3, <1>5 DEF RunsKnown
  <2>2. unsettled \subseteq unsettled' /\ ((\E d \in On : clients[d].session = s) => s \in unsettled')
    BY DEF With
  <2>3. \A r \in Sessions \ unsettled' :
         /\ (\A d \in On' : clients'[d].session # r) => \A d \in On : clients[d].session # r
         /\ \A d \in On' : clients'[d].session = r /\ clients'[d].leaving =>
              /\ d \in On /\ clients[d].leaving /\ r # s
              /\ \A e \in On' : clients'[e].session = r => e \in On
    BY <1>2, <1>5, <2>2
  <2> QED BY <1>3, <1>5, <2>1, <2>2, <2>3 DEF RunsKnown
<1> QED BY <1>2, <1>4, <1>6, <1>7, <1>8

\* What a launch opens again unforced: the session fits what it gets, or what it
\* had before, and the run is the one that is told.
LEMMA RelaunchKnown ==
  ASSUME SessionsInv, NEW c \in Clients, NEW s \in Sessions, NEW proposed \in Slots, NEW port \in Ports,
         NEW force \in BOOLEAN, Relaunch(c, s, proposed, port, force)
  PROVE  /\ SessionsInv'
         /\ clients'[c].session = s /\ clients'[c].run = RunOf(s) /\ records[s] # NoRecord
         /\ clients'[c].checked => ShapeFits(s, clients'[c].slot)
<1>1. /\ clients[c] = NoClient /\ records[s] # NoRecord /\ Owners(port) = {}
      /\ UNCHANGED <<records, minted, claudeKept>>
  BY DEF Relaunch, Recoverable
<1>2. PICK slot \in IF force THEN {proposed} ELSE Ensured(s, proposed) :
       /\ force \/ ShapeFits(s, slot)
       /\ Opens(c, s, slot, port, TRUE, TRUE, ~force)
       /\ widened' = IF slot > records[s].slot THEN widened \cup {s} ELSE widened
  BY Zenon DEF Relaunch
<1>3. slot \in 1..Trained
  <2>1. conversation[s] \in Nat
    BY DEF SessionsInv, SessionsTyped
  <2> QED BY <1>2, <2>1, SessionBounds DEF Ensured
<1>4. RunOf(s) \in Nat
  BY <1>1, RunOfTyped DEF SessionsInv
<1> DEFINE k == [session |-> s, slot |-> slot, port |-> port, owns |-> TRUE, resumed |-> TRUE,
                 checked |-> ~force, run |-> RunOf(s), leaving |-> FALSE]
<1>5. k \in OpenClients
  BY <1>3, <1>4 DEF OpenClients
<1>6. /\ k.session = s /\ k.slot = slot /\ k.port = port /\ k.resumed /\ ~k.leaving /\ k.run = RunOf(s)
      /\ k.checked => ~force
  OBVIOUS
<1>7. /\ clients' = [clients EXCEPT ![c] = k]
      /\ unsettled' = IF With(s) = {} THEN unsettled ELSE unsettled \cup {s}
  BY <1>2, Zenon DEF Opens
<1>8. widened \subseteq widened'
  BY <1>2
<1> HIDE DEF k
<1>9. SessionsInv' /\ clients'[c] = k
  BY <1>1, <1>5, <1>6, <1>7, <1>8, ResumingKnown
<1> QED BY <1>1, <1>2, <1>6, <1>9

LEMMA AttachKnown ==
  ASSUME SessionsInv, NEW c \in Clients, NEW s \in Sessions, Attach(c, s)
  PROVE  /\ SessionsInv'
         /\ clients'[c].session = s /\ clients'[c].run = RunOf(s) /\ records[s] # NoRecord
         /\ ~clients'[c].checked
<1>1. /\ clients[c] = NoClient /\ records[s] # NoRecord
      /\ UNCHANGED <<records, minted, claudeKept>>
  BY DEF Attach, Recoverable
<1>2. PICK o \in Owners(records[s].port) :
       /\ Opens(c, s, clients[o].slot, records[s].port, FALSE, TRUE, FALSE)
       /\ widened' = IF clients[o].slot > records[s].slot THEN widened \cup {s} ELSE widened
  BY DEF Attach
<1>3. clients[o] \in OpenClients /\ records[s] \in SessionRecords
  BY <1>1, OnAreOpen DEF Owners, SessionsInv, SessionsTyped, On
<1>4. clients[o].slot \in 1..Trained /\ records[s].port \in Ports /\ RunOf(s) \in Nat
  BY <1>1, <1>3, RunOfTyped DEF SessionsInv, OpenClients, SessionRecords
<1> DEFINE k == [session |-> s, slot |-> clients[o].slot, port |-> records[s].port, owns |-> FALSE,
                 resumed |-> TRUE, checked |-> FALSE, run |-> RunOf(s), leaving |-> FALSE]
<1>5. k \in OpenClients
  BY <1>4 DEF OpenClients
<1>6. /\ k.session = s /\ k.resumed /\ ~k.leaving /\ ~k.checked /\ k.run = RunOf(s)
      /\ k.owns => Owners(k.port) = {}
  OBVIOUS
<1>7. /\ clients' = [clients EXCEPT ![c] = k]
      /\ unsettled' = IF With(s) = {} THEN unsettled ELSE unsettled \cup {s}
  BY <1>2 DEF Opens
<1>8. widened \subseteq widened'
  BY <1>2
<1> HIDE DEF k
<1>9. SessionsInv' /\ clients'[c] = k
  BY <1>1, <1>5, <1>6, <1>7, <1>8, ResumingKnown, ZenonT(40)
<1> QED BY <1>1, <1>6, <1>9

LEMMA TurnKnown ==
  ASSUME SessionsInv, NEW c \in Clients, Turn(c)
  PROVE  SessionsInv'
<1> USE SessionBounds DEF SessionsInv
<1>1. c \in On /\ UNCHANGED <<records, minted, workflows, clients, unsettled>>
  BY DEF Turn
<1> DEFINE s == clients[c].session
<1>2. PICK o \in Owners(clients[c].port) : \E tokens \in 1..clients[o].slot :
        /\ conversation' = [conversation EXCEPT ![s] = tokens]
        /\ widened' = IF records[s] # NoRecord /\ clients[o].slot > records[s].slot
                      THEN widened \cup {s} ELSE widened
  BY DEF Turn
<1>3. PICK tokens \in 1..clients[o].slot : conversation' = [conversation EXCEPT ![s] = tokens]
  BY <1>2
<1>4. On' = On /\ On \subseteq Clients /\ o \in On /\ clients[o].owns /\ clients[o].port = clients[c].port
  BY <1>1 DEF On, Owners
<1>5. /\ clients[c] \in OpenClients /\ clients[o] \in OpenClients
      /\ s \in Sessions /\ s \in minted /\ clients[o].slot \in Nat /\ tokens \in Nat
  <2>1. clients[c] \in OpenClients /\ clients[o] \in OpenClients
    BY <1>1, <1>4, OnAreOpen
  <2>2. s \in minted
    BY <1>1 DEF ClientsKnown
  <2>3. s \in Sessions /\ clients[o].slot \in 1..Trained
    BY <2>1 DEF OpenClients
  <2> QED BY <2>1, <2>2, <2>3
<1>6. /\ conversation' \in [Sessions -> Nat] /\ conversation'[s] = tokens
      /\ \A r \in Sessions : r # s => conversation'[r] = conversation[r]
  BY <1>3, <1>5 DEF SessionsTyped
<1>7. SessionsTyped'
  BY <1>1, <1>6 DEF SessionsTyped
<1>8. ClientsKnown'
  BY <1>1, <1>4, <1>5, <1>6 DEF ClientsKnown
<1>9. ConversationFits'
  <2>1. widened \subseteq widened'
    BY <1>2
  <2>2. ASSUME s \notin widened', records[s] # NoRecord PROVE tokens <= records[s].slot
    <3>1. records[s] \in SessionRecords
      BY <1>5, <2>2 DEF SessionsTyped
    <3>2. records[s].slot \in Nat /\ clients[o].slot <= records[s].slot
      BY <1>2, <1>5, <2>2, <3>1 DEF SessionRecords
    <3> QED BY <1>5, <3>2
  <2>3. ASSUME NEW d \in On, clients[d].session = s, ~clients[d].resumed, s \notin widened'
        PROVE  tokens <= clients[d].slot
    <3>1. CASE records[s] # NoRecord
      BY <2>2, <2>3, <3>1 DEF ClientsKnown
    <3>2. CASE records[s] = NoRecord
      <4>1. ~clients[c].resumed /\ clients[c].owns
        BY <1>1, <3>2 DEF ClientsKnown
      <4>2. c = d /\ o = c
        BY <1>1, <1>4, <2>3, <4>1 DEF ClientsKnown
      <4> QED BY <1>3, <1>5, <4>2
    <3> QED BY <3>1, <3>2
  <2> QED BY <1>1, <1>4, <1>6, <2>1, <2>2, <2>3 DEF ConversationFits
<1>10. RunsKnown'
  BY <1>1, <1>4 DEF RunsKnown
<1> QED BY <1>7, <1>8, <1>9, <1>10

LEMMA WorkflowKnown ==
  ASSUME SessionsInv, NEW c \in Clients, Workflow(c)
  PROVE  SessionsInv'
<1> USE SessionBounds DEF SessionsInv
<1> DEFINE s == clients[c].session
<1>1. /\ c \in On /\ ~clients[c].leaving /\ workflows' = [workflows EXCEPT ![s] = @ + 1]
      /\ UNCHANGED <<records, minted, conversation, clients, widened, unsettled>>
  BY DEF Workflow
<1>2. On' = On /\ s \in Sessions
  BY <1>1, OnAreOpen DEF On, OpenClients
<1>3. /\ workflows' \in [Sessions -> Nat] /\ workflows'[s] = workflows[s] + 1
      /\ \A r \in Sessions : r # s => workflows'[r] = workflows[r]
  BY <1>1, <1>2 DEF SessionsTyped
<1>4. \A r \in Sessions : workflows[r] \in Nat /\ workflows'[r] >= workflows[r]
  BY <1>2, <1>3 DEF SessionsTyped
<1>5. SessionsTyped'
  BY <1>1, <1>3 DEF SessionsTyped
<1>6. ClientsKnown' /\ ConversationFits'
  BY <1>1, <1>2 DEF ClientsKnown, ConversationFits
<1>7. RunsKnown'
  <2>1. \A r \in Sessions : records[r] # NoRecord => records[r].run \in Nat
    BY DEF SessionsTyped, SessionRecords
  <2>2. \A d \in On : clients[d].run \in Nat /\ clients[d].session \in Sessions
    BY OnAreOpen DEF On, OpenClients
  <2>3. /\ \A r \in Sessions : records[r] # NoRecord => records[r].run <= workflows'[r]
        /\ \A d \in On : clients[d].run <= workflows'[clients[d].session]
    <3>1. ASSUME NEW r \in Sessions, NEW n \in Nat, n <= workflows[r] PROVE n <= workflows'[r]
      <4>1. workflows[r] \in Nat /\ workflows'[r] \in Nat /\ workflows'[r] >= workflows[r]
        BY <1>3, <1>4
      <4> QED BY <3>1, <4>1
    <3>2. /\ \A r \in Sessions : records[r] # NoRecord => records[r].run <= workflows[r]
          /\ \A d \in On : clients[d].run <= workflows[clients[d].session]
      BY DEF RunsKnown
    <3> HIDE DEF SessionsInv
    <3> QED BY <2>1, <2>2, <3>1, <3>2
  <2>4. s \notin unsettled => \A d \in On : clients[d].session = s => ~clients[d].leaving
    BY <1>1, <1>2 DEF RunsKnown
  <2>5. \A r \in Sessions \ unsettled :
       /\ records[r] # NoRecord /\ (\A d \in On : clients[d].session # r) => records[r].run \in {0, workflows'[r]}
       /\ \A d \in On : clients[d].session = r /\ clients[d].leaving =>
            /\ clients[d].run = workflows'[r]
            /\ \A e \in On : clients[e].session = r => e = d
    BY <1>1, <1>3, <2>4 DEF RunsKnown
  <2> QED BY <1>1, <1>2, <2>3, <2>5 DEF RunsKnown
<1> QED BY <1>5, <1>6, <1>7

LEMMA LeavesKnown ==
  ASSUME SessionsInv, NEW c \in Clients, Leaves(c)
  PROVE  SessionsInv'
<1> USE SessionBounds DEF SessionsInv
<1> DEFINE s == clients[c].session
           run0 == IF workflows[s] > 0 THEN workflows[s] ELSE clients[c].run
           k == [clients[c] EXCEPT !.leaving = TRUE, !.run = run0]
<1>1. /\ c \in On /\ clients' = [clients EXCEPT ![c].leaving = TRUE, ![c].run = run0]
      /\ unsettled' = IF With(s) = {c} THEN unsettled \ {s} ELSE unsettled \cup {s}
      /\ UNCHANGED <<records, minted, conversation, workflows, widened>>
  BY DEF Leaves, claudeKept
<1>2. /\ clients[c] \in OpenClients /\ s \in Sessions /\ workflows[s] \in Nat /\ clients[c].run \in Nat
  <2>1. clients[c] \in OpenClients
    BY <1>1, OnAreOpen
  <2> QED BY <2>1 DEF OpenClients, SessionsTyped
<1>3. run0 = workflows[s]
  BY <1>1, <1>2 DEF RunsKnown
<1>4. /\ k \in OpenClients /\ k.session = s /\ k.slot = clients[c].slot /\ k.port = clients[c].port
      /\ k.resumed = clients[c].resumed /\ k.owns = clients[c].owns /\ k.leaving /\ k.run = workflows[s]
  BY <1>2, <1>3 DEF OpenClients
<1>5. /\ clients' \in [Clients -> OpenClients \union {NoClient}] /\ clients'[c] = k
      /\ \A d \in Clients : d # c => clients'[d] = clients[d]
  BY <1>1, <1>4 DEF SessionsTyped
<1> HIDE DEF k, run0
<1>6. On' = On /\ On \subseteq Clients
  BY <1>1, <1>4, <1>5 DEF On
<1>7. SessionsTyped'
  BY <1>1, <1>5 DEF SessionsTyped
<1>8. ClientsKnown'
  BY <1>1, <1>4, <1>5, <1>6 DEF ClientsKnown
<1>9. ConversationFits'
  BY <1>1, <1>4, <1>5, <1>6 DEF ConversationFits
<1>10. RunsKnown'
  <2>1. \A r \in Sessions \ unsettled' : r # s => r \notin unsettled
    BY <1>1
  <2>2. s \notin unsettled' => \A d \in On : clients[d].session = s => d = c
    BY <1>1 DEF With
  <2>3. \A d \in On' : clients'[d].session = clients[d].session
    BY <1>4, <1>5, <1>6
  <2>4. \A d \in On' : clients'[d].run <= workflows'[clients'[d].session]
    <3>1. \A d \in On : clients[d].run <= workflows[clients[d].session]
      BY DEF RunsKnown
    <3>2. k.run <= workflows[s]
      BY <1>2, <1>4
    <3> QED BY <1>1, <1>4, <1>5, <1>6, <3>1, <3>2
  <2>5. \A r \in Sessions \ unsettled' :
         records[r] # NoRecord /\ (\A d \in On : clients[d].session # r) => records[r].run \in {0, workflows[r]}
    BY <1>1, <2>1 DEF RunsKnown
  <2>6. ASSUME NEW r \in Sessions \ unsettled', NEW d \in On, clients'[d].session = r, clients'[d].leaving
        PROVE  clients'[d].run = workflows[r] /\ \A e \in On : clients[e].session = r => e = d
    <3>1. CASE r = s
      <4>1. clients[d].session = s /\ s \notin unsettled'
        BY <2>3, <2>6, <1>6, <3>1
      <4>2. d = c /\ \A e \in On : clients[e].session = r => e = d
        BY <2>2, <2>6, <3>1, <4>1
      <4> QED BY <1>4, <1>5, <3>1, <4>2
    <3>2. CASE r # s
      BY <1>4, <1>5, <1>6, <2>1, <2>3, <2>6, <3>2 DEF RunsKnown
    <3> QED BY <3>1, <3>2
  <2>7. \A r \in Sessions : records[r] # NoRecord => records[r].run <= workflows[r]
    BY DEF RunsKnown
  <2>8. \A r \in Sessions \ unsettled' :
       /\ records'[r] # NoRecord /\ (\A d \in On' : clients'[d].session # r) => records'[r].run \in {0, workflows'[r]}
       /\ \A d \in On' : clients'[d].session = r /\ clients'[d].leaving =>
            /\ clients'[d].run = workflows'[r]
            /\ \A e \in On' : clients'[e].session = r => e = d
    <3>1. records' = records /\ workflows' = workflows /\ On' = On
      BY <1>1, <1>6
    <3>2. \A r : (\A d \in On' : clients'[d].session # r) => \A d \in On : clients[d].session # r
      BY <2>3, <3>1, Zenon
    <3>3. \A d \in On : clients'[d].session = clients[d].session
      BY <2>3, <3>1
    <3> HIDE DEF SessionsInv
    <3>4. \A r \in Sessions \ unsettled' :
           records'[r] # NoRecord /\ (\A d \in On' : clients'[d].session # r) => records'[r].run \in {0, workflows'[r]}
      BY <2>5, <3>1, <3>2, Zenon
    <3>5. ASSUME NEW r \in Sessions \ unsettled', NEW d \in On', clients'[d].session = r, clients'[d].leaving
          PROVE  clients'[d].run = workflows'[r] /\ \A e \in On' : clients'[e].session = r => e = d
      <4>1. d \in On
        BY <3>1
      <4>2. clients'[d].run = workflows[r] /\ \A e \in On : clients[e].session = r => e = d
        BY <2>6, <3>5, <4>1, Zenon
      <4>3. ASSUME NEW e \in On', clients'[e].session = r PROVE e = d
        BY <3>1, <3>3, <4>2, <4>3
      <4> QED BY <3>1, <4>2, <4>3
    <3> QED BY <3>4, <3>5, Zenon
  <2> QED BY <1>1, <2>4, <2>7, <2>8 DEF RunsKnown
<1> QED BY <1>7, <1>8, <1>9, <1>10

\* Of a record, only the run is changed.
LEMMA NewRun ==
  ASSUME NEW was \in SessionRecords, NEW n \in Nat
  PROVE  /\ [was EXCEPT !.run = n] \in SessionRecords
         /\ [was EXCEPT !.run = n].run = n
         /\ [was EXCEPT !.run = n].slot = was.slot
BY DEF SessionRecords

LEMMA RecordsKnown ==
  ASSUME SessionsInv, NEW c \in Clients, Records(c)
  PROVE  SessionsInv'
<1> USE SessionBounds
<1> DEFINE k == clients[c]
           s == k.session
           saved == Refreshed(k)
<1>0. SessionsTyped /\ ClientsKnown /\ ConversationFits /\ RunsKnown
  BY DEF SessionsInv
<1>1. /\ c \in On /\ k.leaving /\ records' = [records EXCEPT ![s] = saved]
      /\ clients' = [clients EXCEPT ![c] = NoClient]
      /\ minted' = minted /\ conversation' = conversation /\ workflows' = workflows
      /\ widened' = widened /\ unsettled' = unsettled
  BY DEF Records, claudeKept
<1>2. k \in OpenClients /\ s \in Sessions
  BY <1>0, <1>1, OnAreOpen DEF OpenClients
<1>3. k.slot \in 1..Trained /\ k.port \in Ports /\ k.run \in Nat /\ workflows[s] \in Nat
  BY <1>0, <1>2 DEF OpenClients, SessionsTyped
<1>4. /\ saved \in SessionRecords /\ saved # NoRecord /\ saved.run = k.run
      /\ saved.slot = IF k.resumed THEN records[s].slot ELSE k.slot
  <2>1. CASE k.resumed
    <3>1. records[s] # NoRecord /\ records[s] \in SessionRecords
      BY <1>0, <1>1, <1>2, <2>1 DEF ClientsKnown, SessionsTyped
    <3>2. saved = [records[s] EXCEPT !.run = k.run]
      BY <2>1, <3>1 DEF Refreshed
    <3> HIDE DEF saved, k, s
    <3>3. saved \in SessionRecords /\ saved.run = k.run /\ saved.slot = records[s].slot
      BY <1>3, <3>1, <3>2, NewRun, Zenon
    <3> QED BY <2>1, <3>1, <3>3, Zenon
  <2>2. CASE ~k.resumed
    <3>1. saved = [slot |-> k.slot, port |-> k.port, run |-> k.run]
      BY <2>2 DEF Refreshed
    <3> HIDE DEF saved, k
    <3> QED BY <1>3, <2>2, <3>1 DEF SessionRecords
  <2> QED BY <2>1, <2>2
<1>5. /\ clients' \in [Clients -> OpenClients \union {NoClient}] /\ On' = On \ {c} /\ On \subseteq Clients
      /\ \A d \in Clients : d # c => clients'[d] = clients[d]
  BY <1>0, <1>1, Closing DEF On
<1>6. /\ records' \in [Sessions -> SessionRecords \union {NoRecord}] /\ records'[s] = saved
      /\ \A r \in Sessions : r # s => records'[r] = records[r]
  BY <1>0, <1>1, <1>2, <1>4 DEF SessionsTyped
<1>7. \A d \in On' : d \in On /\ d # c /\ clients'[d] = clients[d] /\ clients[d].session \in Sessions
  <2>1. \A d \in On : clients[d].session \in Sessions
    BY <1>0, OnAreOpen DEF On, OpenClients
  <2> QED BY <1>5, <2>1
<1> HIDE DEF saved
<1>8. SessionsTyped'
  BY <1>0, <1>1, <1>5, <1>6 DEF SessionsTyped
<1>9. ClientsKnown'
  <2>1. s \in minted
    BY <1>0, <1>1 DEF ClientsKnown
  <2>2. \A r \in Sessions \ minted' : records'[r] = NoRecord /\ conversation'[r] = 0
    BY <1>0, <1>1, <1>6, <2>1 DEF ClientsKnown
  <2>3. ASSUME NEW d \in On', ~clients[d].resumed, clients[d].session = s PROVE saved.slot = clients[d].slot
    <3>1. k.resumed
      BY <1>0, <1>1, <1>7, <2>3 DEF ClientsKnown
    <3>2. records[s] # NoRecord /\ saved.slot = records[s].slot
      BY <1>0, <1>1, <1>4, <3>1 DEF ClientsKnown
    <3> QED BY <1>0, <1>7, <2>3, <3>2 DEF ClientsKnown
  <2>4. \A d \in On' :
          LET l == clients'[d] IN
          /\ l.session \in minted'
          /\ l.resumed => records'[l.session] # NoRecord
          /\ ~l.resumed => /\ l.owns
                           /\ records'[l.session] # NoRecord => records'[l.session].slot = l.slot
    BY <1>0, <1>1, <1>4, <1>6, <1>7, <2>3 DEF ClientsKnown
  <2>5. \A d, e \in On' :
       /\ ~clients'[d].resumed /\ ~clients'[e].resumed /\ clients'[d].session = clients'[e].session => d = e
       /\ clients'[d].owns /\ clients'[e].owns /\ clients'[d].port = clients'[e].port => d = e
    BY <1>0, <1>7 DEF ClientsKnown
  <2> QED BY <2>2, <2>4, <2>5 DEF ClientsKnown
<1>10. ConversationFits'
  <2>1. s \notin widened => conversation[s] <= saved.slot
    <3>1. CASE k.resumed
      <4>1. records[s] # NoRecord /\ saved.slot = records[s].slot
        BY <1>0, <1>1, <1>4, <3>1 DEF ClientsKnown
      <4> QED BY <1>0, <1>2, <4>1 DEF ConversationFits
    <3>2. CASE ~k.resumed
      BY <1>0, <1>1, <1>2, <1>4, <3>2 DEF ConversationFits
    <3> QED BY <3>1, <3>2
  <2> QED BY <1>0, <1>1, <1>6, <1>7, <2>1 DEF ConversationFits
<1>11. RunsKnown'
  <2>1. saved.run <= workflows[s]
    BY <1>0, <1>1, <1>4 DEF RunsKnown
  <2>2. \A r \in Sessions : records'[r] # NoRecord => records'[r].run <= workflows'[r]
    BY <1>0, <1>1, <1>6, <2>1 DEF RunsKnown
  <2>3. \A d \in On' : clients'[d].run <= workflows'[clients'[d].session]
    BY <1>0, <1>1, <1>7 DEF RunsKnown
  <2>4. ASSUME NEW r \in Sessions \ unsettled', records'[r] # NoRecord, \A d \in On' : clients'[d].session # r
        PROVE  records'[r].run \in {0, workflows'[r]}
    <3>1. CASE r = s
      BY <1>0, <1>1, <1>4, <1>6, <2>4, <3>1 DEF RunsKnown
    <3>2. CASE r # s
      <4>1. \A d \in On : clients[d].session # r
        BY <1>5, <1>7, <2>4, <3>2
      <4> QED BY <1>0, <1>1, <1>6, <2>4, <3>2, <4>1 DEF RunsKnown
    <3> QED BY <3>1, <3>2
  <2>5. ASSUME NEW r \in Sessions \ unsettled', NEW d \in On', clients'[d].session = r, clients'[d].leaving
        PROVE  clients'[d].run = workflows'[r] /\ \A e \in On' : clients'[e].session = r => e = d
    <3>1. clients[d].session = r /\ clients[d].leaving /\ d \in On
      BY <1>7, <2>5
    <3>2. clients[d].run = workflows[r] /\ \A e \in On : clients[e].session = r => e = d
      BY <1>0, <1>1, <2>5, <3>1 DEF RunsKnown
    <3> QED BY <1>1, <1>7, <3>2
  <2> QED BY <2>2, <2>3, <2>4, <2>5, ZenonT(30) DEF RunsKnown
<1> QED BY <1>8, <1>9, <1>10, <1>11 DEF SessionsInv

LEMMA VanishesKnown ==
  ASSUME SessionsInv, NEW c \in Clients, Vanishes(c)
  PROVE  SessionsInv'
<1> USE SessionBounds
<1> DEFINE s == clients[c].session
<1>0. SessionsTyped /\ ClientsKnown /\ ConversationFits /\ RunsKnown
  BY DEF SessionsInv
<1>1. /\ c \in On /\ clients' = [clients EXCEPT ![c] = NoClient] /\ unsettled' = unsettled \union {s}
      /\ records' = records /\ minted' = minted /\ conversation' = conversation /\ workflows' = workflows
      /\ widened' = widened
  BY DEF Vanishes, claudeKept
<1>2. /\ clients' \in [Clients -> OpenClients \union {NoClient}] /\ On' = On \ {c} /\ On \subseteq Clients
      /\ \A d \in Clients : d # c => clients'[d] = clients[d]
  BY <1>0, <1>1, Closing DEF On
<1>3. \A d \in On' : d \in On /\ d # c /\ clients'[d] = clients[d]
  BY <1>2
<1>4. SessionsTyped'
  BY <1>0, <1>1, <1>2 DEF SessionsTyped
<1>5. ClientsKnown' /\ ConversationFits'
  BY <1>0, <1>1, <1>3 DEF ClientsKnown, ConversationFits
<1>6. RunsKnown'
  <2>1. \A r \in Sessions \ unsettled' : r \in Sessions \ unsettled /\ r # s
    BY <1>1
  <2>2. /\ \A r \in Sessions : records'[r] # NoRecord => records'[r].run <= workflows'[r]
        /\ \A d \in On' : clients'[d].run <= workflows'[clients'[d].session]
    BY <1>0, <1>1, <1>3 DEF RunsKnown
  <2>3. ASSUME NEW r \in Sessions \ unsettled', records'[r] # NoRecord, \A d \in On' : clients'[d].session # r
        PROVE  records'[r].run \in {0, workflows'[r]}
    <3>1. \A d \in On : clients[d].session # r
      BY <1>2, <1>3, <2>1, <2>3
    <3> QED BY <1>0, <1>1, <2>1, <2>3, <3>1 DEF RunsKnown
  <2>4. ASSUME NEW r \in Sessions \ unsettled', NEW d \in On', clients'[d].session = r, clients'[d].leaving
        PROVE  clients'[d].run = workflows'[r] /\ \A e \in On' : clients'[e].session = r => e = d
    <3>1. clients[d].session = r /\ clients[d].leaving /\ d \in On
      BY <1>3, <2>4
    <3>2. clients[d].run = workflows[r] /\ \A e \in On : clients[e].session = r => e = d
      BY <1>0, <2>1, <2>4, <3>1 DEF RunsKnown
    <3> QED BY <1>1, <1>3, <3>2
  <2> QED BY <2>2, <2>3, <2>4, Zenon DEF RunsKnown
<1> QED BY <1>4, <1>5, <1>6 DEF SessionsInv

LEMMA StartSessions == Init => SessionsInv
<1> SUFFICES ASSUME Init PROVE SessionsInv
  OBVIOUS
<1>1. /\ records = [s \in Sessions |-> NoRecord] /\ minted = {} /\ conversation = [s \in Sessions |-> 0]
      /\ workflows = [s \in Sessions |-> 0] /\ clients = [c \in Clients |-> NoClient]
  BY DEF Init, SessionsInit
<1>2. On = {}
  BY <1>1 DEF On
<1> QED BY <1>1, <1>2 DEF SessionsInv, SessionsTyped, ClientsKnown, ConversationFits, RunsKnown

LEMMA StepSessions == SessionsInv /\ [Next]_maintenanceVars => SessionsInv'
<1> SUFFICES ASSUME SessionsInv, [Next]_maintenanceVars PROVE SessionsInv'
  OBVIOUS
<1>1. CASE UNCHANGED sessionVars
  BY <1>1 DEF sessionVars, claudeKept, SessionsInv, SessionsTyped, ClientsKnown, ConversationFits, RunsKnown, On
<1>2. ASSUME NEW c \in Clients, NEW s \in Sessions, NEW slot \in Slots, NEW port \in Ports,
             Fresh(c, s, slot, port) \/ \E force \in BOOLEAN : Relaunch(c, s, slot, port, force)
      PROVE  SessionsInv'
  BY <1>2, FreshKnown, RelaunchKnown
<1>3. ASSUME NEW c \in Clients, NEW s \in Sessions, Attach(c, s) PROVE SessionsInv'
  BY <1>3, AttachKnown
<1>4. ASSUME NEW c \in Clients, Turn(c) \/ Workflow(c) \/ Leaves(c) \/ Records(c) \/ Vanishes(c) PROVE SessionsInv'
  BY <1>4, TurnKnown, WorkflowKnown, LeavesKnown, RecordsKnown, VanishesKnown
<1>5. CASE SessionsNext
  BY <1>2, <1>3, <1>4, <1>5, Zenon DEF SessionsNext
<1>6. CASE UNCHANGED maintenanceVars
  BY <1>1, <1>6 DEF maintenanceVars
<1> QED BY <1>1, <1>5, <1>6 DEF Next, GenericStep, ForkStep, SelfStep, TuneStep, SessionStep

\* A client is opened by a launch or an attachment, and by nothing else.
LEMMA OpenedBy ==
  ASSUME SessionsInv, SessionsNext, NEW c \in Clients, clients[c] = NoClient, clients'[c] # NoClient
  PROVE  \/ \E s \in Sessions, slot \in Slots, port \in Ports :
              Fresh(c, s, slot, port) \/ \E force \in BOOLEAN : Relaunch(c, s, slot, port, force)
         \/ \E s \in Sessions : Attach(c, s)
<1>1. ASSUME NEW d \in Clients, Turn(d) \/ Workflow(d) PROVE FALSE
  BY <1>1 DEF Turn, Workflow
<1>2. ASSUME NEW d \in Clients, Leaves(d) \/ Records(d) \/ Vanishes(d) PROVE FALSE
  <2>1. d # c
    BY <1>2 DEF Leaves, Records, Vanishes, On
  <2> QED BY <1>2, <2>1 DEF Leaves, Records, Vanishes, SessionsInv, SessionsTyped
<1>3. ASSUME NEW d \in Clients, NEW k, clients' = [clients EXCEPT ![d] = k] PROVE d = c
  BY <1>3 DEF SessionsInv, SessionsTyped
<1>4. ASSUME NEW d \in Clients, NEW s, NEW slot, NEW port, NEW owns, NEW resumed, NEW checked,
             Opens(d, s, slot, port, owns, resumed, checked)
      PROVE  d = c
  BY <1>3, <1>4, Zenon DEF Opens
<1>5. ASSUME NEW d \in Clients, NEW s \in Sessions, NEW slot \in Slots, NEW port \in Ports, Fresh(d, s, slot, port)
      PROVE  d = c
  BY <1>4, <1>5, Zenon DEF Fresh
<1>6. ASSUME NEW d \in Clients, NEW s \in Sessions, NEW slot \in Slots, NEW port \in Ports, NEW force \in BOOLEAN,
             Relaunch(d, s, slot, port, force)
      PROVE  d = c
  BY <1>4, <1>6, Zenon DEF Relaunch
<1>7. ASSUME NEW d \in Clients, NEW s \in Sessions, Attach(d, s) PROVE d = c
  BY <1>4, <1>7, Zenon DEF Attach
<1> QED BY <1>1, <1>2, <1>5, <1>6, <1>7, Zenon DEF SessionsNext

(* A session that a launch opens again unforced fits the slot it gets, unless it *)
(* had more context than its record tells: what is recorded bounds the           *)
(* conversation, and a slot that is smaller leaves it a quarter.                 *)
THEOREM ResumedSessionsFit == Spec => ResumedFits
<1>1. SessionsInv /\ [Next]_maintenanceVars =>
        [\A c \in Clients : clients[c] = NoClient /\ clients'[c] # NoClient /\ clients'[c].checked =>
           LET s == clients'[c].session IN s \notin widened => conversation[s] <= clients'[c].slot]_sessionVars
  <2> SUFFICES ASSUME SessionsInv, SessionsNext, NEW c \in Clients, clients[c] = NoClient, clients'[c] # NoClient,
                      clients'[c].checked, clients'[c].session \notin widened
               PROVE  conversation[clients'[c].session] <= clients'[c].slot
    BY DEF Next, maintenanceVars, GenericStep, ForkStep, SelfStep, TuneStep, SessionStep
  <2>1. ASSUME NEW s \in Sessions, NEW slot \in Slots, NEW port \in Ports, Fresh(c, s, slot, port) PROVE FALSE
    BY <2>1 DEF Fresh, Opens, SessionsInv, SessionsTyped
  <2>2. ASSUME NEW s \in Sessions, Attach(c, s) PROVE FALSE
    BY <2>2, AttachKnown
  <2>3. ASSUME NEW s \in Sessions, NEW slot \in Slots, NEW port \in Ports, NEW force \in BOOLEAN,
               Relaunch(c, s, slot, port, force)
        PROVE  conversation[clients'[c].session] <= clients'[c].slot
    <3>1. /\ clients'[c].session = s /\ records[s] # NoRecord /\ ShapeFits(s, clients'[c].slot) /\ SessionsInv'
      BY <2>3, RelaunchKnown
    <3>2. clients'[c].slot \in Nat /\ conversation[s] \in Nat /\ records[s].slot \in Nat
      <4>1. clients'[c] \in OpenClients /\ records[s] \in SessionRecords
        BY <3>1 DEF SessionsInv, SessionsTyped
      <4> QED BY <4>1, SessionBounds DEF SessionsInv, SessionsTyped, OpenClients, SessionRecords
    <3>3. conversation[s] <= records[s].slot
      BY <3>1 DEF SessionsInv, ConversationFits
    <3> QED BY <3>1, <3>2, <3>3 DEF ShapeFits
  <2> QED BY <2>1, <2>2, <2>3, OpenedBy, Zenon
<1> QED BY <1>1, StartSessions, StepSessions, PTL DEF Spec, ResumedFits

(* A session that was left cleanly, by the only client it had, is opened again   *)
(* with its newest run: that run is on record, or none is and Claude Code is     *)
(* asked for it.                                                                 *)
THEOREM SessionsGoOnWithNewestRun == Spec => NewestRunResumed
<1>1. SessionsInv /\ [Next]_maintenanceVars =>
        [\A c \in Clients : clients[c] = NoClient /\ clients'[c] # NoClient /\ clients'[c].resumed =>
           LET s == clients'[c].session IN
           s \notin unsettled /\ With(s) = {} => clients'[c].run = workflows[s]]_sessionVars
  <2> SUFFICES ASSUME SessionsInv, SessionsNext, NEW c \in Clients, clients[c] = NoClient, clients'[c] # NoClient,
                      clients'[c].resumed, clients'[c].session \notin unsettled, With(clients'[c].session) = {}
               PROVE  clients'[c].run = workflows[clients'[c].session]
    BY DEF Next, maintenanceVars, GenericStep, ForkStep, SelfStep, TuneStep, SessionStep
  <2>1. ASSUME NEW s \in Sessions, NEW slot \in Slots, NEW port \in Ports, Fresh(c, s, slot, port) PROVE FALSE
    BY <2>1 DEF Fresh, Opens, SessionsInv, SessionsTyped
  <2>2. ASSUME NEW s \in Sessions, clients'[c].session = s, clients'[c].run = RunOf(s), records[s] # NoRecord
        PROVE  clients'[c].run = workflows[clients'[c].session]
    <3>1. \A d \in On : clients[d].session # s
      BY <2>2 DEF With
    <3>2. records[s].run \in {0, workflows[s]} /\ workflows[s] \in Nat
      BY <2>2, <3>1 DEF SessionsInv, RunsKnown, SessionsTyped
    <3> QED BY <2>2, <3>2 DEF RunOf
  <2>3. ASSUME NEW s \in Sessions, Attach(c, s) PROVE clients'[c].run = workflows[clients'[c].session]
    BY <2>2, <2>3, AttachKnown
  <2>4. ASSUME NEW s \in Sessions, NEW slot \in Slots, NEW port \in Ports, NEW force \in BOOLEAN,
               Relaunch(c, s, slot, port, force)
        PROVE  clients'[c].run = workflows[clients'[c].session]
    BY <2>2, <2>4, RelaunchKnown
  <2> QED BY <2>1, <2>3, <2>4, OpenedBy, Zenon
<1> QED BY <1>1, StartSessions, StepSessions, PTL DEF Spec, NewestRunResumed
=============================================================================
