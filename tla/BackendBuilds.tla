---------------------------- MODULE BackendBuilds ----------------------------
(* ggrun backend update and rollback of one registered fork: its new build is  *)
(* made beside the active one and takes its place, which is archived, and the  *)
(* record in backends.json follows. A rollback swaps the two. ggrun may be     *)
(* killed before any of these steps. Commits are numbers.                      *)
EXTENDS Naturals, FiniteSets

CONSTANTS
  MaxCommits, MaxArchives, MaxRuns,
  Repeats,   \* what failed after its promotion may fail so again, of one commit
  NoTree, NoName

ASSUME BuildsAssumption ==
  /\ MaxRuns \in Nat /\ {MaxCommits, MaxArchives} \subseteq Nat \ {0} /\ Repeats \in BOOLEAN
  /\ NoTree \notin [commit : Nat, ok : BOOLEAN] /\ NoName \notin Nat \X Nat

VARIABLES
  newest,              \* of the branch of the fork
  active, archives,    \* build-<accel>, and build-<accel>-prev-<commit>.<n>
  invalid,             \* commits that -candidate-invalid-<commit> exists for
  unregistered,        \* commits that -unregistered-<commit> exists for
  work,                \* the candidate, or the tree a swap has put aside
  record,              \* of the registry
  forkStep, archived, stale, reverting, outcome,
  interrupted,         \* some run was killed
  runs

trees == <<active, archives, invalid, unregistered, work>>
progress == <<archived, stale, reverting>>
buildVars == <<newest, trees, record, forkStep, progress, outcome, interrupted, runs>>

Names == (1..MaxCommits) \X (1..MaxArchives)
Unused == [n \in Names |-> NoTree]

BuildsInit ==
  /\ newest = 1 /\ active = [commit |-> 1, ok |-> TRUE] /\ archives = Unused
  /\ invalid = {} /\ unregistered = {} /\ work = NoTree
  /\ record = [commit |-> 1, path |-> NoName, prev |-> 0]
  /\ forkStep = "idle" /\ archived = NoName /\ stale = NoName /\ reverting = FALSE
  /\ outcome = "none" /\ interrupted = FALSE /\ runs = 0

ForkMoves ==
  /\ forkStep = "idle" /\ newest < MaxCommits /\ newest' = newest + 1
  /\ UNCHANGED <<trees, record, forkStep, progress, outcome, interrupted, runs>>

Returns(o) ==
  /\ forkStep' = "idle" /\ outcome' = o
  /\ work' = NoTree /\ archived' = NoName /\ stale' = NoName /\ reverting' = FALSE
  /\ UNCHANGED <<newest, interrupted>>

Goes(next) == forkStep' = next /\ UNCHANGED <<newest, outcome, interrupted, runs>>
Calls == forkStep = "idle" /\ runs < MaxRuns /\ runs' = runs + 1

-----------------------------------------------------------------------------
(* updateRegisteredBackend.                                                 *)

\* Nothing to do, no source, or a candidate that does not compile or conform.
NoCandidate ==
  /\ Calls
  /\ Returns(IF record.commit = newest /\ active # NoTree /\ active.ok THEN "current" ELSE "failed")
  /\ UNCHANGED <<active, archives, invalid, unregistered, record>>

Refused(c) == c \in invalid /\ ~Repeats

\* The candidate conforms where it was built; it may not where it is promoted to.
Candidate ==
  /\ Calls /\ ~(record.commit = newest /\ active # NoTree /\ active.ok)
  /\ work' \in {[commit |-> newest, ok |-> ok] : ok \in IF Refused(newest) THEN {TRUE} ELSE BOOLEAN}
  /\ forkStep' = "archive" /\ outcome' = "none"
  /\ UNCHANGED <<newest, active, archives, invalid, unregistered, record, progress, interrupted>>

Free == {i \in 1..MaxArchives : archives[<<record.commit, i>>] = NoTree}

\* Under the first name with this commit that is free.
Archive ==
  /\ forkStep = "archive" /\ active # NoTree /\ Free # {}
  /\ \E i \in Free : (\A j \in Free : i <= j) /\ archived' = <<record.commit, i>>
  /\ archives' = [archives EXCEPT ![archived'] = active] /\ active' = NoTree
  /\ Goes("activate") /\ UNCHANGED <<invalid, unregistered, work, record, stale, reverting>>

NoArchive ==
  /\ forkStep = "archive" /\ active = NoTree /\ Goes("activate")
  /\ UNCHANGED <<trees, record, progress>>

TooManyArchives ==
  /\ forkStep = "archive" /\ active # NoTree /\ Free = {} /\ Returns("failed")
  /\ UNCHANGED <<active, archives, invalid, unregistered, record, runs>>

ActivateCandidate ==
  /\ forkStep = "activate" /\ active' = work /\ work' = NoTree
  /\ Goes("check") /\ UNCHANGED <<archives, invalid, unregistered, record, progress>>

Conforms ==
  /\ forkStep = "check" /\ active.ok /\ Goes("register")
  /\ UNCHANGED <<trees, record, progress>>

\* The promoted build goes to a directory for failures and the previous one comes
\* back. A directory cannot be renamed to one that exists: then neither does.
PutBack(failures) ==
  IF active.commit \in failures THEN UNCHANGED <<active, archives>>
  ELSE /\ active' = IF archived = NoName THEN NoTree ELSE archives[archived]
       /\ archives' = IF archived = NoName THEN archives ELSE [archives EXCEPT ![archived] = NoTree]

RefusedAfterPromotion ==
  /\ forkStep = "check" /\ ~active.ok
  /\ PutBack(invalid) /\ invalid' = invalid \union {active.commit}
  /\ Returns("failed") /\ UNCHANGED <<unregistered, record, runs>>

\* Upsert. Without an archive the new build stays where it is.
RegisterFails ==
  /\ forkStep = "register" /\ (Repeats \/ active.commit \notin unregistered)
  /\ IF archived = NoName THEN UNCHANGED <<active, archives, unregistered>>
     ELSE PutBack(unregistered) /\ unregistered' = unregistered \union {active.commit}
  /\ Returns("failed") /\ UNCHANGED <<invalid, record, runs>>

Register ==
  /\ forkStep = "register"
  /\ record' = [commit |-> active.commit, path |-> archived, prev |-> IF archived = NoName THEN 0 ELSE record.commit]
  /\ stale' = record.path
  /\ Goes("prune") /\ UNCHANGED <<trees, archived, reverting>>

MutPrune ==
  /\ forkStep = "prune"
  /\ archives' = IF archived = NoName THEN archives ELSE [archives EXCEPT ![archived] = NoTree]
  /\ Returns("updated") /\ UNCHANGED <<active, invalid, unregistered, record, runs>>

\* One previous build is kept; the one before it goes.
Prune ==
  /\ forkStep = "prune"
  /\ archives' = IF stale = NoName THEN archives ELSE [archives EXCEPT ![stale] = NoTree]
  /\ Returns("updated") /\ UNCHANGED <<active, invalid, unregistered, record, runs>>

-----------------------------------------------------------------------------
(* rollbackRegisteredBackend, with the swap of two directories it is made of,  *)
(* which is done a second time to revert it.                                   *)

CanRollBack == record.path # NoName /\ archives[record.path] # NoTree

NoRollback ==
  /\ Calls /\ ~CanRollBack
  /\ Returns("failed") /\ UNCHANGED <<active, archives, invalid, unregistered, record>>

Rollback ==
  /\ Calls /\ CanRollBack
  /\ outcome' = "none" /\ forkStep' = "aside"
  /\ UNCHANGED <<newest, trees, record, progress, interrupted>>

\* Without an active build there is nothing to put aside.
Aside ==
  /\ forkStep = "aside"
  /\ IF active = NoTree THEN Returns("failed") /\ UNCHANGED <<active, runs>>
     ELSE work' = active /\ active' = NoTree /\ Goes("back") /\ UNCHANGED progress
  /\ UNCHANGED <<archives, invalid, unregistered, record>>

Back ==
  /\ forkStep = "back"
  /\ active' = archives[record.path] /\ archives' = [archives EXCEPT ![record.path] = NoTree]
  /\ Goes("keep") /\ UNCHANGED <<invalid, unregistered, work, record, progress>>

\* The third rename ends a swap: one that reverts is the end of a failure.
Keep ==
  /\ forkStep = "keep"
  /\ archives' = [archives EXCEPT ![record.path] = work]
  /\ IF reverting THEN Returns("failed") /\ UNCHANGED runs
     ELSE work' = NoTree /\ Goes("verify") /\ UNCHANGED progress
  /\ UNCHANGED <<active, invalid, unregistered, record>>

\* The restored build does not conform, or cannot be registered.
Revert ==
  /\ forkStep = "verify" /\ reverting' = TRUE /\ Goes("aside")
  /\ UNCHANGED <<trees, record, archived, stale>>

RolledBack ==
  /\ forkStep = "verify" /\ active.ok
  /\ record' = [record EXCEPT !.commit = record.prev, !.prev = record.commit]
  /\ Returns("rolled back") /\ UNCHANGED <<active, archives, invalid, unregistered, runs>>

\* Its candidate is left in a directory that nothing looks at any more.
KilledHere ==
  /\ forkStep # "idle" /\ interrupted' = TRUE
  /\ forkStep' = "idle" /\ outcome' = "none"
  /\ work' = NoTree /\ archived' = NoName /\ stale' = NoName /\ reverting' = FALSE
  /\ UNCHANGED <<newest, active, archives, invalid, unregistered, record, runs>>

BuildsNext ==
  \/ ForkMoves \/ NoCandidate \/ Candidate \/ Archive \/ NoArchive \/ TooManyArchives
  \/ ActivateCandidate \/ Conforms \/ RefusedAfterPromotion \/ RegisterFails \/ Register \/ Prune
  \/ NoRollback \/ Rollback \/ Aside \/ Back \/ Keep \/ Revert \/ RolledBack \/ KilledHere

-----------------------------------------------------------------------------
\* The record is true between runs, unless one was killed, and after every update
\* that reports success, even then: it has the commit of the build that is active,
\* which conforms. Without a kill it also has that of the one a rollback goes to.
RecordIsTrue ==
  forkStep = "idle" =>
    /\ ~interrupted \/ outcome = "updated" => active # NoTree /\ active.ok /\ active.commit = record.commit
    /\ ~interrupted /\ record.path # NoName => archives[record.path] # NoTree /\ archives[record.path].commit = record.prev

\* What the error message says of a promoted build that is refused, "previous
\* build restored", and the file's introduction, that an update "preserves the
\* build it replaces": a failed update leaves a build that conforms.
FailureLeavesABuild ==
  outcome = "failed" /\ forkStep = "idle" /\ ~interrupted => active # NoTree /\ active.ok
=============================================================================
