---------------------------- MODULE ProfileStore ----------------------------
(***************************************************************************)
(* The profile store as processes use it: a JSON file replaced by rename   *)
(* under a lock file (go/pkg/controller/profile.go), driven by             *)
(* verifyAndActivateLaunch and invalidateRuntimeOOMLaunch                  *)
(* (go/cmd/ggrun/main.go).                                                 *)
(*                                                                         *)
(* Every launch is a process of its own.  The steps of one call of         *)
(* Store.update are interleaved with those of other processes: taking the  *)
(* lock file, finding it too old and removing it, reading the record and   *)
(* applying the change, renaming the new file into place, removing the     *)
(* lock file.  A process may die between any two of them.                  *)
(*                                                                         *)
(* The lock file belongs to whoever created it.  It can be found too old   *)
(* only after its creator died: an update is assumed not to last the two   *)
(* minutes after which the others stop believing in it.                    *)
(***************************************************************************)
EXTENDS ProfileRecord, FiniteSets

CONSTANTS
  NoLaunch,    \* no lock file
  Before,      \* the launch that left its profile active, or NoLaunch
  MaxCrashes,  \* bound: how many processes die in the middle of an update
  ReadErrors   \* whether an existing record may fail to be read

ASSUME LaunchesAssumption == IsFiniteSet(Launches) /\ NoLaunch \notin Launches
ASSUME BeforeAssumption == Before \in Launches \union {NoLaunch}
ASSUME CrashesAssumption == MaxCrashes \in Nat
ASSUME ReadErrorsAssumption == ReadErrors \in BOOLEAN

VARIABLES
  file,     \* the record on disk (EmptyRecord: no file)
  lock,     \* the process that created the lock file, or NoLaunch
  lockOld,  \* the lock file is older than two minutes
  step,     \* where each process is in Store.update
  call,     \* the state it is asking for
  draft,    \* the changed record a process is about to rename into place
  reached,  \* what each launch knows of its own profile
  argsOf    \* the effective argv each launch's plan came to

vars == <<file, lock, lockOld, step, call, draft, reached, argsOf>>

Steps == {"idle", "opening", "breaking", "reading", "writing", "done", "failed",
          "crashed"}
Calls == States \union {"revoked"}
Reached == Calls \union {"new", "failed"}

Crashed == {p \in Launches : step[p] = "crashed"}

\* Processes that believe they have the record to themselves.
Inside == {p \in Launches : step[p] \in {"reading", "writing", "done", "failed"}}

-----------------------------------------------------------------------------

\* The record is new, or an earlier launch left its profile active.
Init ==
  /\ argsOf \in [Launches -> Args]
  /\ file = IF Before = NoLaunch THEN EmptyRecord
            ELSE [EmptyRecord EXCEPT !.active =
                    [id |-> Before, args |-> argsOf[Before], events |-> Ladder]]
  /\ lock = NoLaunch
  /\ lockOld = FALSE
  /\ step = [p \in Launches |-> "idle"]
  /\ call = [p \in Launches |-> "proposed"]
  /\ draft = [p \in Launches |-> EmptyRecord]
  /\ reached = [p \in Launches |-> IF p = Before THEN "active" ELSE "new"]

\* What verifyAndActivateLaunch asks next, and after it the handling of a
\* memory failure, which asks for the active profile to be revoked whatever
\* became of the verification.
NextCalls ==
  [r \in Reached |->
     CASE r = "new"                  -> {"proposed"}
       [] r = "proposed"             -> {"allocation_verified"}
       [] r = "allocation_verified"  -> {"load_healthy"}
       [] r = "load_healthy"         -> {"functional_verified", "degraded", "rejected"}
       [] r = "functional_verified"  -> {"cache_verified", "degraded"}
       [] r = "cache_verified"       -> {"performance_verified", "rejected"}
       [] r = "performance_verified" -> {"active"}
       [] r = "revoked"              -> {}
       [] OTHER                      -> {"revoked"}]

\* The exact profile is active already: its canary result is reused.
Reuse(p) ==
  /\ step[p] = "idle"
  /\ reached[p] = "new"
  /\ IsActive(file, argsOf[p])
  /\ reached' = [reached EXCEPT ![p] = "active"]
  /\ UNCHANGED <<file, lock, lockOld, step, call, draft, argsOf>>

Ask(p, c) ==
  /\ step[p] = "idle"
  /\ c \in NextCalls[reached[p]]
  /\ reached[p] = "new" => ~IsActive(file, argsOf[p])
  /\ step' = [step EXCEPT ![p] = "opening"]
  /\ call' = [call EXCEPT ![p] = c]
  /\ UNCHANGED <<file, lock, lockOld, draft, reached, argsOf>>

\* Mutant: the lock file is opened without O_EXCL.
MutTakeLockShared(p) ==
  /\ step[p] = "opening"
  /\ lock' = p
  /\ lockOld' = FALSE
  /\ step' = [step EXCEPT ![p] = "reading"]
  /\ UNCHANGED <<file, call, draft, reached, argsOf>>

\* acquireLock creates the lock file.
TakeLock(p) ==
  /\ step[p] = "opening"
  /\ lock = NoLaunch
  /\ lock' = p
  /\ lockOld' = FALSE
  /\ step' = [step EXCEPT ![p] = "reading"]
  /\ UNCHANGED <<file, call, draft, reached, argsOf>>

\* Mutant: any lock file is taken for an abandoned one.
MutFindStaleAny(p) ==
  /\ step[p] = "opening"
  /\ lock # NoLaunch
  /\ step' = [step EXCEPT ![p] = "breaking"]
  /\ UNCHANGED <<file, lock, lockOld, call, draft, reached, argsOf>>

\* acquireLock finds a lock file that is too old ...
FindStale(p) ==
  /\ step[p] = "opening"
  /\ lock # NoLaunch
  /\ lockOld
  /\ step' = [step EXCEPT ![p] = "breaking"]
  /\ UNCHANGED <<file, lock, lockOld, call, draft, reached, argsOf>>

\* ... and removes whatever file has that name by then.
BreakLock(p) ==
  /\ step[p] = "breaking"
  /\ lock' = NoLaunch
  /\ lockOld' = FALSE
  /\ step' = [step EXCEPT ![p] = "opening"]
  /\ UNCHANGED <<file, call, draft, reached, argsOf>>

\* What the caller makes of an error.  The verdicts of the canaries are
\* reported without looking at the result.
AfterFailure(c) ==
  IF c \in {"degraded", "rejected", "revoked"} THEN c ELSE "failed"

\* acquireLock waits three seconds in vain.
GiveUp(p) ==
  /\ step[p] = "opening"
  /\ lock # NoLaunch
  /\ ~lockOld
  /\ step' = [step EXCEPT ![p] = "idle"]
  /\ reached' = [reached EXCEPT ![p] = AfterFailure(call[p])]
  /\ UNCHANGED <<file, lock, lockOld, call, draft, argsOf>>

Refused(p, record) ==
  call[p] \notin {"proposed", "revoked"} /\ ~CanTransition(record, p, call[p])

Changed(p, record) ==
  CASE call[p] = "proposed" -> Begun(record, Proposed(p, argsOf[p]))
    [] call[p] = "revoked"  -> Revoked(record, argsOf[p])
    [] OTHER                -> Transitioned(record, call[p])

\* update works on the record it read, or on an empty one if reading failed for
\* any reason.
Mutate(p) ==
  /\ step[p] = "reading"
  /\ \E record \in {file} \union (IF ReadErrors THEN {EmptyRecord} ELSE {}) :
       IF Refused(p, record)
       THEN step' = [step EXCEPT ![p] = "failed"] /\ UNCHANGED draft
       ELSE /\ step' = [step EXCEPT ![p] = "writing"]
            /\ draft' = [draft EXCEPT ![p] = Changed(p, record)]
  /\ UNCHANGED <<file, lock, lockOld, call, reached, argsOf>>

\* The temporary file cannot be created, written, synced or closed.
WriteFails(p) ==
  /\ step[p] = "writing"
  /\ step' = [step EXCEPT ![p] = "failed"]
  /\ draft' = [draft EXCEPT ![p] = EmptyRecord]
  /\ UNCHANGED <<file, lock, lockOld, call, reached, argsOf>>

Rename(p) ==
  /\ step[p] = "writing"
  /\ file' = draft[p]
  /\ draft' = [draft EXCEPT ![p] = EmptyRecord]
  /\ step' = [step EXCEPT ![p] = "done"]
  /\ UNCHANGED <<lock, lockOld, call, reached, argsOf>>

\* The deferred release removes the lock file, whoever created it.
Release(p) ==
  /\ step[p] \in {"done", "failed"}
  /\ lock' = NoLaunch
  /\ lockOld' = FALSE
  /\ step' = [step EXCEPT ![p] = "idle"]
  /\ reached' = [reached EXCEPT ![p] = IF step[p] = "done" THEN call[p]
                                       ELSE AfterFailure(call[p])]
  /\ UNCHANGED <<file, call, draft, argsOf>>

Crash(p) ==
  /\ step[p] \notin {"idle", "crashed"}
  /\ Cardinality(Crashed) < MaxCrashes
  /\ step' = [step EXCEPT ![p] = "crashed"]
  /\ draft' = [draft EXCEPT ![p] = EmptyRecord]
  /\ UNCHANGED <<file, lock, lockOld, call, reached, argsOf>>

LockAges ==
  /\ lock \in Crashed
  /\ ~lockOld
  /\ lockOld' = TRUE
  /\ UNCHANGED <<file, lock, step, call, draft, reached, argsOf>>

Next ==
  \/ \E p \in Launches :
       \/ Reuse(p)
       \/ \E c \in Calls : Ask(p, c)
       \/ TakeLock(p)
       \/ FindStale(p)
       \/ BreakLock(p)
       \/ GiveUp(p)
       \/ Mutate(p)
       \/ WriteFails(p)
       \/ Rename(p)
       \/ Release(p)
       \/ Crash(p)
  \/ LockAges

Spec == Init /\ [][Next]_vars

-----------------------------------------------------------------------------
(* What the store must do                                                  *)

\* The variables keep their types, and the history its bound.
TypeOK ==
  /\ file \in Records
  /\ Len(file.history) <= HistoryCap
  /\ lock \in Launches \union {NoLaunch}
  /\ lockOld \in BOOLEAN
  /\ step \in [Launches -> Steps]
  /\ call \in [Launches -> Calls]
  /\ draft \in [Launches -> Records]
  /\ reached \in [Launches -> Reached]
  /\ argsOf \in [Launches -> Args]

\* At most one process at a time reads, changes and replaces the record.
OneWriter == \A p, q \in Inside : p = q

\* A profile is the last known good only with every check on record in order,
\* and only if its own launch had passed all of them: no launch promotes the
\* candidate of another one that began in the meantime.
ActiveWasVerified ==
  file.active # NoProfile =>
    /\ file.active.events = Ladder
    /\ reached[file.active.id] \in {"performance_verified", "active", "revoked"}

\* "Ordinary candidate failures must keep the LKG": the active profile is only
\* replaced by a candidate that passed every check, or revoked itself.
LastKnownGoodKept == [][KeepsLastKnownGood(file, file')]_file

\* "Append-only in observations": no update drops an observation of a profile
\* that stays in the record.
ObservationsAppendOnly == [][KeepsObservations(file, file')]_file

\* Lock file, read, rename and release by many processes act like one call
\* after the other on one record.
Ledger == INSTANCE ProfileLedger WITH record <- file
ImplementsLedger == Ledger!Spec
=============================================================================
