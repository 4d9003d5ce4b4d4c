---------------------------- MODULE MemoryRecovery ----------------------------
(* What a launch has learnt about its plans (launchMemoryRecovery), shared by  *)
(* all its admissions. A plan is a strategy with its command line. Contexts    *)
(* are the subject of ContextLimits.                                           *)
EXTENDS Naturals

CONSTANTS
  Plans,
  Drafting,  \* the plans with a speculative companion
  NoPlan

ASSUME PlanAssumption == Drafting \subseteq Plans /\ NoPlan \notin Plans

newLaunchMemoryRecovery ==
  [rejected |-> {}, method |-> "other", disproved |-> FALSE, proven |-> NoPlan]

reject(r, p) == [r EXCEPT !.rejected = @ \union {p}]
isRejected(r, p) == p \in r.rejected

noteMeasuredReplan(r, p) == [r EXCEPT !.proven = p, !.method = "measured"]

CanRestore(r, refused) ==
  /\ r.proven # NoPlan /\ r.method = "measured"
  /\ refused # r.proven /\ ~isRejected(r, r.proven)

\* restoreAfterRefusedReplan, which answers r.proven.
Restored(r, refused) ==
  [reject(r, refused) EXCEPT !.disproved = TRUE, !.proven = NoPlan, !.method = "other"]

\* Two planned recoveries that were refused one after the other disprove the
\* planner: recoverPreflightOOM.
BeforeRecovery(r) == [r EXCEPT !.disproved = @ \/ r.method = "planner"]

\* What it answers for a plan that did not fit: one from a planner, or with a
\* shorter context, which both read the request, or the same command line with
\* less in it.
Recoveries(r, p) ==
  [method : IF r.disproved THEN {"other"} ELSE {"planner", "other"}, plan : Plans \ {p}]

\* After it, with the method it used. A proven plan counts only as long as a
\* measured re-plan is the last thing that was tried.
Recovered(r, m) == [BeforeRecovery(r) EXCEPT !.method = m, !.proven = NoPlan]
=============================================================================
