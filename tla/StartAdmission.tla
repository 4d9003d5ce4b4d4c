---------------------------- MODULE StartAdmission ----------------------------
(* The one way a main model is started (startLaunchWithCUDAOOMRecoveryState-   *)
(* Mode): a plan is measured before its load, replaced while it does not fit,  *)
(* loaded when it does, and replaced again when the load runs out of memory;   *)
(* for a launch ("start"), for an exact candidate of an experiment             *)
(* ("challenger") and to bring back what served before ("restore").            *)
EXTENDS AdmissionWork, MemoryRecovery

CONSTANTS
  MaxReplans,     \* maxPreflightReplans
  MaxConverging,  \* maxConvergingReplans
  MaxRetries,     \* maxRetries of production starts
  MaxAdmissions   \* admissions in a behaviour

ASSUME AdmissionAssumption == {MaxReplans, MaxConverging, MaxRetries, MaxAdmissions} \subseteq Nat

VARIABLES
  mode, pc,
  plan,          \* strategy and serverArgs
  work, rec,     \* admissionWork and launchMemoryRecovery
  replans, converging, retries,
  shrinking,     \* lastPreflightDeficitMB: a deficit has been seen
  specOff,       \* specDisabled
  consent,       \* req.AllowLiveMemoryProbe
  oracle,        \* the backend has a memory oracle (fitBin)
  admitted,      \* admittedArgv
  raised, base,  \* ubatchRaisedArgs and raiseBaseArgs
  result,        \* what it returned
  count          \* admissions so far, of this process and of the one before it

progress == <<replans, converging, retries, shrinking>>
offers == <<specOff, admitted, raised, base>>
host == <<consent, oracle, count>>
admissionVars == <<mode, pc, plan, work, rec, progress, offers, host, result>>

\* An exactAdmissionFailure, and what else an admission may return.
ExactFailures == {"spec", "compat", "companion", "memory", "mmap", "cuda-oom"}
Locals(p, m) ==
  /\ work' = newAdmissionWork(m) /\ plan' = p
  /\ replans' = 0 /\ converging' = 0 /\ retries' = 0 /\ shrinking' = FALSE
  /\ specOff' = FALSE /\ admitted' = NoPlan /\ raised' = NoPlan /\ base' = NoPlan

Admission(m, p, r) ==
  /\ mode' = m /\ pc' = "top" /\ result' = "running" /\ rec' = r
  /\ Locals(p, m)

AdmissionInit ==
  /\ mode = "start" /\ plan \in Plans /\ pc = "top" /\ result = "running"
  /\ work = newAdmissionWork("start") /\ rec = newLaunchMemoryRecovery
  /\ replans = 0 /\ converging = 0 /\ retries = 0 /\ shrinking = FALSE
  /\ specOff = FALSE /\ admitted = NoPlan /\ raised = NoPlan /\ base = NoPlan
  /\ consent \in BOOLEAN /\ oracle \in BOOLEAN /\ count = 1

Exact == mode = "challenger"
MayRetry == mode = "restore" \/ ~isRejected(rec, plan)

\* Every return passes a deferred function that adds what was spent to what the
\* launch knows: for the first admission, whether the oracle ran and no weights
\* were read (shouldReplanFromLearnedEvidence).
Ends(res, w, r) ==
  /\ pc' = "over" /\ rec' = r
  /\ result' = IF res = "unresolved" /\ count = 1 /\ w.oracleRuns /\ ~loadedWeights(w)
                 THEN "replannable" ELSE res
  /\ Locals(plan, mode)
  /\ UNCHANGED <<mode, host>>

\* Back to the head of the loop, with another plan.
Again(p, w, r) ==
  /\ pc' = "top" /\ plan' = p /\ work' = w /\ rec' = r
  /\ UNCHANGED <<mode, host, result>>

\* placement.Compute with the options of this admission.
Computed == {p \in Plans : specOff' => p \notin Drafting}

-----------------------------------------------------------------------------
(* The head of the loop.                                                    *)

Refuses ==
  /\ pc = "top" /\ ~MayRetry
  /\ Ends("rejected", work, rec)

\* Verified with these arguments, or verification is over.
Enter ==
  /\ pc = "top" /\ MayRetry
  /\ pc' = "preflight"
  /\ UNCHANGED <<mode, plan, work, rec, progress, offers, host, result>>

\* The drafting profile was verified with other arguments: planned without it.
SpecMismatch ==
  /\ pc = "top" /\ MayRetry /\ ~specOff /\ plan \in Drafting
  /\ \/ Exact /\ Ends("spec", work, rec)
     \/ ~Exact /\ Ends("refused", work, rec)
     \/ /\ ~Exact
        /\ specOff' = TRUE /\ UNCHANGED <<admitted, raised, base, progress>>
        /\ \E p \in Computed : Again(p, work, rec)

-----------------------------------------------------------------------------
(* preflightPlacement. It runs the oracle, or what was measured before is      *)
(* reused, or the backend is started once in a container.                     *)

Oracled == [work EXCEPT !.oracleRuns = TRUE]

\* The work after a measurement, and what it measured.
Measurements ==
  (IF oracle THEN {[w |-> Oracled, level |-> "planned"]} ELSE {})
  \union {[w |-> work, level |-> "allocated"]}
  \union (IF MayBegin(work) THEN [w : Begun(work), level : {"allocated"}] ELSE {})
  \union (IF MayBegin(work) /\ consent THEN [w : Begun(work), level : {"planned"}] ELSE {})

\* Neither oracle nor cached evidence, and no load left for a probe.
ProbeRefused ==
  /\ pc = "preflight" /\ ~MayBegin(work)
  /\ Ends("budget", work, rec)

\* A live probe needs consent, once.
Consents ==
  /\ pc = "preflight" /\ ~consent
  /\ \/ Ends("refused", work, rec)
     \/ /\ consent' = TRUE /\ pc' = "top"
        /\ UNCHANGED <<mode, plan, work, rec, progress, offers, oracle, count, result>>

\* Not memory: an error that no change of flags helps.
FailsClosed ==
  /\ pc = "preflight"
  /\ \E m \in Measurements : m.level = "allocated" /\ Ends("refused", m.w, rec)

\* The backend refuses a flag or a cache type: removed and planned again, unless
\* it is the user's or nothing would change.
Adjusts ==
  /\ pc = "preflight"
  /\ \E m \in Measurements :
       \/ Exact /\ Ends("compat", m.w, rec)
       \/ ~Exact /\ Ends("refused", m.w, rec)
       \/ /\ ~Exact /\ replans < MaxReplans /\ replans' = replans + 1
          /\ UNCHANGED <<converging, retries, shrinking, offers>>
          /\ \E p \in Computed \ {plan} : Again(p, m.w, rec)

\* The companion cannot be loaded or does not fit beside a target that does.
CompanionRejected ==
  /\ pc = "preflight" /\ oracle /\ plan \in Drafting
  /\ \/ Exact /\ Ends("companion", Oracled, rec)
     \/ ~Exact /\ Ends("refused", Oracled, rec)
     \/ /\ ~Exact
        /\ specOff' = TRUE /\ UNCHANGED <<admitted, raised, base, progress>>
        /\ \E p \in Computed : Again(p, Oracled, rec)

MutDoesNotFit ==
  /\ pc = "preflight"
  /\ \E m \in Measurements :
       LET r == reject(rec, plan) IN
       \/ /\ CanRestore(rec, plan) /\ UNCHANGED <<progress, offers>>
          /\ Again(rec.proven, m.w, Restored(rec, plan))
       \/ /\ ~Exact
          /\ \/ shrinking /\ UNCHANGED <<replans, converging>>
             \/ replans < MaxReplans /\ replans' = replans + 1 /\ UNCHANGED converging
          /\ shrinking' = TRUE /\ UNCHANGED <<retries, offers>>
          /\ \E c \in Recoveries(BeforeRecovery(rec), plan) : Again(c.plan, m.w, Recovered(rec, c.method))

\* It does not fit. A measured re-plan gives way to the plan it replaced; else the
\* plan is rejected, and recovered from while re-plans are left. One that shrinks
\* the deficit by a fifth is not counted, a limited number of times, and buys
\* another load.
DoesNotFit ==
  /\ pc = "preflight"
  /\ \E m \in Measurements :
       LET r == reject(rec, plan)
           better == shrinking /\ converging < MaxConverging IN
       \/ /\ CanRestore(rec, plan) /\ UNCHANGED <<progress, offers>>
          /\ Again(rec.proven, m.w, Restored(rec, plan))
       \/ ~CanRestore(rec, plan) /\ Exact /\ Ends("memory", m.w, r)
       \/ ~CanRestore(rec, plan) /\ ~Exact /\ Ends("unresolved", m.w, r)
       \/ /\ ~CanRestore(rec, plan) /\ ~Exact /\ replans < MaxReplans
          /\ shrinking' = TRUE /\ UNCHANGED <<retries, offers>>
          /\ \E c \in Recoveries(BeforeRecovery(r), plan) :
               \/ /\ better /\ converging' = converging + 1 /\ UNCHANGED replans
                  /\ Again(c.plan, grantConvergingLoad(m.w), Recovered(r, c.method))
               \/ /\ replans' = replans + 1 /\ UNCHANGED converging
                  /\ Again(c.plan, m.w, Recovered(r, c.method))

\* A plan that is to be served as it is is not computed again: an exact one, a
\* verified or a raised one, any after the planner was disproved.
Final == Exact \/ raised = plan \/ rec.disproved

\* It fits. admittedArgv is what the last passing probe measured.
Fits ==
  /\ pc = "preflight"
  /\ \E m \in Measurements :
       /\ work' = m.w
       /\ admitted' = IF m.level = "allocated" THEN plan ELSE admitted
  /\ pc' \in (IF Final THEN {"start"} ELSE {"start", "place"})
  /\ UNCHANGED <<mode, plan, rec, progress, specOff, raised, base, host, result>>

\* No contained probe on this system: production is measured instead.
ProbeUnavailable ==
  /\ pc = "preflight" /\ ~oracle /\ pc' = "start"
  /\ UNCHANGED <<mode, plan, work, rec, progress, offers, host, result>>

-----------------------------------------------------------------------------
(* What backend measurements make of a plan that fits.                      *)

\* Planned again with them. The plan stays when nothing changes, when the new one
\* was rejected, takes back relief or gains too little, or when the re-plans are
\* used up and this plan was measured.
Stays ==
  /\ pc = "place" /\ pc' = "start"
  /\ UNCHANGED <<mode, plan, work, rec, progress, offers, host, result>>

Unfixed ==
  /\ pc = "place"
  /\ \/ Ends("refused", work, rec)
     \/ admitted # plan /\ replans >= MaxReplans /\ Ends("unresolved", work, rec)

Replans ==
  /\ pc = "place" /\ replans < MaxReplans
  /\ replans' = replans + 1 /\ UNCHANGED <<converging, retries, shrinking, offers>>
  /\ \E p \in Computed \ {plan} :
       ~isRejected(rec, p) /\ Again(p, work, noteMeasuredReplan(rec, plan))

\* Once, a plan the oracle has measured: a larger microbatch that its accounting
\* carries, for this plan or one that was admitted before it.
Raises ==
  /\ pc = "start" /\ ~Exact /\ oracle /\ raised = NoPlan
  /\ UNCHANGED <<progress, specOff, admitted>>
  /\ \/ raised' = plan /\ UNCHANGED <<mode, pc, plan, work, rec, base, host, result>>
     \/ \E p \in Plans \ {plan} :
          /\ ~isRejected(rec, p) /\ (p \in Drafting <=> plan \in Drafting)
          /\ base' = plan /\ raised' = p /\ Again(p, work, rec)

-----------------------------------------------------------------------------
(* The production start.                                                    *)

\* The host cannot contain it, or the user does not want what it needs.
Unsafe ==
  /\ pc = "start"
  /\ Ends("refused", work, rec)

\* The start that was admitted is due even if probes have used the loads up.
Allowance == IF admitted = plan THEN grantAdmittedStart(work) ELSE work

StartRefused ==
  /\ pc = "start" /\ ~MayBegin(Allowance)
  /\ Ends("budget", Allowance, rec)

Loads(w) == pc = "start" /\ MayBegin(Allowance) /\ w \in Begun(Allowance)
Starts == Begun(work) \union Begun(grantAdmittedStart(work))

Serves == \E w \in Starts : Loads(w) /\ Ends("served", w, rec)

\* It fails for another reason, once too often, or its memory is not released.
FailsToStart == \E w \in Starts : Loads(w) /\ Ends("refused", w, rec)

\* It runs, but its pages are not where the plan has them.
Contradicted ==
  \E w \in Starts :
    /\ Loads(w)
    /\ LET r == reject(rec, plan) IN
       \/ Exact /\ Ends("mmap", w, r)
       \/ ~Exact /\ Ends("refused", w, r)
       \/ /\ ~Exact /\ replans < MaxReplans /\ replans' = replans + 1
          /\ UNCHANGED <<converging, retries, shrinking, offers>>
          /\ \E p \in Computed : Again(p, w, r)

MutOutOfMemory ==
  /\ retries < MaxRetries
  /\ \E w \in Starts :
       /\ Loads(w) /\ ~Exact
       /\ retries' = retries + 1 /\ work' = w /\ rec' = reject(rec, plan)
       /\ UNCHANGED <<mode, pc, plan, replans, converging, shrinking, offers, host, result>>

\* A device ran out of memory, during the load or in warmup. A raised plan goes
\* back to its base; another is planned again, or derated.
OutOfMemory ==
  /\ retries < MaxRetries
  /\ \E w \in Starts :
       /\ Loads(w)
       /\ LET r == reject(rec, plan) IN
          \/ Exact /\ Ends("cuda-oom", w, r)
          \/ ~Exact /\ Ends("refused", w, r)
          \/ /\ ~Exact
             /\ retries' = retries + 1 /\ UNCHANGED <<replans, converging, shrinking, specOff, admitted, raised>>
             /\ \/ /\ base # NoPlan /\ raised = plan /\ ~isRejected(r, base)
                   /\ base' = NoPlan /\ Again(base, w, r)
                \/ UNCHANGED base /\ \E p \in Computed \ {plan} : Again(p, w, r)

-----------------------------------------------------------------------------
(* The launch around its admissions.                                        *)

\* The process runs itself again, once, to plan from what the oracle measured.
StartsOver ==
  /\ pc = "over" /\ result = "replannable" /\ count < MaxAdmissions /\ count' = count + 1
  /\ \E p \in Plans : Admission("start", p, newLaunchMemoryRecovery)
  /\ UNCHANGED <<consent, oracle>>

\* A promoted plan, an exact candidate, a restoration, a retry the advisor
\* proposed: with what the launch has learnt so far.
NextAdmission ==
  /\ pc = "over" /\ count < MaxAdmissions /\ count' = count + 1
  /\ \E m \in Modes, p \in Plans :
       /\ m # "start" => result \in {"served"} \union ExactFailures
       /\ Admission(m, p, rec)
  /\ UNCHANGED <<consent, oracle>>

Preflights ==
  \/ ProbeRefused \/ Consents \/ FailsClosed \/ Adjusts \/ CompanionRejected
  \/ DoesNotFit \/ Fits \/ ProbeUnavailable

Loops ==
  \/ Refuses \/ Enter \/ SpecMismatch \/ Preflights
  \/ Stays \/ Unfixed \/ Replans \/ Raises
  \/ Unsafe \/ StartRefused \/ Serves \/ Contradicted \/ FailsToStart \/ OutOfMemory

AdmissionNext == Loops \/ StartsOver \/ NextAdmission

\* The loop is sequential code: it goes on while it can.
AdmissionFairness == WF_admissionVars(Loops)

-----------------------------------------------------------------------------
\* An admission ends.
AdmissionEnds == pc # "over" ~> pc = "over"

\* A plan that this launch has rejected is not loaded again, whichever of the
\* planners proposes it: a plan is loaded from "start", and never a rejected one
\* but to bring back what served.
NeverRejectedAgain == pc = "start" /\ mode # "restore" => ~isRejected(rec, plan)

=============================================================================
