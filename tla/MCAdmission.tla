----------------------------- MODULE MCAdmission -----------------------------
(* How a main model gets onto the machine: the admission loop, what it learns  *)
(* of contexts, the guard that its probe allocates under, and the experiment   *)
(* on what serves. A behaviour shows one of them, chosen at its start: they    *)
(* share no state but the rejected plans.                                      *)
EXTENDS StartAdmission, ContextLimits, MemGuard, Calibration

VARIABLE scene
allVars == <<admissionVars, contextVars, guardVars, calibrationVars, scene>>

Init ==
  /\ scene \in {"start", "context", "guard", "experiment"}
  /\ IF scene = "start" THEN AdmissionInit ELSE AdmissionInit /\ plan \in Drafting /\ ~consent /\ ~oracle
  /\ IF scene = "context" THEN ContextInit ELSE ContextInit /\ ctx = 1
  /\ GuardInit
  /\ IF scene = "experiment" THEN CalibrationInit ELSE CalibrationInit /\ auto /\ todo = 1

StartStep == scene = "start" /\ AdmissionNext /\ UNCHANGED <<contextVars, guardVars, calibrationVars, scene>>
ContextStep == scene = "context" /\ ContextNext /\ UNCHANGED <<admissionVars, guardVars, calibrationVars, scene>>
ExperimentStep == scene = "experiment" /\ CalibrationNext /\ UNCHANGED <<admissionVars, contextVars, guardVars, scene>>
GuardStep == scene = "guard" /\ GuardNext /\ UNCHANGED <<admissionVars, contextVars, calibrationVars, scene>>
Next == StartStep \/ ContextStep \/ GuardStep \/ ExperimentStep

Spec == Init /\ [][Next]_allVars /\ (scene = "start" => AdmissionFairness)

\* Every admission of a launch ends, whatever preflight, planner and backend
\* answer: nothing makes its loop run for ever.
EveryAdmissionEnds == scene = "start" => AdmissionEnds
=============================================================================
