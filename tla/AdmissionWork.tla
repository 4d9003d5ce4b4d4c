---------------------------- MODULE AdmissionWork ----------------------------
(* What one admission may spend (admissionWork): starts that read the weights, *)
(* and a window of time. Values of it are records; its methods are operators.  *)
EXTENDS Naturals

CONSTANTS
  StartLoads,       \* maxStartAdmissionLoads
  BoundedLoads,     \* maxBoundedAdmissionLoads
  ConvergingLoads,  \* maxConvergingAdmissionLoads
  Window            \* the window, in starts that use all the time they may

ASSUME WorkAssumption ==
  /\ StartLoads \in Nat \ {0} /\ BoundedLoads \in Nat \ {0}
  /\ ConvergingLoads \in Nat /\ Window \in Nat \ {0}

Modes == {"start", "challenger", "restore"}
BaseLoads(mode) == IF mode = "start" THEN StartLoads ELSE BoundedLoads

newAdmissionWork(mode) ==
  [loads |-> 0, maxLoads |-> BaseLoads(mode), converging |-> 0, granted |-> FALSE, left |-> Window,
   oracleRuns |-> FALSE]

grantConvergingLoad(w) ==
  IF w.converging >= ConvergingLoads THEN w
  ELSE [w EXCEPT !.converging = @ + 1, !.maxLoads = @ + 1]

\* The start that the probes were for, although they used the allowance up.
grantAdmittedStart(w) ==
  IF w.granted THEN w
  ELSE [w EXCEPT !.granted = TRUE, !.maxLoads = IF w.loads >= @ THEN w.loads + 1 ELSE @]

\* beginLoad: refused for the number of starts, or because the window is over.
CountLeft(w) == w.loads < w.maxLoads
MayBegin(w) == CountLeft(w) /\ w.left > 0

\* What is left of the window after a start that took some of it.
Begun(w) == {[w EXCEPT !.loads = @ + 1, !.left = l] : l \in {w.left - 1, w.left}}

loadedWeights(w) == w.loads > 0
=============================================================================
