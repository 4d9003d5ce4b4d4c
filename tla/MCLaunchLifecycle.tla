------------------------ MODULE MCLaunchLifecycle -------------------------
(* The launch lifecycle in two settings, chosen at the start of a behaviour: as *)
(* the constants say, with Claude sessions and kills, and a quiet one, without  *)
(* either and without experts, where what a revocation promises must hold.     *)
EXTENDS LaunchLifecycle

VARIABLE quiet
launchVars == <<vars, quiet>>

Quiet == INSTANCE LaunchLifecycle WITH MoE <- FALSE, ClaudeCode <- FALSE, Faults <- FALSE

LaunchesInit == Init /\ quiet \in BOOLEAN
LaunchesNext ==
  \/ ~quiet /\ Next /\ UNCHANGED quiet
  \/ quiet /\ Quiet!Next /\ UNCHANGED quiet

LaunchesSpec ==
  LaunchesInit /\ [][LaunchesNext]_launchVars /\ WF_launchVars(stage \in Working /\ LaunchesNext)

\* An argv that ran out of memory since it last passed its canaries is not trusted
\* again: a launch does not replay its verified config, and its canaries are not
\* skipped, even if a fresh plan comes to it again.
ServedNotTrusted ==
  [][quiet => /\ Quiet!Launch => ~(source' = "verified" /\ argv' \in condemned)
              /\ Reuse => argv \notin condemned]_vars
=============================================================================
