---------------------------- MODULE MCSupervision ----------------------------
(* The two ways ggrun keeps a backend: under the control daemon, or in the     *)
(* foreground under its watches. A process does one of them, chosen at start.  *)
EXTENDS Daemon, BackendWatch

VARIABLE scene
allVars == <<allDaemonVars, watchVars, scene>>

Init == /\ ProcInit /\ DaemonInit /\ WatchInit
        /\ scene \in {"daemon", "launch"}

DaemonStep == scene = "daemon" /\ DaemonNext /\ UNCHANGED <<watchVars, scene>>
LaunchStep == scene = "launch" /\ WatchNext /\ UNCHANGED <<allDaemonVars, scene>>
Next == DaemonStep \/ LaunchStep

Fairness == /\ scene = "daemon" => DaemonFairness
            /\ scene = "launch" => WatchFairness
Spec == Init /\ [][Next]_allVars /\ Fairness

TypeOK == ProcTypeOK /\ DaemonTypeOK /\ WatchTypeOK
=============================================================================
