---------------------------- MODULE MCMaintenance ----------------------------
(* The commands that keep an installation up to date: ggrun update, in the      *)
(* order of its parts (the generic backends, a registered fork, ggrun itself),  *)
(* and ggrun tune; and the sessions of Claude Code that it records. A behaviour  *)
(* shows one of them, chosen at its start: they share no file.                  *)
EXTENDS BuildPromotion, BackendBuilds, SelfUpdate, Autotuner, ClaudeSessions

VARIABLE part
maintenanceVars == <<promotionVars, buildVars, selfVars, tunerVars, sessionVars, part>>

Init ==
  /\ part \in {"generic", "fork", "self", "tune", "sessions"}
  /\ PromotionInit /\ BuildsInit /\ SessionsInit
  /\ IF part = "self" THEN SelfInit ELSE SelfInit /\ busy
  /\ IF part = "tune" THEN TunerInit ELSE TunerInit /\ agents /\ planned = 0

GenericStep == part = "generic" /\ PromotionNext /\ UNCHANGED <<buildVars, selfVars, tunerVars, sessionVars, part>>
ForkStep == part = "fork" /\ BuildsNext /\ UNCHANGED <<promotionVars, selfVars, tunerVars, sessionVars, part>>
SelfStep == part = "self" /\ SelfNext /\ UNCHANGED <<promotionVars, buildVars, tunerVars, sessionVars, part>>
TuneStep == part = "tune" /\ TunerNext /\ UNCHANGED <<promotionVars, buildVars, selfVars, sessionVars, part>>
SessionStep ==
  part = "sessions" /\ SessionsNext /\ UNCHANGED <<promotionVars, buildVars, selfVars, tunerVars, part>>
Next == GenericStep \/ ForkStep \/ SelfStep \/ TuneStep \/ SessionStep

Spec == Init /\ [][Next]_maintenanceVars
=============================================================================
