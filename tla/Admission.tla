------------------------------ MODULE Admission ------------------------------
(***************************************************************************)
(* What the scheduler promises to the main model, with no queue and no     *)
(* counters: who is asking, who holds a slot, whose prompt is being        *)
(* prefilled, and when one more may come in.  Module Scheduler implements  *)
(* it (SchedulerProofs!SchedulerImplementsAdmission).                      *)
(***************************************************************************)
EXTENDS Integers, FiniteSets

CONSTANTS Clients, Limit, PhaseAware

VARIABLES
  asking,    \* clients waiting for a slot
  holding,   \* clients that have one
  filling,   \* those of them whose prompt is being evaluated
  cold       \* those asking or holding whose prompt is long and unknown

avars == <<asking, holding, filling, cold>>

TypeOK ==
  /\ asking \subseteq Clients
  /\ holding \subseteq Clients
  /\ filling \subseteq holding
  /\ cold \subseteq asking \union holding

Init == asking = {} /\ holding = {} /\ filling = {} /\ cold = {}

\* One more client may come in.
Room(isCold) ==
  /\ Cardinality(holding) < Limit
  /\ PhaseAware => IF isCold THEN holding = {} ELSE filling = {}

Marked(c, isCold) == IF isCold THEN cold \union {c} ELSE cold

Ask(c, isCold) ==
  /\ c \notin asking \union holding
  /\ asking' = asking \union {c}
  /\ cold' = Marked(c, isCold)
  /\ UNCHANGED <<holding, filling>>

\* A client that asked comes in, or one that had no need to ask.
Enter(c, isCold) ==
  /\ c \notin holding
  /\ c \in asking => (isCold <=> c \in cold)
  /\ Room(isCold)
  /\ asking' = asking \ {c}
  /\ holding' = holding \union {c}
  /\ cold' = Marked(c, isCold)
  /\ \/ filling' = filling
     \/ PhaseAware /\ filling' = filling \union {c}

GiveUp(c) ==
  /\ c \in asking
  /\ asking' = asking \ {c}
  /\ cold' = cold \ {c}
  /\ UNCHANGED <<holding, filling>>

Decode(c) ==
  /\ c \in filling
  /\ filling' = filling \ {c}
  /\ UNCHANGED <<asking, holding, cold>>

Exit(c) ==
  /\ c \in holding
  /\ holding' = holding \ {c}
  /\ filling' = filling \ {c}
  /\ cold' = cold \ {c}
  /\ UNCHANGED asking

Next ==
  \E c \in Clients :
    \/ \E isCold \in BOOLEAN : Ask(c, isCold) \/ Enter(c, isCold)
    \/ GiveUp(c)
    \/ Decode(c)
    \/ Exit(c)

Spec == Init /\ [][Next]_avars
=============================================================================
