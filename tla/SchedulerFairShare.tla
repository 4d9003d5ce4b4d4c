-------------------------- MODULE SchedulerFairShare --------------------------
(***************************************************************************)
(* The promise of fair share (go/pkg/claudeauto/scheduler.go:20-21 and     *)
(* 40-41): a waiting request stands behind at most one turn of every other *)
(* conversation, however many requests that conversation has queued.       *)
(*                                                                         *)
(* The scheduler of module Scheduler, observed: history variables count,   *)
(* for every parked client, the turns that other conversations complete    *)
(* while it is parked and its own conversation has none.                   *)
(***************************************************************************)
EXTENDS Scheduler

CONSTANT MaxTurns     \* bounds the counters; more turns than this look alike

VARIABLES
  agedIn,      \* the client was granted its slot after it had aged
  turns,       \* turns[c][k]: turns of conversation k that c sat through
  fairTurns    \* those of them that aging did not bring forward

history == <<agedIn, turns, fairTurns>>

NoTurns == [k \in Conversations |-> 0]

ObservedInit ==
  /\ Init
  /\ agedIn = [c \in Clients |-> FALSE]
  /\ turns = [c \in Clients |-> NoTurns]
  /\ fairTurns = [c \in Clients |-> NoTurns]

\* A turn of client d ends: the parked clients of other conversations sat
\* through it, those of its own conversation start waiting anew.
Counted(counts, d, counts_it) ==
  LET k == request[d].conversation
      seen(c) == IF stage[c] # "queued" \/ k = NoConversation THEN counts[c]
                 ELSE IF request[c].conversation = k THEN NoTurns
                 ELSE IF counts_it /\ counts[c][k] < MaxTurns
                 THEN [counts[c] EXCEPT ![k] = @ + 1] ELSE counts[c]
  IN  [c \in Clients |-> seen(c)]

ObservedRelease(d) ==
  /\ Release(d)
  /\ turns' = Counted(turns, d, TRUE)
  /\ fairTurns' = Counted(fairTurns, d, ~agedIn[d])
  /\ agedIn' = [agedIn EXCEPT ![d] = FALSE]

ObservedPromote ==
  /\ PromoteBest
  /\ \E c \in Holders' \ Holders :
       /\ agedIn' = [agedIn EXCEPT ![c] = age[c] >= AgingAfter]
       /\ turns' = [turns EXCEPT ![c] = NoTurns]
       /\ fairTurns' = [fairTurns EXCEPT ![c] = NoTurns]

ObservedCancel(c) ==
  /\ CancelQueued(c) \/ CancelGranted(c)
  /\ agedIn' = [agedIn EXCEPT ![c] = FALSE]
  /\ turns' = [turns EXCEPT ![c] = NoTurns]
  /\ fairTurns' = [fairTurns EXCEPT ![c] = NoTurns]

ObservedNext ==
  \/ \E c \in Clients : ObservedRelease(c) \/ ObservedCancel(c)
  \/ ObservedPromote
  \/ /\ \/ \E c \in Clients : Acquire(c) \/ Resume(c) \/ MarkDecode(c)
        \/ PromoteDone
        \/ Tick
     /\ UNCHANGED history

ObservedSpec == ObservedInit /\ [][ObservedNext]_<<vars, history>>

\* What is left of that promise once agingAfter has brought requests forward:
\* turns that aging did not grant still come once per conversation, however
\* the turns expire, overlap the window or are given up.
WaitsOneFairTurnEach ==
  \A c \in Queued, k \in Conversations : fairTurns[c][k] <= 1
=============================================================================
