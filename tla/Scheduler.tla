------------------------------ MODULE Scheduler ------------------------------
(***************************************************************************)
(* The admission scheduler in front of the main model                      *)
(* (go/pkg/claudeauto/scheduler.go).                                       *)
(*                                                                         *)
(* Every HTTP handler goroutine that wants the main model is a client.  It *)
(* either takes a slot at once or parks in the queue "waiting" until       *)
(* promoteLocked hands it one; its context may end while it is parked, or  *)
(* in the window between being promoted and being scheduled again.         *)
(*                                                                         *)
(* Critical sections of scheduler.mu are atomic, except that the loop of   *)
(* promoteLocked is one step per admitted waiter: "promoting" holds the    *)
(* mutex from the call that enters the loop until the loop ends.           *)
(*                                                                         *)
(* Time is a number of ticks.  Only two distances matter to the code (the  *)
(* age of a waiter against agingAfter and the age of a turn against        *)
(* fairShareWindow), so ages saturate just past them and no clock grows.   *)
(* The exact order of enqueue times is the order of "waiting"; the exact   *)
(* order of the times in the map "recent" is the order of "served".        *)
(***************************************************************************)
EXTENDS Integers, Sequences, FiniteSets, SequencesExt

CONSTANTS
  Clients,          \* handler goroutines that may ask for the main model
  Conversations,    \* conversation keys that identify a conversation
  NoConversation,   \* the empty conversation key
  Lanes,            \* the lanes laneOf may give a request
  PromptSizes,      \* estimated prompt sizes a request may have
  Limit,            \* scheduler.limit: physical slots
  PhaseAware,       \* scheduler.phaseAware
  ColdTokens,       \* scheduler.coldTokens
  AgingAfter,       \* agingAfter, in ticks
  FairShareWindow,  \* fairShareWindow, in ticks
  RecentCap         \* the number of entries pruneRecentLocked keeps (256)

\* laneOf only ever returns LaneSafety or LaneBulk; LaneInteractive is reached
\* by aging alone.
LaneRank == [safety |-> 0, interactive |-> 1, bulk |-> 2]

ASSUME ClientsAssumption == IsFiniteSet(Clients)
ASSUME ConversationsAssumption ==
  IsFiniteSet(Conversations) /\ NoConversation \notin Conversations
ASSUME LanesAssumption == Lanes \subseteq {"safety", "bulk"}
ASSUME SizesAssumption == PromptSizes \subseteq Nat
ASSUME LimitAssumption == Limit \in Nat \ {0}
\* setPhaseAware ignores the request for a phase-aware policy on one slot.
ASSUME PhaseAwareAssumption == PhaseAware \in BOOLEAN /\ (PhaseAware => Limit > 1)
ASSUME ColdAssumption == ColdTokens \in Nat \ {0}
ASSUME TimeAssumption == AgingAfter \in Nat /\ FairShareWindow \in Nat
ASSUME CapAssumption == RecentCap \in Nat \ {0}

VARIABLES
  stage,         \* where each client's handler is
  request,       \* what it asked for: conversation, lane, prompt size, class
  waiting,       \* scheduler.waiting
  age,           \* how long each queued client has been waiting
  active,        \* scheduler.active
  prefill,       \* scheduler.prefill
  prefilling,    \* admission.prefilling of each admitted client
  served,        \* keys of scheduler.recent, least recently served first
  servedAge,     \* how long ago each of them was served
  promptTokens,  \* scheduler.promptTokens (0: no entry)
  promoting      \* scheduler.mu is held by the loop of promoteLocked

vars == <<stage, request, waiting, age, active, prefill, prefilling,
          served, servedAge, promptTokens, promoting>>

Stages == {"idle", "queued", "granted", "running"}
Keys == Conversations \union {NoConversation}
Requests == [conversation : Keys, lane : Lanes, tokens : PromptSizes,
             class : {"small", "cold"}]
Forgotten == FairShareWindow + 1   \* the age of a turn no longer held against anyone

Nobody == [conversation |-> NoConversation, lane |-> "bulk", tokens |-> 0,
           class |-> "small"]      \* the request of an idle client

Queued == {c \in Clients : stage[c] = "queued"}
Holders == {c \in Clients : stage[c] \in {"granted", "running"}}
Prefillers == {c \in Holders : prefilling[c]}

-----------------------------------------------------------------------------
(* Classification and admission (classifyLocked, canAdmitLocked, admitLocked) *)

\* The size of the conversation's last completed request; 0 when unknown.
Previous(conversation) ==
  IF conversation = NoConversation THEN 0 ELSE promptTokens[conversation]

IsBoundedAppend(conversation, tokens) ==
  LET previous == Previous(conversation)
  IN  previous > 0 /\ tokens >= previous /\ tokens - previous < ColdTokens

Classify(conversation, tokens) ==
  IF \/ ~PhaseAware
     \/ tokens < ColdTokens
     \/ IsBoundedAppend(conversation, tokens)
  THEN "small" ELSE "cold"

\* Mutants: a cold prompt admitted beside a decode; an append admitted beside a
\* prefill.
MutCanAdmitCold(class) == active < Limit /\ (PhaseAware => prefill = 0)
MutCanAdmitAppend(class) == active < Limit /\ (class = "cold" => active = 0)

CanAdmit(class) ==
  /\ active < Limit
  /\ PhaseAware => IF class = "cold" THEN active = 0 ELSE prefill = 0

\* The new admission prefills unless its prompt size is unknown.
Admit(c, r) ==
  LET fills == PhaseAware /\ r.tokens > 0
  IN  /\ active' = active + 1
      /\ prefill' = IF fills THEN prefill + 1 ELSE prefill
      /\ prefilling' = [prefilling EXCEPT ![c] = fills]

-----------------------------------------------------------------------------
(* Order of the queue (sortKeyLocked, waiterKey.less,                      *)
(* bestAdmissibleWaiterLocked)                                             *)

\* Mutant: aging promotes to the front of every lane.
MutLaneAgedFirst(c) == IF age[c] >= AgingAfter THEN 0 ELSE LaneRank[request[c].lane]

Lane(c) ==
  LET rank == LaneRank[request[c].lane]
  IN  IF rank > LaneRank.interactive /\ age[c] >= AgingAfter
      THEN LaneRank.interactive ELSE rank

\* Mutant: the queue degenerates to first come, first served.
MutTurnForgotten(c) == 0

\* The rank of the last turn of the client's conversation: 0 (the zero time)
\* when it had none within the window, and the later the turn the larger.
Turn(c) ==
  LET turns == {i \in DOMAIN served : /\ served[i] = request[c].conversation
                                      /\ servedAge[served[i]] <= FairShareWindow}
  IN  IF turns = {} THEN 0 ELSE CHOOSE i \in turns : TRUE

\* waiting[i] goes before waiting[j].
Precedes(i, j) ==
  LET c == waiting[i]
      d == waiting[j]
  IN  \/ Lane(c) < Lane(d)
      \/ Lane(c) = Lane(d) /\ Turn(c) < Turn(d)
      \/ Lane(c) = Lane(d) /\ Turn(c) = Turn(d) /\ i < j

Admissible == {i \in DOMAIN waiting : CanAdmit(request[waiting[i]].class)}

IsBest(i) == i \in Admissible /\ \A j \in Admissible \ {i} : Precedes(i, j)

-----------------------------------------------------------------------------
(* Remembering turns (releaseLocked, pruneRecentLocked)                    *)

\* The order after a turn of conversation k ends.
Moved(order, k) ==
  Append(IF k \in ToSet(order)
         THEN RemoveAt(order, CHOOSE i \in DOMAIN order : order[i] = k)
         ELSE order, k)

\* The entries left by pruneRecentLocked: over the cap the expired ones go, and
\* of the others only the most recent stay.  Both are a prefix of the order.
Pruned(order, ages) ==
  IF Len(order) <= RecentCap THEN order
  ELSE LET expired == Cardinality({i \in DOMAIN order : ages[order[i]] > FairShareWindow})
           excess  == Len(order) - RecentCap
       IN  SubSeq(order, 1 + (IF expired < excess THEN excess ELSE expired), Len(order))

Remember(r) ==
  IF r.conversation = NoConversation
  THEN UNCHANGED <<served, servedAge, promptTokens>>
  ELSE LET k     == r.conversation
           ages  == [servedAge EXCEPT ![k] = 0]
           kept  == Pruned(Moved(served, k), ages)
           sizes == IF r.tokens > 0 THEN [promptTokens EXCEPT ![k] = r.tokens]
                                    ELSE promptTokens
       IN  /\ served' = kept
           /\ servedAge' = [q \in Conversations |->
                              IF q \in ToSet(kept) THEN ages[q] ELSE Forgotten]
           /\ promptTokens' = [q \in Conversations |->
                                 IF q \in ToSet(kept) THEN sizes[q] ELSE 0]

\* releaseLocked of an admission that was not released before.
GiveBack(c) ==
  /\ active' = active - 1
  /\ prefill' = IF prefilling[c] THEN prefill - 1 ELSE prefill
  /\ prefilling' = [prefilling EXCEPT ![c] = FALSE]

Leave(c) ==
  /\ stage' = [stage EXCEPT ![c] = "idle"]
  /\ request' = [request EXCEPT ![c] = Nobody]

-----------------------------------------------------------------------------
(* The operations                                                          *)

Init ==
  /\ stage = [c \in Clients |-> "idle"]
  /\ request = [c \in Clients |-> Nobody]
  /\ waiting = <<>>
  /\ age = [c \in Clients |-> 0]
  /\ active = 0
  /\ prefill = 0
  /\ prefilling = [c \in Clients |-> FALSE]
  /\ served = <<>>
  /\ servedAge = [k \in Conversations |-> Forgotten]
  /\ promptTokens = [k \in Conversations |-> 0]
  /\ promoting = FALSE

Asked(conversation, lane, tokens) ==
  [conversation |-> conversation, lane |-> lane, tokens |-> tokens,
   class |-> Classify(conversation, tokens)]

\* acquireRequest, nobody queued and the request admissible.
AcquireAtOnce(c, r) ==
  /\ ~promoting
  /\ stage[c] = "idle"
  /\ waiting = <<>>
  /\ CanAdmit(r.class)
  /\ stage' = [stage EXCEPT ![c] = "running"]
  /\ request' = [request EXCEPT ![c] = r]
  /\ Admit(c, r)
  /\ UNCHANGED <<waiting, age, served, servedAge, promptTokens, promoting>>

\* acquireRequest, otherwise: park, and look again for anyone admissible.
AcquireQueued(c, r) ==
  /\ ~promoting
  /\ stage[c] = "idle"
  /\ ~(waiting = <<>> /\ CanAdmit(r.class))
  /\ stage' = [stage EXCEPT ![c] = "queued"]
  /\ request' = [request EXCEPT ![c] = r]
  /\ waiting' = Append(waiting, c)
  /\ promoting' = TRUE
  /\ UNCHANGED <<age, active, prefill, prefilling, served, servedAge, promptTokens>>

Acquire(c) ==
  \E conversation \in Keys, lane \in Lanes, tokens \in PromptSizes :
    LET r == Asked(conversation, lane, tokens)
    IN  AcquireAtOnce(c, r) \/ AcquireQueued(c, r)

\* One iteration of promoteLocked.
PromoteBest ==
  /\ promoting
  /\ \E i \in DOMAIN waiting :
       LET c == waiting[i]
       IN  /\ IsBest(i)
           /\ stage' = [stage EXCEPT ![c] = "granted"]
           /\ age' = [age EXCEPT ![c] = 0]
           /\ Admit(c, request[c])
           /\ waiting' = RemoveAt(waiting, i)
  /\ UNCHANGED <<request, served, servedAge, promptTokens, promoting>>

\* promoteLocked returns and the mutex is released.
PromoteDone ==
  /\ promoting
  /\ Admissible = {}
  /\ promoting' = FALSE
  /\ UNCHANGED <<stage, request, waiting, age, active, prefill, prefilling,
                 served, servedAge, promptTokens>>

\* The select in acquireRequest takes the branch of the closed channel.
Resume(c) ==
  /\ stage[c] = "granted"
  /\ stage' = [stage EXCEPT ![c] = "running"]
  /\ UNCHANGED <<request, waiting, age, active, prefill, prefilling,
                 served, servedAge, promptTokens, promoting>>

\* The context ends first and the waiter is still in the queue.
CancelQueued(c) ==
  /\ ~promoting
  /\ stage[c] = "queued"
  /\ \E i \in DOMAIN waiting : waiting[i] = c /\ waiting' = RemoveAt(waiting, i)
  /\ age' = [age EXCEPT ![c] = 0]
  /\ Leave(c)
  /\ UNCHANGED <<active, prefill, prefilling, served, servedAge, promptTokens,
                 promoting>>

\* Mutant: the slot is freed but nobody is woken.
MutCancelGrantedSilent(c) ==
  /\ ~promoting
  /\ stage[c] = "granted"
  /\ GiveBack(c)
  /\ Leave(c)
  /\ UNCHANGED <<waiting, age, served, servedAge, promptTokens, promoting>>

\* The context ends after the promotion: hand the slot on, unremembered.
CancelGranted(c) ==
  /\ ~promoting
  /\ stage[c] = "granted"
  /\ GiveBack(c)
  /\ Leave(c)
  /\ promoting' = TRUE
  /\ UNCHANGED <<waiting, age, served, servedAge, promptTokens>>

\* Mutants: the first token wakes nobody; every token ends the prefill again.
MutMarkDecodeSilent(c) ==
  /\ ~promoting
  /\ stage[c] = "running"
  /\ prefilling[c]
  /\ prefilling' = [prefilling EXCEPT ![c] = FALSE]
  /\ prefill' = prefill - 1
  /\ UNCHANGED <<stage, request, waiting, age, active, served, servedAge,
                 promptTokens, promoting>>
\* admission.markDecode on the first generated token.  Later calls are no-ops.
MarkDecode(c) ==
  /\ ~promoting
  /\ stage[c] = "running"
  /\ prefilling[c]
  /\ prefilling' = [prefilling EXCEPT ![c] = FALSE]
  /\ prefill' = prefill - 1
  /\ promoting' = TRUE
  /\ UNCHANGED <<stage, request, waiting, age, active, served, servedAge,
                 promptTokens>>

\* admission.release, deferred by Router.serve until the proxied call ends.
Release(c) ==
  /\ ~promoting
  /\ stage[c] = "running"
  /\ GiveBack(c)
  /\ Remember(request[c])
  /\ Leave(c)
  /\ promoting' = TRUE
  /\ UNCHANGED <<waiting, age>>

Older(a, most) == IF a < most THEN a + 1 ELSE most

Tick ==
  /\ age' = [c \in Clients |->
               IF stage[c] = "queued" THEN Older(age[c], AgingAfter) ELSE 0]
  /\ servedAge' = [k \in Conversations |-> Older(servedAge[k], Forgotten)]
  /\ UNCHANGED <<stage, request, waiting, active, prefill, prefilling, served,
                 promptTokens, promoting>>

Promote == PromoteBest \/ PromoteDone

Next ==
  \/ \E c \in Clients :
       \/ Acquire(c)
       \/ Resume(c)
       \/ CancelQueued(c)
       \/ CancelGranted(c)
       \/ MarkDecode(c)
       \/ Release(c)
  \/ Promote
  \/ Tick

Spec == Init /\ [][Next]_vars

-----------------------------------------------------------------------------
(* Fairness.  promoteLocked is a loop without blocking calls; a granted    *)
(* goroutine is runnable; sync.Mutex hands itself to a waiter that has     *)
(* been starved for a millisecond (hence SF for the operations that take   *)
(* it); a proxied call ends, because the backend answers or its watchdog   *)
(* kills it; time passes.  Nothing makes clients ask, give up or decode.   *)

Fairness ==
  /\ WF_vars(Promote)
  /\ WF_vars(Tick)
  /\ \A c \in Clients : WF_vars(Resume(c)) /\ SF_vars(Release(c))

FairSpec == Spec /\ Fairness

-----------------------------------------------------------------------------
(* What the scheduler must do                                              *)

\* The variables keep their types; a duration never leaves its range.
TypeOK ==
  /\ stage \in [Clients -> Stages]
  /\ request \in [Clients -> Requests \union {Nobody}]
  /\ waiting \in Seq(Clients)
  /\ age \in [Clients -> 0..AgingAfter]
  /\ active \in Nat
  /\ prefill \in Nat
  /\ prefilling \in [Clients -> BOOLEAN]
  /\ served \in Seq(Conversations)
  /\ servedAge \in [Conversations -> 0..Forgotten]
  /\ promptTokens \in [Conversations -> Nat]
  /\ promoting \in BOOLEAN

\* The queue holds each parked client once and nobody else: a waiter that gave
\* up or was promoted leaves it exactly once, whichever of the two came first.
QueueHoldsTheParked ==
  /\ ToSet(waiting) = Queued
  /\ IsInjective(waiting)

\* The two counters agree with the admissions that are really outstanding, so
\* no cancel, first token or release leaks a slot or gives one back twice.
CountersExact ==
  /\ active = Cardinality(Holders)
  /\ prefill = Cardinality(Prefillers)

\* No more requests reach the main model than it has slots, and under the
\* phase-aware policy no two of known size prefill together.
SlotsRespected ==
  /\ Cardinality(Holders) <= Limit
  /\ PhaseAware => Cardinality(Prefillers) <= 1

\* "Long cold prompts serialize": a cold prompt prefills alone, and two cold
\* requests never hold slots at the same time, whatever happens in between.
ColdPromptsSerialize ==
  \A c, d \in Holders :
    c # d => ~ /\ request[c].class = "cold"
               /\ request[d].class = "cold" \/ prefilling[c]

\* Outside the promotion loop no admissible request is parked: every change
\* that makes room wakes whoever the room is for (no lost wakeup), though
\* a waiter that leaves the queue promotes nobody.
NobodyParkedNeedlessly ==
  ~promoting => \A c \in Queued : ~CanAdmit(request[c].class)

\* "A safety review never waits behind bulk work": no bulk request gets a slot
\* while a safety review is queued.  True of the counting policy only.
SafetyNotOvertaken ==
  [][\A c \in Clients :
       /\ c \in Holders' \ Holders
       /\ request'[c].lane = "bulk"
       => \A d \in Queued : request[d].lane # "safety"]_vars

\* The same for the requests the phase-aware policy treats as bounded appends.
EveryAppendServed ==
  \A c \in Clients :
    stage[c] = "queued" /\ request[c].class = "small" ~> stage[c] # "queued"

-----------------------------------------------------------------------------
(* The scheduler as an implementation of its promise.                      *)

ColdOnes == {c \in Queued \union Holders : request[c].class = "cold"}

Promise == INSTANCE Admission WITH
  asking  <- Queued,
  holding <- Holders,
  filling <- Prefillers,
  cold    <- ColdOnes

\* Counting with active and prefill, and admitting from a reordered queue in a
\* loop, lets clients in exactly as the sets of real holders allow.
ImplementsAdmission == Promise!Spec
=============================================================================
