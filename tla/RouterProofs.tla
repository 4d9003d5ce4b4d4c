---------------------------- MODULE RouterProofs ----------------------------
(***************************************************************************)
(* Proofs about module Router, for any number of requests and slots: every *)
(* step of the router is a step of the scheduler or none, so that all that *)
(* SchedulerProofs shows holds behind the router too; the published        *)
(* counters count the requests they name; and no client is sent two        *)
(* responses.                                                              *)
(***************************************************************************)
EXTENDS Router, SchedulerProofs

QueuePlaces == {"asking", "acquiring"}
WorkPlaces == {"proxying", "answering"}

AtQueue == {c \in Clients : at[c] \in QueuePlaces}
AtWork == {c \in Clients : at[c] \in WorkPlaces}

\* The router's own variables keep their types, and a request that is being
\* handled is one that may be asked for.
RoutingTyped ==
  /\ at \in [Clients -> Places]
  /\ asked \in [Clients -> [kind : Kinds \union {"work"}, conversation : Keys,
                            tokens : PromptSizes \union {0}]]
  /\ \A c \in Clients : at[c] # "out" => asked[c].tokens \in PromptSizes
  /\ answers \in [Clients -> Nat]
  /\ mainQueued \in Nat
  /\ mainActive \in Nat

\* The scheduler knows a request only while its handler is acquiring, and has
\* admitted it once the handler has its admission.
Placed ==
  \A c \in Clients :
    /\ at[c] \in {"out", "reviewer", "main", "asking"} => stage[c] = "idle"
    /\ at[c] \in {"admitted", "proxying", "answering", "ending"} => stage[c] = "running"

\* The published counters are the numbers of handlers between their changes.
HandlersCounted ==
  /\ mainQueued = Cardinality(AtQueue)
  /\ mainActive = Cardinality(AtWork)

\* Nothing is sent before the response begins, and then once.
AnsweredOnTime ==
  \A c \in Clients :
    /\ answers[c] \in {0, 1}
    /\ at[c] \notin {"out", "answering", "ending"} => answers[c] = 0

RInv == RoutingTyped /\ Placed /\ HandlersCounted /\ AnsweredOnTime

-----------------------------------------------------------------------------
(* Lemmas about the counted sets.                                          *)

LEMMA CountedFinite ==
  /\ IsFiniteSet(AtQueue) /\ Cardinality(AtQueue) \in Nat
  /\ IsFiniteSet(AtWork) /\ Cardinality(AtWork) \in Nat
<1>1. AtQueue \in SUBSET Clients /\ AtWork \in SUBSET Clients
  BY DEF AtQueue, AtWork
<1>2. QED
  BY <1>1, FS_Subset, FS_CardinalityType, ClientsAssumption

\* They stay finite.
LEMMA CountedStayFinite == Cardinality(AtQueue') \in Nat /\ Cardinality(AtWork') \in Nat
<1>1. AtQueue' \in SUBSET Clients /\ AtWork' \in SUBSET Clients
  BY DEF AtQueue, AtWork
<1>2. QED
  BY <1>1, FS_Subset, FS_CardinalityType, ClientsAssumption

\* One handler's move changes each count by what it leaves and what it enters.
LEMMA Moving ==
  ASSUME RoutingTyped, NEW c \in Clients, NEW place \in Places, Move(c, place)
  PROVE  /\ at' \in [Clients -> Places]
         /\ at'[c] = place
         /\ \A d \in Clients : d # c => at'[d] = at[d]
         /\ Cardinality(AtQueue') = Cardinality(AtQueue)
              + (IF place \in QueuePlaces THEN 1 ELSE 0)
              - (IF at[c] \in QueuePlaces THEN 1 ELSE 0)
         /\ Cardinality(AtWork') = Cardinality(AtWork)
              + (IF place \in WorkPlaces THEN 1 ELSE 0)
              - (IF at[c] \in WorkPlaces THEN 1 ELSE 0)
<1>1. /\ at' \in [Clients -> Places]
      /\ at'[c] = place
      /\ \A d \in Clients : d # c => at'[d] = at[d]
  BY DEF Move, RoutingTyped
<1>2. /\ AtQueue' = IF place \in QueuePlaces THEN AtQueue \union {c} ELSE AtQueue \ {c}
      /\ AtWork' = IF place \in WorkPlaces THEN AtWork \union {c} ELSE AtWork \ {c}
  BY <1>1 DEF AtQueue, AtWork
<1>3. /\ c \in AtQueue <=> at[c] \in QueuePlaces
      /\ c \in AtWork <=> at[c] \in WorkPlaces
  BY DEF AtQueue, AtWork
<1> HIDE DEF AtQueue, AtWork, QueuePlaces, WorkPlaces
<1>4. Cardinality(AtQueue') = Cardinality(AtQueue)
        + (IF place \in QueuePlaces THEN 1 ELSE 0)
        - (IF at[c] \in QueuePlaces THEN 1 ELSE 0)
  <2>1. /\ Cardinality(AtQueue \union {c}) =
             IF c \in AtQueue THEN Cardinality(AtQueue) ELSE Cardinality(AtQueue) + 1
        /\ Cardinality(AtQueue \ {c}) =
             IF c \in AtQueue THEN Cardinality(AtQueue) - 1 ELSE Cardinality(AtQueue)
    BY CountedFinite, FS_AddElement, FS_RemoveElement
  <2>2. Cardinality(AtQueue) \in Nat
    BY CountedFinite
  <2>3. QED
    BY <1>2, <1>3, <2>1, <2>2
<1>5. Cardinality(AtWork') = Cardinality(AtWork)
        + (IF place \in WorkPlaces THEN 1 ELSE 0)
        - (IF at[c] \in WorkPlaces THEN 1 ELSE 0)
  <2>1. /\ Cardinality(AtWork \union {c}) =
             IF c \in AtWork THEN Cardinality(AtWork) ELSE Cardinality(AtWork) + 1
        /\ Cardinality(AtWork \ {c}) =
             IF c \in AtWork THEN Cardinality(AtWork) - 1 ELSE Cardinality(AtWork)
    BY CountedFinite, FS_AddElement, FS_RemoveElement
  <2>2. Cardinality(AtWork) \in Nat
    BY CountedFinite
  <2>3. QED
    BY <1>2, <1>3, <2>1, <2>2
<1>6. QED
  BY <1>1, <1>4, <1>5

-----------------------------------------------------------------------------
(* What the steps of the scheduler do to the stages.                       *)

\* A handler asks for a well-formed request, which the scheduler may be asked for.
LEMMA AskAcquires ==
  ASSUME RoutingTyped, NEW c \in Clients, Ask(c)
  PROVE  /\ Acquire(c)
         /\ at[c] = "asking"
         /\ \E s \in {"running", "queued"} : stage' = [stage EXCEPT ![c] = s]
<1> DEFINE r == Asked(asked[c].conversation, LaneOf(asked[c].kind), asked[c].tokens)
<1>1. at[c] = "asking" /\ (AcquireAtOnce(c, r) \/ AcquireQueued(c, r))
  BY DEF Ask
<1>2. asked[c].conversation \in Keys /\ asked[c].tokens \in PromptSizes
      /\ asked[c].kind \in Kinds \union {"work"}
  BY <1>1 DEF RoutingTyped
<1>3. LaneOf(asked[c].kind) \in Lanes
  BY <1>2, LanesCoverAssumption DEF LaneOf
<1>4. Acquire(c)
  BY <1>1, <1>2, <1>3 DEF Acquire
<1>5. \E s \in {"running", "queued"} : stage' = [stage EXCEPT ![c] = s]
  BY <1>1 DEF AcquireAtOnce, AcquireQueued
<1>6. QED
  BY <1>1, <1>4, <1>5

\* The scheduler's own steps promote and resume parked clients, and change
\* nobody else's stage.
LEMMA WokenStages ==
  ASSUME IInv, Promote \/ Tick \/ \E c \in Clients : Resume(c)
  PROVE  \A c \in Clients :
           \/ stage'[c] = stage[c]
           \/ stage[c] \in {"queued", "granted"}
<1> USE DEF IInv
<1>1. stage \in [Clients -> Stages]
  BY DEF TypeOK
<1>2. CASE PromoteBest
  <2>1. PICK i \in DOMAIN waiting : stage' = [stage EXCEPT ![waiting[i]] = "granted"]
    BY <1>2 DEF PromoteBest
  <2>2. waiting[i] \in Queued
    BY <2>1 DEF QueueHoldsTheParked, ToSet
  <2>3. QED
    BY <1>1, <2>1, <2>2 DEF Queued
<1>3. CASE PromoteDone \/ Tick
  BY <1>3 DEF PromoteDone, Tick
<1>4. CASE \E c \in Clients : Resume(c)
  <2>1. PICK c \in Clients : Resume(c)
    BY <1>4
  <2>2. stage[c] = "granted" /\ stage' = [stage EXCEPT ![c] = "running"]
    BY <2>1 DEF Resume
  <2>3. QED
    BY <1>1, <2>2
<1>5. QED
  BY <1>2, <1>3, <1>4 DEF Promote

LEMMA GiveUpStages ==
  ASSUME IInv, NEW c \in Clients, GiveUp(c)
  PROVE  /\ CancelQueued(c) \/ CancelGranted(c)
         /\ stage[c] \in {"queued", "granted"}
         /\ stage' = [stage EXCEPT ![c] = "idle"]
         /\ UNCHANGED routing
BY DEF GiveUp, CancelQueued, CancelGranted, Leave

-----------------------------------------------------------------------------
(* Every step of the router is a step of the scheduler, or none.           *)

LEMMA RouterSchedules == RInv /\ [RouterNext]_allVars => [Next]_vars
<1> SUFFICES ASSUME RInv, [RouterNext]_allVars PROVE [Next]_vars
  OBVIOUS
<1>1. ASSUME NEW c \in Clients, Handler(c) PROVE [Next]_vars
  <2>1. CASE Arrive(c) \/ ReviewerAnswers(c) \/ ReviewerFails(c) \/ ReviewerBreaksOff(c)
             \/ Enqueue(c) \/ GaveUp(c) \/ Admitted(c) \/ Enter(c) \/ Leaves(c)
    BY <2>1 DEF Arrive, ReviewerAnswers, ReviewerFails, ReviewerBreaksOff, Enqueue,
                GaveUp, Admitted, Enter, Leaves
  <2>2. CASE Ask(c)
    BY <2>2, AskAcquires DEF RInv, Next
  <2>3. CASE GiveUp(c)
    BY <2>3 DEF GiveUp, Next
  <2>4. CASE FirstByte(c)
    BY <2>4 DEF FirstByte, Next
  <2>5. CASE Released(c)
    BY <2>5 DEF Released, Next
  <2>6. QED
    BY <1>1, <2>1, <2>2, <2>3, <2>4, <2>5 DEF Handler
<1>2. CASE Woken
  BY <1>2 DEF Woken, Next
<1>3. CASE UNCHANGED allVars
  BY <1>3 DEF allVars
<1>4. QED
  BY <1>1, <1>2, <1>3 DEF RouterNext

-----------------------------------------------------------------------------
(* Every step of the router keeps its invariant.                           *)

LEMMA RouterInitInv == RouterInit => RInv /\ Init
<1> SUFFICES ASSUME RouterInit PROVE RInv /\ Init
  OBVIOUS
<1>1. AtQueue = {} /\ AtWork = {}
  BY DEF RouterInit, AtQueue, AtWork, QueuePlaces, WorkPlaces
<1>2. HandlersCounted
  BY <1>1, FS_EmptySet DEF RouterInit, HandlersCounted
<1>3. RoutingTyped
  BY DEF RouterInit, RoutingTyped, Places, NoRequest, Keys
<1>4. Placed /\ AnsweredOnTime
  BY DEF RouterInit, Init, Placed, AnsweredOnTime
<1>5. QED
  BY <1>2, <1>3, <1>4 DEF RInv, RouterInit

\* A handler that moves keeps its place in line with its stage, and the others
\* theirs, if its own stage fits and nobody else's changes.
LEMMA MovingPlaced ==
  ASSUME RoutingTyped, Placed, NEW c \in Clients, NEW place \in Places, Move(c, place),
         \A d \in Clients : d # c => stage'[d] = stage[d],
         place \in {"out", "reviewer", "main", "asking"} => stage'[c] = "idle",
         place \in {"admitted", "proxying", "answering", "ending"} => stage'[c] = "running"
  PROVE  Placed'
BY Moving DEF Placed

\* The steps on the way to and at the reviewer.
LEMMA BeforeMainInv ==
  ASSUME RInv, NEW c \in Clients,
         Arrive(c) \/ ReviewerAnswers(c) \/ ReviewerFails(c) \/ ReviewerBreaksOff(c)
  PROVE  RInv'
<1> USE DEF RInv
<1>1. /\ at[c] \in {"out", "reviewer"}
      /\ stage' = stage
      /\ UNCHANGED <<mainQueued, mainActive>>
  BY DEF Arrive, ReviewerAnswers, ReviewerFails, ReviewerBreaksOff, vars
<1>2. PICK place \in {"out", "reviewer", "main"} : Move(c, place)
  BY DEF Arrive, ReviewerAnswers, ReviewerFails, ReviewerBreaksOff
<1>3. place \in Places
  BY DEF Places
<1>4. HandlersCounted'
  BY <1>1, <1>2, <1>3, Moving, CountedFinite DEF HandlersCounted, QueuePlaces, WorkPlaces
<1>5. Placed'
  BY <1>1, <1>2, <1>3, MovingPlaced DEF Placed
<1>6. CASE Arrive(c)
  <2>1. PICK kind \in Kinds, conversation \in Keys, tokens \in PromptSizes :
          LET r == [kind |-> kind, conversation |-> conversation, tokens |-> tokens]
          IN  IF TriesReviewer(r)
              THEN Move(c, "reviewer") /\ asked' = [asked EXCEPT ![c] = r]
              ELSE Move(c, "main") /\ asked' = [asked EXCEPT ![c] = ForMain(r)]
    BY <1>6 DEF Arrive
  <2>2. \E r \in [kind : Kinds \union {"work"}, conversation : Keys, tokens : PromptSizes] :
          asked' = [asked EXCEPT ![c] = r]
    BY <2>1 DEF ForMain
  <2>3. answers' = [answers EXCEPT ![c] = 0]
    BY <1>6 DEF Arrive
  <2>4. RoutingTyped'
    BY <1>1, <1>2, <1>3, <2>2, <2>3, Moving DEF RoutingTyped
  <2>5. AnsweredOnTime'
    BY <1>2, <1>3, <2>3, Moving DEF AnsweredOnTime, RoutingTyped
  <2>6. QED
    BY <1>4, <1>5, <2>4, <2>5
<1>7. CASE ReviewerAnswers(c) \/ ReviewerBreaksOff(c)
  <2>1. /\ at[c] = "reviewer" /\ Move(c, "out")
        /\ asked' = [asked EXCEPT ![c] = NoRequest]
        /\ answers' = [answers EXCEPT ![c] = @ + 1] \/ answers' = answers
    BY <1>7 DEF ReviewerAnswers, ReviewerBreaksOff
  <2>2. at' \in [Clients -> Places] /\ at'[c] = "out"
        /\ \A d \in Clients : d # c => at'[d] = at[d]
    BY <2>1, Moving DEF Places
  <2>3. answers[c] = 0
    BY <2>1 DEF AnsweredOnTime
  <2>4. RoutingTyped'
    <3>1. answers' \in [Clients -> Nat]
      BY <2>1 DEF RoutingTyped
    <3>2. asked' \in [Clients -> [kind : Kinds \union {"work"}, conversation : Keys,
                                  tokens : PromptSizes \union {0}]]
      BY <2>1 DEF RoutingTyped, NoRequest, Keys
    <3>3. \A d \in Clients : at'[d] # "out" => asked'[d].tokens \in PromptSizes
      BY <2>1, <2>2 DEF RoutingTyped
    <3>4. QED
      BY <1>1, <2>2, <3>1, <3>2, <3>3 DEF RoutingTyped
  <2>5. AnsweredOnTime'
    BY <2>1, <2>2, <2>3 DEF AnsweredOnTime, RoutingTyped
  <2>6. QED
    BY <1>4, <1>5, <2>4, <2>5
<1>8. CASE ReviewerFails(c)
  <2>1. /\ at[c] = "reviewer" /\ Move(c, "main")
        /\ asked' = [asked EXCEPT ![c] = ForMain(@)]
        /\ answers' = answers
    BY <1>8 DEF ReviewerFails
  <2>2. at' \in [Clients -> Places] /\ at'[c] = "main"
        /\ \A d \in Clients : d # c => at'[d] = at[d]
    BY <2>1, Moving DEF Places
  <2>3. ForMain(asked[c]) \in [kind : Kinds \union {"work"}, conversation : Keys,
                              tokens : PromptSizes]
    <3>1. asked[c] \in [kind : Kinds \union {"work"}, conversation : Keys,
                        tokens : PromptSizes]
      BY <2>1 DEF RoutingTyped
    <3>2. QED
      BY <3>1 DEF ForMain
  <2>4. RoutingTyped'
    <3>1. asked' = [asked EXCEPT ![c] = ForMain(asked[c])]
      BY <2>1 DEF RoutingTyped
    <3>2. QED
      BY <1>1, <2>1, <2>2, <2>3, <3>1 DEF RoutingTyped
  <2>5. AnsweredOnTime'
    BY <2>1, <2>2 DEF AnsweredOnTime
  <2>6. QED
    BY <1>4, <1>5, <2>4, <2>5
<1>9. QED
  BY <1>6, <1>7, <1>8

\* The steps on the way to an admission.
LEMMA AcquiringInv ==
  ASSUME RInv, IInv, NEW c \in Clients,
         Enqueue(c) \/ Ask(c) \/ GaveUp(c) \/ Admitted(c)
  PROVE  RInv'
<1> USE DEF RInv
<1>1. CASE Enqueue(c)
  <2>1. /\ at[c] = "main" /\ Move(c, "asking") /\ mainQueued' = mainQueued + 1
        /\ UNCHANGED <<stage, asked, answers, mainActive>>
    BY <1>1 DEF Enqueue, vars
  <2>2. "asking" \in Places
    BY DEF Places
  <2>3. HandlersCounted'
    BY <2>1, <2>2, Moving, CountedFinite DEF HandlersCounted, QueuePlaces, WorkPlaces
  <2>4. Placed'
    BY <2>1, <2>2, MovingPlaced DEF Placed
  <2>5. RoutingTyped' /\ AnsweredOnTime'
    BY <2>1, <2>2, Moving DEF RoutingTyped, AnsweredOnTime
  <2>6. QED
    BY <2>3, <2>4, <2>5
<1>2. CASE Ask(c)
  <2>1. /\ at[c] = "asking" /\ Move(c, "acquiring")
        /\ UNCHANGED <<asked, answers, mainQueued, mainActive>>
    BY <1>2 DEF Ask
  <2>2. "acquiring" \in Places
    BY DEF Places
  <2>3. HandlersCounted'
    BY <2>1, <2>2, Moving, CountedFinite DEF HandlersCounted, QueuePlaces, WorkPlaces
  <2>4. \A d \in Clients : d # c => stage'[d] = stage[d]
    BY <1>2, AskAcquires DEF IInv, TypeOK
  <2>5. Placed'
    BY <2>1, <2>2, <2>4, MovingPlaced
  <2>6. RoutingTyped' /\ AnsweredOnTime'
    BY <2>1, <2>2, Moving DEF RoutingTyped, AnsweredOnTime
  <2>7. QED
    BY <2>3, <2>5, <2>6
<1>3. CASE GaveUp(c)
  <2>1. /\ at[c] = "acquiring" /\ stage[c] = "idle" /\ Move(c, "out")
        /\ mainQueued' = mainQueued - 1
        /\ asked' = [asked EXCEPT ![c] = NoRequest]
        /\ UNCHANGED <<stage, answers, mainActive>>
    BY <1>3 DEF GaveUp, vars
  <2>2. "out" \in Places
    BY DEF Places
  <2>3. mainQueued' = Cardinality(AtQueue') /\ Cardinality(AtQueue') \in Nat
    BY <2>1, <2>2, Moving, CountedFinite, CountedStayFinite DEF HandlersCounted, QueuePlaces
  <2>4. HandlersCounted'
    BY <2>1, <2>2, <2>3, Moving, CountedFinite DEF HandlersCounted, WorkPlaces
  <2>5. Placed'
    BY <2>1, <2>2, MovingPlaced
  <2>6. RoutingTyped'
    BY <2>1, <2>2, <2>3, Moving DEF RoutingTyped, NoRequest, Keys
  <2>7. AnsweredOnTime'
    BY <2>1, <2>2, Moving DEF AnsweredOnTime
  <2>8. QED
    BY <2>4, <2>5, <2>6, <2>7
<1>4. CASE Admitted(c)
  <2>1. /\ at[c] = "acquiring" /\ stage[c] = "running" /\ Move(c, "admitted")
        /\ mainQueued' = mainQueued - 1
        /\ UNCHANGED <<stage, asked, answers, mainActive>>
    BY <1>4 DEF Admitted, vars
  <2>2. "admitted" \in Places
    BY DEF Places
  <2>3. mainQueued' = Cardinality(AtQueue') /\ Cardinality(AtQueue') \in Nat
    BY <2>1, <2>2, Moving, CountedFinite, CountedStayFinite DEF HandlersCounted, QueuePlaces
  <2>4. HandlersCounted'
    BY <2>1, <2>2, <2>3, Moving, CountedFinite DEF HandlersCounted, WorkPlaces
  <2>5. Placed'
    BY <2>1, <2>2, MovingPlaced
  <2>6. RoutingTyped' /\ AnsweredOnTime'
    BY <2>1, <2>2, <2>3, Moving DEF RoutingTyped, AnsweredOnTime
  <2>7. QED
    BY <2>4, <2>5, <2>6
<1>5. QED
  BY <1>1, <1>2, <1>3, <1>4

\* The steps of an admitted request.
LEMMA AdmittedInv ==
  ASSUME RInv, IInv, NEW c \in Clients,
         Enter(c) \/ FirstByte(c) \/ Leaves(c) \/ Released(c)
  PROVE  RInv'
<1> USE DEF RInv
<1>1. CASE Enter(c)
  <2>1. /\ at[c] = "admitted" /\ Move(c, "proxying") /\ mainActive' = mainActive + 1
        /\ UNCHANGED <<stage, asked, answers, mainQueued>>
    BY <1>1 DEF Enter, vars
  <2>2. "proxying" \in Places
    BY DEF Places
  <2>3. HandlersCounted'
    BY <2>1, <2>2, Moving, CountedFinite DEF HandlersCounted, QueuePlaces, WorkPlaces
  <2>4. Placed'
    BY <2>1, <2>2, MovingPlaced DEF Placed
  <2>5. RoutingTyped' /\ AnsweredOnTime'
    BY <2>1, <2>2, Moving DEF RoutingTyped, AnsweredOnTime
  <2>6. QED
    BY <2>3, <2>4, <2>5
<1>2. CASE FirstByte(c)
  <2>1. /\ at[c] = "proxying" /\ Move(c, "answering")
        /\ answers' = [answers EXCEPT ![c] = @ + 1]
        /\ UNCHANGED <<stage, asked, mainQueued, mainActive>>
    BY <1>2 DEF FirstByte, MarkDecode, vars
  <2>2. "answering" \in Places
    BY DEF Places
  <2>3. HandlersCounted'
    BY <2>1, <2>2, Moving, CountedFinite DEF HandlersCounted, QueuePlaces, WorkPlaces
  <2>4. Placed'
    BY <2>1, <2>2, MovingPlaced DEF Placed
  <2>5. RoutingTyped'
    BY <2>1, <2>2, Moving DEF RoutingTyped
  <2>6. AnsweredOnTime'
    BY <2>1, <2>2, Moving DEF AnsweredOnTime, RoutingTyped
  <2>7. QED
    BY <2>3, <2>4, <2>5, <2>6
<1>3. CASE Leaves(c)
  <2>1. /\ at[c] \in {"proxying", "answering"} /\ Move(c, "ending")
        /\ mainActive' = mainActive - 1
        /\ \/ answers' = answers
           \/ at[c] = "proxying" /\ answers' = [answers EXCEPT ![c] = @ + 1]
        /\ UNCHANGED <<stage, asked, mainQueued>>
    BY <1>3 DEF Leaves, vars
  <2>2. "ending" \in Places
    BY DEF Places
  <2>3. mainActive' = Cardinality(AtWork') /\ Cardinality(AtWork') \in Nat
    BY <2>1, <2>2, Moving, CountedFinite, CountedStayFinite DEF HandlersCounted, WorkPlaces
  <2>4. HandlersCounted'
    BY <2>1, <2>2, <2>3, Moving, CountedFinite DEF HandlersCounted, QueuePlaces
  <2>5. Placed'
    BY <2>1, <2>2, MovingPlaced DEF Placed
  <2>6. RoutingTyped'
    BY <2>1, <2>2, <2>3, Moving DEF RoutingTyped
  <2>7. AnsweredOnTime'
    BY <2>1, <2>2, Moving DEF AnsweredOnTime, RoutingTyped
  <2>8. QED
    BY <2>4, <2>5, <2>6, <2>7
<1>4. CASE Released(c)
  <2>1. /\ at[c] = "ending" /\ Move(c, "out")
        /\ asked' = [asked EXCEPT ![c] = NoRequest]
        /\ stage' = [stage EXCEPT ![c] = "idle"]
        /\ UNCHANGED <<answers, mainQueued, mainActive>>
    BY <1>4 DEF Released, Release, Leave
  <2>2. "out" \in Places
    BY DEF Places
  <2>3. HandlersCounted'
    BY <2>1, <2>2, Moving, CountedFinite DEF HandlersCounted, QueuePlaces, WorkPlaces
  <2>4. Placed'
    BY <2>1, <2>2, MovingPlaced DEF IInv, TypeOK
  <2>5. RoutingTyped'
    BY <2>1, <2>2, Moving DEF RoutingTyped, NoRequest, Keys
  <2>6. AnsweredOnTime'
    BY <2>1, <2>2, Moving DEF AnsweredOnTime
  <2>7. QED
    BY <2>3, <2>4, <2>5, <2>6
<1>5. QED
  BY <1>1, <1>2, <1>3, <1>4

\* The steps the router leaves to the scheduler, and stuttering.
LEMMA ElsewhereInv ==
  ASSUME RInv, IInv, Woken \/ (\E c \in Clients : GiveUp(c)) \/ UNCHANGED allVars
  PROVE  RInv'
<1>1. UNCHANGED routing
  BY GiveUpStages DEF Woken, allVars
<1>2. AtQueue' = AtQueue /\ AtWork' = AtWork
  BY <1>1 DEF routing, AtQueue, AtWork
<1>3. RoutingTyped' /\ HandlersCounted' /\ AnsweredOnTime'
  BY <1>1, <1>2 DEF routing, RInv, RoutingTyped, HandlersCounted, AnsweredOnTime
<1>4. \A c \in Clients : stage'[c] = stage[c] \/ stage[c] \in {"queued", "granted"}
  <2>1. CASE Woken
    BY <2>1, WokenStages DEF Woken
  <2>2. CASE \E c \in Clients : GiveUp(c)
    BY <2>2, GiveUpStages DEF IInv, TypeOK
  <2>3. CASE UNCHANGED allVars
    BY <2>3 DEF allVars, vars
  <2>4. QED
    BY <2>1, <2>2, <2>3
<1>5. Placed'
  BY <1>1, <1>4 DEF routing, RInv, Placed
<1>6. QED
  BY <1>3, <1>5 DEF RInv

LEMMA RouterStepInv == RInv /\ IInv /\ [RouterNext]_allVars => RInv'
<1> SUFFICES ASSUME RInv, IInv, [RouterNext]_allVars PROVE RInv'
  OBVIOUS
<1>1. ASSUME NEW c \in Clients, Handler(c) PROVE RInv'
  BY <1>1, BeforeMainInv, AcquiringInv, AdmittedInv, ElsewhereInv DEF Handler
<1>2. CASE Woken \/ UNCHANGED allVars
  BY <1>2, ElsewhereInv
<1>3. QED
  BY <1>1, <1>2 DEF RouterNext

-----------------------------------------------------------------------------
(* The theorems.                                                           *)

\* Behind the router the scheduler is used as module Scheduler says it is.
THEOREM RouterImplementsScheduler == RouterSpec => Spec
<1>1. RInv /\ IInv /\ [RouterNext]_allVars => RInv' /\ IInv' /\ [Next]_vars
  BY RouterSchedules, RouterStepInv, StepInv
<1>2. RouterInit => RInv /\ IInv /\ Init
  BY RouterInitInv, InitInv
<1>3. QED
  BY <1>1, <1>2, PTL DEF RouterSpec, Spec

LEMMA RouterInvHolds == RouterSpec => [](RInv /\ IInv)
<1>1. RInv /\ IInv /\ [RouterNext]_allVars => RInv' /\ IInv'
  BY RouterSchedules, RouterStepInv, StepInv
<1>2. RouterInit => RInv /\ IInv
  BY RouterInitInv, InitInv
<1>3. QED
  BY <1>1, <1>2, PTL DEF RouterSpec

\* Hence a review that falls back to the main model is not passed by other work.
THEOREM ReviewsFirst ==
  ASSUME PhaseAware = FALSE
  PROVE  RouterSpec => SafetyNotOvertaken
BY RouterImplementsScheduler, SafetyFirst

\* Every variable of the router keeps its type.
THEOREM RouterTypeCorrect == RouterSpec => []RouterTypeOK
<1>1. RInv /\ IInv => RouterTypeOK
  BY DEF RInv, IInv, RoutingTyped, RouterTypeOK
<1>2. QED
  BY <1>1, RouterInvHolds, PTL

\* The published counters stay between the parked requests and the slots, for
\* any number of either.
THEOREM PublishedCorrect == RouterSpec => []PublishedWithinLimit
<1>1. ASSUME RInv, IInv PROVE PublishedWithinLimit
  <2>1. AtWork \in SUBSET Holders
    BY <1>1 DEF RInv, Placed, AtWork, WorkPlaces, Holders
  <2>2. Queued \in SUBSET AtQueue
    <3>1. ASSUME NEW c \in Queued PROVE at[c] = "acquiring"
      BY <1>1, <3>1 DEF RInv, Placed, RoutingTyped, Places, Queued
    <3>2. QED
      BY <3>1 DEF AtQueue, QueuePlaces, Queued
  <2>3. Cardinality(AtWork) <= Cardinality(Holders)
    BY <1>1, <2>1, FS_Subset, HoldersFinite DEF IInv
  <2>4. Cardinality(Queued) <= Cardinality(AtQueue)
    BY <2>2, FS_Subset, CountedFinite
  <2>5. QED
    BY <1>1, <2>3, <2>4 DEF RInv, HandlersCounted, IInv, CountersExact, SlotsRespected,
       PublishedWithinLimit
<1>2. QED
  BY <1>1, RouterInvHolds, PTL

\* No client is sent parts of two responses, wherever the reviewer, the main
\* model or the client itself gives up.
THEOREM AnsweredOnceAlways == RouterSpec => []AnsweredOnce
<1>1. RInv => AnsweredOnce
  BY DEF RInv, AnsweredOnTime, AnsweredOnce
<1>2. QED
  BY <1>1, RouterInvHolds, PTL
=============================================================================
