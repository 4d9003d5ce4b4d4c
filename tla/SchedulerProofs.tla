--------------------------- MODULE SchedulerProofs ---------------------------
(***************************************************************************)
(* Proofs about module Scheduler: for any number of clients,               *)
(* conversations and slots, the counters and the queue agree with the      *)
(* requests really parked and admitted, nobody is parked needlessly, and   *)
(* the scheduler implements module Admission.                              *)
(***************************************************************************)
EXTENDS SchedulerFairShare, SequenceTheorems, FiniteSetTheorems, TLAPS

-----------------------------------------------------------------------------
(* Lemmas about the sequence operators the queue is built from.            *)

\* RemoveAt closes the gap and keeps the other elements in their order.
LEMMA RemoveAtElements ==
  ASSUME NEW S, NEW s \in Seq(S), NEW i \in 1..Len(s)
  PROVE  /\ RemoveAt(s, i) \in Seq(S)
         /\ Len(RemoveAt(s, i)) = Len(s) - 1
         /\ \A j \in 1..(Len(s) - 1) :
              RemoveAt(s, i)[j] = IF j < i THEN s[j] ELSE s[j + 1]
<1> DEFINE a == SubSeq(s, 1, i - 1)
           b == SubSeq(s, i + 1, Len(s))
<1>1. /\ a \in Seq(S)
      /\ Len(a) = i - 1
      /\ \A j \in 1..(i - 1) : a[j] = s[j]
  <2>1. \A j \in 1..(i - 1) : s[j] \in S
    OBVIOUS
  <2>2. QED
    BY <2>1, SubSeqProperties
<1>2. /\ b \in Seq(S)
      /\ Len(b) = Len(s) - i
      /\ \A j \in 1..(Len(s) - i) : b[j] = s[i + j]
  <2>1. \A j \in (i + 1)..Len(s) : s[j] \in S
    OBVIOUS
  <2>2. QED
    BY <2>1, SubSeqProperties
<1>3. /\ a \o b \in Seq(S)
      /\ Len(a \o b) = Len(a) + Len(b)
      /\ \A j \in 1..(Len(a) + Len(b)) :
           (a \o b)[j] = IF j <= Len(a) THEN a[j] ELSE b[j - Len(a)]
  BY <1>1, <1>2, ConcatProperties
<1>4. RemoveAt(s, i) = a \o b
  BY DEF RemoveAt
<1>5. Len(a \o b) = Len(s) - 1
  <2> HIDE DEF a, b
  <2>1. QED
    BY <1>1, <1>2, <1>3
<1>6. ASSUME NEW j \in 1..(Len(s) - 1)
      PROVE  (a \o b)[j] = IF j < i THEN s[j] ELSE s[j + 1]
  <2> HIDE DEF a, b
  <2>1. j \in 1..(Len(a) + Len(b))
    BY <1>1, <1>2
  <2>2. CASE j < i
    BY <1>1, <1>3, <2>1, <2>2
  <2>3. CASE ~(j < i)
    <3>1. j - Len(a) \in 1..(Len(s) - i) /\ i + (j - Len(a)) = j + 1
      BY <1>1, <2>3
    <3>2. (a \o b)[j] = b[j - Len(a)]
      BY <1>1, <1>3, <2>1, <2>3
    <3>3. QED
      BY <1>2, <2>3, <3>1, <3>2
  <2>4. QED
    BY <2>2, <2>3
<1> HIDE DEF a, b
<1>7. QED
  BY <1>3, <1>4, <1>5, <1>6

\* Removing position i of a sequence without duplicates removes just s[i].
LEMMA RemoveAtOnce ==
  ASSUME NEW S, NEW s \in Seq(S), IsInjective(s), NEW i \in 1..Len(s)
  PROVE  /\ RemoveAt(s, i) \in Seq(S)
         /\ ToSet(RemoveAt(s, i)) = ToSet(s) \ {s[i]}
         /\ IsInjective(RemoveAt(s, i))
<1> DEFINE r == RemoveAt(s, i)
<1>1. /\ r \in Seq(S)
      /\ DOMAIN r = 1..(Len(s) - 1)
      /\ DOMAIN s = 1..Len(s)
      /\ \A j \in 1..(Len(s) - 1) : r[j] = IF j < i THEN s[j] ELSE s[j + 1]
  BY RemoveAtElements
<1>2. \A j, k \in 1..Len(s) : s[j] = s[k] => j = k
  BY <1>1 DEF IsInjective
<1> HIDE DEF r
<1>3. IsInjective(r)
  BY <1>1, <1>2 DEF IsInjective
<1>4. ToSet(r) \subseteq ToSet(s) \ {s[i]}
  BY <1>1, <1>2 DEF ToSet
<1>5. ASSUME NEW x \in ToSet(s) \ {s[i]}
      PROVE  x \in ToSet(r)
  <2>1. PICK k \in 1..Len(s) : x = s[k] /\ k # i
    BY <1>1, <1>5 DEF ToSet
  <2>2. CASE k < i
    BY <1>1, <2>1, <2>2 DEF ToSet
  <2>3. CASE k > i
    <3>1. k - 1 \in 1..(Len(s) - 1) /\ r[k - 1] = s[k]
      BY <1>1, <2>1, <2>3
    <3>2. QED
      BY <1>1, <2>1, <3>1 DEF ToSet
  <2>4. QED
    BY <2>1, <2>2, <2>3
<1>6. QED
  BY <1>1, <1>3, <1>4, <1>5 DEF r

\* Appending a new element adds just that element.
LEMMA AppendOnce ==
  ASSUME NEW S, NEW s \in Seq(S), NEW e \in S
  PROVE  /\ Append(s, e) \in Seq(S)
         /\ ToSet(Append(s, e)) = ToSet(s) \union {e}
         /\ IsInjective(s) /\ e \notin ToSet(s) => IsInjective(Append(s, e))
<1> DEFINE t == Append(s, e)
<1>1. /\ t \in Seq(S)
      /\ DOMAIN t = 1..(Len(s) + 1)
      /\ DOMAIN s = 1..Len(s)
      /\ \A j \in 1..Len(s) : t[j] = s[j]
      /\ t[Len(s) + 1] = e
  BY AppendProperties
<1> HIDE DEF t
<1>2. ToSet(t) = ToSet(s) \union {e}
  <2>1. ToSet(t) \subseteq ToSet(s) \union {e}
    <3>1. \A j \in 1..(Len(s) + 1) : j \in 1..Len(s) \/ j = Len(s) + 1
      OBVIOUS
    <3>2. QED
      BY <1>1, <3>1 DEF ToSet
  <2>2. ToSet(s) \subseteq ToSet(t)
    BY <1>1 DEF ToSet
  <2>3. e \in ToSet(t)
    BY <1>1 DEF ToSet
  <2>4. QED
    BY <2>1, <2>2, <2>3
<1>3. IsInjective(s) /\ e \notin ToSet(s) => IsInjective(t)
  BY <1>1 DEF IsInjective, ToSet
<1>4. QED
  BY <1>1, <1>2, <1>3 DEF t

-----------------------------------------------------------------------------
(* The inductive invariant.                                                *)

\* Only the phase-aware policy calls a request cold.
ColdIsPhaseAware ==
  \A c \in Clients : request[c].class = "cold" => PhaseAware

IInv ==
  /\ TypeOK
  /\ QueueHoldsTheParked
  /\ CountersExact
  /\ SlotsRespected
  /\ ColdPromptsSerialize
  /\ NobodyParkedNeedlessly
  /\ ColdIsPhaseAware

LEMMA HoldersFinite ==
  ASSUME TypeOK
  PROVE  /\ IsFiniteSet(Holders) /\ Cardinality(Holders) \in Nat
         /\ IsFiniteSet(Prefillers) /\ Cardinality(Prefillers) \in Nat
<1>1. Holders \in SUBSET Clients /\ Prefillers \in SUBSET Clients
  BY DEF Holders, Prefillers
<1>2. QED
  BY <1>1, FS_Subset, FS_CardinalityType, ClientsAssumption

\* A request asked for by an arriving client is well formed, and cold only
\* under the phase-aware policy.
LEMMA AskedType ==
  ASSUME NEW k \in Keys, NEW lane \in Lanes, NEW tokens \in PromptSizes
  PROVE  /\ Asked(k, lane, tokens) \in Requests
         /\ Asked(k, lane, tokens).class = "cold" => PhaseAware
<1>1. Classify(k, tokens) \in {"small", "cold"}
  BY DEF Classify
<1>2. Classify(k, tokens) = "cold" => PhaseAware
  BY DEF Classify
<1>3. QED
  BY <1>1, <1>2 DEF Asked, Requests

\* Letting an admissible client in keeps the counters exact, the slots
\* respected and cold prompts apart.
LEMMA Entering ==
  ASSUME IInv, NEW c \in Clients \ Holders,
         NEW r \in Requests \union {Nobody}, r.class = "cold" => PhaseAware,
         CanAdmit(r.class), Admit(c, r),
         request' = [request EXCEPT ![c] = r],
         Holders' = Holders \union {c}
  PROVE  /\ active' \in Nat /\ prefill' \in Nat
         /\ prefilling' \in [Clients -> BOOLEAN]
         /\ CountersExact'
         /\ SlotsRespected'
         /\ ColdPromptsSerialize'
<1> USE DEF IInv
<1> DEFINE fills == PhaseAware /\ r.tokens > 0
<1>0. TypeOK /\ fills \in BOOLEAN /\ Limit \in Nat
  BY LimitAssumption, PhaseAwareAssumption
<1>1. IsFiniteSet(Holders) /\ IsFiniteSet(Prefillers)
  BY <1>0, HoldersFinite
<1>2. /\ active' = active + 1
      /\ prefill' = IF fills THEN prefill + 1 ELSE prefill
      /\ prefilling' = [prefilling EXCEPT ![c] = fills]
  BY DEF Admit
<1>3. Prefillers' = IF fills THEN Prefillers \union {c} ELSE Prefillers
  BY <1>0, <1>2 DEF Prefillers, TypeOK, Holders
<1>4. c \notin Prefillers
  BY DEF Prefillers
<1>5. /\ active \in Nat /\ prefill \in Nat
      /\ active = Cardinality(Holders) /\ prefill = Cardinality(Prefillers)
  BY DEF TypeOK, CountersExact
<1> HIDE DEF fills
<1>6. /\ active' = Cardinality(Holders')
      /\ prefill' = Cardinality(Prefillers')
  BY <1>0, <1>1, <1>2, <1>3, <1>4, <1>5, FS_AddElement
<1>7. active < Limit /\ (PhaseAware => prefill = 0)
  <2>1. PhaseAware /\ active = 0 => prefill = 0
    BY <1>1, <1>5, FS_EmptySet DEF Prefillers
  <2>2. QED
    BY <2>1 DEF CanAdmit
<1>8. SlotsRespected'
  <2>1. Cardinality(Holders') <= Limit
    BY <1>0, <1>2, <1>5, <1>6, <1>7
  <2>2. PhaseAware => Cardinality(Prefillers') <= 1
    BY <1>2, <1>5, <1>6, <1>7
  <2>3. QED
    BY <2>1, <2>2 DEF SlotsRespected
<1>9. ColdPromptsSerialize'
  <2> SUFFICES ASSUME NEW d \in Holders', NEW e \in Holders', d # e,
                      request'[d].class = "cold"
               PROVE  request'[e].class # "cold" /\ ~prefilling'[d]
    BY DEF ColdPromptsSerialize
  <2>1. c \in Clients /\ d \in Holders \union {c} /\ e \in Holders \union {c}
    OBVIOUS
  <2>2. d \in Clients /\ e \in Clients
    BY <2>1 DEF Holders
  <2>3. CASE d = c
    <3>1. r.class = "cold" /\ PhaseAware
      BY <1>0, <2>3 DEF TypeOK
    <3>2. Holders = {}
      BY <1>1, <1>5, <3>1, FS_EmptySet DEF CanAdmit
    <3>3. QED
      BY <2>1, <2>3, <3>2
  <2>4. CASE d # c
    <3>1. d \in Holders /\ request[d].class = "cold" /\ PhaseAware
      BY <1>0, <2>1, <2>2, <2>4 DEF TypeOK, ColdIsPhaseAware
    <3>2. Prefillers = {}
      BY <1>1, <1>5, <1>7, <3>1, FS_EmptySet
    <3>3. ~prefilling'[d]
      BY <1>0, <1>2, <2>2, <2>4, <3>1, <3>2 DEF Prefillers, TypeOK
    <3>4. CASE e = c
      <4>1. active # 0
        BY <1>1, <1>5, <3>1, FS_EmptySet
      <4>2. r.class # "cold"
        BY <3>1, <4>1 DEF CanAdmit
      <4>3. QED
        BY <1>0, <3>3, <3>4, <4>2 DEF TypeOK
    <3>5. CASE e # c
      BY <1>0, <2>1, <2>2, <3>1, <3>3, <3>5 DEF TypeOK, ColdPromptsSerialize
    <3>6. QED
      BY <3>4, <3>5
  <2>5. QED
    BY <2>3, <2>4
<1>10. active' \in Nat /\ prefill' \in Nat
  BY <1>2, <1>5
<1>11. prefilling' \in [Clients -> BOOLEAN]
  BY <1>0, <1>2 DEF TypeOK
<1>12. QED
  BY <1>6, <1>8, <1>9, <1>10, <1>11 DEF CountersExact

\* Giving a slot back takes exactly what the admission took.
LEMMA Leaving ==
  ASSUME IInv, NEW c \in Holders, GiveBack(c),
         request' = [request EXCEPT ![c] = Nobody],
         Holders' = Holders \ {c}
  PROVE  /\ active' \in Nat /\ prefill' \in Nat
         /\ prefilling' \in [Clients -> BOOLEAN]
         /\ CountersExact'
         /\ SlotsRespected'
         /\ ColdPromptsSerialize'
<1> USE DEF IInv
<1>1. c \in Clients /\ TypeOK
  BY DEF Holders
<1>2. /\ active' = active - 1
      /\ prefill' = IF prefilling[c] THEN prefill - 1 ELSE prefill
      /\ prefilling' = [prefilling EXCEPT ![c] = FALSE]
  BY DEF GiveBack
<1>3. Prefillers' = Prefillers \ {c}
  BY <1>1, <1>2 DEF Prefillers, TypeOK, Holders
<1>4. c \in Prefillers <=> prefilling[c]
  BY DEF Prefillers
<1>5. /\ IsFiniteSet(Holders) /\ IsFiniteSet(Prefillers)
      /\ active \in Nat /\ prefill \in Nat
      /\ active = Cardinality(Holders) /\ prefill = Cardinality(Prefillers)
  BY <1>1, HoldersFinite DEF TypeOK, CountersExact
<1>6. /\ active' = Cardinality(Holders') /\ Cardinality(Holders') \in Nat
      /\ prefill' = Cardinality(Prefillers') /\ Cardinality(Prefillers') \in Nat
  <2>1. /\ Cardinality(Holders') = active - 1
        /\ Cardinality(Prefillers') = IF prefilling[c] THEN prefill - 1 ELSE prefill
    BY <1>3, <1>4, <1>5, FS_RemoveElement
  <2>2. IsFiniteSet(Holders') /\ IsFiniteSet(Prefillers')
    BY <1>3, <1>5, FS_RemoveElement
  <2>3. QED
    BY <1>2, <2>1, <2>2, FS_CardinalityType
<1>7. SlotsRespected'
  BY <1>2, <1>5, <1>6, LimitAssumption DEF SlotsRespected
<1>8. ColdPromptsSerialize'
  <2> SUFFICES ASSUME NEW d \in Holders', NEW e \in Holders', d # e,
                      request'[d].class = "cold"
               PROVE  request'[e].class # "cold" /\ ~prefilling'[d]
    BY DEF ColdPromptsSerialize
  <2>1. d \in Holders /\ e \in Holders /\ d \in Clients /\ e \in Clients
        /\ d # c /\ e # c
    BY DEF Holders
  <2>2. QED
    BY <1>1, <1>2, <2>1 DEF ColdPromptsSerialize, TypeOK
<1>9. prefilling' \in [Clients -> BOOLEAN]
  BY <1>1, <1>2 DEF TypeOK
<1>10. QED
  BY <1>6, <1>7, <1>8, <1>9 DEF CountersExact

-----------------------------------------------------------------------------
(* Every operation preserves the invariant.                                *)

LEMMA InitInv == Init => IInv
<1> SUFFICES ASSUME Init PROVE IInv
  OBVIOUS
<1>1. Holders = {} /\ Prefillers = {} /\ Queued = {}
  BY DEF Init, Holders, Prefillers, Queued
<1>2. TypeOK
  <2>1. waiting \in Seq(Clients) /\ served \in Seq(Conversations)
    BY DEF Init
  <2>2. age \in [Clients -> 0..AgingAfter] /\ servedAge \in [Conversations -> 0..Forgotten]
    BY TimeAssumption DEF Init, Forgotten
  <2>3. QED
    BY <2>1, <2>2 DEF Init, TypeOK, Stages
<1>3. QueueHoldsTheParked
  BY <1>1 DEF Init, QueueHoldsTheParked, ToSet, IsInjective
<1>4. CountersExact /\ SlotsRespected
  BY <1>1, FS_EmptySet, LimitAssumption DEF Init, CountersExact, SlotsRespected
<1>5. ColdPromptsSerialize /\ NobodyParkedNeedlessly
  BY <1>1 DEF ColdPromptsSerialize, NobodyParkedNeedlessly
<1>6. ColdIsPhaseAware
  BY DEF Init, ColdIsPhaseAware, Nobody
<1>7. QED
  BY <1>2, <1>3, <1>4, <1>5, <1>6 DEF IInv

LEMMA AcquireAtOnceInv ==
  ASSUME IInv, NEW c \in Clients, NEW r \in Requests,
         r.class = "cold" => PhaseAware, AcquireAtOnce(c, r)
  PROVE  IInv'
<1> USE DEF IInv
<1>1. Holders' = Holders \union {c} /\ c \notin Holders /\ Queued' = Queued
  BY DEF AcquireAtOnce, Holders, Queued, TypeOK
<1>2. /\ active' \in Nat /\ prefill' \in Nat
      /\ prefilling' \in [Clients -> BOOLEAN]
      /\ CountersExact' /\ SlotsRespected' /\ ColdPromptsSerialize'
  BY <1>1, Entering DEF AcquireAtOnce
<1>3. TypeOK'
  BY <1>2 DEF AcquireAtOnce, TypeOK, Stages
<1>4. QueueHoldsTheParked' /\ Queued' = {}
  BY <1>1 DEF AcquireAtOnce, QueueHoldsTheParked, ToSet
<1>5. NobodyParkedNeedlessly' /\ ColdIsPhaseAware'
  BY <1>4 DEF AcquireAtOnce, NobodyParkedNeedlessly, ColdIsPhaseAware, TypeOK
<1>6. QED
  BY <1>2, <1>3, <1>4, <1>5

LEMMA AcquireQueuedInv ==
  ASSUME IInv, NEW c \in Clients, NEW r \in Requests,
         r.class = "cold" => PhaseAware, AcquireQueued(c, r)
  PROVE  IInv'
<1> USE DEF IInv
<1>1. /\ Holders' = Holders /\ Prefillers' = Prefillers
      /\ Queued' = Queued \union {c}
      /\ c \notin Queued /\ c \notin Holders
  BY DEF AcquireQueued, Holders, Prefillers, Queued, TypeOK
<1>2. QueueHoldsTheParked' /\ waiting' \in Seq(Clients)
  BY <1>1, AppendOnce DEF AcquireQueued, QueueHoldsTheParked, TypeOK
<1>3. TypeOK'
  BY <1>2 DEF AcquireQueued, TypeOK, Stages
<1>4. CountersExact' /\ SlotsRespected'
  BY <1>1 DEF AcquireQueued, CountersExact, SlotsRespected
<1>5. ColdPromptsSerialize'
  BY <1>1 DEF AcquireQueued, ColdPromptsSerialize, TypeOK, Holders
<1>6. NobodyParkedNeedlessly' /\ ColdIsPhaseAware'
  BY DEF AcquireQueued, NobodyParkedNeedlessly, ColdIsPhaseAware, TypeOK
<1>7. QED
  BY <1>2, <1>3, <1>4, <1>5, <1>6

LEMMA PromoteBestInv ==
  ASSUME IInv, PromoteBest
  PROVE  IInv'
<1> USE DEF IInv
<1>1. PICK i \in DOMAIN waiting :
        /\ IsBest(i)
        /\ stage' = [stage EXCEPT ![waiting[i]] = "granted"]
        /\ age' = [age EXCEPT ![waiting[i]] = 0]
        /\ Admit(waiting[i], request[waiting[i]])
        /\ waiting' = RemoveAt(waiting, i)
  BY DEF PromoteBest
<1> DEFINE c == waiting[i]
<1>2. waiting \in Seq(Clients) /\ i \in 1..Len(waiting) /\ c \in Clients
  BY <1>1 DEF TypeOK
<1>3. CanAdmit(request[c].class)
  BY <1>1 DEF IsBest, Admissible
<1>4. c \in Queued
  BY <1>1 DEF QueueHoldsTheParked, ToSet
<1> HIDE DEF c
<1>5. /\ stage' = [stage EXCEPT ![c] = "granted"]
      /\ age' = [age EXCEPT ![c] = 0]
      /\ Admit(c, request[c])
      /\ UNCHANGED <<request, served, servedAge, promptTokens, promoting>>
      /\ promoting
  BY <1>1 DEF c, PromoteBest
<1>6. /\ Holders' = Holders \union {c} /\ Queued' = Queued \ {c}
      /\ c \in Clients \ Holders
  BY <1>2, <1>4, <1>5 DEF Holders, Queued, TypeOK
<1>7. /\ request[c] \in Requests \union {Nobody}
      /\ request[c].class = "cold" => PhaseAware
      /\ request' = [request EXCEPT ![c] = request[c]]
  BY <1>2, <1>5 DEF TypeOK, ColdIsPhaseAware
<1>8. /\ active' \in Nat /\ prefill' \in Nat
      /\ prefilling' \in [Clients -> BOOLEAN]
      /\ CountersExact' /\ SlotsRespected' /\ ColdPromptsSerialize'
  BY <1>3, <1>5, <1>6, <1>7, Entering
<1>9. QueueHoldsTheParked' /\ waiting' \in Seq(Clients)
  BY <1>1, <1>2, <1>6, RemoveAtOnce DEF QueueHoldsTheParked, c
<1>10. TypeOK'
  <2>1. stage' \in [Clients -> Stages]
    BY <1>2, <1>5 DEF TypeOK, Stages
  <2>2. age' \in [Clients -> 0..AgingAfter]
    BY <1>2, <1>5, TimeAssumption DEF TypeOK
  <2>3. QED
    BY <1>5, <1>8, <1>9, <2>1, <2>2 DEF TypeOK
<1>11. NobodyParkedNeedlessly' /\ ColdIsPhaseAware'
  BY <1>5 DEF NobodyParkedNeedlessly, ColdIsPhaseAware
<1>12. QED
  BY <1>8, <1>9, <1>10, <1>11

LEMMA PromoteDoneInv ==
  ASSUME IInv, PromoteDone
  PROVE  IInv'
<1> USE DEF IInv
<1>1. /\ Holders' = Holders /\ Prefillers' = Prefillers /\ Queued' = Queued
      /\ TypeOK' /\ QueueHoldsTheParked' /\ CountersExact' /\ SlotsRespected'
      /\ ColdPromptsSerialize' /\ ColdIsPhaseAware'
  BY DEF PromoteDone, Holders, Prefillers, Queued, TypeOK, QueueHoldsTheParked,
         CountersExact, SlotsRespected, ColdPromptsSerialize, ColdIsPhaseAware
<1>2. ASSUME NEW c \in Queued
      PROVE  ~CanAdmit(request[c].class)
  <2>1. PICK i \in DOMAIN waiting : waiting[i] = c
    BY <1>2 DEF QueueHoldsTheParked, ToSet
  <2>2. QED
    BY <2>1 DEF PromoteDone, Admissible
<1>3. NobodyParkedNeedlessly'
  BY <1>1, <1>2 DEF PromoteDone, NobodyParkedNeedlessly, CanAdmit
<1>4. QED
  BY <1>1, <1>3

LEMMA ResumeInv ==
  ASSUME IInv, NEW c \in Clients, Resume(c)
  PROVE  IInv'
<1> USE DEF IInv
<1>1. Holders' = Holders /\ Prefillers' = Prefillers /\ Queued' = Queued
  BY DEF Resume, Holders, Prefillers, Queued, TypeOK
<1>2. TypeOK'
  BY DEF Resume, TypeOK, Stages
<1>3. /\ QueueHoldsTheParked' /\ CountersExact' /\ SlotsRespected'
      /\ ColdPromptsSerialize' /\ ColdIsPhaseAware' /\ NobodyParkedNeedlessly'
  BY <1>1 DEF Resume, QueueHoldsTheParked, CountersExact, SlotsRespected,
     ColdPromptsSerialize, ColdIsPhaseAware, NobodyParkedNeedlessly, CanAdmit
<1>4. QED
  BY <1>2, <1>3

LEMMA CancelQueuedInv ==
  ASSUME IInv, NEW c \in Clients, CancelQueued(c)
  PROVE  IInv'
<1> USE DEF IInv
<1>1. /\ Holders' = Holders /\ Prefillers' = Prefillers
      /\ Queued' = Queued \ {c} /\ c \notin Holders
  BY DEF CancelQueued, Leave, Holders, Prefillers, Queued, TypeOK
<1>2. PICK i \in DOMAIN waiting : waiting[i] = c /\ waiting' = RemoveAt(waiting, i)
  BY DEF CancelQueued
<1>3. i \in 1..Len(waiting) /\ waiting \in Seq(Clients)
  BY <1>2 DEF TypeOK
<1>4. QueueHoldsTheParked' /\ waiting' \in Seq(Clients)
  BY <1>1, <1>2, <1>3, RemoveAtOnce DEF QueueHoldsTheParked
<1>5. TypeOK'
  BY <1>4, TimeAssumption DEF CancelQueued, Leave, TypeOK, Stages
<1>6. CountersExact' /\ SlotsRespected'
  BY <1>1 DEF CancelQueued, CountersExact, SlotsRespected
<1>7. ColdPromptsSerialize'
  BY <1>1 DEF CancelQueued, Leave, ColdPromptsSerialize, TypeOK, Holders
<1>8. NobodyParkedNeedlessly' /\ ColdIsPhaseAware'
  BY <1>1 DEF CancelQueued, Leave, NobodyParkedNeedlessly, ColdIsPhaseAware,
     CanAdmit, TypeOK, Queued, Nobody
<1>9. QED
  BY <1>4, <1>5, <1>6, <1>7, <1>8

LEMMA CancelGrantedInv ==
  ASSUME IInv, NEW c \in Clients, CancelGranted(c)
  PROVE  IInv'
<1> USE DEF IInv
<1>1. Holders' = Holders \ {c} /\ c \in Holders /\ Queued' = Queued
  BY DEF CancelGranted, Leave, Holders, Queued, TypeOK
<1>2. /\ active' \in Nat /\ prefill' \in Nat
      /\ prefilling' \in [Clients -> BOOLEAN]
      /\ CountersExact' /\ SlotsRespected' /\ ColdPromptsSerialize'
  BY <1>1, Leaving DEF CancelGranted, Leave
<1>3. TypeOK'
  BY <1>2 DEF CancelGranted, Leave, TypeOK, Stages
<1>4. QueueHoldsTheParked'
  BY <1>1 DEF CancelGranted, QueueHoldsTheParked
<1>5. NobodyParkedNeedlessly' /\ ColdIsPhaseAware'
  BY DEF CancelGranted, Leave, NobodyParkedNeedlessly, ColdIsPhaseAware, TypeOK, Nobody
<1>6. QED
  BY <1>2, <1>3, <1>4, <1>5

LEMMA MarkDecodeInv ==
  ASSUME IInv, NEW c \in Clients, MarkDecode(c)
  PROVE  IInv'
<1> USE DEF IInv
<1>1. /\ Holders' = Holders /\ Queued' = Queued /\ c \in Prefillers
      /\ Prefillers' = Prefillers \ {c}
  BY DEF MarkDecode, Holders, Prefillers, Queued, TypeOK
<1>2. /\ IsFiniteSet(Prefillers) /\ prefill \in Nat
      /\ prefill = Cardinality(Prefillers)
  BY HoldersFinite DEF TypeOK, CountersExact
<1>3. /\ prefill' = Cardinality(Prefillers') /\ prefill' \in Nat
      /\ prefill' = prefill - 1
  <2>1. IsFiniteSet(Prefillers') /\ Cardinality(Prefillers') = Cardinality(Prefillers) - 1
    BY <1>1, <1>2, FS_RemoveElement
  <2>2. QED
    BY <1>2, <2>1, FS_CardinalityType DEF MarkDecode
<1>4. CountersExact' /\ SlotsRespected'
  BY <1>1, <1>2, <1>3 DEF MarkDecode, CountersExact, SlotsRespected
<1>5. TypeOK'
  BY <1>3 DEF MarkDecode, TypeOK
<1>6. QueueHoldsTheParked' /\ NobodyParkedNeedlessly' /\ ColdIsPhaseAware'
  BY <1>1 DEF MarkDecode, QueueHoldsTheParked, NobodyParkedNeedlessly, ColdIsPhaseAware
<1>7. ColdPromptsSerialize'
  BY <1>1 DEF MarkDecode, ColdPromptsSerialize, TypeOK, Holders
<1>8. QED
  BY <1>4, <1>5, <1>6, <1>7

\* Remembering a turn keeps the types of what is remembered.
LEMMA RememberType ==
  ASSUME TypeOK, NEW r \in Requests \union {Nobody}, Remember(r)
  PROVE  /\ served' \in Seq(Conversations)
         /\ servedAge' \in [Conversations -> 0..Forgotten]
         /\ promptTokens' \in [Conversations -> Nat]
<1>1. CASE r.conversation = NoConversation
  BY <1>1 DEF Remember, TypeOK
<1>2. CASE r.conversation # NoConversation
  <2> DEFINE k     == r.conversation
             ages  == [servedAge EXCEPT ![k] = 0]
             kept  == Pruned(Moved(served, k), ages)
             sizes == IF r.tokens > 0 THEN [promptTokens EXCEPT ![k] = r.tokens]
                                      ELSE promptTokens
  <2>1. /\ served' = kept
        /\ servedAge' = [q \in Conversations |->
                            IF q \in ToSet(kept) THEN ages[q] ELSE Forgotten]
        /\ promptTokens' = [q \in Conversations |->
                              IF q \in ToSet(kept) THEN sizes[q] ELSE 0]
    BY <1>2 DEF Remember
  <2>2. k \in Conversations /\ r.tokens \in Nat
    <3>1. r \in Requests
      BY <1>2 DEF Nobody
    <3>2. r.conversation \in Keys /\ r.tokens \in PromptSizes
      BY <3>1 DEF Requests
    <3>3. QED
      BY <1>2, <3>2, SizesAssumption DEF Keys
  <2>3. ages \in [Conversations -> 0..Forgotten] /\ sizes \in [Conversations -> Nat]
    BY <2>2, TimeAssumption DEF TypeOK, Forgotten
  <2>4. Moved(served, k) \in Seq(Conversations)
    <3>1. served \in Seq(Conversations)
      BY DEF TypeOK
    <3>2. CASE k \in ToSet(served)
      <4> DEFINE i == CHOOSE j \in DOMAIN served : served[j] = k
      <4>1. i \in 1..Len(served)
        BY <3>1, <3>2 DEF ToSet
      <4>2. RemoveAt(served, i) \in Seq(Conversations)
        BY <3>1, <4>1, RemoveAtElements
      <4>3. QED
        BY <2>2, <3>2, <4>2, AppendProperties DEF Moved
    <3>3. CASE k \notin ToSet(served)
      BY <2>2, <3>1, <3>3, AppendProperties DEF Moved
    <3>4. QED
      BY <3>2, <3>3
  <2> HIDE DEF k, ages, sizes
  <2>5. kept \in Seq(Conversations)
    <3> DEFINE order   == Moved(served, k)
               expired == Cardinality({i \in DOMAIN order : ages[order[i]] > FairShareWindow})
               excess  == Len(order) - RecentCap
               first   == 1 + (IF expired < excess THEN excess ELSE expired)
    <3>1. order \in Seq(Conversations)
      BY <2>4
    <3> HIDE DEF order
    <3>2. expired \in Nat
      <4>1. IsFiniteSet(1..Len(order)) /\ DOMAIN order = 1..Len(order)
        BY <3>1, FS_Interval
      <4>2. {i \in DOMAIN order : ages[order[i]] > FairShareWindow} \in SUBSET (1..Len(order))
        BY <4>1
      <4>3. QED
        BY <4>1, <4>2, FS_Subset, FS_CardinalityType
    <3> HIDE DEF expired
    <3>3. first \in Int /\ first >= 1
      BY <3>1, <3>2, CapAssumption
    <3> HIDE DEF first
    <3>4. SubSeq(order, first, Len(order)) \in Seq(Conversations)
      <4>1. \A i \in first..Len(order) : order[i] \in Conversations
        BY <3>1, <3>3
      <4>2. QED
        BY <3>1, <3>3, <4>1, SubSeqProperties
    <3>5. kept = order \/ kept = SubSeq(order, first, Len(order))
      BY DEF Pruned, order, first, expired
    <3>6. QED
      BY <3>1, <3>4, <3>5
  <2> HIDE DEF kept
  <2>6. QED
    BY <2>1, <2>3, <2>5, TimeAssumption DEF Forgotten
<1>3. QED
  BY <1>1, <1>2

LEMMA ReleaseInv ==
  ASSUME IInv, NEW c \in Clients, Release(c)
  PROVE  IInv'
<1> USE DEF IInv
<1>1. Holders' = Holders \ {c} /\ c \in Holders /\ Queued' = Queued
  BY DEF Release, Leave, Holders, Queued, TypeOK
<1>2. /\ active' \in Nat /\ prefill' \in Nat
      /\ prefilling' \in [Clients -> BOOLEAN]
      /\ CountersExact' /\ SlotsRespected' /\ ColdPromptsSerialize'
  BY <1>1, Leaving DEF Release, Leave
<1>3. /\ served' \in Seq(Conversations)
      /\ servedAge' \in [Conversations -> 0..Forgotten]
      /\ promptTokens' \in [Conversations -> Nat]
  BY RememberType DEF Release, TypeOK
<1>4. TypeOK'
  BY <1>2, <1>3 DEF Release, Leave, TypeOK, Stages
<1>5. QueueHoldsTheParked'
  BY <1>1 DEF Release, QueueHoldsTheParked
<1>6. NobodyParkedNeedlessly' /\ ColdIsPhaseAware'
  BY DEF Release, Leave, NobodyParkedNeedlessly, ColdIsPhaseAware, TypeOK, Nobody
<1>7. QED
  BY <1>2, <1>4, <1>5, <1>6

LEMMA TickInv ==
  ASSUME IInv, Tick
  PROVE  IInv'
<1> USE DEF IInv
<1>1. Holders' = Holders /\ Prefillers' = Prefillers /\ Queued' = Queued
  BY DEF Tick, Holders, Prefillers, Queued
<1>2. /\ age' \in [Clients -> 0..AgingAfter]
      /\ servedAge' \in [Conversations -> 0..Forgotten]
  BY TimeAssumption DEF Tick, Older, TypeOK, Forgotten
<1>3. TypeOK'
  BY <1>2 DEF Tick, TypeOK
<1>4. /\ QueueHoldsTheParked' /\ CountersExact' /\ SlotsRespected'
      /\ ColdPromptsSerialize' /\ ColdIsPhaseAware' /\ NobodyParkedNeedlessly'
  BY <1>1 DEF Tick, QueueHoldsTheParked, CountersExact, SlotsRespected,
     ColdPromptsSerialize, ColdIsPhaseAware, NobodyParkedNeedlessly, CanAdmit
<1>5. QED
  BY <1>3, <1>4

LEMMA StepInv == IInv /\ [Next]_vars => IInv'
<1> SUFFICES ASSUME IInv, [Next]_vars PROVE IInv'
  OBVIOUS
<1>1. ASSUME NEW c \in Clients, Acquire(c)
      PROVE  IInv'
  <2>1. PICK k \in Keys, lane \in Lanes, tokens \in PromptSizes :
          \/ AcquireAtOnce(c, Asked(k, lane, tokens))
          \/ AcquireQueued(c, Asked(k, lane, tokens))
    BY <1>1 DEF Acquire
  <2>2. QED
    BY <2>1, AskedType, AcquireAtOnceInv, AcquireQueuedInv
<1>2. ASSUME NEW c \in Clients,
             Resume(c) \/ CancelQueued(c) \/ CancelGranted(c) \/ MarkDecode(c) \/ Release(c)
      PROVE  IInv'
  BY <1>2, ResumeInv, CancelQueuedInv, CancelGrantedInv, MarkDecodeInv, ReleaseInv
<1>3. CASE PromoteBest \/ PromoteDone \/ Tick
  BY <1>3, PromoteBestInv, PromoteDoneInv, TickInv
<1>4. CASE UNCHANGED vars
  BY <1>4 DEF vars, IInv, TypeOK, QueueHoldsTheParked, CountersExact, SlotsRespected,
     ColdPromptsSerialize, NobodyParkedNeedlessly, ColdIsPhaseAware, Holders,
     Prefillers, Queued, CanAdmit
<1>5. QED
  BY <1>1, <1>2, <1>3, <1>4 DEF Next, Promote

-----------------------------------------------------------------------------
(* The theorems.                                                           *)

THEOREM InvHolds == Spec => []IInv
<1>1. QED
  BY InitInv, StepInv, PTL DEF Spec

\* Every variable keeps its type; the two counters never go below zero.
THEOREM TypeCorrect == Spec => []TypeOK
<1>1. IInv => TypeOK
  BY DEF IInv
<1>2. QED
  BY <1>1, InvHolds, PTL

\* The queue holds the parked clients, each once.
THEOREM QueueCorrect == Spec => []QueueHoldsTheParked
<1>1. IInv => QueueHoldsTheParked
  BY DEF IInv
<1>2. QED
  BY <1>1, InvHolds, PTL

\* The counters are exact, so no slot leaks and none is given back twice.
THEOREM CountersCorrect == Spec => []CountersExact
<1>1. IInv => CountersExact
  BY DEF IInv
<1>2. QED
  BY <1>1, InvHolds, PTL

\* At most Limit requests hold slots; the phase-aware policy prefills one.
THEOREM LimitCorrect == Spec => []SlotsRespected
<1>1. IInv => SlotsRespected
  BY DEF IInv
<1>2. QED
  BY <1>1, InvHolds, PTL

\* Cold prompts never overlap one another, nor anything else while prefilling.
THEOREM ColdCorrect == Spec => []ColdPromptsSerialize
<1>1. IInv => ColdPromptsSerialize
  BY DEF IInv
<1>2. QED
  BY <1>1, InvHolds, PTL

\* No admissible request is parked outside the promotion loop.
THEOREM NoLostWakeup == Spec => []NobodyParkedNeedlessly
<1>1. IInv => NobodyParkedNeedlessly
  BY DEF IInv
<1>2. QED
  BY <1>1, InvHolds, PTL

-----------------------------------------------------------------------------
(* Under the counting policy safety reviews are served first.              *)

LEMMA LanesRank ==
  ASSUME NEW c \in Clients
  PROVE  /\ request[c].lane = "bulk" => Lane(c) \in {1, 2}
         /\ request[c].lane = "safety" => Lane(c) = 0
BY DEF Lane, LaneRank

\* Every queued waiter is as admissible as the one that is promoted, so the
\* order of lanes decides.
LEMMA PromotedBeforeBulk ==
  ASSUME IInv, PhaseAware = FALSE, PromoteBest, NEW c \in Holders' \ Holders,
         request'[c].lane = "bulk", NEW d \in Queued
  PROVE  request[d].lane # "safety"
<1> USE DEF IInv
<1>1. PICK i \in DOMAIN waiting :
        /\ IsBest(i)
        /\ stage' = [stage EXCEPT ![waiting[i]] = "granted"]
        /\ request' = request
  BY DEF PromoteBest
<1>2. c = waiting[i]
  BY <1>1 DEF Holders, TypeOK
<1>3. PICK j \in DOMAIN waiting : waiting[j] = d
  BY DEF QueueHoldsTheParked, ToSet
<1>4. SUFFICES ASSUME request[d].lane = "safety" PROVE FALSE
  OBVIOUS
<1>5. j # i
  BY <1>1, <1>2, <1>3, <1>4
<1>6. j \in Admissible
  BY <1>1 DEF IsBest, Admissible, CanAdmit
<1>7. Precedes(i, j)
  BY <1>1, <1>5, <1>6 DEF IsBest
<1>8. Lane(c) < Lane(d) \/ Lane(c) = Lane(d)
  BY <1>2, <1>3, <1>7 DEF Precedes
<1>9. c \in Clients /\ d \in Clients
  BY DEF Holders, Queued
<1>10. Lane(c) \in {1, 2} /\ Lane(d) = 0
  BY <1>1, <1>4, <1>9, LanesRank
<1>11. QED
  BY <1>8, <1>10

\* While slots are merely counted, no bulk request gets a slot past a safety
\* review that is parked, however long it has waited.
THEOREM SafetyFirst ==
  ASSUME PhaseAware = FALSE
  PROVE  Spec => SafetyNotOvertaken
<1>1. ASSUME IInv, [Next]_vars, NEW c \in Holders' \ Holders, request'[c].lane = "bulk",
             NEW d \in Queued
      PROVE  request[d].lane # "safety"
  <2>1. CASE PromoteBest
    BY <1>1, <2>1, PromotedBeforeBulk
  <2>2. CASE \E e \in Clients : Acquire(e)
    <3>1. PICK e \in Clients, r \in Requests : AcquireAtOnce(e, r) \/ AcquireQueued(e, r)
      BY <2>2, AskedType DEF Acquire
    <3>2. ~AcquireQueued(e, r)
      BY <1>1 DEF AcquireQueued, Holders, IInv, TypeOK
    <3>3. waiting = <<>>
      BY <3>1, <3>2 DEF AcquireAtOnce
    <3>4. QED
      BY <1>1, <3>3 DEF IInv, QueueHoldsTheParked, ToSet
  <2>3. CASE \E e \in Clients : \/ Resume(e) \/ CancelQueued(e) \/ CancelGranted(e)
                               \/ MarkDecode(e) \/ Release(e)
    BY <1>1, <2>3 DEF Resume, CancelQueued, CancelGranted, MarkDecode, Release, Leave,
       Holders, IInv, TypeOK
  <2>4. CASE PromoteDone \/ Tick \/ UNCHANGED vars
    BY <1>1, <2>4 DEF PromoteDone, Tick, vars, Holders
  <2>5. QED
    BY <1>1, <2>1, <2>2, <2>3, <2>4 DEF Next, Promote
<1>2. IInv /\ [Next]_vars =>
        [\A c \in Clients :
           /\ c \in Holders' \ Holders
           /\ request'[c].lane = "bulk"
           => \A d \in Queued : request[d].lane # "safety"]_vars
  BY <1>1
<1>3. QED
  BY <1>2, InvHolds, PTL DEF Spec, SafetyNotOvertaken

-----------------------------------------------------------------------------
(* The scheduler implements its promise: one lemma per operation.          *)

LEMMA ImplInit == Init => Promise!Init
  BY DEF Init, Promise!Init, Holders, Prefillers, Queued, ColdOnes

\* There is room in the promise exactly when the counters say so.
LEMMA RoomIsCounted ==
  ASSUME IInv, NEW class \in {"small", "cold"}, CanAdmit(class)
  PROVE  Promise!Room(class = "cold")
<1>1. /\ IsFiniteSet(Holders) /\ IsFiniteSet(Prefillers)
      /\ active = Cardinality(Holders) /\ prefill = Cardinality(Prefillers)
  BY HoldersFinite DEF IInv, CountersExact
<1>2. /\ active = 0 => Holders = {}
      /\ prefill = 0 => Prefillers = {}
  BY <1>1, FS_EmptySet
<1>3. /\ Cardinality(Holders) < Limit
      /\ PhaseAware => IF class = "cold" THEN Holders = {} ELSE Prefillers = {}
  BY <1>1, <1>2 DEF CanAdmit
<1>4. ASSUME NEW isCold \in BOOLEAN, isCold <=> class = "cold"
      PROVE  Promise!Room(isCold)
  BY <1>3, <1>4 DEF Promise!Room, Cardinality, Promise!Cardinality
<1>5. QED
  BY <1>4

LEMMA ImplAcquireAtOnce ==
  ASSUME IInv, NEW c \in Clients, NEW r \in Requests, AcquireAtOnce(c, r)
  PROVE  Promise!Enter(c, r.class = "cold")
<1> USE DEF IInv
<1>1. /\ Holders' = Holders \union {c} /\ Queued' = Queued
      /\ c \notin Holders /\ c \notin Queued
  BY DEF AcquireAtOnce, Holders, Queued, TypeOK
<1>2. ColdOnes' = IF r.class = "cold" THEN ColdOnes \union {c} ELSE ColdOnes
  BY <1>1 DEF AcquireAtOnce, ColdOnes, TypeOK, Holders, Queued
<1>3. \/ Prefillers' = Prefillers
      \/ PhaseAware /\ Prefillers' = Prefillers \union {c}
  BY <1>1 DEF AcquireAtOnce, Admit, Prefillers, TypeOK, Holders
<1>4. Promise!Room(r.class = "cold")
  BY RoomIsCounted DEF AcquireAtOnce, Requests
<1>5. Queued' = Queued \ {c}
  BY <1>1
<1>6. QED
  BY <1>1, <1>2, <1>3, <1>4, <1>5 DEF Promise!Enter, Promise!Marked

LEMMA ImplAcquireQueued ==
  ASSUME IInv, NEW c \in Clients, NEW r \in Requests, AcquireQueued(c, r)
  PROVE  Promise!Ask(c, r.class = "cold")
<1> USE DEF IInv
<1>1. /\ Holders' = Holders /\ Prefillers' = Prefillers
      /\ Queued' = Queued \union {c} /\ c \notin Queued \union Holders
  BY DEF AcquireQueued, Holders, Prefillers, Queued, TypeOK
<1>2. ColdOnes' = IF r.class = "cold" THEN ColdOnes \union {c} ELSE ColdOnes
  BY <1>1 DEF AcquireQueued, ColdOnes, TypeOK, Holders, Queued
<1>3. QED
  BY <1>1, <1>2 DEF Promise!Ask, Promise!Marked

LEMMA ImplPromoteBest ==
  ASSUME IInv, PromoteBest
  PROVE  \E c \in Clients : \E isCold \in BOOLEAN : Promise!Enter(c, isCold)
<1> USE DEF IInv
<1>1. PICK i \in DOMAIN waiting :
        /\ IsBest(i)
        /\ stage' = [stage EXCEPT ![waiting[i]] = "granted"]
        /\ Admit(waiting[i], request[waiting[i]])
  BY DEF PromoteBest
<1> DEFINE c == waiting[i]
<1>2. c \in Clients /\ c \in Queued /\ CanAdmit(request[c].class)
  BY <1>1 DEF TypeOK, QueueHoldsTheParked, ToSet, IsBest, Admissible, Queued
<1> HIDE DEF c
<1>3. /\ stage' = [stage EXCEPT ![c] = "granted"] /\ Admit(c, request[c])
      /\ UNCHANGED request
  BY <1>1 DEF c, PromoteBest
<1>4. /\ Holders' = Holders \union {c} /\ Queued' = Queued \ {c} /\ c \notin Holders
  BY <1>2, <1>3 DEF Holders, Queued, TypeOK
<1>5. request[c].class \in {"small", "cold"}
  BY <1>2 DEF TypeOK, Requests, Nobody
<1>6. ColdOnes' = IF request[c].class = "cold" THEN ColdOnes \union {c} ELSE ColdOnes
  BY <1>2, <1>3, <1>4 DEF ColdOnes
<1>7. \/ Prefillers' = Prefillers
      \/ PhaseAware /\ Prefillers' = Prefillers \union {c}
  BY <1>2, <1>3, <1>4 DEF Admit, Prefillers, TypeOK, Holders
<1>8. Promise!Room(request[c].class = "cold")
  BY <1>2, <1>5, RoomIsCounted
<1>9. c \in Queued => (request[c].class = "cold" <=> c \in ColdOnes)
  BY <1>2 DEF ColdOnes
<1>10. Promise!Enter(c, request[c].class = "cold")
  BY <1>4, <1>6, <1>7, <1>8, <1>9 DEF Promise!Enter, Promise!Marked
<1>11. (request[c].class = "cold") \in BOOLEAN
  OBVIOUS
<1>12. QED
  BY <1>2, <1>10, <1>11

LEMMA ImplCancelQueued ==
  ASSUME IInv, NEW c \in Clients, CancelQueued(c)
  PROVE  Promise!GiveUp(c)
<1> USE DEF IInv
<1>1. /\ Holders' = Holders /\ Prefillers' = Prefillers
      /\ Queued' = Queued \ {c} /\ c \in Queued /\ c \notin Holders
  BY DEF CancelQueued, Leave, Holders, Prefillers, Queued, TypeOK
<1>2. ColdOnes' = ColdOnes \ {c}
  BY <1>1 DEF CancelQueued, Leave, ColdOnes, TypeOK, Holders, Queued
<1>3. QED
  BY <1>1, <1>2 DEF Promise!GiveUp

\* A granted client that gives up and a running one that ends both exit.
LEMMA ImplExit ==
  ASSUME IInv, NEW c \in Clients, CancelGranted(c) \/ Release(c)
  PROVE  Promise!Exit(c)
<1> USE DEF IInv
<1>1. Leave(c) /\ GiveBack(c)
  BY DEF CancelGranted, Release
<1>2. stage[c] \in {"granted", "running"}
  BY DEF CancelGranted, Release
<1>3. /\ Holders' = Holders \ {c} /\ c \in Holders
      /\ Queued' = Queued /\ c \notin Queued
  BY <1>1, <1>2 DEF Leave, Holders, Queued, TypeOK
<1>4. Prefillers' = Prefillers \ {c}
  BY <1>1, <1>3 DEF GiveBack, Prefillers, TypeOK, Holders
<1>5. ColdOnes' = ColdOnes \ {c}
  BY <1>1, <1>3 DEF Leave, ColdOnes, TypeOK, Holders, Queued
<1>6. QED
  BY <1>3, <1>4, <1>5 DEF Promise!Exit

LEMMA ImplMarkDecode ==
  ASSUME IInv, NEW c \in Clients, MarkDecode(c)
  PROVE  Promise!Decode(c)
<1> USE DEF IInv
<1>1. /\ Holders' = Holders /\ Queued' = Queued /\ c \in Prefillers
      /\ Prefillers' = Prefillers \ {c}
  BY DEF MarkDecode, Holders, Prefillers, Queued, TypeOK
<1>2. ColdOnes' = ColdOnes
  BY <1>1 DEF MarkDecode, ColdOnes
<1>3. QED
  BY <1>1, <1>2 DEF Promise!Decode

LEMMA ImplStutter ==
  ASSUME IInv, \/ \E c \in Clients : Resume(c)
               \/ PromoteDone
               \/ Tick
               \/ UNCHANGED vars
  PROVE  UNCHANGED Promise!avars
<1>1. /\ UNCHANGED <<request, prefilling>>
      /\ Holders' = Holders /\ Queued' = Queued
  BY DEF IInv, TypeOK, Resume, PromoteDone, Tick, vars, Holders, Queued
<1>2. Prefillers' = Prefillers /\ ColdOnes' = ColdOnes
  BY <1>1 DEF Prefillers, ColdOnes
<1>3. QED
  BY <1>1, <1>2 DEF Promise!avars

LEMMA ImplStep == IInv /\ [Next]_vars => [Promise!Next]_(Promise!avars)
<1> SUFFICES ASSUME IInv, [Next]_vars PROVE [Promise!Next]_(Promise!avars)
  OBVIOUS
<1>1. ASSUME NEW c \in Clients, Acquire(c)
      PROVE  Promise!Next
  <2>1. PICK k \in Keys, lane \in Lanes, tokens \in PromptSizes :
          \/ AcquireAtOnce(c, Asked(k, lane, tokens))
          \/ AcquireQueued(c, Asked(k, lane, tokens))
    BY <1>1 DEF Acquire
  <2>2. \E isCold \in BOOLEAN : Promise!Ask(c, isCold) \/ Promise!Enter(c, isCold)
    BY <2>1, AskedType, ImplAcquireAtOnce, ImplAcquireQueued
  <2>3. QED
    BY <2>2 DEF Promise!Next
<1>2. ASSUME NEW c \in Clients,
             CancelQueued(c) \/ CancelGranted(c) \/ MarkDecode(c) \/ Release(c)
      PROVE  Promise!Next
  BY <1>2, ImplCancelQueued, ImplExit, ImplMarkDecode DEF Promise!Next
<1>3. CASE PromoteBest
  BY <1>3, ImplPromoteBest DEF Promise!Next
<1>4. CASE (\E c \in Clients : Resume(c)) \/ PromoteDone \/ Tick \/ UNCHANGED vars
  BY <1>4, ImplStutter
<1>5. QED
  BY <1>1, <1>2, <1>3, <1>4 DEF Next, Promote

\* Counting and queueing, the scheduler lets clients in exactly as module
\* Admission does with sets.
THEOREM SchedulerImplementsAdmission == Spec => ImplementsAdmission
<1>1. QED
  BY ImplInit, InvHolds, ImplStep, PTL DEF Spec, ImplementsAdmission, Promise!Spec

-----------------------------------------------------------------------------
(* Fair share.  In what order conversations are remembered.                *)

Earlier(s, p, q) == \A i, j \in DOMAIN s : s[i] = p /\ s[j] = q => i < j

\* A turn that ends moves its conversation to the end and no other.
LEMMA MovedOrder ==
  ASSUME NEW s \in Seq(Conversations), IsInjective(s), NEW k \in Conversations
  PROVE  LET m == Moved(s, k) IN
         /\ m \in Seq(Conversations) /\ IsInjective(m)
         /\ Len(m) \in Nat \ {0} /\ m[Len(m)] = k
         /\ \A p, q : p # k /\ q # k /\ Earlier(s, p, q) => Earlier(m, p, q)
<1> DEFINE at == CHOOSE i \in DOMAIN s : s[i] = k
           rest == IF k \in ToSet(s) THEN RemoveAt(s, at) ELSE s
<1>1. /\ rest \in Seq(Conversations) /\ IsInjective(rest) /\ k \notin ToSet(rest)
      /\ \A p, q : Earlier(s, p, q) => Earlier(rest, p, q)
  <2>1. CASE k \in ToSet(s)
    <3>1. at \in 1..Len(s) /\ s[at] = k
      BY <2>1 DEF ToSet
    <3> HIDE DEF at
    <3>2. /\ RemoveAt(s, at) \in Seq(Conversations) /\ IsInjective(RemoveAt(s, at))
          /\ ToSet(RemoveAt(s, at)) = ToSet(s) \ {k}
      BY <3>1, RemoveAtOnce
    <3>3. /\ DOMAIN RemoveAt(s, at) = 1..(Len(s) - 1) /\ DOMAIN s = 1..Len(s)
          /\ \A j \in 1..(Len(s) - 1) : RemoveAt(s, at)[j] = IF j < at THEN s[j] ELSE s[j + 1]
      BY <3>1, <3>2, RemoveAtElements
    <3>4. ASSUME NEW p, NEW q, Earlier(s, p, q) PROVE Earlier(RemoveAt(s, at), p, q)
      <4> DEFINE m == RemoveAt(s, at)
      <4> SUFFICES ASSUME NEW i \in 1..(Len(s) - 1), NEW j \in 1..(Len(s) - 1), m[i] = p, m[j] = q
                   PROVE  i < j
        BY <3>3 DEF Earlier
      <4> DEFINE i0 == IF i < at THEN i ELSE i + 1
                 j0 == IF j < at THEN j ELSE j + 1
      <4>1. i0 \in 1..Len(s) /\ j0 \in 1..Len(s) /\ s[i0] = p /\ s[j0] = q
        BY <3>1, <3>3
      <4>2. i0 < j0
        BY <3>3, <3>4, <4>1 DEF Earlier
      <4> QED BY <3>1, <4>2
    <3> QED BY <2>1, <3>2, <3>4
  <2>2. CASE k \notin ToSet(s)
    BY <2>2
  <2> QED BY <2>1, <2>2
<1> HIDE DEF rest
<1> DEFINE m == Append(rest, k)
<1>2. /\ m \in Seq(Conversations) /\ DOMAIN m = 1..(Len(rest) + 1) /\ DOMAIN rest = 1..Len(rest)
      /\ Len(m) = Len(rest) + 1 /\ Len(rest) \in Nat
      /\ \A j \in 1..Len(rest) : m[j] = rest[j]
      /\ m[Len(rest) + 1] = k
  BY <1>1, AppendProperties
<1>3. IsInjective(m)
  BY <1>1, AppendOnce
<1> HIDE DEF m
<1>4. ASSUME NEW p, NEW q, p # k, q # k, Earlier(s, p, q) PROVE Earlier(m, p, q)
  <2>1. Earlier(rest, p, q)
    BY <1>1, <1>4
  <2> SUFFICES ASSUME NEW i \in 1..(Len(rest) + 1), NEW j \in 1..(Len(rest) + 1), m[i] = p, m[j] = q
               PROVE  i < j
    BY <1>2 DEF Earlier
  <2>2. i \in 1..Len(rest) /\ j \in 1..Len(rest)
    BY <1>2, <1>4
  <2> QED BY <1>2, <2>1, <2>2 DEF Earlier
<1>5. Moved(s, k) = m
  BY DEF Moved, m, rest
<1> QED BY <1>2, <1>3, <1>4, <1>5

\* An end of a sequence keeps its order and its last element.
LEMMA EndOrder ==
  ASSUME NEW s \in Seq(Conversations), IsInjective(s), NEW f \in 1..Len(s)
  PROVE  LET m == SubSeq(s, f, Len(s)) IN
         /\ IsInjective(m) /\ Len(m) \in Nat \ {0} /\ m[Len(m)] = s[Len(s)]
         /\ DOMAIN m = 1..Len(m)
         /\ \A p, q : Earlier(s, p, q) => Earlier(m, p, q)
<1> DEFINE m == SubSeq(s, f, Len(s))
<1>1. \A i \in f..Len(s) : s[i] \in Conversations
  OBVIOUS
<1>2. /\ m \in Seq(Conversations) /\ Len(m) = Len(s) - f + 1
      /\ \A j \in 1..(Len(s) - f + 1) : m[j] = s[f + j - 1]
  BY <1>1, SubSeqProperties
<1>3. DOMAIN m = 1..Len(m) /\ DOMAIN s = 1..Len(s) /\ Len(m) \in Nat \ {0}
  BY <1>2
<1> HIDE DEF m
<1>4. IsInjective(m)
  <2> SUFFICES ASSUME NEW i \in 1..Len(m), NEW j \in 1..Len(m), m[i] = m[j] PROVE i = j
    BY <1>3 DEF IsInjective
  <2>1. f + i - 1 \in 1..Len(s) /\ f + j - 1 \in 1..Len(s) /\ s[f + i - 1] = s[f + j - 1]
    BY <1>2
  <2>2. f + i - 1 = f + j - 1
    BY <1>3, <2>1 DEF IsInjective
  <2> QED BY <2>2
<1>5. m[Len(m)] = s[Len(s)]
  BY <1>2
<1>6. ASSUME NEW p, NEW q, Earlier(s, p, q) PROVE Earlier(m, p, q)
  <2> SUFFICES ASSUME NEW i \in 1..Len(m), NEW j \in 1..Len(m), m[i] = p, m[j] = q PROVE i < j
    BY <1>3 DEF Earlier
  <2>1. f + i - 1 \in 1..Len(s) /\ f + j - 1 \in 1..Len(s) /\ s[f + i - 1] = p /\ s[f + j - 1] = q
    BY <1>2
  <2>2. f + i - 1 < f + j - 1
    BY <1>3, <1>6, <2>1 DEF Earlier
  <2> QED BY <2>2
<1> QED BY <1>3, <1>4, <1>5, <1>6 DEF m

\* Whatever the cap makes the scheduler forget, it is not the turn that just
\* ended, and the others keep their order.
LEMMA PrunedOrder ==
  ASSUME NEW s \in Seq(Conversations), IsInjective(s), Len(s) # 0,
         NEW ages \in [Conversations -> 0..Forgotten], ages[s[Len(s)]] = 0
  PROVE  LET m == Pruned(s, ages) IN
         /\ IsInjective(m) /\ Len(m) \in Nat \ {0} /\ m[Len(m)] = s[Len(s)]
         /\ DOMAIN m = 1..Len(m)
         /\ \A p, q : Earlier(s, p, q) => Earlier(m, p, q)
<1> DEFINE gone == {i \in DOMAIN s : ages[s[i]] > FairShareWindow}
           expired == Cardinality(gone)
           excess == Len(s) - RecentCap
           first == 1 + (IF expired < excess THEN excess ELSE expired)
<1>1. Len(s) \in Nat \ {0} /\ DOMAIN s = 1..Len(s)
  OBVIOUS
<1>2. CASE Len(s) <= RecentCap
  <2>1. Pruned(s, ages) = s
    BY <1>2 DEF Pruned
  <2> QED BY <1>1, <2>1
<1>3. CASE ~(Len(s) <= RecentCap)
  <2>1. gone \subseteq 1..(Len(s) - 1)
    BY <1>1, TimeAssumption
  <2>2. /\ IsFiniteSet(1..(Len(s) - 1))
        /\ Cardinality(1..(Len(s) - 1)) = IF 1 > Len(s) - 1 THEN 0 ELSE (Len(s) - 1) - 1 + 1
    <3>1. 1 \in Int /\ Len(s) - 1 \in Int
      BY <1>1
    <3> QED BY <3>1, FS_Interval
  <2> HIDE DEF gone
  <2>3. IsFiniteSet(gone) /\ Cardinality(gone) <= Cardinality(1..(Len(s) - 1))
    BY <2>1, <2>2, FS_Subset
  <2>4. expired \in Nat /\ expired <= Len(s) - 1
    BY <1>1, <2>2, <2>3, FS_CardinalityType
  <2> HIDE DEF expired
  <2>5. first \in 1..Len(s)
    BY <1>1, <2>4, CapAssumption
  <2>6. Pruned(s, ages) = SubSeq(s, first, Len(s))
    BY <1>3 DEF Pruned, expired, gone
  <2> HIDE DEF first
  <2> QED BY <2>5, <2>6, EndOrder
<1> QED BY <1>2, <1>3

\* A conversation whose turn has ended is the last to have had one.
LEMMA Remembered ==
  ASSUME TypeOK, IsInjective(served), NEW r \in Requests \union {Nobody}, Remember(r),
         r.conversation # NoConversation
  PROVE  LET k == r.conversation IN
         /\ k \in Conversations /\ IsInjective(served')
         /\ k \in ToSet(served') /\ servedAge'[k] = 0
         /\ \A q \in ToSet(served') \ {k} : servedAge'[q] = servedAge[q]
         /\ \A p : p # k => Earlier(served', p, k)
         /\ \A p, q : p # k /\ q # k /\ Earlier(served, p, q) => Earlier(served', p, q)
<1> DEFINE k    == r.conversation
           ages == [servedAge EXCEPT ![k] = 0]
           m    == Moved(served, k)
           kept == Pruned(m, ages)
<1>1. k \in Conversations
  <2>1. r \in Requests
    BY DEF Nobody
  <2>2. r.conversation \in Keys
    BY <2>1 DEF Requests
  <2> QED BY <2>2 DEF Keys
<1>2. /\ served' = kept
      /\ servedAge' = [q \in Conversations |-> IF q \in ToSet(kept) THEN ages[q] ELSE Forgotten]
  BY DEF Remember
<1>3. /\ served \in Seq(Conversations) /\ ages \in [Conversations -> 0..Forgotten] /\ ages[k] = 0
      /\ \A q \in Conversations \ {k} : ages[q] = servedAge[q]
  BY <1>1, TimeAssumption DEF TypeOK, Forgotten
<1> HIDE DEF k, ages
<1>4. /\ m \in Seq(Conversations) /\ IsInjective(m) /\ Len(m) \in Nat \ {0} /\ m[Len(m)] = k
      /\ \A p, q : p # k /\ q # k /\ Earlier(served, p, q) => Earlier(m, p, q)
  BY <1>1, <1>3, MovedOrder
<1> HIDE DEF m
<1>5. /\ IsInjective(kept) /\ Len(kept) \in Nat \ {0} /\ kept[Len(kept)] = k
      /\ DOMAIN kept = 1..Len(kept)
      /\ \A p, q : Earlier(m, p, q) => Earlier(kept, p, q)
  BY <1>3, <1>4, PrunedOrder
<1>6. kept \in Seq(Conversations)
  BY <1>2, RememberType
<1> HIDE DEF kept
<1>7. k \in ToSet(kept) /\ ToSet(kept) \subseteq Conversations
  BY <1>5, <1>6 DEF ToSet
<1>8. ASSUME NEW p, p # k PROVE Earlier(kept, p, k)
  <2> SUFFICES ASSUME NEW i \in 1..Len(kept), NEW j \in 1..Len(kept), kept[i] = p, kept[j] = k
               PROVE  i < j
    BY <1>5 DEF Earlier
  <2>1. j \in DOMAIN kept /\ Len(kept) \in DOMAIN kept /\ kept[j] = kept[Len(kept)]
    BY <1>5
  <2>2. j = Len(kept)
    BY <2>1, <1>5 DEF IsInjective
  <2>3. i # j
    BY <1>8
  <2>4. i \in Int /\ i <= Len(kept) /\ Len(kept) \in Int
    BY <1>5
  <2> QED BY <2>2, <2>3, <2>4
<1>9. servedAge'[k] = 0 /\ \A q \in ToSet(kept) \ {k} : servedAge'[q] = servedAge[q]
  BY <1>1, <1>2, <1>3, <1>7
<1> QED BY <1>1, <1>2, <1>4, <1>5, <1>7, <1>8, <1>9 DEF k

-----------------------------------------------------------------------------
(* Fair share, on one slot and in one lane.                                *)

\* The cap never makes the scheduler forget a turn within the window: no more
\* conversations have had one than the cap keeps.
NothingForgotten ==
  [][\A k \in Conversations : k \in ToSet(served) /\ servedAge[k] <= FairShareWindow
                                => k \in ToSet(served')]_vars

\* Conversation k has had its turn before c: its next one is granted by aging,
\* for c has either aged itself or was served before k.
Behind(c, k) ==
  /\ \A h \in Holders : request[h].conversation = k => agedIn[h]
  /\ \/ age[c] >= AgingAfter
     \/ /\ k \in ToSet(served) /\ servedAge[k] <= FairShareWindow /\ servedAge[k] <= age[c]
        /\ Earlier(served, request[c].conversation, k)

FairTypes ==
  /\ agedIn \in [Clients -> BOOLEAN]
  /\ fairTurns \in [Clients -> [Conversations -> Nat]]

FairInv ==
  /\ FairTypes
  /\ IsInjective(served)
  /\ \A c \in Clients : stage[c] # "queued" => fairTurns[c] = NoTurns
  /\ \A c \in Queued, k \in Conversations :
       fairTurns[c][k] \in {0, 1} /\ (fairTurns[c][k] = 1 => Behind(c, k))

LEMMA FairStart == ObservedInit => IInv /\ FairInv
<1> SUFFICES ASSUME ObservedInit PROVE IInv /\ FairInv
  OBVIOUS
<1>1. Init
  BY DEF ObservedInit
<1>2. IInv
  BY <1>1, InitInv
<1>3. FairTypes /\ \A c \in Clients : fairTurns[c] = NoTurns
  BY DEF ObservedInit, FairTypes, NoTurns
<1>4. IsInjective(served) /\ Queued = {}
  BY <1>1 DEF Init, IsInjective, Queued
<1> QED BY <1>2, <1>3, <1>4 DEF FairInv

\* Nothing changes for the parked while no turn ends, none begins and no time
\* passes, whoever joins them or leaves.
LEMMA FairQuiet ==
  ASSUME FairInv, FairTypes', UNCHANGED <<served, servedAge>>,
         \A c \in Clients : stage'[c] # "queued" => fairTurns'[c] = NoTurns,
         \A c \in Queued' : \/ fairTurns'[c] = NoTurns
                            \/ /\ c \in Queued /\ fairTurns'[c] = fairTurns[c]
                               /\ request'[c] = request[c] /\ age'[c] = age[c],
         \A h \in Holders' : h \in Holders /\ request'[h] = request[h] /\ agedIn'[h] = agedIn[h]
  PROVE  FairInv'
<1>1. ASSUME NEW c \in Queued', NEW k \in Conversations
      PROVE  fairTurns'[c][k] \in {0, 1} /\ (fairTurns'[c][k] = 1 => Behind(c, k)')
  <2>1. CASE fairTurns'[c] = NoTurns
    BY <2>1 DEF NoTurns
  <2>2. CASE /\ c \in Queued /\ fairTurns'[c] = fairTurns[c]
             /\ request'[c] = request[c] /\ age'[c] = age[c]
    <3>1. fairTurns'[c][k] \in {0, 1} /\ (fairTurns'[c][k] = 1 => Behind(c, k))
      BY <2>2 DEF FairInv
    <3>2. Behind(c, k) => Behind(c, k)'
      BY <2>2 DEF Behind, Earlier
    <3> QED BY <3>1, <3>2
  <2> QED BY <2>1, <2>2
<1> QED BY <1>1 DEF FairInv

LEMMA FairAcquire ==
  ASSUME IInv, FairInv, NEW c \in Clients, Acquire(c), UNCHANGED history
  PROVE  FairInv'
<1>1. PICK r \in Requests : AcquireAtOnce(c, r) \/ AcquireQueued(c, r)
  BY AskedType DEF Acquire
<1>2. FairTypes'
  BY DEF history, FairInv, FairTypes
<1>3. CASE AcquireAtOnce(c, r)
  <2>1. Queued = {}
    BY <1>3 DEF AcquireAtOnce, IInv, QueueHoldsTheParked, ToSet
  <2>2. Queued' = {} /\ \A d \in Clients : fairTurns'[d] = NoTurns
    BY <1>3, <2>1 DEF AcquireAtOnce, IInv, TypeOK, Queued, FairInv, history
  <2> QED BY <1>2, <1>3, <2>2 DEF FairInv, AcquireAtOnce
<1>4. CASE AcquireQueued(c, r)
  <2>1. /\ Queued' = Queued \union {c} /\ Holders' = Holders /\ c \notin Holders /\ c \notin Queued
        /\ fairTurns'[c] = NoTurns /\ UNCHANGED <<served, servedAge, age, agedIn, fairTurns>>
        /\ \A d \in Clients \ {c} : request'[d] = request[d]
    BY <1>4 DEF AcquireQueued, IInv, TypeOK, Queued, Holders, FairInv, history
  <2>2. \A d \in Clients : stage'[d] # "queued" => fairTurns'[d] = NoTurns
    BY <2>1 DEF FairInv, Queued
  <2> QED BY <1>2, <2>1, <2>2, FairQuiet DEF Queued, Holders
<1> QED BY <1>1, <1>3, <1>4

LEMMA FairCancel ==
  ASSUME IInv, FairInv, NEW c \in Clients, ObservedCancel(c)
  PROVE  FairInv'
<1>1. /\ stage' = [stage EXCEPT ![c] = "idle"] /\ request' = [request EXCEPT ![c] = Nobody]
      /\ age' = [age EXCEPT ![c] = 0] \/ age' = age
      /\ UNCHANGED <<served, servedAge>>
      /\ agedIn' = [agedIn EXCEPT ![c] = FALSE] /\ fairTurns' = [fairTurns EXCEPT ![c] = NoTurns]
  BY DEF ObservedCancel, CancelQueued, CancelGranted, Leave
<1>2. NoTurns \in [Conversations -> Nat]
  BY DEF NoTurns
<1>3. FairTypes'
  BY <1>1, <1>2 DEF FairInv, FairTypes
<1>4. /\ Queued' = Queued \ {c} /\ Holders' = Holders \ {c} /\ fairTurns'[c] = NoTurns
      /\ \A d \in Clients \ {c} : /\ request'[d] = request[d] /\ age'[d] = age[d] /\ stage'[d] = stage[d]
                                  /\ fairTurns'[d] = fairTurns[d] /\ agedIn'[d] = agedIn[d]
  BY <1>1, <1>2 DEF IInv, TypeOK, Queued, Holders, FairInv, FairTypes
<1>5. \A d \in Clients : stage'[d] # "queued" => fairTurns'[d] = NoTurns
  BY <1>4 DEF FairInv
<1> QED BY <1>1, <1>3, <1>4, <1>5, FairQuiet DEF Queued, Holders

LEMMA FairResume ==
  ASSUME IInv, FairInv, UNCHANGED history,
         \/ \E c \in Clients : Resume(c) \/ MarkDecode(c)
         \/ PromoteDone
         \/ UNCHANGED vars
  PROVE  FairInv'
<1>1. /\ Queued' = Queued /\ Holders' = Holders
      /\ UNCHANGED <<request, age, served, servedAge, agedIn, fairTurns>>
  BY DEF Resume, MarkDecode, PromoteDone, vars, IInv, TypeOK, Queued, Holders, history
<1>2. FairTypes'
  BY <1>1 DEF FairInv, FairTypes
<1>3. \A d \in Clients : stage'[d] # "queued" => fairTurns'[d] = NoTurns
  BY <1>1 DEF FairInv, Queued
<1> QED BY <1>1, <1>2, <1>3, FairQuiet

\* Time that passes ages the parked as fast as it does turns.
LEMMA FairTick ==
  ASSUME AgingAfter <= FairShareWindow + 1, IInv, FairInv, Tick, UNCHANGED history
  PROVE  FairInv'
<1>1. /\ Queued' = Queued /\ Holders' = Holders
      /\ UNCHANGED <<request, served, stage, agedIn, fairTurns>>
  BY DEF Tick, Queued, Holders, history
<1>2. ASSUME NEW c \in Queued, NEW k \in Conversations, Behind(c, k) PROVE Behind(c, k)'
  <2>1. /\ age'[c] = Older(age[c], AgingAfter) /\ servedAge'[k] = Older(servedAge[k], Forgotten)
        /\ age[c] \in 0..AgingAfter /\ servedAge[k] \in 0..Forgotten
    BY DEF Tick, Queued, IInv, TypeOK
  <2>2. CASE age[c] >= AgingAfter
    BY <1>1, <1>2, <2>1, <2>2, TimeAssumption DEF Behind, Older
  <2>3. CASE ~(age[c] >= AgingAfter)
    <3>1. /\ k \in ToSet(served) /\ servedAge[k] <= FairShareWindow /\ servedAge[k] <= age[c]
          /\ Earlier(served, request[c].conversation, k)
      BY <1>2, <2>3 DEF Behind
    <3>2. /\ age'[c] = age[c] + 1 /\ servedAge'[k] = servedAge[k] + 1
          /\ servedAge'[k] <= age'[c]
          /\ servedAge'[k] <= FairShareWindow \/ age'[c] >= AgingAfter
      BY <2>1, <2>3, <3>1, TimeAssumption DEF Older, Forgotten
    <3>3. Earlier(served, request[c].conversation, k)' /\ k \in ToSet(served')
      BY <1>1, <3>1 DEF Earlier
    <3> QED BY <1>1, <1>2, <3>2, <3>3 DEF Behind
  <2> QED BY <2>2, <2>3
<1> QED BY <1>1, <1>2 DEF FairInv, FairTypes

\* With one slot, who is granted it goes before all the parked: were it a fair
\* turn of a conversation that has had its turn before c, c would precede it.
LEMMA FairPromote ==
  ASSUME Limit = 1, Lanes = {"bulk"}, IInv, FairInv, ObservedPromote
  PROVE  FairInv'
<1>1. PICK i \in DOMAIN waiting :
        /\ IsBest(i)
        /\ stage' = [stage EXCEPT ![waiting[i]] = "granted"]
        /\ age' = [age EXCEPT ![waiting[i]] = 0]
        /\ UNCHANGED <<request, served, servedAge>>
  BY DEF ObservedPromote, PromoteBest
<1> DEFINE d == waiting[i]
<1>2. d \in Queued /\ d \in Clients
  BY <1>1 DEF IInv, QueueHoldsTheParked, ToSet, Queued
<1>3. /\ Holders' = Holders \union {d} /\ d \notin Holders /\ Queued' = Queued \ {d}
      /\ \A c \in Queued' : age'[c] = age[c]
  BY <1>1, <1>2 DEF IInv, TypeOK, Queued, Holders
<1>4. /\ agedIn' = [agedIn EXCEPT ![d] = age[d] >= AgingAfter]
      /\ fairTurns' = [fairTurns EXCEPT ![d] = NoTurns]
  BY <1>3 DEF ObservedPromote
<1> HIDE DEF d
<1>5. FairTypes'
  <2>1. fairTurns' \in [Clients -> [Conversations -> Nat]]
    BY <1>4 DEF FairInv, FairTypes, NoTurns
  <2>2. agedIn' \in [Clients -> BOOLEAN]
    <3>1. (age[d] >= AgingAfter) \in BOOLEAN
      OBVIOUS
    <3> QED BY <1>4, <3>1, Zenon DEF FairInv, FairTypes
  <2> QED BY <2>1, <2>2 DEF FairTypes
<1>6. /\ fairTurns'[d] = NoTurns /\ agedIn'[d] = (age[d] >= AgingAfter)
      /\ \A c \in Clients \ {d} : fairTurns'[c] = fairTurns[c] /\ agedIn'[c] = agedIn[c]
  BY <1>2, <1>4 DEF FairInv, FairTypes
<1>7. \A c \in Clients : stage'[c] # "queued" => fairTurns'[c] = NoTurns
  BY <1>3, <1>6 DEF FairInv, Queued
<1>8. ASSUME NEW c \in Queued', NEW k \in Conversations, Behind(c, k),
             request[d].conversation = k, ~(age[d] >= AgingAfter)
      PROVE  FALSE
  <2>1. c \in Clients /\ c \in Queued /\ c # d
    BY <1>3 DEF Queued
  <2>2. PICK j \in DOMAIN waiting : waiting[j] = c
    BY <2>1 DEF IInv, QueueHoldsTheParked, ToSet
  <2>3. j # i
    BY <2>1, <2>2 DEF d
  <2>4. j \in Admissible
    BY <1>1, PhaseAwareAssumption DEF IsBest, Admissible, CanAdmit
  <2>5. Precedes(i, j)
    BY <1>1, <2>3, <2>4 DEF IsBest
  <2>6. \/ Lane(d) < Lane(c)
        \/ Lane(d) = Lane(c) /\ (Turn(d) < Turn(c) \/ Turn(d) = Turn(c))
    BY <2>2, <2>5 DEF Precedes, d
  <2>7. request[c].lane = "bulk" /\ request[d].lane = "bulk"
    BY <1>2, <2>1 DEF IInv, TypeOK, Requests, Nobody
  <2>8. Lane(d) = 2 /\ Lane(c) = IF age[c] >= AgingAfter THEN 1 ELSE 2
    BY <1>8, <2>7 DEF Lane, LaneRank
  <2>9. ~(age[c] >= AgingAfter) /\ (Turn(d) < Turn(c) \/ Turn(d) = Turn(c))
    BY <2>6, <2>8
  <2>10. /\ k \in ToSet(served) /\ servedAge[k] <= FairShareWindow
         /\ Earlier(served, request[c].conversation, k)
    BY <1>8, <2>9 DEF Behind
  <2>11. Turn(d) \in DOMAIN served /\ served[Turn(d)] = k
    <3> DEFINE mine == {n \in DOMAIN served : /\ served[n] = request[d].conversation
                                              /\ servedAge[served[n]] <= FairShareWindow}
    <3>1. Turn(d) = IF mine = {} THEN 0 ELSE CHOOSE n \in mine : TRUE
      BY DEF Turn
    <3>2. mine # {}
      BY <1>8, <2>10 DEF ToSet
    <3>3. Turn(d) \in mine
      BY <3>1, <3>2
    <3> QED BY <1>8, <3>3
  <2>12. Turn(c) = 0 \/ (Turn(c) \in DOMAIN served /\ served[Turn(c)] = request[c].conversation)
    <3> DEFINE hers == {n \in DOMAIN served : /\ served[n] = request[c].conversation
                                              /\ servedAge[served[n]] <= FairShareWindow}
    <3>1. Turn(c) = IF hers = {} THEN 0 ELSE CHOOSE n \in hers : TRUE
      BY DEF Turn
    <3>2. hers # {} => Turn(c) \in hers
      BY <3>1
    <3> QED BY <3>1, <3>2
  <2>13. DOMAIN served = 1..Len(served) /\ Len(served) \in Nat
    BY DEF IInv, TypeOK
  <2>14. CASE Turn(c) = 0
    BY <2>9, <2>11, <2>13, <2>14
  <2>15. CASE Turn(c) \in DOMAIN served /\ served[Turn(c)] = request[c].conversation
    <3>1. Turn(c) < Turn(d)
      BY <2>10, <2>11, <2>15 DEF Earlier
    <3> QED BY <2>9, <2>11, <2>13, <2>15, <3>1
  <2> QED BY <2>12, <2>14, <2>15
<1>9. ASSUME NEW c \in Queued', NEW k \in Conversations
      PROVE  fairTurns'[c][k] \in {0, 1} /\ (fairTurns'[c][k] = 1 => Behind(c, k)')
  <2>1. c \in Queued /\ c \in Clients /\ c # d
    BY <1>3 DEF Queued
  <2>2. fairTurns'[c][k] \in {0, 1} /\ (fairTurns'[c][k] = 1 => Behind(c, k))
    BY <1>6, <2>1 DEF FairInv
  <2>3. ASSUME Behind(c, k) PROVE Behind(c, k)'
    <3>1. \A h \in Holders : request[h].conversation = k => agedIn[h]
      BY <2>3 DEF Behind
    <3>2. request[d].conversation = k => agedIn'[d]
      BY <1>6, <1>8, <2>3
    <3>3. \A h \in Holders' : request'[h].conversation = k => agedIn'[h]
      BY <1>1, <1>3, <1>6, <3>1, <3>2 DEF Holders
    <3>4. /\ Earlier(served, request[c].conversation, k)' = Earlier(served, request[c].conversation, k)
          /\ age'[c] = age[c] /\ UNCHANGED <<served, servedAge>>
      BY <1>1, <1>3 DEF Earlier
    <3> QED BY <2>3, <3>3, <3>4 DEF Behind
  <2> QED BY <2>2, <2>3
<1> QED BY <1>1, <1>5, <1>7, <1>9 DEF FairInv

\* The turn that ends counts once for the parked of other conversations: theirs
\* were served earlier, or they have aged.
LEMMA FairRelease ==
  ASSUME Limit = 1, IInv, FairInv, NEW d \in Clients, ObservedRelease(d),
         \A k \in Conversations : k \in ToSet(served) /\ servedAge[k] <= FairShareWindow
                                    => k \in ToSet(served')
  PROVE  FairInv'
<1> DEFINE q == request[d].conversation
<1>1. /\ d \in Holders /\ Queued' = Queued /\ Holders' = Holders \ {d} /\ d \notin Queued
      /\ Remember(request[d]) /\ age' = age
      /\ \A c \in Clients \ {d} : request'[c] = request[c] /\ stage'[c] = stage[c]
      /\ stage'[d] = "idle"
      /\ agedIn' = [agedIn EXCEPT ![d] = FALSE]
  BY DEF ObservedRelease, Release, Leave, IInv, TypeOK, Holders, Queued
<1>2. Holders' = {}
  <2>1. IsFiniteSet(Holders) /\ Cardinality(Holders) <= 1
    BY HoldersFinite DEF IInv, SlotsRespected
  <2>2. IsFiniteSet(Holders') /\ Cardinality(Holders') = Cardinality(Holders) - 1
    BY <1>1, <2>1, FS_RemoveElement
  <2>3. Cardinality(Holders') = 0
    BY <2>1, <2>2, FS_CardinalityType
  <2> QED BY <2>2, <2>3, FS_EmptySet
<1>3. \A c \in Clients : fairTurns'[c] =
        IF stage[c] # "queued" \/ q = NoConversation THEN fairTurns[c]
        ELSE IF request[c].conversation = q THEN NoTurns
        ELSE IF ~agedIn[d] /\ fairTurns[c][q] < MaxTurns
        THEN [fairTurns[c] EXCEPT ![q] = @ + 1] ELSE fairTurns[c]
  BY DEF ObservedRelease, Counted
<1>4. request[d] \in Requests \union {Nobody}
  BY DEF IInv, TypeOK
<1>5. CASE q = NoConversation
  <2>1. fairTurns' = fairTurns
    BY <1>3, <1>5 DEF FairInv, FairTypes, ObservedRelease, Counted
  <2>2. FairTypes'
    BY <1>1, <2>1 DEF FairInv, FairTypes
  <2>3. UNCHANGED <<served, servedAge>>
    BY <1>1, <1>5 DEF Remember
  <2>4. \A c \in Clients : stage'[c] # "queued" => fairTurns'[c] = NoTurns
    BY <1>1, <2>1 DEF FairInv, Queued
  <2>5. \A c \in Queued' : c \in Queued /\ fairTurns'[c] = fairTurns[c]
                           /\ request'[c] = request[c] /\ age'[c] = age[c]
    BY <1>1, <2>1 DEF Queued
  <2> HIDE DEF q
  <2> QED BY <1>2, <2>2, <2>3, <2>4, <2>5, FairQuiet
<1>6. CASE q # NoConversation
  <2>1. /\ q \in Conversations /\ IsInjective(served') /\ q \in ToSet(served') /\ servedAge'[q] = 0
        /\ \A k \in ToSet(served') \ {q} : servedAge'[k] = servedAge[k]
        /\ \A p : p # q => Earlier(served', p, q)
        /\ \A p, k : p # q /\ k # q /\ Earlier(served, p, k) => Earlier(served', p, k)
    BY <1>1, <1>4, <1>6, Remembered DEF IInv, FairInv
  <2> HIDE DEF q
  <2>2. FairTypes'
    <3>1. ASSUME NEW c \in Clients PROVE fairTurns'[c] \in [Conversations -> Nat]
      <4>1. fairTurns'[c] \in {fairTurns[c], NoTurns, [fairTurns[c] EXCEPT ![q] = @ + 1]}
        BY <1>3
      <4>2. fairTurns[c] \in [Conversations -> Nat] /\ NoTurns \in [Conversations -> Nat]
        BY DEF FairInv, FairTypes, NoTurns
      <4>3. [fairTurns[c] EXCEPT ![q] = @ + 1] \in [Conversations -> Nat]
        BY <2>1, <4>2
      <4> QED BY <4>1, <4>2, <4>3
    <3>2. DOMAIN fairTurns' = Clients /\ fairTurns' = [c \in Clients |-> fairTurns'[c]]
      BY DEF ObservedRelease, Counted
    <3> QED BY <1>1, <3>1, <3>2 DEF FairInv, FairTypes
  <2>3. \A c \in Clients : stage'[c] # "queued" => fairTurns'[c] = NoTurns
    <3>1. \A c \in Clients : stage'[c] # "queued" => stage[c] # "queued"
      BY <1>1 DEF Queued
    <3> QED BY <1>3, <3>1 DEF FairInv
  <2>4. ASSUME NEW c \in Queued', NEW k \in Conversations
        PROVE  fairTurns'[c][k] \in {0, 1} /\ (fairTurns'[c][k] = 1 => Behind(c, k)')
    <3>1. /\ c \in Queued /\ c \in Clients /\ c # d /\ stage[c] = "queued"
          /\ request'[c] = request[c] /\ age'[c] = age[c] /\ age[c] \in Nat
      BY <1>1 DEF Queued, IInv, TypeOK
    <3>2. fairTurns[c][k] \in {0, 1} /\ (fairTurns[c][k] = 1 => Behind(c, k))
      BY <3>1 DEF FairInv
    <3>3. CASE request[c].conversation = q
      <4>1. fairTurns'[c] = NoTurns
        BY <1>3, <1>6, <3>1, <3>3
      <4> QED BY <4>1 DEF NoTurns
    <3>4. CASE request[c].conversation # q /\ k = q
      <4>1. Behind(c, k)'
        BY <1>2, <2>1, <3>1, <3>4, TimeAssumption DEF Behind
      <4>2. fairTurns[c][k] = 1 => agedIn[d]
        BY <1>1, <3>2, <3>4 DEF Behind, q
      <4>3. fairTurns'[c][k] \in {0, 1}
        <5>1. fairTurns[c] \in [Conversations -> Nat]
          BY <3>1 DEF FairInv, FairTypes
        <5>2. \/ fairTurns'[c] = fairTurns[c]
              \/ ~agedIn[d] /\ fairTurns'[c] = [fairTurns[c] EXCEPT ![q] = @ + 1]
          BY <1>3, <1>6, <3>1, <3>4
        <5>3. ~agedIn[d] => fairTurns[c][k] = 0
          BY <3>2, <4>2
        <5> QED BY <2>1, <3>2, <3>4, <5>1, <5>2, <5>3
      <4> QED BY <4>1, <4>3
    <3>5. CASE request[c].conversation # q /\ k # q
      <4>1. fairTurns'[c][k] = fairTurns[c][k]
        BY <1>3, <1>6, <2>1, <3>1, <3>5 DEF FairInv, FairTypes
      <4>2. ASSUME Behind(c, k) PROVE Behind(c, k)'
        <5>1. CASE age[c] >= AgingAfter
          BY <1>2, <3>1, <5>1 DEF Behind
        <5>2. CASE ~(age[c] >= AgingAfter)
          <6>1. /\ k \in ToSet(served) /\ servedAge[k] <= FairShareWindow /\ servedAge[k] <= age[c]
                /\ Earlier(served, request[c].conversation, k)
            BY <4>2, <5>2 DEF Behind
          <6>2. k \in ToSet(served') /\ servedAge'[k] = servedAge[k]
            BY <2>1, <3>5, <6>1
          <6>3. Earlier(served', request'[c].conversation, k)
            BY <2>1, <3>1, <3>5, <6>1
          <6> QED BY <1>2, <3>1, <6>1, <6>2, <6>3 DEF Behind
        <5> QED BY <5>1, <5>2
      <4> QED BY <3>2, <4>1, <4>2
    <3> QED BY <3>3, <3>4, <3>5
  <2> QED BY <2>1, <2>2, <2>3, <2>4 DEF FairInv
<1> QED BY <1>5, <1>6

\* Where one slot serves one lane, a parked request sits through one turn of
\* every other conversation and, of what it sits through besides, all has been
\* brought forward by aging: provided that who ages does so within the window, and
\* that turns within the window are remembered.
THEOREM OneFairTurnEach ==
  ASSUME Limit = 1, Lanes = {"bulk"}, AgingAfter <= FairShareWindow + 1
  PROVE  ObservedSpec /\ NothingForgotten => []WaitsOneFairTurnEach
<1> DEFINE Kept == \A k \in Conversations : k \in ToSet(served) /\ servedAge[k] <= FairShareWindow
                                              => k \in ToSet(served')
<1>1. ASSUME IInv, FairInv, [ObservedNext]_<<vars, history>>, [Kept]_vars
      PROVE  IInv' /\ FairInv'
  <2>1. [Next]_vars
    BY <1>1 DEF ObservedNext, ObservedRelease, ObservedPromote, ObservedCancel, Next, Promote
  <2>2. IInv'
    BY <1>1, <2>1, StepInv
  <2>3. ASSUME NEW c \in Clients, ObservedRelease(c) PROVE FairInv'
    <3>1. stage'[c] # stage[c]
      BY <2>3, <1>1 DEF ObservedRelease, Release, Leave, IInv, TypeOK
    <3>2. Kept
      BY <1>1, <3>1 DEF vars
    <3> QED BY <1>1, <2>3, <3>2, FairRelease
  <2>4. ASSUME NEW c \in Clients, ObservedCancel(c) PROVE FairInv'
    BY <1>1, <2>4, FairCancel
  <2>5. ASSUME NEW c \in Clients, Acquire(c), UNCHANGED history PROVE FairInv'
    BY <1>1, <2>5, FairAcquire
  <2>6. CASE UNCHANGED history /\ \/ \E c \in Clients : Resume(c) \/ MarkDecode(c)
                                  \/ PromoteDone
                                  \/ UNCHANGED vars
    BY <1>1, <2>2, <2>6, FairResume
  <2>7. CASE UNCHANGED history /\ Tick
    BY <1>1, <2>2, <2>7, FairTick
  <2>8. CASE ObservedPromote
    BY <1>1, <2>2, <2>8, FairPromote
  <2> QED BY <1>1, <2>2, <2>3, <2>4, <2>5, <2>6, <2>7, <2>8 DEF ObservedNext
<1>2. FairInv => WaitsOneFairTurnEach
  BY DEF FairInv, WaitsOneFairTurnEach
<1> QED BY <1>1, <1>2, FairStart, PTL DEF ObservedSpec, NothingForgotten

LEMMA MovedElements ==
  ASSUME NEW s \in Seq(Conversations), IsInjective(s), NEW k \in Conversations
  PROVE  ToSet(s) \subseteq ToSet(Moved(s, k))
<1>1. CASE k \in ToSet(s)
  <2> DEFINE at == CHOOSE i \in DOMAIN s : s[i] = k
  <2>1. at \in 1..Len(s) /\ s[at] = k
    BY <1>1 DEF ToSet
  <2>2. Moved(s, k) = Append(RemoveAt(s, at), k)
    BY <1>1 DEF Moved
  <2> HIDE DEF at
  <2>3. RemoveAt(s, at) \in Seq(Conversations) /\ ToSet(RemoveAt(s, at)) = ToSet(s) \ {k}
    BY <2>1, RemoveAtOnce
  <2> QED BY <2>2, <2>3, AppendOnce
<1>2. CASE k \notin ToSet(s)
  <2>1. Moved(s, k) = Append(s, k)
    BY <1>2 DEF Moved
  <2> QED BY <2>1, AppendOnce
<1> QED BY <1>1, <1>2

\* What is remembered once each is no more than there is.
LEMMA LengthBound ==
  ASSUME NEW s \in Seq(Conversations), IsInjective(s)
  PROVE  Len(s) <= Cardinality(Conversations)
<1>1. s \in Injection(1..Len(s), Conversations)
  BY DEF IsInjective, Injection
<1>2. Cardinality(1..Len(s)) <= Cardinality(Conversations)
  BY <1>1, ConversationsAssumption, FS_Injection
<1>3. Len(s) \in Nat /\ 1 \in Int
  OBVIOUS
<1>4. Cardinality(1..Len(s)) = IF 1 > Len(s) THEN 0 ELSE Len(s) - 1 + 1
  BY <1>3, FS_Interval
<1>5. Cardinality(1..Len(s)) = Len(s)
  BY <1>3, <1>4
<1> QED BY <1>2, <1>5

\* The cap forgets nothing where there are no more conversations than it keeps.
THEOREM TurnsAreRemembered ==
  ASSUME Cardinality(Conversations) <= RecentCap
  PROVE  ObservedSpec => NothingForgotten
<1> DEFINE Kept == \A k \in Conversations : k \in ToSet(served) /\ servedAge[k] <= FairShareWindow
                                              => k \in ToSet(served')
           Inv == IInv /\ IsInjective(served)
<1>1. ObservedInit => Inv
  BY FairStart DEF FairInv
<1>2. ASSUME IInv, IsInjective(served), [Next]_vars
      PROVE  IsInjective(served)' /\ Kept
  <2>1. CASE UNCHANGED served
    BY <1>2, <2>1
  <2>2. ASSUME NEW d \in Clients, Release(d), request[d].conversation # NoConversation
        PROVE  IsInjective(served)' /\ Kept
    <3> DEFINE k == request[d].conversation
               ages == [servedAge EXCEPT ![k] = 0]
               m == Moved(served, k)
    <3>1. request[d] \in Requests \union {Nobody} /\ Remember(request[d]) /\ TypeOK
      BY <1>2, <2>2 DEF Release, IInv, TypeOK
    <3>2. k \in Conversations /\ IsInjective(served')
      BY <1>2, <2>2, <3>1, Remembered
    <3>3. served' = Pruned(m, ages)
      BY <2>2, <3>1 DEF Remember
    <3>4. served \in Seq(Conversations)
      BY <3>1 DEF TypeOK
    <3> HIDE DEF k, ages
    <3>5. m \in Seq(Conversations) /\ IsInjective(m)
      BY <1>2, <3>2, <3>4, MovedOrder
    <3>6. ToSet(served) \subseteq ToSet(m)
      BY <1>2, <3>2, <3>4, MovedElements
    <3> HIDE DEF m
    <3>7. Len(m) <= Cardinality(Conversations)
      BY <3>5, LengthBound
    <3>8. served' = m
      <4>1. Len(m) <= RecentCap
        BY <3>5, <3>7, CapAssumption, FS_CardinalityType, ConversationsAssumption
      <4> QED BY <3>3, <4>1 DEF Pruned
    <3> QED BY <3>2, <3>6, <3>8
  <2>3. ASSUME NEW d \in Clients, Release(d), request[d].conversation = NoConversation
        PROVE  UNCHANGED served
    BY <2>3 DEF Release, Remember
  <2>4. CASE \E d \in Clients : Release(d)
    BY <2>1, <2>2, <2>3, <2>4
  <2>5. CASE ~\E d \in Clients : Release(d)
    <3>1. UNCHANGED served
      BY <1>2, <2>5 DEF Next, vars, Acquire, AcquireAtOnce, AcquireQueued, Resume, CancelQueued,
         CancelGranted, MarkDecode, Promote, PromoteBest, PromoteDone, Tick
    <3> QED BY <2>1, <3>1
  <2> QED BY <2>4, <2>5
<1>3. ASSUME Inv, [ObservedNext]_<<vars, history>> PROVE Inv' /\ [Kept]_vars
  <2>1. [Next]_vars
    BY <1>3 DEF ObservedNext, ObservedRelease, ObservedPromote, ObservedCancel, Next, Promote
  <2>2. IInv'
    BY <1>3, <2>1, StepInv
  <2> QED BY <1>2, <1>3, <2>1, <2>2
<1> HIDE DEF Inv
<1> QED BY <1>1, <1>3, PTL DEF ObservedSpec, NothingForgotten

\* So few conversations, one slot and one lane are enough for the promise.
THEOREM FewWaitOneFairTurnEach ==
  ASSUME Limit = 1, Lanes = {"bulk"}, AgingAfter <= FairShareWindow + 1,
         Cardinality(Conversations) <= RecentCap
  PROVE  ObservedSpec => []WaitsOneFairTurnEach
BY OneFairTurnEach, TurnsAreRemembered
=============================================================================
