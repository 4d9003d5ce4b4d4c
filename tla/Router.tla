------------------------------ MODULE Router ------------------------------
(***************************************************************************)
(* The local request router (go/pkg/claudeauto/claudeauto.go and           *)
(* reviewer_fallback.go) over the admission scheduler of module Scheduler. *)
(*                                                                         *)
(* A client is a handler goroutine.  Safety reviews and cheap-tier         *)
(* requests go to the reviewer first when it is seated and the prompt      *)
(* fits; its response is withheld until it is known to be usable, and a    *)
(* failed attempt is repeated on the main model.  The main model is        *)
(* reached through the scheduler, between the counters that the status     *)
(* endpoint publishes.                                                     *)
(*                                                                         *)
(* The two backends are external: they answer, fail before they answer, or *)
(* break off in the middle of a response, which httputil.ReverseProxy      *)
(* turns into a panic that runs the deferred calls and nothing else.       *)
(***************************************************************************)
EXTENDS Scheduler

CONSTANTS
  Kinds,             \* the kinds of requests: "review", "utility", "work"
  SeparateReviewer,  \* Router.separateReviewer: a reviewer is seated
  Companion,         \* Router.utilityEnabled(): it takes cheap-tier work
  ReviewerContext    \* Router.reviewerContext (0: unlimited)

ASSUME KindsAssumption == Kinds \subseteq {"review", "utility", "work"}
ASSUME ReviewerAssumption ==
  /\ SeparateReviewer \in BOOLEAN /\ Companion \in BOOLEAN
  /\ Companion => SeparateReviewer
  /\ ReviewerContext \in Nat
\* laneOf gives reviews a lane of their own and everything else the other one.
ASSUME LanesCoverAssumption ==
  "bulk" \in Lanes /\ ("review" \in Kinds => "safety" \in Lanes)

VARIABLES
  at,          \* where each handler is, the scheduler apart
  asked,       \* the request it handles
  answers,     \* how many responses the client has been sent any part of
  mainQueued,  \* Router.mainQueued
  mainActive   \* Router.mainActive

routing == <<at, asked, answers, mainQueued, mainActive>>
allVars == <<vars, routing>>

Places == {"out", "reviewer", "main", "asking", "acquiring", "admitted",
           "proxying", "answering", "ending"}

NoRequest == [kind |-> "work", conversation |-> NoConversation, tokens |-> 0]

RouterInit ==
  /\ Init
  /\ at = [c \in Clients |-> "out"]
  /\ asked = [c \in Clients |-> NoRequest]
  /\ answers = [c \in Clients |-> 0]
  /\ mainQueued = 0
  /\ mainActive = 0

-----------------------------------------------------------------------------
(* Routing (the handler in StartRouter)                                    *)

Fits(tokens) == ReviewerContext = 0 \/ tokens <= ReviewerContext

\* Which requests are tried on the reviewer first.  A companion is sent
\* cheap-tier work of any size.
TriesReviewer(r) ==
  \/ r.kind = "review" /\ SeparateReviewer /\ Fits(r.tokens)
  \/ r.kind = "utility" /\ (Companion \/ (SeparateReviewer /\ Fits(r.tokens)))

\* laneOf: a review keeps its lane on the main model.
LaneOf(kind) == IF kind = "review" THEN "safety" ELSE "bulk"

Move(c, place) == at' = [at EXCEPT ![c] = place]

\* Cheap-tier work is given the main model's name on its way there.
ForMain(r) == IF r.kind = "utility" THEN [r EXCEPT !.kind = "work"] ELSE r

\* The handler is called.
Arrive(c) ==
  /\ at[c] = "out"
  /\ \E kind \in Kinds, conversation \in Keys, tokens \in PromptSizes :
       LET r == [kind |-> kind, conversation |-> conversation, tokens |-> tokens]
       IN  IF TriesReviewer(r)
           THEN Move(c, "reviewer") /\ asked' = [asked EXCEPT ![c] = r]
           ELSE Move(c, "main") /\ asked' = [asked EXCEPT ![c] = ForMain(r)]
  /\ answers' = [answers EXCEPT ![c] = 0]
  /\ UNCHANGED <<vars, mainQueued, mainActive>>

-----------------------------------------------------------------------------
(* The attempt on the reviewer (tryReviewer, tryReviewerUtility)           *)

\* The withheld response is usable and is flushed to the client.
ReviewerAnswers(c) ==
  /\ at[c] = "reviewer"
  /\ answers' = [answers EXCEPT ![c] = @ + 1]
  /\ asked' = [asked EXCEPT ![c] = NoRequest]
  /\ Move(c, "out")
  /\ UNCHANGED <<vars, mainQueued, mainActive>>

\* Mutant: the response is not withheld.
MutReviewerFailsLoudly(c) ==
  /\ at[c] = "reviewer"
  /\ answers' = [answers EXCEPT ![c] = @ + 1]
  /\ asked' = [asked EXCEPT ![c] = ForMain(@)]
  /\ Move(c, "main")
  /\ UNCHANGED <<vars, mainQueued, mainActive>>

\* A transport error, an error status, an empty response or an invalid verdict:
\* the request is repeated on the main model.
ReviewerFails(c) ==
  /\ at[c] = "reviewer"
  /\ asked' = [asked EXCEPT ![c] = ForMain(@)]
  /\ Move(c, "main")
  /\ UNCHANGED <<vars, answers, mainQueued, mainActive>>

\* The reviewer dies after the header of a good response: ServeHTTP panics, and
\* tryReviewer never gets to look at what it withheld.
ReviewerBreaksOff(c) ==
  /\ at[c] = "reviewer"
  /\ asked' = [asked EXCEPT ![c] = NoRequest]
  /\ Move(c, "out")
  /\ UNCHANGED <<vars, answers, mainQueued, mainActive>>

-----------------------------------------------------------------------------
(* The main model (Router.serve)                                           *)

\* mainQueued.Add(1).
Enqueue(c) ==
  /\ at[c] = "main"
  /\ mainQueued' = mainQueued + 1
  /\ Move(c, "asking")
  /\ UNCHANGED <<vars, asked, answers, mainActive>>

\* acquireRequest is called with the request's lane and estimated size.
Ask(c) ==
  /\ at[c] = "asking"
  /\ LET r == Asked(asked[c].conversation, LaneOf(asked[c].kind), asked[c].tokens)
     IN  AcquireAtOnce(c, r) \/ AcquireQueued(c, r)
  /\ Move(c, "acquiring")
  /\ UNCHANGED <<asked, answers, mainQueued, mainActive>>

\* The client gives up while its request is parked or just promoted.
GiveUp(c) ==
  /\ CancelQueued(c) \/ CancelGranted(c)
  /\ UNCHANGED routing

\* acquireRequest has returned nil: uncount and return, with nothing written.
GaveUp(c) ==
  /\ at[c] = "acquiring"
  /\ stage[c] = "idle"
  /\ mainQueued' = mainQueued - 1
  /\ asked' = [asked EXCEPT ![c] = NoRequest]
  /\ Move(c, "out")
  /\ UNCHANGED <<vars, answers, mainActive>>

\* acquireRequest has returned an admission.
Admitted(c) ==
  /\ at[c] = "acquiring"
  /\ stage[c] = "running"
  /\ mainQueued' = mainQueued - 1
  /\ Move(c, "admitted")
  /\ UNCHANGED <<vars, asked, answers, mainActive>>

\* mainActive.Add(1), and the request is proxied.
Enter(c) ==
  /\ at[c] = "admitted"
  /\ mainActive' = mainActive + 1
  /\ Move(c, "proxying")
  /\ UNCHANGED <<vars, asked, answers, mainQueued>>

\* The response begins; its first generated token ends the prefill.
FirstByte(c) ==
  /\ at[c] = "proxying"
  /\ answers' = [answers EXCEPT ![c] = @ + 1]
  /\ IF prefilling[c] THEN MarkDecode(c) ELSE UNCHANGED vars
  /\ Move(c, "answering")
  /\ UNCHANGED <<asked, mainQueued, mainActive>>

\* Mutant: the slot is handed on before the request is uncounted.
MutLeaveReleased(c) ==
  /\ at[c] = "answering"
  /\ Release(c)
  /\ Move(c, "ending")
  /\ UNCHANGED <<asked, answers, mainQueued, mainActive>>

\* The proxied call returns or panics: mainActive.Add(-1), deferred.  A backend
\* that never began to answer leaves the client a 502, unless the client left.
Leaves(c) ==
  /\ at[c] \in {"proxying", "answering"}
  /\ \/ UNCHANGED answers
     \/ at[c] = "proxying" /\ answers' = [answers EXCEPT ![c] = @ + 1]
  /\ mainActive' = mainActive - 1
  /\ Move(c, "ending")
  /\ UNCHANGED <<vars, asked, mainQueued>>

\* admission.release(), deferred.
Released(c) ==
  /\ at[c] = "ending"
  /\ Release(c)
  /\ asked' = [asked EXCEPT ![c] = NoRequest]
  /\ Move(c, "out")
  /\ UNCHANGED <<answers, mainQueued, mainActive>>

-----------------------------------------------------------------------------

Handler(c) ==
  \/ Arrive(c)
  \/ ReviewerAnswers(c) \/ ReviewerFails(c) \/ ReviewerBreaksOff(c)
  \/ Enqueue(c) \/ Ask(c) \/ GiveUp(c) \/ GaveUp(c) \/ Admitted(c)
  \/ Enter(c) \/ FirstByte(c) \/ Leaves(c) \/ Released(c)

Woken == (Promote \/ Tick \/ \E c \in Clients : Resume(c)) /\ UNCHANGED routing

RouterNext == (\E c \in Clients : Handler(c)) \/ Woken

RouterSpec == RouterInit /\ [][RouterNext]_allVars

\* The fairness of module Scheduler, and: a handler's own steps are taken;
\* backends end the calls they are sent, because they answer, fail or are killed
\* by their watchdog.  Nobody has to ask or to give up.
RouterFairness ==
  /\ WF_allVars(Promote /\ UNCHANGED routing)
  /\ WF_allVars(Tick /\ UNCHANGED routing)
  /\ \A c \in Clients :
       /\ WF_allVars(Resume(c) /\ UNCHANGED routing)
       /\ WF_allVars(ReviewerAnswers(c) \/ ReviewerFails(c) \/ ReviewerBreaksOff(c))
       /\ WF_allVars(Enqueue(c)) /\ SF_allVars(Ask(c))
       /\ WF_allVars(GaveUp(c)) /\ WF_allVars(Admitted(c)) /\ WF_allVars(Enter(c))
       /\ WF_allVars(Leaves(c)) /\ SF_allVars(Released(c))

RouterFairSpec == RouterSpec /\ RouterFairness

-----------------------------------------------------------------------------
(* What the router must do                                                 *)

\* The router's variables keep their types.
RouterTypeOK ==
  /\ TypeOK
  /\ at \in [Clients -> Places]
  /\ asked \in [Clients -> [kind : Kinds \union {"work"}, conversation : Keys,
                            tokens : PromptSizes \union {0}]]
  /\ answers \in [Clients -> Nat]
  /\ mainQueued \in Nat
  /\ mainActive \in Nat

\* The status endpoint never reports more active requests than the main model
\* has slots, nor fewer queued ones than are parked, although the counters are
\* changed outside the scheduler's mutex.
PublishedWithinLimit ==
  /\ mainActive <= active /\ active <= Limit
  /\ Cardinality(Queued) <= mainQueued

\* A client is sent parts of one response only: nothing of an attempt that is
\* repeated on the main model has reached it.
AnsweredOnce == \A c \in Clients : answers[c] <= 1

\* Every safety review comes to an end, whatever other requests do: it is
\* answered, given up or broken off.
EveryReviewEnds ==
  \A c \in Clients :
    at[c] # "out" /\ asked[c].kind = "review" ~> at[c] = "out"

=============================================================================
