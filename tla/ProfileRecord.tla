---------------------------- MODULE ProfileRecord ----------------------------
(***************************************************************************)
(* The record of measured launch profiles of one scope and what each call  *)
(* of the profile store makes of it (go/pkg/controller/profile.go).        *)
(*                                                                         *)
(* A profile is known by its identity and its effective argv, and carries  *)
(* the sequence of states it was observed in; its State field is always    *)
(* the last of them.                                                       *)
(***************************************************************************)
EXTENDS Integers, Sequences, SequencesExt

CONSTANTS
  Launches,    \* identities of profiles: one per verification
  Args,        \* hashes of effective argvs
  NoProfile,   \* the nil *Profile
  HistoryCap   \* profiles kept in the history (12)

ASSUME HistoryCapAssumption == HistoryCap \in Nat \ {0}

\* The states a profile passes on its way to becoming the last known good.
Ladder == <<"proposed", "allocation_verified", "load_healthy",
            "functional_verified", "cache_verified", "performance_verified",
            "active">>
States == ToSet(Ladder) \union {"degraded", "rejected"}

Profiles == [id : Launches, args : Args, events : Seq(States)]
ASSUME NoProfileAssumption == NoProfile \notin Profiles

Records == [active : Profiles \union {NoProfile},
            candidate : Profiles \union {NoProfile},
            history : Seq(Profiles)]

EmptyRecord == [active |-> NoProfile, candidate |-> NoProfile, history |-> <<>>]

StateOf(profile) == Last(profile.events)
Proposed(id, args) == [id |-> id, args |-> args, events |-> <<"proposed">>]
Observed(profile, state) == [profile EXCEPT !.events = Append(@, state)]

\* appendBounded
Archived(history, profile) ==
  LET longer == Append(history, profile)
  IN  IF Len(longer) > HistoryCap THEN Tail(longer) ELSE longer

\* Begin: a candidate that is still being verified by somebody else is retired.
Begun(record, profile) ==
  [record EXCEPT
    !.candidate = profile,
    !.history   = IF record.candidate # NoProfile /\ record.candidate.id # profile.id
                  THEN Archived(@, record.candidate) ELSE @]

ValidTransition(from, to) ==
  IF to \in {"rejected", "degraded"} THEN from \notin {"active", "rejected"}
  ELSE \E i \in 1..Len(Ladder) - 1 : from = Ladder[i] /\ to = Ladder[i + 1]

\* Mutant: whoever calls moves whatever candidate there is.
MutCanTransitionAny(record, id, to) ==
  record.candidate # NoProfile /\ ValidTransition(StateOf(record.candidate), to)

CanTransition(record, id, to) ==
  /\ record.candidate # NoProfile
  /\ record.candidate.id = id
  /\ ValidTransition(StateOf(record.candidate), to)

\* Mutant: a rejected candidate also unseats the active profile.
MutTransitionedUnseats(record, to) ==
  LET profile == Observed(record.candidate, to)
  IN  CASE to = "active" ->
             [active |-> profile, candidate |-> NoProfile,
              history |-> IF record.active = NoProfile THEN record.history
                          ELSE Archived(record.history, record.active)]
        [] to = "rejected" ->
             [active |-> NoProfile, candidate |-> NoProfile,
              history |-> Archived(record.history, profile)]
        [] OTHER -> [record EXCEPT !.candidate = profile]

\* Transition of the candidate.
Transitioned(record, to) ==
  LET profile == Observed(record.candidate, to)
  IN  CASE to = "active" ->
             [active |-> profile, candidate |-> NoProfile,
              history |-> IF record.active = NoProfile \/ record.active.id = profile.id
                          THEN record.history
                          ELSE Archived(record.history, record.active)]
        [] to = "rejected" ->
             [record EXCEPT !.candidate = NoProfile, !.history = Archived(@, profile)]
        [] OTHER -> [record EXCEPT !.candidate = profile]

IsActive(record, args) ==
  record.active # NoProfile /\ StateOf(record.active) = "active" /\ record.active.args = args

\* RejectActiveIfMatch
Revoked(record, args) ==
  IF IsActive(record, args)
  THEN [record EXCEPT !.history = Archived(@, Observed(record.active, "rejected")),
                      !.active = NoProfile]
  ELSE record

\* The profiles of a record.
Known(record) ==
  ({record.active, record.candidate} \ {NoProfile}) \union ToSet(record.history)

\* What a record may become: the last known good gives way only to a candidate
\* that climbed the whole ladder, or to evidence against itself.
KeepsLastKnownGood(before, after) ==
  before.active # NoProfile /\ after.active # before.active =>
    \/ /\ after.active # NoProfile
       /\ after.active.events = Ladder
       /\ before.candidate # NoProfile
       /\ after.active.id = before.candidate.id
    \/ /\ after.active = NoProfile
       /\ after.history # <<>>
       /\ Last(after.history) = Observed(before.active, "rejected")

\* No profile loses an observation.
KeepsObservations(before, after) ==
  \A p \in Known(before), q \in Known(after) :
    p.id = q.id => IsPrefix(p.events, q.events)
=============================================================================
