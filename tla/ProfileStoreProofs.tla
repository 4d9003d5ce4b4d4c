-------------------------- MODULE ProfileStoreProofs --------------------------
(***************************************************************************)
(* As long as no process dies inside an update, the lock file makes every  *)
(* update of the profile record one atomic call, for any number of         *)
(* launches.  (ProfileStoreBroken.cfg shows what one death and two other   *)
(* processes make of it.)                                                  *)
(***************************************************************************)
EXTENDS ProfileStore, FiniteSetTheorems, SequenceTheorems, TLAPS

\* Whoever is inside an update created the lock file that exists, nobody ever
\* finds it too old, and the draft of a writer is what its call makes of the
\* record as it still is on disk.
DraftIsCurrent(p) ==
  step[p] = "writing" => draft[p] = Changed(p, file) /\ ~Refused(p, file)

IInv ==
  /\ step \in [Launches -> Steps]
  /\ call \in [Launches -> Calls]
  /\ argsOf \in [Launches -> Args]
  /\ draft = [p \in Launches |-> draft[p]]
  /\ lockOld = FALSE
  /\ \A p \in Launches : step[p] \notin {"crashed", "breaking"}
  /\ \A p \in Inside : lock = p
  /\ \A p \in Launches : DraftIsCurrent(p)

LEMMA InitIInv == Init => IInv
<1>1. "proposed" \in Calls
  <2>1. Ladder[1] = "proposed" /\ 1 \in DOMAIN Ladder
    BY DEF Ladder
  <2>2. "proposed" \in ToSet(Ladder)
    BY <2>1 DEF ToSet
  <2>3. QED BY <2>2 DEF Calls, States
<1>2. QED
  BY <1>1 DEF Init, IInv, Steps, Inside, DraftIsCurrent

\* Without crashes a step keeps the invariant.
LEMMA NextIInv ==
  ASSUME MaxCrashes = 0, ReadErrors = FALSE, IInv, [Next]_vars
  PROVE  IInv'
<1> USE DEF Inside, Steps
<1> SUFFICES ASSUME NEW p \in Launches,
                    \/ Reuse(p)
                    \/ \E c \in Calls : Ask(p, c)
                    \/ TakeLock(p) \/ FindStale(p) \/ BreakLock(p) \/ GiveUp(p)
                    \/ Mutate(p) \/ WriteFails(p) \/ Rename(p) \/ Release(p)
                    \/ Crash(p) \/ LockAges \/ UNCHANGED vars
             PROVE  IInv'
  <2>1. CASE UNCHANGED vars
    BY <2>1 DEF IInv, vars, DraftIsCurrent, Changed, Refused
  <2>2. CASE LockAges
    BY <2>2 DEF IInv, LockAges, Crashed
  <2>3. QED BY <2>1, <2>2 DEF Next
<1>1. CASE Reuse(p)
  BY <1>1 DEF IInv, Reuse, DraftIsCurrent, Changed, Refused
<1>2. CASE \E c \in Calls : Ask(p, c)
  BY <1>2 DEF IInv, Ask, DraftIsCurrent, Changed, Refused
<1>3. CASE TakeLock(p)
  BY <1>3, LaunchesAssumption DEF IInv, TakeLock, DraftIsCurrent, Changed, Refused
<1>4. CASE FindStale(p)
  BY <1>4 DEF IInv, FindStale
<1>5. CASE BreakLock(p)
  BY <1>5 DEF IInv, BreakLock
<1>6. CASE GiveUp(p)
  BY <1>6 DEF IInv, GiveUp, DraftIsCurrent, Changed, Refused
<1>7. CASE Mutate(p)
  <2>1. \/ /\ ~Refused(p, file)
           /\ step' = [step EXCEPT ![p] = "writing"]
           /\ draft' = [draft EXCEPT ![p] = Changed(p, file)]
        \/ /\ step' = [step EXCEPT ![p] = "failed"]
           /\ draft' = draft
    BY <1>7 DEF Mutate
  <2>2. /\ step[p] = "reading"
        /\ UNCHANGED <<file, lock, lockOld, call, reached, argsOf>>
    BY <1>7 DEF Mutate
  <2>3. step' \in [Launches -> Steps] /\ draft' = [q \in Launches |-> draft'[q]]
    BY <2>1, <2>2 DEF IInv
  <2>4. \A q \in Launches : q # p => step'[q] = step[q] /\ draft'[q] = draft[q]
    BY <2>1 DEF IInv
  <2>5. ASSUME NEW q \in Launches PROVE DraftIsCurrent(q)'
    <3>1. Changed(q, file)' = Changed(q, file) /\ (Refused(q, file)' <=> Refused(q, file))
      BY <2>2 DEF Changed, Refused
    <3>2. CASE q = p
      <4>1. CASE step'[p] = "writing"
        <5>1. ~Refused(p, file) /\ draft' = [draft EXCEPT ![p] = Changed(p, file)]
          BY <2>1, <4>1 DEF IInv
        <5>2. draft'[p] = Changed(p, file)
          BY <5>1 DEF IInv
        <5>3. QED BY <3>1, <3>2, <5>1, <5>2 DEF DraftIsCurrent
      <4>2. QED BY <3>2, <4>1 DEF DraftIsCurrent
    <3>3. CASE q # p
      BY <2>4, <3>1, <3>3 DEF DraftIsCurrent, IInv
    <3>4. QED BY <3>2, <3>3
  <2>6. \A q \in Inside' : lock' = q
    BY <2>1, <2>2, <2>4 DEF IInv
  <2>7. \A q \in Launches : step'[q] \notin {"crashed", "breaking"}
    BY <2>1, <2>2, <2>4 DEF IInv
  <2>8. QED BY <2>2, <2>3, <2>5, <2>6, <2>7 DEF IInv
<1>8. CASE WriteFails(p)
  BY <1>8 DEF IInv, WriteFails, DraftIsCurrent, Changed, Refused
<1>9. CASE Rename(p)
  BY <1>9 DEF IInv, Rename, DraftIsCurrent, Changed, Refused
<1>10. CASE Release(p)
  BY <1>10 DEF IInv, Release, DraftIsCurrent, Changed, Refused
<1>11. CASE Crash(p)
  <2>1. Crashed = {}
    BY DEF IInv, Crashed
  <2>2. ~(Cardinality(Crashed) < MaxCrashes)
    BY <2>1, FS_EmptySet
  <2>3. QED BY <1>11, <2>2 DEF Crash
<1>12. CASE LockAges
  BY <1>12 DEF IInv, LockAges, Crashed
<1>13. CASE UNCHANGED vars
  BY <1>13 DEF IInv, vars, DraftIsCurrent, Changed, Refused
<1>14. QED
  BY <1>1, <1>2, <1>3, <1>4, <1>5, <1>6, <1>7, <1>8, <1>9, <1>10, <1>11, <1>12, <1>13

\* Never two processes inside an update of the record, while none of them dies.
THEOREM OneWriterWithoutCrashes ==
  ASSUME MaxCrashes = 0, ReadErrors = FALSE
  PROVE  Spec => []OneWriter
<1>1. IInv => OneWriter
  BY DEF IInv, OneWriter, Inside
<1>2. QED
  BY <1>1, InitIInv, NextIInv, PTL DEF Spec

\* The call a process makes is one step of the ledger.
LEMMA ChangedIsACall ==
  ASSUME NEW p \in Launches, call \in [Launches -> Calls],
         argsOf \in [Launches -> Args], ~Refused(p, file),
         file' = Changed(p, file)
  PROVE  Ledger!Next
<1> argsOf[p] \in Args
  OBVIOUS
<1>1. CASE call[p] = "proposed"
  <2>1. Ledger!Begin(p, argsOf[p])
    BY <1>1 DEF Changed, Ledger!Begin, Ledger!Begun, Begun, Ledger!Proposed, Proposed,
                Ledger!Archived, Archived
  <2>2. QED BY <2>1 DEF Ledger!Next
<1>2. CASE call[p] = "revoked"
  <2>1. Ledger!Revoke(argsOf[p])
    BY <1>2 DEF Changed, Ledger!Revoke, Ledger!Revoked, Revoked, Ledger!IsActive, IsActive,
                Ledger!Archived, Archived, Ledger!Observed, Observed, Ledger!StateOf, StateOf,
                Ledger!Last, Last
  <2>2. QED BY <2>1 DEF Ledger!Next
<1>3. CASE call[p] \notin {"proposed", "revoked"}
  <2>1. call[p] \in States
    BY <1>3 DEF Calls
  <2>2. Ledger!Advance(p, call[p])
    <3>1. CanTransition(file, p, call[p])
      BY <1>3 DEF Refused
    <3>2. Ledger!CanTransition(file, p, call[p])
      BY <3>1 DEF CanTransition, Ledger!CanTransition, ValidTransition, Ledger!ValidTransition,
                  Ladder, Ledger!Ladder, StateOf, Ledger!StateOf, Last, Ledger!Last
    <3>3. file' = Transitioned(file, call[p])
      BY <1>3 DEF Changed
    <3>4. Ledger!Transitioned(file, call[p]) = Transitioned(file, call[p])
      BY DEF Transitioned, Ledger!Transitioned, Observed, Ledger!Observed,
             Archived, Ledger!Archived
    <3>5. QED BY <3>2, <3>3, <3>4 DEF Ledger!Advance
  <2>3. Ledger!States = States
    BY DEF Ledger!States, States, Ledger!Ladder, Ladder, Ledger!ToSet, ToSet
  <2>4. QED BY <2>1, <2>2, <2>3 DEF Ledger!Next
<1>4. QED BY <1>1, <1>2, <1>3

\* Only the rename changes the record.
LEMMA OnlyRename ==
  ASSUME IInv, [Next]_vars
  PROVE  [Ledger!Next]_file
<1>1. ASSUME NEW p \in Launches, Rename(p) PROVE Ledger!Next
  <2>1. /\ file' = Changed(p, file) /\ ~Refused(p, file)
        /\ call \in [Launches -> Calls] /\ argsOf \in [Launches -> Args]
    BY <1>1 DEF Rename, IInv, DraftIsCurrent
  <2>2. QED BY <2>1, ChangedIsACall
<1>3. CASE \E p \in Launches : Rename(p)
  BY <1>1, <1>3
<1>4. CASE ~(\E p \in Launches : Rename(p))
  BY <1>4 DEF Next, vars, Reuse, Ask, TakeLock, FindStale, BreakLock, GiveUp, Mutate,
              WriteFails, Release, Crash, LockAges
<1>5. QED BY <1>3, <1>4

LEMMA InitLedger == Init => Ledger!Init
<1> SUFFICES ASSUME Init PROVE Ledger!Init
  OBVIOUS
<1>1. CASE Before = NoLaunch
  BY <1>1 DEF Init, Ledger!Init, EmptyRecord, Ledger!EmptyRecord
<1>2. CASE Before # NoLaunch
  <2>1. Before \in Launches /\ argsOf[Before] \in Args
    BY <1>2, BeforeAssumption DEF Init
  <2>2. file = [EmptyRecord EXCEPT !.active =
                  [id |-> Before, args |-> argsOf[Before], events |-> Ladder]]
    BY <1>2 DEF Init
  <2>3. Ledger!EmptyRecord = EmptyRecord /\ Ledger!Ladder = Ladder
    BY DEF Ledger!EmptyRecord, EmptyRecord, Ledger!Ladder, Ladder
  <2>4. QED BY <2>1, <2>2, <2>3 DEF Ledger!Init
<1>3. QED BY <1>1, <1>2

\* Without crashes and read errors the store is a ledger: its record changes in
\* whole calls, one after the other.
THEOREM StoreImplementsLedger ==
  ASSUME MaxCrashes = 0, ReadErrors = FALSE
  PROVE  Spec => ImplementsLedger
<1>1. Init => IInv /\ Ledger!Init
  BY InitIInv, InitLedger
<1>2. IInv /\ [Next]_vars => IInv' /\ [Ledger!Next]_file
  BY NextIInv, OnlyRename
<1>3. QED
  BY <1>1, <1>2, PTL DEF Spec, ImplementsLedger, Ledger!Spec

-----------------------------------------------------------------------------
(* What the calls make of a record.                                        *)

\* The observations of a profile that is on its way up are the ladder so far.
Climbed(events) ==
  /\ events # <<>>
  /\ \A i \in 1..7 : Last(events) = Ladder[i] => Len(events) = i /\ \A j \in 1..i : events[j] = Ladder[j]

GoodRecord(record) ==
  /\ record \in Records /\ Len(record.history) <= HistoryCap
  /\ record.active # NoProfile => record.active.events = Ladder
  /\ record.candidate # NoProfile => Climbed(record.candidate.events)

LEMMA Rungs ==
  /\ Ladder \in Seq(States) /\ Len(Ladder) = 7
  /\ Ladder[1] = "proposed" /\ Ladder[7] = "active" /\ Ladder[6] = "performance_verified"
  /\ \A i, j \in 1..7 : Ladder[i] = Ladder[j] => i = j
  /\ \A i \in 1..7 : Ladder[i] \in States /\ Ladder[i] \notin {"degraded", "rejected"}
<1>1. Len(Ladder) = 7 /\ DOMAIN Ladder = 1..7
  BY DEF Ladder
<1>2. \A i \in 1..7 : Ladder[i] \in States
  BY <1>1 DEF States, ToSet
<1>3. /\ Ladder[1] = "proposed" /\ Ladder[2] = "allocation_verified" /\ Ladder[3] = "load_healthy"
      /\ Ladder[4] = "functional_verified" /\ Ladder[5] = "cache_verified"
      /\ Ladder[6] = "performance_verified" /\ Ladder[7] = "active"
  BY DEF Ladder
<1>4. Ladder = [i \in 1..7 |-> Ladder[i]]
  BY DEF Ladder
<1>5. Ladder \in Seq(States)
  BY <1>1, <1>2, <1>4
<1>6. \A i \in 1..7 : i = 1 \/ i = 2 \/ i = 3 \/ i = 4 \/ i = 5 \/ i = 6 \/ i = 7
  OBVIOUS
<1> QED BY <1>1, <1>2, <1>3, <1>5, <1>6

LEMMA ArchivedHistory ==
  ASSUME NEW history \in Seq(Profiles), Len(history) <= HistoryCap, NEW profile \in Profiles
  PROVE  /\ Archived(history, profile) \in Seq(Profiles)
         /\ Archived(history, profile) # <<>> /\ Len(Archived(history, profile)) <= HistoryCap
         /\ Last(Archived(history, profile)) = profile
<1> DEFINE longer == Append(history, profile)
<1>1. /\ longer \in Seq(Profiles) /\ Len(longer) = Len(history) + 1 /\ longer[Len(longer)] = profile
      /\ Len(history) \in Nat /\ longer # <<>>
  OBVIOUS
<1>2. CASE Len(longer) > HistoryCap
  <2>1. /\ Tail(longer) \in Seq(Profiles) /\ Len(Tail(longer)) = Len(longer) - 1
        /\ \A i \in 1..Len(Tail(longer)) : Tail(longer)[i] = longer[i + 1]
    BY <1>1, HeadTailProperties
  <2>2. HistoryCap \in Nat \ {0} /\ Len(Tail(longer)) \in 1..HistoryCap
    BY <1>1, <1>2, <2>1, HistoryCapAssumption
  <2>3. Tail(longer)[Len(Tail(longer))] = profile
    BY <1>1, <2>1, <2>2
  <2>4. Archived(history, profile) = Tail(longer)
    BY <1>2 DEF Archived
  <2> QED BY <2>1, <2>2, <2>3, <2>4 DEF Last
<1>3. CASE ~(Len(longer) > HistoryCap)
  <2>1. Archived(history, profile) = longer
    BY <1>3 DEF Archived
  <2> QED BY <1>1, <1>3, <2>1, HistoryCapAssumption DEF Last
<1> QED BY <1>2, <1>3

LEMMA ObservedProfile ==
  ASSUME NEW profile \in Profiles, NEW state \in States
  PROVE  /\ Observed(profile, state) \in Profiles /\ Observed(profile, state) # NoProfile
         /\ Observed(profile, state).id = profile.id
         /\ Observed(profile, state).events = Append(profile.events, state)
<1>1. profile.events \in Seq(States)
  BY DEF Profiles
<1>2. Append(profile.events, state) \in Seq(States)
  BY <1>1
<1>3. /\ Observed(profile, state) \in Profiles
      /\ Observed(profile, state).id = profile.id
      /\ Observed(profile, state).events = Append(profile.events, state)
  BY <1>2 DEF Observed, Profiles
<1> QED BY <1>3, NoProfileAssumption

\* A step up the ladder; the last one makes it whole.
LEMMA ClimbsOn ==
  ASSUME NEW events \in Seq(States), Climbed(events), NEW to \in States, ValidTransition(Last(events), to)
  PROVE  Climbed(Append(events, to)) /\ (to = "active" => Append(events, to) = Ladder)
<1> DEFINE more == Append(events, to)
<1>1. /\ more \in Seq(States) /\ Len(events) \in Nat /\ Len(more) = Len(events) + 1 /\ Last(more) = to /\ more # <<>>
      /\ \A i \in 1..Len(events) : more[i] = events[i]
      /\ more[Len(more)] = to
  BY DEF Last
<1>2. CASE to \in {"rejected", "degraded"}
  BY <1>1, <1>2, Rungs DEF Climbed
<1>3. CASE to \notin {"rejected", "degraded"}
  <2>1. PICK i \in 1..6 : Last(events) = Ladder[i] /\ to = Ladder[i + 1]
    BY <1>3, Rungs DEF ValidTransition
  <2>2. Len(events) = i /\ \A j \in 1..i : events[j] = Ladder[j]
    <3>1. i \in 1..7
      OBVIOUS
    <3> QED BY <2>1, <3>1 DEF Climbed
  <2>3. Len(more) = i + 1 /\ \A j \in 1..(i + 1) : more[j] = Ladder[j]
    BY <1>1, <2>1, <2>2
  <2>4. \A k \in 1..7 : Last(more) = Ladder[k] => k = i + 1
    BY <1>1, <2>1, Rungs
  <2>5. Climbed(more)
    BY <1>1, <2>3, <2>4 DEF Climbed
  <2>6. ASSUME to = "active" PROVE more = Ladder
    <3>1. i + 1 = 7
      <4>1. i + 1 \in 1..7 /\ 7 \in 1..7 /\ Ladder[i + 1] = Ladder[7]
        BY <2>1, <2>6, Rungs
      <4> QED BY <4>1, Rungs
    <3> QED BY <1>1, <2>3, <3>1, Rungs, SeqEqual
  <2> QED BY <2>5, <2>6
<1> QED BY <1>2, <1>3

LEMMA GoodBegun ==
  ASSUME NEW record, GoodRecord(record), NEW id \in Launches, NEW args \in Args
  PROVE  /\ GoodRecord(Begun(record, Proposed(id, args)))
         /\ Begun(record, Proposed(id, args)).active = record.active
<1> DEFINE new == Proposed(id, args)
           kept == IF record.candidate # NoProfile /\ record.candidate.id # new.id
                   THEN Archived(record.history, record.candidate) ELSE record.history
<1>1. "proposed" \in States /\ <<"proposed">> \in Seq(States)
  BY Rungs
<1>2. new \in Profiles /\ new.events = <<"proposed">>
  BY <1>1 DEF Proposed, Profiles
<1>3. Climbed(new.events)
  BY <1>2, Rungs DEF Climbed, Last
<1>4. record \in Records /\ Len(record.history) <= HistoryCap /\ record.history \in Seq(Profiles)
  BY DEF GoodRecord, Records
<1>5. record.candidate # NoProfile => record.candidate \in Profiles
  BY <1>4 DEF Records
<1>6. kept \in Seq(Profiles) /\ Len(kept) <= HistoryCap
  BY <1>4, <1>5, ArchivedHistory
<1>7. Begun(record, new) = [record EXCEPT !.candidate = new, !.history = kept]
  BY DEF Begun
<1> HIDE DEF new, kept
<1>8. /\ Begun(record, new) \in Records /\ Begun(record, new).active = record.active
      /\ Begun(record, new).candidate = new /\ Begun(record, new).history = kept
  BY <1>2, <1>4, <1>6, <1>7 DEF Records
<1> QED BY <1>3, <1>6, <1>8 DEF GoodRecord, new


LEMMA GoodTransitioned ==
  ASSUME NEW record, GoodRecord(record), NEW id \in Launches, NEW to \in States, CanTransition(record, id, to)
  PROVE  /\ GoodRecord(Transitioned(record, to))
         /\ record.candidate.id = id
         /\ to = "active" => /\ Transitioned(record, to).active # NoProfile
                             /\ Transitioned(record, to).active.id = id
         /\ to # "active" => Transitioned(record, to).active = record.active
<1> DEFINE profile == Observed(record.candidate, to)
           next == Transitioned(record, to)
<1>1. /\ record \in Records /\ Len(record.history) <= HistoryCap /\ record.history \in Seq(Profiles)
      /\ record.candidate \in Profiles /\ record.candidate # NoProfile /\ record.candidate.id = id
      /\ record.candidate.events \in Seq(States)
      /\ record.active \in Profiles \union {NoProfile}
  BY DEF GoodRecord, CanTransition, Records, Profiles
<1>2. /\ profile \in Profiles /\ profile # NoProfile /\ profile.id = id
      /\ profile.events = Append(record.candidate.events, to)
  BY <1>1, ObservedProfile
<1>3. Climbed(profile.events) /\ (to = "active" => profile.events = Ladder)
  <2>1. Climbed(record.candidate.events) /\ ValidTransition(Last(record.candidate.events), to)
    BY <1>1 DEF GoodRecord, CanTransition, StateOf
  <2> QED BY <1>1, <1>2, <2>1, ClimbsOn
<1> HIDE DEF profile
<1>4. CASE to = "active"
  <2> DEFINE kept == IF record.active = NoProfile \/ record.active.id = profile.id
                     THEN record.history ELSE Archived(record.history, record.active)
  <2>1. kept \in Seq(Profiles) /\ Len(kept) <= HistoryCap
    BY <1>1, ArchivedHistory
  <2>2. next = [active |-> profile, candidate |-> NoProfile, history |-> kept]
    BY <1>4 DEF Transitioned, profile
  <2> HIDE DEF kept, next
  <2>3. next \in Records /\ next.active = profile /\ next.candidate = NoProfile /\ next.history = kept
    BY <1>2, <2>1, <2>2 DEF Records
  <2> QED BY <1>1, <1>2, <1>3, <1>4, <2>1, <2>3 DEF GoodRecord, next
<1>5. CASE to = "rejected"
  <2> DEFINE kept == Archived(record.history, profile)
  <2>1. kept \in Seq(Profiles) /\ Len(kept) <= HistoryCap
    BY <1>1, <1>2, ArchivedHistory
  <2>2. next = [record EXCEPT !.candidate = NoProfile, !.history = kept]
    BY <1>5 DEF Transitioned, profile
  <2> HIDE DEF kept, next
  <2>3. next \in Records /\ next.active = record.active /\ next.candidate = NoProfile /\ next.history = kept
    BY <1>1, <2>1, <2>2 DEF Records
  <2>4. to # "active"
    BY <1>5
  <2> QED BY <1>1, <2>1, <2>3, <2>4 DEF GoodRecord, next
<1>6. CASE to \notin {"active", "rejected"}
  <2>1. next = [record EXCEPT !.candidate = profile]
    BY <1>6 DEF Transitioned, profile
  <2> HIDE DEF next
  <2>2. next \in Records /\ next.active = record.active /\ next.candidate = profile /\ next.history = record.history
    BY <1>1, <1>2, <2>1 DEF Records
  <2> QED BY <1>1, <1>3, <1>6, <2>2 DEF GoodRecord, next
<1> QED BY <1>4, <1>5, <1>6

LEMMA GoodRevoked ==
  ASSUME NEW record, GoodRecord(record), NEW args \in Args
  PROVE  /\ GoodRecord(Revoked(record, args))
         /\ \/ Revoked(record, args) = record
            \/ /\ Revoked(record, args).active = NoProfile /\ Revoked(record, args).history # <<>>
               /\ Last(Revoked(record, args).history) = Observed(record.active, "rejected")
<1> DEFINE profile == Observed(record.active, "rejected")
           kept == Archived(record.history, profile)
           next == Revoked(record, args)
<1>1. CASE IsActive(record, args)
  <2>1. /\ record \in Records /\ Len(record.history) <= HistoryCap /\ record.history \in Seq(Profiles)
        /\ record.active \in Profiles
    BY <1>1 DEF GoodRecord, IsActive, Records
  <2>2. "rejected" \in States
    BY DEF States
  <2>3. profile \in Profiles
    BY <2>1, <2>2, ObservedProfile
  <2>4. kept \in Seq(Profiles) /\ Len(kept) <= HistoryCap /\ kept # <<>> /\ Last(kept) = profile
    BY <2>1, <2>3, ArchivedHistory
  <2>5. next = [record EXCEPT !.history = kept, !.active = NoProfile]
    BY <1>1 DEF Revoked
  <2> HIDE DEF kept, profile, next
  <2>6. next \in Records /\ next.active = NoProfile /\ next.candidate = record.candidate /\ next.history = kept
    BY <2>1, <2>4, <2>5 DEF Records
  <2>7. GoodRecord(next)
    BY <2>4, <2>6 DEF GoodRecord
  <2> QED BY <2>4, <2>6, <2>7 DEF next, profile
<1>2. CASE ~IsActive(record, args)
  BY <1>2 DEF Revoked
<1> QED BY <1>1, <1>2

-----------------------------------------------------------------------------
(* What is on record of a launch is what the launch knows.                  *)

\* The active profile is of a launch that had passed every check: it knows, or
\* it is about to hear that its last call is done. A call in hand is one that its
\* launch asks next.
Earned ==
  /\ GoodRecord(file)
  /\ reached \in [Launches -> Reached]
  /\ lock \in Launches \union {NoLaunch}
  /\ \A p \in Launches : step[p] # "idle" => call[p] \in NextCalls[reached[p]]
  /\ file.active # NoProfile =>
       LET p == file.active.id IN
       \/ reached[p] \in {"active", "revoked"}
       \/ reached[p] = "performance_verified" /\ step[p] = "done" /\ call[p] = "active"

LEMMA WhoAsks ==
  /\ \A r \in Reached : "active" \in NextCalls[r] => r = "performance_verified"
  /\ \A r \in {"active", "revoked"} : \A c \in NextCalls[r] : c = "revoked"
  /\ \A r \in Reached : NextCalls[r] \subseteq Calls
  /\ {"active", "revoked", "performance_verified", "failed"} \subseteq Reached
<1>1. {"proposed", "allocation_verified", "load_healthy", "functional_verified", "cache_verified",
       "performance_verified", "active", "degraded", "rejected"} \subseteq States
  <2>1. /\ Ladder[1] = "proposed" /\ Ladder[2] = "allocation_verified" /\ Ladder[3] = "load_healthy"
        /\ Ladder[4] = "functional_verified" /\ Ladder[5] = "cache_verified"
        /\ Ladder[6] = "performance_verified" /\ Ladder[7] = "active"
    BY DEF Ladder
  <2>2. \A i \in 1..7 : Ladder[i] \in States
    BY Rungs
  <2>3. 1 \in 1..7 /\ 2 \in 1..7 /\ 3 \in 1..7 /\ 4 \in 1..7 /\ 5 \in 1..7 /\ 6 \in 1..7 /\ 7 \in 1..7
    OBVIOUS
  <2> QED BY <2>1, <2>2, <2>3 DEF States
<1> QED BY <1>1 DEF NextCalls, Reached, Calls

LEMMA InitEarned == Init => Earned
<1> SUFFICES ASSUME Init PROVE Earned
  OBVIOUS
<1>1. <<>> \in Seq(Profiles) /\ Len(<<>>) = 0 /\ HistoryCap \in Nat \ {0}
  BY HistoryCapAssumption
<1>2. EmptyRecord \in Records /\ Len(EmptyRecord.history) <= HistoryCap /\ GoodRecord(EmptyRecord)
  BY <1>1 DEF EmptyRecord, Records, GoodRecord
<1>3. "active" \in Reached /\ "new" \in Reached
  BY WhoAsks DEF Reached
<1>4. /\ reached \in [Launches -> Reached] /\ lock \in Launches \union {NoLaunch}
      /\ \A p \in Launches : step[p] = "idle"
  BY <1>3 DEF Init
<1>5. CASE Before = NoLaunch
  BY <1>2, <1>4, <1>5 DEF Init, Earned, EmptyRecord
<1>6. CASE Before # NoLaunch
  <2> DEFINE profile == [id |-> Before, args |-> argsOf[Before], events |-> Ladder]
  <2>1. Before \in Launches /\ profile \in Profiles
    BY <1>6, BeforeAssumption, Rungs DEF Init, Profiles
  <2>2. file = [EmptyRecord EXCEPT !.active = profile]
    BY <1>6 DEF Init
  <2>3. profile.events = Ladder /\ profile.id = Before
    OBVIOUS
  <2> HIDE DEF profile
  <2>4. file \in Records /\ file.active = profile /\ file.candidate = NoProfile /\ file.history = <<>>
    BY <1>1, <2>1, <2>2 DEF EmptyRecord, Records
  <2>5. GoodRecord(file)
    BY <1>1, <2>3, <2>4 DEF GoodRecord
  <2>6. reached[Before] = "active"
    BY <2>1 DEF Init
  <2> QED BY <1>4, <2>3, <2>4, <2>5, <2>6 DEF Earned
<1> QED BY <1>5, <1>6

\* The call of the process that renames, made on the record as it is on disk.
LEMMA RenameKeeps ==
  ASSUME IInv, Earned, NEW p \in Launches, Rename(p)
  PROVE  /\ GoodRecord(file') /\ KeepsLastKnownGood(file, file')
         /\ \/ file'.active = file.active
            \/ file'.active = NoProfile
            \/ /\ file'.active.id = p /\ call[p] = "active"
               /\ reached[p] = "performance_verified"
<1>1. /\ file' = Changed(p, file) /\ ~Refused(p, file) /\ step[p] = "writing"
      /\ argsOf[p] \in Args /\ call[p] \in Calls /\ call[p] \in NextCalls[reached[p]]
      /\ GoodRecord(file) /\ reached[p] \in Reached
  BY DEF Rename, IInv, DraftIsCurrent, Earned
<1>2. CASE call[p] = "proposed"
  <2>1. file' = Begun(file, Proposed(p, argsOf[p]))
    BY <1>1, <1>2 DEF Changed
  <2> QED BY <1>1, <2>1, GoodBegun DEF KeepsLastKnownGood
<1>3. CASE call[p] = "revoked"
  <2>1. file' = Revoked(file, argsOf[p])
    BY <1>1, <1>3 DEF Changed
  <2> QED BY <1>1, <2>1, GoodRevoked DEF KeepsLastKnownGood
<1>4. CASE call[p] \notin {"proposed", "revoked"}
  <2>1. file' = Transitioned(file, call[p]) /\ CanTransition(file, p, call[p]) /\ call[p] \in States
    BY <1>1, <1>4 DEF Changed, Refused, Calls
  <2>2. /\ GoodRecord(file') /\ file.candidate.id = p
        /\ call[p] = "active" => file'.active # NoProfile /\ file'.active.id = p
        /\ call[p] # "active" => file'.active = file.active
    BY <1>1, <2>1, GoodTransitioned
  <2>3. file.candidate # NoProfile
    BY <2>1 DEF CanTransition
  <2>4. KeepsLastKnownGood(file, file')
    BY <2>2, <2>3 DEF KeepsLastKnownGood, GoodRecord
  <2>5. call[p] = "active" => reached[p] = "performance_verified"
    BY <1>1, WhoAsks
  <2> QED BY <2>2, <2>4, <2>5
<1> QED BY <1>2, <1>3, <1>4

LEMMA NextEarned ==
  ASSUME MaxCrashes = 0, ReadErrors = FALSE, IInv, Earned, [Next]_vars
  PROVE  Earned'
<1> USE DEF Earned
<1>0. ASSUME NEW p \in Launches, Crash(p) PROVE FALSE
  <2>1. Crashed = {}
    BY DEF IInv, Crashed
  <2>2. ~(Cardinality(Crashed) < MaxCrashes)
    BY <2>1, FS_EmptySet
  <2> QED BY <1>0, <2>2 DEF Crash
<1>1. ASSUME NEW p \in Launches, Rename(p) PROVE Earned'
  <2>1. GoodRecord(file') /\ reached' = reached /\ lock' = lock /\ call' = call /\ step[p] = "writing"
    BY <1>1, RenameKeeps DEF Rename
  <2>2. step'[p] = "done" /\ \A q \in Launches : q # p => step'[q] = step[q]
    BY <1>1 DEF Rename, IInv
  <2>3. \A q \in Launches : step'[q] # "idle" => call'[q] \in NextCalls[reached'[q]]
    BY <2>1, <2>2
  <2>4. ASSUME file'.active # NoProfile
        PROVE  LET q == file'.active.id IN
               \/ reached'[q] \in {"active", "revoked"}
               \/ reached'[q] = "performance_verified" /\ step'[q] = "done" /\ call'[q] = "active"
    <3>1. CASE file'.active = file.active
      <4>1. file.active.id \in Launches
        BY <2>4, <3>1 DEF GoodRecord, Records, Profiles
      <4> QED BY <2>1, <2>2, <2>4, <3>1, <4>1
    <3>2. CASE file'.active.id = p /\ call[p] = "active" /\ reached[p] = "performance_verified"
      BY <2>1, <2>2, <3>2
    <3> QED BY <1>1, <2>4, <3>1, <3>2, RenameKeeps
  <2> QED BY <2>1, <2>3, <2>4
<1>2. ASSUME NEW p \in Launches, NEW c \in Calls, Ask(p, c) PROVE Earned'
  <2>1. /\ step[p] = "idle" /\ c \in NextCalls[reached[p]] /\ step' = [step EXCEPT ![p] = "opening"]
        /\ call' = [call EXCEPT ![p] = c] /\ UNCHANGED <<file, lock, reached>>
    BY <1>2 DEF Ask
  <2>2. /\ call'[p] = c /\ step'[p] = "opening"
        /\ \A q \in Launches : q # p => step'[q] = step[q] /\ call'[q] = call[q]
    BY <2>1 DEF IInv
  <2>3. file.active # NoProfile => file.active.id \in Launches
    BY DEF GoodRecord, Records, Profiles
  <2>4. \A q \in Launches : step'[q] # "idle" => call'[q] \in NextCalls[reached'[q]]
    BY <2>1, <2>2
  <2> QED BY <2>1, <2>2, <2>3, <2>4
<1>3. ASSUME NEW p \in Launches,
             TakeLock(p) \/ FindStale(p) \/ BreakLock(p) \/ Mutate(p) \/ WriteFails(p)
      PROVE  Earned'
  <2>1. /\ UNCHANGED <<file, call, reached>> /\ step[p] \in {"opening", "breaking", "reading", "writing"}
        /\ lock' \in Launches \union {NoLaunch}
    BY <1>3 DEF TakeLock, FindStale, BreakLock, Mutate, WriteFails
  <2>2. \A q \in Launches : q # p => step'[q] = step[q]
    BY <1>3 DEF TakeLock, FindStale, BreakLock, Mutate, WriteFails, IInv
  <2>3. file.active # NoProfile => file.active.id \in Launches
    BY DEF GoodRecord, Records, Profiles
  <2>4. \A q \in Launches : step'[q] # "idle" => call'[q] \in NextCalls[reached'[q]]
    BY <2>1, <2>2
  <2> QED BY <2>1, <2>2, <2>3, <2>4
<1>4. ASSUME NEW p \in Launches, Reuse(p) \/ GiveUp(p) \/ Release(p) PROVE Earned'
  <2>1. /\ UNCHANGED <<file, call>> /\ lock' \in Launches \union {NoLaunch}
        /\ \A q \in Launches : q # p => step'[q] = step[q] /\ reached'[q] = reached[q]
        /\ step'[p] = "idle"
    BY <1>4 DEF Reuse, GiveUp, Release, IInv
  <2>2. call[p] \in Calls /\ call[p] \in Reached
    BY DEF IInv, Reached
  <2>3. AfterFailure(call[p]) \in Reached /\ (call[p] = "revoked" => AfterFailure(call[p]) = "revoked")
    BY <2>2 DEF AfterFailure, Reached
  <2>4. reached' \in [Launches -> Reached]
    BY <1>4, <2>2, <2>3, WhoAsks DEF Reuse, GiveUp, Release
  <2>5. ASSUME file.active # NoProfile, file.active.id = p PROVE reached'[p] \in {"active", "revoked"}
    <3>1. CASE Reuse(p)
      BY <3>1 DEF Reuse
    <3>2. CASE reached[p] \in {"active", "revoked"} /\ ~Reuse(p)
      <4>1. call[p] = "revoked"
        BY <1>4, <3>2, WhoAsks DEF GiveUp, Release
      <4> QED BY <1>4, <2>3, <3>2, <4>1 DEF GiveUp, Release
    <3>3. CASE reached[p] = "performance_verified" /\ step[p] = "done" /\ call[p] = "active"
      BY <1>4, <3>3 DEF Reuse, GiveUp, Release
    <3> QED BY <2>5, <3>1, <3>2, <3>3
  <2>6. file.active # NoProfile => file.active.id \in Launches
    BY DEF GoodRecord, Records, Profiles
  <2>7. \A q \in Launches : step'[q] # "idle" => call'[q] \in NextCalls[reached'[q]]
    BY <2>1
  <2> QED BY <2>1, <2>4, <2>5, <2>6, <2>7
<1>5. CASE UNCHANGED vars \/ LockAges
  BY <1>5 DEF vars, LockAges
<1> QED BY <1>0, <1>1, <1>2, <1>3, <1>4, <1>5 DEF Next

\* No launch promotes a profile that is not its own and fully verified: what is
\* active has every check on record, and its own launch passed them all.
THEOREM ActiveIsVerified ==
  ASSUME MaxCrashes = 0, ReadErrors = FALSE
  PROVE  Spec => []ActiveWasVerified
<1>1. Init => IInv /\ Earned
  BY InitIInv, InitEarned
<1>2. IInv /\ Earned /\ [Next]_vars => IInv' /\ Earned'
  BY NextIInv, NextEarned
<1>3. Earned => ActiveWasVerified
  BY DEF Earned, ActiveWasVerified, GoodRecord
<1> QED BY <1>1, <1>2, <1>3, PTL DEF Spec

\* The last known good gives way only to a candidate that passed every check, or
\* to evidence against itself.
THEOREM LastKnownGoodIsKept ==
  ASSUME MaxCrashes = 0, ReadErrors = FALSE
  PROVE  Spec => LastKnownGoodKept
<1>1. Init => IInv /\ Earned
  BY InitIInv, InitEarned
<1>2. IInv /\ Earned /\ [Next]_vars => IInv' /\ Earned'
  BY NextIInv, NextEarned
<1>3. IInv /\ Earned /\ [Next]_vars => [KeepsLastKnownGood(file, file')]_file
  <2> SUFFICES ASSUME IInv, Earned, Next, file' # file PROVE KeepsLastKnownGood(file, file')
    BY DEF vars
  <2>1. PICK p \in Launches : Rename(p)
    BY DEF Next, Reuse, Ask, TakeLock, FindStale, BreakLock, GiveUp, Mutate, WriteFails, Release, Crash, LockAges
  <2> QED BY <2>1, RenameKeeps
<1> QED BY <1>1, <1>2, <1>3, PTL DEF Spec, LastKnownGoodKept
=============================================================================
