---------------------------- MODULE ProfileLedger ----------------------------
(***************************************************************************)
(* What the profile store promises: the record of a scope changes in whole *)
(* calls, one after the other, whatever processes make them and wherever   *)
(* they stop.                                                              *)
(***************************************************************************)
EXTENDS ProfileRecord

VARIABLE record

\* A new record, or one with an active profile and nothing else.
Init ==
  \/ record = EmptyRecord
  \/ \E id \in Launches, args \in Args :
       record = [EmptyRecord EXCEPT !.active =
                   [id |-> id, args |-> args, events |-> Ladder]]

Begin(id, args) == record' = Begun(record, Proposed(id, args))

Advance(id, to) == CanTransition(record, id, to) /\ record' = Transitioned(record, to)

Revoke(args) == record' = Revoked(record, args)

Next ==
  \/ \E id \in Launches, args \in Args : Begin(id, args)
  \/ \E id \in Launches, to \in States : Advance(id, to)
  \/ \E args \in Args : Revoke(args)

Spec == Init /\ [][Next]_record
=============================================================================
