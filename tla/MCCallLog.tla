----------------------------- MODULE MCCallLog -----------------------------
(* The instance of CallLog that TLC checks. *)
EXTENDS CallLog

\* Two ids of questions_data.py, one of which is a place.
MCWords == [auto_incident_location |-> {"location"}, claimant_name |-> {"name", "claimant"}]

MCUsages == {<<0, 0>>, <<2, 1>>}
=============================================================================
