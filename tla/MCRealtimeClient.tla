-------------------------- MODULE MCRealtimeClient --------------------------
(* The instance of RealtimeClient that TLC checks. *)
EXTENDS RealtimeClient

\* One setting that the user may change and reset.
MCChoices == [turnDetection |-> {"server_vad"}]

\* Bound: a run is followed until it shows a fourth kind of overlap.
FewSlips == Cardinality(slips) <= 3
=============================================================================
