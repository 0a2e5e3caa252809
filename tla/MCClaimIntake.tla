---------------------------- MODULE MCClaimIntake ----------------------------
(* A part of the real catalogue, in its order, with what validator.py says of *)
(* three answers: a date ("May 13, 2026"), a story of sixteen words, and a    *)
(* vague one ("some time in May").                                            *)
EXTENDS ClaimIntake

MCCatalogue == <<
  [words |-> {"incident", "date"}, category |-> "top", accepts |-> {"date"}],
  [words |-> {"incident", "description"}, category |-> "top", accepts |-> {}],
  [words |-> {"auto", "incident", "location"}, category |-> "auto", accepts |-> {"date", "story"}],
  [words |-> {"auto", "vehicle", "info"}, category |-> "auto", accepts |-> {"date", "story"}],
  [words |-> {"auto", "incident", "description"}, category |-> "auto", accepts |-> {"story"}],
  [words |-> {"property", "address"}, category |-> "property", accepts |-> {"date"}] >>

MCSpoken ==
  {[words |-> MCCatalogue[i].words, form |-> "id"] : i \in {3, 5}}
    \cup {[words |-> {"auto", "incident", "description"}, form |-> "spelt"],
          [words |-> {"vehicle", "info"}, form |-> "words"],
          [words |-> {"incident"}, form |-> "words"],
          [words |-> {"accident"}, form |-> "words"]}
==============================================================================
