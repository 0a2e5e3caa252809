----------------------------- MODULE EventStream -----------------------------
(***************************************************************************)
(* What the backend promises a browser: the events of a call reach it once *)
(* each, in the order the session produced them, with nothing after the    *)
(* stream is closed.  An event may be lost only by the stream closing.     *)
(***************************************************************************)
EXTENDS Naturals, Sequences

CONSTANT Event

VARIABLES produced,   \* every event the session produced, oldest first
          shown,      \* the events the browser received, oldest first
          open        \* the browser may still receive events

vars == <<produced, shown, open>>

Init == /\ produced = <<>>
        /\ shown = <<>>
        /\ open = TRUE

Produce == /\ \E e \in Event : produced' = Append(produced, e)
           /\ UNCHANGED <<shown, open>>

Deliver == /\ open
           /\ Len(shown) < Len(produced)
           /\ shown' = Append(shown, produced[Len(shown) + 1])
           /\ UNCHANGED <<produced, open>>

Close == /\ open
         /\ open' = FALSE
         /\ UNCHANGED <<produced, shown>>

Next == Produce \/ Deliver \/ Close

Spec == Init /\ [][Next]_vars
==============================================================================
