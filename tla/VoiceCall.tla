------------------------------ MODULE VoiceCall ------------------------------
(***************************************************************************)
(* One voice call: the WebSocket handler and its watcher, on threads of    *)
(* their own, and the Azure session, on the shared asyncio loop.           *)
(***************************************************************************)
EXTENDS AzureSession, WebSocketHandler

vars == <<bridgeVars, sessionVars, handlerVars>>

Init == BridgeInit /\ SessionInit /\ HandlerInit

Next == \/ SessionNext /\ UNCHANGED handlerVars
        \/ HandlerNext /\ UNCHANGED sessionVars

Spec == Init /\ [][Next]_vars

\* The loop schedules every ready coroutine and both threads run.  Nothing
\* is assumed of Azure (connecting, sending, closing) or of the browser.
Fairness == /\ WF_vars(SessionStep /\ UNCHANGED handlerVars)
            /\ WF_vars(ReaderStep /\ UNCHANGED handlerVars)
            /\ WF_vars(ReceiverStep /\ UNCHANGED handlerVars)
            /\ WF_vars(HandlerStep /\ UNCHANGED sessionVars)
            /\ WF_vars(WatcherStep /\ UNCHANGED sessionVars)

FairSpec == Spec /\ Fairness
------------------------------------------------------------------------------
(* What holds in every state *)

\* Every variable of the call stays within its type.
TypeOK == BridgeTypeOK /\ SessionTypeOK /\ HandlerTypeOK

SawClosed == "session.closed" \in told
SawError == \/ "error" \in told
            \/ \E i \in DOMAIN delivered : log[delivered[i]] = "session.error"

\* A session that ends by itself loses nothing: when the bridge loop left
\* because azure_done was set, a browser that is still there has received
\* every event, the watcher's error included, before session.closed.
NoLossOnSelfEnd ==
    (why = "done" /\ SawClosed) => Len(delivered) = Len(log)

\* A session that failed is reported to a browser that stays: by the
\* handler itself before the bridge starts, through the queue afterwards.
\* (A frame that raised in parse_client_message ends the bridge at once.)
FailureReported ==
    (fut = "error" /\ handler = "returned" /\ browser = "open" /\ why # "exception")
        => SawError

\* session.closed ends the stream: the browser receives nothing after it,
\* and every event it received before is a prefix of what was produced.
Stream == INSTANCE EventStream WITH
              Event <- EventType,
              produced <- log,
              shown <- [i \in DOMAIN delivered |-> log[delivered[i]]],
              open <- browser = "open" /\ ~SawClosed

RefinesEventStream == Stream!Spec
------------------------------------------------------------------------------
(* The invariant behind the three properties above *)

\* Positions travel in order: what was sent is 1, 2, 3, ..., what is queued
\* is later and ascending, and for a browser that is there nothing is missing
\* between the two.
QueueInv ==
    /\ \A i \in 1..Len(delivered) : delivered[i] = i
    /\ Len(delivered) <= Len(log)
    /\ \A i \in 1..Len(outbound) : outbound[i] <= Len(log)
    /\ \A i, j \in 1..Len(outbound) :
          i < j /\ outbound[i] # StopMark /\ outbound[j] # StopMark
             => outbound[i] < outbound[j]
    /\ browser = "open" =>
          /\ \A i \in 1..Len(outbound) :
                outbound[i] # StopMark => Len(delivered) < outbound[i]
          /\ \A p \in (Len(delivered) + 1)..Len(log) :
                \E i \in 1..Len(outbound) : outbound[i] = p

\* How far each side has got when the session is over: a future that was not
\* cancelled resolves after both readers ended, and the bridge that leaves on
\* azure_done leaves such a future.
Ending == {"putStop", "finalDrain", "emitClosed", "cancel", "join", "returned"}

PhaseInv ==
    /\ session \in {"connect", "setup", "prompt"} => reader = "none" /\ receiver = "none"
    /\ session \in {"exit", "done"} =>
          reader \in {"none", "done"} /\ receiver \in {"none", "done"}
    /\ fut \in {"ok", "error"} => session = "done"
    /\ fut = "cancelled" => handler \in {"join", "returned"}
    /\ watcher # "result" => fut # "pending"
    /\ azureDone => watcher \in {"putStop", "exited"}
    /\ why = "done" => azureDone /\ fut \in {"ok", "error"}
    /\ (handler \in Ending) = (why # "none")
    /\ why = "closed" => browser = "closed"
    /\ why \in {"timeout", "error"} /\ browser = "open" => "error" \in told

\* Unless the call was cancelled, nothing is queued behind the stop sentinel.
StopInv ==
    fut # "cancelled" =>
        \A i \in 1..Len(outbound) :
            outbound[i] = StopMark => i = Len(outbound) /\ watcher = "exited"

\* A bridge that left on azure_done has sent everything.
Finished == handler \in {"emitClosed", "cancel", "join", "returned"}

AllSent == why = "done" /\ Finished /\ (browser = "open" \/ SawClosed)
              => Len(delivered) = Len(log)

\* A failure the watcher saw is among what was produced.
ErrorLogged == watcher # "result" /\ fut = "error" =>
                  \E i \in 1..Len(log) : log[i] = "session.error"

\* session.closed is said after the last drain.
StreamClosed == SawClosed => handler \in {"cancel", "join", "returned"}

CallInv == /\ QueueInv /\ PhaseInv /\ StopInv
           /\ AllSent /\ ErrorLogged /\ StreamClosed
------------------------------------------------------------------------------
(* What eventually happens *)

\* A browser that leaves frees its server thread.
BrowserGoneHandlerReturns == (browser = "closed") ~> (handler = "returned")

\* A session that ended by itself is announced: the browser hears of it,
\* unless it is gone.
SelfEndAnnounced ==
    (fut \in {"ok", "error"}) ~> (SawClosed \/ SawError \/ browser = "closed")

\* The thread that watches a bridged call never outlives it for ever.
WatcherReleased ==
    (handler = "returned" /\ why # "timeout") ~> (watcher = "exited")

\* A session that connects after the handler gave up finds the STOP that
\* was left for it, and closes its connection.
LateSessionCloses == (why = "timeout" /\ conn = "open") ~> (conn = "closed")
------------------------------------------------------------------------------
(* What the documentation says, and the code does not do *)

\* "two coroutines run concurrently for the lifetime of the call": when the
\* one that reads Azure ends, so does the one that reads the browser.
ReadersEndTogether == (receiver = "done") ~> (reader = "done")
==============================================================================
