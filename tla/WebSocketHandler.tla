-------------------------- MODULE WebSocketHandler --------------------------
(***************************************************************************)
(* handle_websocket: the thread that serves one browser, and the watcher   *)
(* thread that waits for the session's future.  A program counter names    *)
(* the next statement that touches shared state; draining takes one event  *)
(* per step, so the other threads run between two gets.                    *)
(***************************************************************************)
EXTENDS Bridge

CONSTANTS
    MaxClient,       \* bound: frames the browser sends in one call
    Frames           \* the kinds of well-formed frame it sends

ASSUME ClientAssumption == MaxClient \in Nat /\ Frames \subseteq Frame

VARIABLES
    handler,      \* waitReady, checkError, test, drain, receive, putStop,
                  \* finalDrain, emitClosed, cancel, join, returned
    why,          \* how the bridge ended: none, timeout, error, done, closed, exception
    watcher,      \* result, setDone, putStop, exited
    azureError,   \* azure_error is not empty
    azureDone,    \* azure_done
    browser,      \* the browser's side of the socket: open or closed
    told,         \* events emitted directly, past the outbound queue
    delivered,    \* positions in log of the events sent to an open browser
    clientLeft    \* frames the browser may still send

handlerVars == <<handler, why, watcher, azureError, azureDone,
                 browser, told, delivered, clientLeft>>

HandlerFlags == azureError \in BOOLEAN /\ azureDone \in BOOLEAN

HandlerTypeOK ==
    /\ HandlerFlags
    /\ handler \in {"waitReady", "checkError", "test", "drain", "receive",
                    "putStop", "finalDrain", "emitClosed", "cancel", "join",
                    "returned"}
    /\ why \in {"none", "timeout", "error", "done", "closed", "exception"}
    /\ watcher \in {"result", "setDone", "putStop", "exited"}
    /\ browser \in {"open", "closed"}
    /\ told \in SUBSET {"pattern.selected", "error", "session.closed"}
    /\ delivered \in Seq(Nat)
    /\ clientLeft \in 0..MaxClient

\* The pattern has been announced, the coroutine scheduled and the watcher
\* started; the coroutine runs on the loop whatever this thread does.
HandlerInit ==
    /\ handler = "waitReady"
    /\ why = "none"
    /\ watcher = "result"
    /\ azureError = FALSE
    /\ azureDone = FALSE
    /\ browser = "open"
    /\ told = {"pattern.selected"}
    /\ delivered = <<>>
    /\ clientLeft = MaxClient

\* safe_ws_send: a send to a closed browser is dropped in silence.
Emit(e) == told' = IF browser = "open" THEN told \cup {e} ELSE told
------------------------------------------------------------------------------
(* handle_websocket *)

SeeReady ==
    /\ handler = "waitReady"
    /\ ready
    /\ handler' = "checkError"
    /\ UNCHANGED <<bridgeVars, why, watcher, azureError, azureDone,
                   browser, told, delivered, clientLeft>>

\* Fault: the handler gives up and leaves no STOP.
TimeOutNoStop ==
    /\ handler = "waitReady"
    /\ ~ready
    /\ Emit("error")
    /\ why' = "timeout"
    /\ handler' = "join"
    /\ UNCHANGED <<bridgeVars, watcher, azureError, azureDone,
                   browser, delivered, clientLeft>>

\* Fifteen seconds without ready.  The session is not cancelled: it is left
\* a STOP to find if it ever starts.
TimeOut ==
    /\ handler = "waitReady"
    /\ ~ready
    /\ Emit("error")
    /\ inbound' = Append(inbound, "STOP")
    /\ why' = "timeout"
    /\ handler' = "join"
    /\ UNCHANGED <<outbound, log, ready, fut, cancelReq,
                   watcher, azureError, azureDone, browser, delivered, clientLeft>>

CheckError ==
    /\ handler = "checkError"
    /\ IF azureError
       THEN Emit("error") /\ why' = "error" /\ handler' = "join"
       ELSE handler' = "test" /\ UNCHANGED <<told, why>>
    /\ UNCHANGED <<bridgeVars, watcher, azureError, azureDone,
                   browser, delivered, clientLeft>>

\* The loop condition of _bridge_loop.
TestDone ==
    /\ handler = "test"
    /\ IF azureDone
       THEN handler' = "putStop" /\ why' = "done"
       ELSE handler' = "drain" /\ UNCHANGED why
    /\ UNCHANGED <<bridgeVars, watcher, azureError, azureDone,
                   browser, told, delivered, clientLeft>>

\* One round of _drain_outbound, which returns on Empty and on the stop
\* event; "after" is the statement that follows the call.
DrainOne(after) ==
    /\ IF outbound = <<>>
       THEN handler' = after /\ UNCHANGED <<outbound, delivered>>
       ELSE /\ outbound' = Tail(outbound)
            /\ IF Head(outbound) = StopMark
               THEN handler' = after /\ UNCHANGED delivered
               ELSE /\ UNCHANGED handler
                    /\ delivered' = IF browser = "open"
                                    THEN Append(delivered, Head(outbound))
                                    ELSE delivered
    /\ UNCHANGED <<inbound, log, ready, fut, cancelReq,
                   why, watcher, azureError, azureDone, browser, told, clientLeft>>

DrainOutbound == handler = "drain" /\ DrainOne("receive")

\* A frame arrives, before or after the browser closed: frames that were
\* received before the close are still handed out.  One that is not a
\* message is skipped, one whose JSON is not an object raises.
ReceiveFrame ==
    /\ handler = "receive"
    /\ clientLeft > 0
    /\ clientLeft' = clientLeft - 1
    /\ \/ /\ \E f \in Frames : inbound' = Append(inbound, f)
          /\ handler' = "test"
          /\ UNCHANGED why
       \/ /\ handler' = "test"
          /\ UNCHANGED <<inbound, why>>
       \/ /\ handler' = "putStop"
          /\ why' = "exception"
          /\ UNCHANGED inbound
    /\ UNCHANGED <<outbound, log, ready, fut, cancelReq,
                   watcher, azureError, azureDone, browser, told, delivered>>

\* Fault: a closed socket is taken for one that is silent.
ReceiveNothingRetry ==
    /\ handler = "receive"
    /\ handler' = "test"
    /\ UNCHANGED <<bridgeVars, why, watcher, azureError, azureDone,
                   browser, told, delivered, clientLeft>>

\* ws.receive(timeout=0.2) returns None, or raises on a closed socket.
ReceiveNothing ==
    /\ handler = "receive"
    /\ IF browser = "open"
       THEN handler' = "test" /\ UNCHANGED why
       ELSE handler' = "putStop" /\ why' = "closed"
    /\ UNCHANGED <<bridgeVars, watcher, azureError, azureDone,
                   browser, told, delivered, clientLeft>>

\* Fault: session.closed is emitted before the last events are drained.
PutStopAndEmitClosed ==
    /\ handler = "putStop"
    /\ inbound' = Append(inbound, "STOP")
    /\ Emit("session.closed")
    /\ handler' = "finalDrain"
    /\ UNCHANGED <<outbound, log, ready, fut, cancelReq, why, watcher, azureError,
                   azureDone, browser, delivered, clientLeft>>

PutStopInbound ==
    /\ handler = "putStop"
    /\ inbound' = Append(inbound, "STOP")
    /\ handler' = "finalDrain"
    /\ UNCHANGED <<outbound, log, ready, fut, cancelReq, why, watcher, azureError,
                   azureDone, browser, told, delivered, clientLeft>>

FinalDrain == handler = "finalDrain" /\ DrainOne("emitClosed")

EmitClosed ==
    /\ handler = "emitClosed"
    /\ Emit("session.closed")
    /\ handler' = "cancel"
    /\ UNCHANGED <<bridgeVars, why, watcher, azureError, azureDone,
                   browser, delivered, clientLeft>>

\* The future is cancelled at once; its task learns of it from the loop.
CancelFuture ==
    /\ handler = "cancel"
    /\ handler' = "join"
    /\ IF fut = "pending"
       THEN fut' = "cancelled" /\ cancelReq' = TRUE
       ELSE UNCHANGED <<fut, cancelReq>>
    /\ UNCHANGED <<inbound, outbound, log, ready, why, watcher, azureError,
                   azureDone, browser, told, delivered, clientLeft>>

\* watcher.join(timeout=5) returns when the watcher exits or after 5 s.
Return ==
    /\ handler = "join"
    /\ handler' = "returned"
    /\ UNCHANGED <<bridgeVars, why, watcher, azureError, azureDone,
                   browser, told, delivered, clientLeft>>

HandlerStep == \/ SeeReady \/ TimeOut \/ CheckError \/ TestDone
               \/ DrainOutbound \/ ReceiveFrame \/ ReceiveNothing
               \/ PutStopInbound \/ FinalDrain \/ EmitClosed
               \/ CancelFuture \/ Return
------------------------------------------------------------------------------
(* _watch_future *)

\* Fault: the error is recorded and never put for the browser.
SeeResultSilent ==
    /\ watcher = "result"
    /\ fut # "pending"
    /\ watcher' = "setDone"
    /\ azureError' = (fut # "ok")
    /\ UNCHANGED <<bridgeVars, handler, why, azureDone,
                   browser, told, delivered, clientLeft>>

\* Fault: only the task's own end wakes the watcher, not the cancellation.
SeeResultOfTask ==
    /\ fut # "cancelled"
    /\ watcher = "result"
    /\ fut # "pending"
    /\ watcher' = "setDone"
    /\ IF fut = "ok"
       THEN UNCHANGED <<azureError, outbound, log>>
       ELSE azureError' = TRUE /\ Put("session.error")
    /\ UNCHANGED <<inbound, ready, fut, cancelReq, handler, why, azureDone,
                   browser, told, delivered, clientLeft>>

\* A cancelled future raises too: its error is put like any other.
SeeResult ==
    /\ watcher = "result"
    /\ fut # "pending"
    /\ watcher' = "setDone"
    /\ IF fut = "ok"
       THEN UNCHANGED <<azureError, outbound, log>>
       ELSE azureError' = TRUE /\ Put("session.error")
    /\ UNCHANGED <<inbound, ready, fut, cancelReq, handler, why, azureDone,
                   browser, told, delivered, clientLeft>>

\* Fault: the watcher forgets to say that the session is over.
SetDoneForgotten ==
    /\ watcher = "setDone"
    /\ watcher' = "putStop"
    /\ UNCHANGED <<bridgeVars, handler, why, azureError, azureDone,
                   browser, told, delivered, clientLeft>>

SetDone ==
    /\ watcher = "setDone"
    /\ azureDone' = TRUE
    /\ watcher' = "putStop"
    /\ UNCHANGED <<bridgeVars, handler, why, azureError,
                   browser, told, delivered, clientLeft>>

PutStopEvent ==
    /\ watcher = "putStop"
    /\ PutStop
    /\ watcher' = "exited"
    /\ UNCHANGED <<inbound, ready, fut, cancelReq, handler, why, azureError,
                   azureDone, browser, told, delivered, clientLeft>>

WatcherStep == SeeResult \/ SetDone \/ PutStopEvent
------------------------------------------------------------------------------
BrowserCloses ==
    /\ browser = "open"
    /\ browser' = "closed"
    /\ UNCHANGED <<bridgeVars, handler, why, watcher, azureError, azureDone,
                   told, delivered, clientLeft>>

HandlerNext == HandlerStep \/ WatcherStep \/ BrowserCloses
==============================================================================
