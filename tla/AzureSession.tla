---------------------------- MODULE AzureSession ----------------------------
(***************************************************************************)
(* run_azure_session on the shared asyncio loop: the session coroutine,    *)
(* and the two readers it gathers.  A program counter names the await a    *)
(* coroutine is suspended at; a step runs to the next await.  The Azure    *)
(* connection, the pattern's tool handlers and the moment a cancellation   *)
(* reaches the loop are the environment.                                   *)
(***************************************************************************)
EXTENDS Bridge

CONSTANTS
    MaxAzure,        \* bound: server events in one call
    ServerEvents     \* the kinds of server event Azure sends

ServerEvent == {"plain", "silent", "response.done", "tool"}

ASSUME AzureAssumption == MaxAzure \in Nat /\ ServerEvents \subseteq ServerEvent

VARIABLES
    session,      \* run_azure_session: connect, setup, prompt, gather, exit, done
    reader,       \* _read_from_browser: none, get, audio, item, create, done
    receiver,     \* _read_from_azure: none, wait, reap, compact, tool, output,
                  \*                   update, respond, done
    event,        \* what recv returned, or the kind of the tool's result,
                  \* until it is handled
    exchange,     \* pattern events emitted and not drained yet
    shutdown,     \* the asyncio.Event the readers share
    conn,         \* none, open, azureClosed, closed
    azureLeft     \* server events Azure may still send

sessionVars == <<session, reader, receiver, event, exchange, shutdown, conn, azureLeft>>

SessionFlags == exchange \in BOOLEAN /\ shutdown \in BOOLEAN

SessionTypeOK ==
    /\ SessionFlags
    /\ session \in {"connect", "setup", "prompt", "gather", "exit", "done"}
    /\ reader \in {"none", "get", "audio", "item", "create", "done"}
    /\ receiver \in {"none", "wait", "reap", "compact", "tool", "output",
                     "update", "respond", "done"}
    /\ event \in ServerEvent \cup {"none", "result", "handoff"}
    /\ conn \in {"none", "open", "azureClosed", "closed"}
    /\ azureLeft \in 0..MaxAzure

SessionInit ==
    /\ session = "connect"
    /\ reader = "none"
    /\ receiver = "none"
    /\ event = "none"
    /\ exchange = FALSE
    /\ shutdown = FALSE
    /\ conn = "none"
    /\ azureLeft = MaxAzure

\* connection.send(...) returns; on any other connection it raises.
Sent == conn = "open"

\* The "while not shutdown.is_set()" of each reader.
NextRead == IF shutdown THEN "done" ELSE "get"
NextWait == IF shutdown THEN "done" ELSE "wait"
------------------------------------------------------------------------------
(* run_azure_session *)

Connect ==
    /\ session = "connect"
    /\ session' = "setup"
    /\ conn' = "open"
    /\ UNCHANGED <<bridgeVars, reader, receiver, event, exchange, shutdown, azureLeft>>

ConnectFails ==
    /\ session = "connect"
    /\ session' = "done"
    /\ Resolve("error")
    /\ UNCHANGED <<inbound, outbound, log, ready, cancelReq,
                   reader, receiver, event, exchange, shutdown, conn, azureLeft>>

SendSetup ==
    /\ session = "setup"
    /\ Sent
    /\ Put("session.created")
    /\ session' = "prompt"
    /\ UNCHANGED <<inbound, ready, fut, cancelReq,
                   reader, receiver, event, exchange, shutdown, conn, azureLeft>>

SetupFails ==
    /\ session = "setup"
    /\ ~Sent
    /\ session' = "done"
    /\ conn' = "closed"
    /\ Resolve("error")
    /\ UNCHANGED <<inbound, outbound, log, ready, cancelReq,
                   reader, receiver, event, exchange, shutdown, azureLeft>>

\* No await since SendSetup: both readers start and ready is set.
StartReaders ==
    /\ session = "prompt"
    /\ Put("session.prompt_updated")
    /\ ready' = TRUE
    /\ session' = "gather"
    /\ reader' = "get"
    /\ receiver' = "wait"
    /\ UNCHANGED <<inbound, fut, cancelReq, event, exchange, shutdown, conn, azureLeft>>

\* gather(..., return_exceptions=True) returns only when both have ended.
Gathered ==
    /\ session = "gather"
    /\ reader = "done"
    /\ receiver = "done"
    /\ session' = "exit"
    /\ UNCHANGED <<bridgeVars, reader, receiver, event, exchange, shutdown, conn, azureLeft>>

\* __aexit__ closes the connection; closing may itself raise.
CloseConnection ==
    /\ session = "exit"
    /\ session' = "done"
    /\ conn' = "closed"
    /\ \E r \in {"ok", "error"} : Resolve(r)
    /\ UNCHANGED <<inbound, outbound, log, ready, cancelReq,
                   reader, receiver, event, exchange, shutdown, azureLeft>>

\* future.cancel() reaches the task: gather cancels both readers, each at
\* its await.  _recv_with_shutdown swallows the cancellation while it awaits
\* the task it cancelled itself, and _read_from_azure goes on.
DeliverCancel ==
    /\ cancelReq
    /\ cancelReq' = FALSE
    /\ IF session = "gather"
       THEN /\ reader' = "done"
            /\ receiver' = IF receiver = "reap" THEN "reap" ELSE "done"
       ELSE UNCHANGED <<reader, receiver>>
    /\ UNCHANGED <<inbound, outbound, log, ready, fut,
                   session, event, exchange, shutdown, conn, azureLeft>>

SessionStep == \/ SendSetup \/ SetupFails \/ StartReaders
               \/ Gathered \/ CloseConnection \/ DeliverCancel
------------------------------------------------------------------------------
(* _read_from_browser.  A get that times out finds shutdown still FALSE,   *)
(* since only this coroutine sets it, and waits again: no state changes.   *)

TakeStop ==
    /\ reader = "get"
    /\ inbound # <<>>
    /\ Head(inbound) = "STOP"
    /\ inbound' = Tail(inbound)
    /\ shutdown' = TRUE
    /\ reader' = "done"
    /\ UNCHANGED <<outbound, log, ready, fut, cancelReq,
                   session, receiver, event, exchange, conn, azureLeft>>

TakeFrame ==
    /\ reader = "get"
    /\ inbound # <<>>
    /\ Head(inbound) # "STOP"
    /\ inbound' = Tail(inbound)
    /\ \/ /\ Head(inbound) = "audio"
          /\ reader' = "audio"
          /\ UNCHANGED <<outbound, log>>
       \/ /\ Head(inbound) = "text"
          /\ reader' = "item"
          /\ UNCHANGED <<outbound, log>>
       \/ /\ Head(inbound) = "switch"
          /\ Put("pattern.switching")
          /\ reader' = NextRead
       \/ /\ Head(inbound) = "ignored"
          /\ reader' = NextRead
          /\ UNCHANGED <<outbound, log>>
    /\ UNCHANGED <<ready, fut, cancelReq,
                   session, receiver, event, exchange, shutdown, conn, azureLeft>>

\* An audio chunk that cannot be sent ends the session ...
SendAudio ==
    /\ reader = "audio"
    /\ reader' = IF Sent THEN NextRead ELSE "done"
    /\ shutdown' = (shutdown \/ ~Sent)
    /\ UNCHANGED <<bridgeVars, session, receiver, event, exchange, conn, azureLeft>>

\* ... a text that cannot be sent only puts an error.
SendText ==
    /\ reader \in {"item", "create"}
    /\ \/ /\ Sent
          /\ reader = "item"
          /\ reader' = "create"
          /\ UNCHANGED <<outbound, log>>
       \/ /\ Sent
          /\ reader = "create"
          /\ Put("text.sent")
          /\ reader' = NextRead
       \/ /\ ~Sent
          /\ Put("text.error")
          /\ reader' = NextRead
    /\ UNCHANGED <<inbound, ready, fut, cancelReq,
                   session, receiver, event, exchange, shutdown, conn, azureLeft>>

ReaderStep == TakeStop \/ TakeFrame \/ SendAudio \/ SendText
------------------------------------------------------------------------------
(* _read_from_azure *)

\* recv completes first: the shutdown task is cancelled and awaited ("reap").
Receive(k) ==
    /\ receiver = "wait"
    /\ ~shutdown
    /\ conn = "open"
    /\ azureLeft > 0
    /\ azureLeft' = azureLeft - 1
    /\ event' = k
    /\ receiver' = "reap"
    /\ UNCHANGED <<bridgeVars, session, reader, exchange, shutdown, conn>>

ReceiveFails ==
    /\ receiver = "wait"
    /\ ~shutdown
    /\ conn = "azureClosed"
    /\ event' = "none"
    /\ receiver' = "reap"
    /\ UNCHANGED <<bridgeVars, session, reader, exchange, shutdown, conn, azureLeft>>

\* Shutdown completed: None is returned, whatever recv did meanwhile.
SeeShutdown ==
    /\ receiver = "wait"
    /\ shutdown
    /\ receiver' = "done"
    /\ UNCHANGED <<bridgeVars, session, reader, event, exchange, shutdown, conn, azureLeft>>

\* The event recv returned is mapped and put; a failed recv ends the reader
\* and leaves shutdown alone.
HandleEvent ==
    /\ receiver = "reap"
    /\ \/ /\ event = "none"
          /\ receiver' = "done"
          /\ UNCHANGED <<outbound, log>>
       \/ /\ event = "silent"
          /\ receiver' = NextWait
          /\ UNCHANGED <<outbound, log>>
       \/ /\ event = "plain"
          /\ Put("azure.event")
          /\ receiver' = NextWait
       \/ /\ event = "response.done"
          /\ Put("azure.event")
          /\ receiver' = "compact"
       \/ /\ event = "tool"
          /\ Put("tool.called")
          /\ receiver' = "tool"
    /\ event' = "none"
    /\ UNCHANGED <<inbound, ready, fut, cancelReq,
                   session, reader, exchange, shutdown, conn, azureLeft>>

\* _apply_compaction: a delete that fails is logged only, so the outcome is
\* what the strategy selected.
Compact ==
    /\ receiver = "compact"
    /\ \/ Put("compaction.applied")
       \/ UNCHANGED <<outbound, log>>
    /\ receiver' = NextWait
    /\ UNCHANGED <<inbound, ready, fut, cancelReq,
                   session, reader, event, exchange, shutdown, conn, azureLeft>>

\* The handler returns or raises: both give a result.  It may have emitted a
\* supervisor exchange, and the result may require a session update.
ToolReturns ==
    /\ receiver = "tool"
    /\ Put("tool.result")
    /\ event' \in {"result", "handoff"}
    /\ exchange' \in BOOLEAN
    /\ receiver' = "output"
    /\ UNCHANGED <<inbound, ready, fut, cancelReq, session, reader, shutdown, conn, azureLeft>>

SendOutput ==
    /\ receiver = "output"
    /\ \/ /\ Sent
          /\ event = "handoff"
          /\ Put("agent.handoff")
          /\ receiver' = "update"
       \/ /\ Sent
          /\ event = "result"
          /\ receiver' = "respond"
          /\ UNCHANGED <<outbound, log>>
       \/ /\ ~Sent
          /\ receiver' = "done"
          /\ UNCHANGED <<outbound, log>>
    /\ event' = "none"
    /\ UNCHANGED <<inbound, ready, fut, cancelReq,
                   session, reader, exchange, shutdown, conn, azureLeft>>

SendUpdate ==
    /\ receiver = "update"
    /\ \/ /\ Sent
          /\ Put("session.prompt_updated")
          /\ receiver' = "respond"
       \/ /\ ~Sent
          /\ receiver' = "done"
          /\ UNCHANGED <<outbound, log>>
    /\ UNCHANGED <<inbound, ready, fut, cancelReq,
                   session, reader, event, exchange, shutdown, conn, azureLeft>>

\* response.create, then the pattern's own events are drained.
SendResponse ==
    /\ receiver = "respond"
    /\ receiver' = IF Sent THEN NextWait ELSE "done"
    /\ IF Sent /\ exchange
       THEN Put("supervisor.exchange") /\ exchange' = FALSE
       ELSE UNCHANGED <<outbound, log, exchange>>
    /\ UNCHANGED <<inbound, ready, fut, cancelReq,
                   session, reader, event, shutdown, conn, azureLeft>>

ReceiverStep == \/ ReceiveFails \/ SeeShutdown \/ HandleEvent \/ Compact
                \/ ToolReturns \/ SendOutput \/ SendUpdate \/ SendResponse
------------------------------------------------------------------------------
(* The environment: Azure closes the connection at any time, even before   *)
(* setup has been sent, and sends events when it likes.                    *)

AzureCloses ==
    /\ conn = "open"
    /\ conn' = "azureClosed"
    /\ UNCHANGED <<bridgeVars, session, reader, receiver, event, exchange, shutdown, azureLeft>>

AzureStep == \/ Connect \/ ConnectFails \/ AzureCloses
             \/ \E k \in ServerEvents : Receive(k)

SessionNext == SessionStep \/ ReaderStep \/ ReceiverStep \/ AzureStep
==============================================================================
