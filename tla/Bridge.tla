------------------------------- MODULE Bridge -------------------------------
(***************************************************************************)
(* What the WebSocket thread and the asyncio session of one call share:    *)
(* two thread-safe queues, the ready event and the future of the session.  *)
(* An entry of the outbound queue is the position in "log" of the event it *)
(* carries, so that two events of one type are told apart.                 *)
(***************************************************************************)
EXTENDS Naturals, Sequences

VARIABLES
    inbound,     \* browser -> Azure queue: frames and the STOP sentinel
    outbound,    \* session -> browser queue: positions in log, or StopMark
    log,         \* history: the type of every event put on outbound
    ready,       \* azure_ready
    fut,         \* the concurrent future of run_azure_session
    cancelReq    \* a cancellation of the session's task awaits the loop

bridgeVars == <<inbound, outbound, log, ready, fut, cancelReq>>

StopMark == 0

\* What parse_client_message makes of a frame, as _read_from_browser tells
\* them apart: "ignored" is an empty text or a JSON type nobody handles.
Frame == {"audio", "text", "switch", "ignored"}

EventType ==
    {"session.created", "session.prompt_updated", "pattern.switching",
     "text.sent", "text.error", "azure.event", "tool.called", "tool.result",
     "agent.handoff", "supervisor.exchange", "compaction.applied",
     "session.error"}

BridgeFlags == ready \in BOOLEAN /\ cancelReq \in BOOLEAN

QueueTypeOK == outbound \in Seq(Nat) /\ log \in Seq(EventType)

BridgeTypeOK ==
    /\ BridgeFlags
    /\ QueueTypeOK
    /\ inbound \in Seq(Frame \cup {"STOP"})
    /\ fut \in {"pending", "ok", "error", "cancelled"}

BridgeInit ==
    /\ inbound = <<>>
    /\ outbound = <<>>
    /\ log = <<>>
    /\ ready = FALSE
    /\ fut = "pending"
    /\ cancelReq = FALSE

\* outbound.put(OutboundEvent(type=e, ...))
Put(e) == /\ log' = Append(log, e)
          /\ outbound' = Append(outbound, Len(log) + 1)

\* Fault: the stop sentinel is put as an event of its own.
PutStopAsEvent == Put("stop")

\* Fault: the stop sentinel overtakes the events queued before it.
PutStopFirst == /\ outbound' = <<StopMark>> \o outbound
                /\ UNCHANGED log

\* outbound.put(stop_event())
PutStop == /\ outbound' = Append(outbound, StopMark)
           /\ UNCHANGED log

\* A future keeps the first result it gets: a task that ends after the
\* future was cancelled changes nothing.
Resolve(r) == fut' = IF fut = "pending" THEN r ELSE fut
==============================================================================
