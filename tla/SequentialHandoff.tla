-------------------------- MODULE SequentialHandoff --------------------------
(***************************************************************************)
(* The sequential-handoff pattern on one Voice Live session: the realtime  *)
(* model calls the tools its response was given, _handle_tool_call answers *)
(* them one at a time, and a transfer changes the agent in three places:   *)
(* the pattern, the session at Azure and the browser.                      *)
(*                                                                         *)
(* An agent stands for its prompt and its tools, and its name, as a tool,  *)
(* for transfer_to_<name>.  A call is its position in the order Azure sent *)
(* it.  What a domain tool computes is left out; so is sending that is     *)
(* still on its way: Azure acts on a message as it is sent.                *)
(***************************************************************************)
EXTENDS Naturals, Sequences

CONSTANTS
    MaxCalls,     \* bound: function calls in one call
    MadeUp        \* tools a response may call though it was not given them

ASSUME HandoffAssumption == MaxCalls \in Nat

Claims == {"auto_claims", "property_claims", "health_claims"}

AGENTS == {"greeter", "top_level_qa", "summary"} \cup Claims

Registered == {"get_next_questions", "validate_answer", "submit_claim_data"}

AfterClaim == {"summary", "top_level_qa"}

Handoffs == [greeter |-> {"top_level_qa"}, top_level_qa |-> Claims, summary |-> Claims,
             auto_claims |-> AfterClaim, property_claims |-> AfterClaim,
             health_claims |-> AfterClaim]

DomainTools(a) == IF a \in Claims THEN {"get_next_questions", "validate_answer"}
                  ELSE IF a = "summary" THEN {"submit_claim_data"} ELSE {}

GetTools(a) == DomainTools(a) \cup Handoffs[a]

Tool == AGENTS \cup Registered \cup MadeUp

VARIABLES
    current,      \* the pattern's _current_agent_name
    configured,   \* the agent whose prompt and tools the Azure session has
    shown,        \* the agent of the browser's last session.prompt_updated
    history,      \* the agent.handoff events, oldest first
    active,       \* the agent the running response was started with, or "none"
    asked,        \* the function calls Azure sent
    call,         \* the last call that was received
    result,       \* the handoff its result asks for
    outputs,      \* the calls whose output Azure has
    receiver,     \* wait, tool, output, update, respond, done
    conn          \* the Azure connection: open, closed

patternVars == <<current, result>>
azureVars == <<configured, active, asked, outputs, conn>>
vars == <<current, configured, shown, history, active, asked, call, result,
          outputs, receiver, conn>>

NoHandoff == [from |-> "none", to |-> "none"]

Handoff == [from : AGENTS, to : AGENTS]

Init ==
    /\ current = "greeter"
    /\ configured = "greeter"
    /\ shown = "greeter"
    /\ history = <<>>
    /\ active = "none"
    /\ asked = <<>>
    /\ call = 0
    /\ result = NoHandoff
    /\ outputs = <<>>
    /\ receiver = "wait"
    /\ conn = "open"
------------------------------------------------------------------------------
(* Azure and the realtime model *)

\* Speech starts a response with the tools the session has by then.
SpeechStartsResponse ==
    /\ conn = "open"
    /\ active = "none"
    /\ active' = configured
    /\ UNCHANGED <<patternVars, configured, shown, history, asked, call,
                   outputs, receiver, conn>>

\* A response may hold several calls; each is sent as soon as it is complete.
ModelCalls ==
    /\ active # "none"
    /\ Len(asked) < MaxCalls
    /\ \E tool \in GetTools(active) \cup MadeUp : asked' = Append(asked, tool)
    /\ UNCHANGED <<patternVars, configured, shown, history, active, call,
                   outputs, receiver, conn>>

ResponseEnds ==
    /\ active # "none"
    /\ active' = "none"
    /\ UNCHANGED <<patternVars, configured, shown, history, asked, call,
                   outputs, receiver, conn>>

AzureCloses ==
    /\ conn = "open"
    /\ conn' = "closed"
    /\ active' = "none"
    /\ UNCHANGED <<patternVars, configured, shown, history, asked, call,
                   outputs, receiver>>

AzureStep == SpeechStartsResponse \/ ModelCalls \/ ResponseEnds \/ AzureCloses
------------------------------------------------------------------------------
(* _read_from_azure and the pattern *)

\* The call the next tool.called event carries.
NextCall == asked[call + 1]

Receive == /\ receiver = "wait"
           /\ call < Len(asked)
           /\ call' = call + 1
           /\ UNCHANGED <<azureVars, shown, history>>

\* Fault: the previous agent is read after the new one is assigned.
HandleTransferReadsLate ==
    /\ Receive
    /\ NextCall \in AGENTS
    /\ current' = NextCall
    /\ result' = [from |-> NextCall, to |-> NextCall]
    /\ receiver' = "output"

\* A transfer whose target exists; the target is not looked up in the
\* current agent's handoffs.
HandleTransfer ==
    /\ Receive
    /\ NextCall \in AGENTS
    /\ current' = NextCall
    /\ result' = [from |-> current, to |-> NextCall]
    /\ receiver' = "output"

\* A registered tool, whichever agent it belongs to.
HandleDomainTool ==
    /\ Receive
    /\ NextCall \in Registered
    /\ receiver' = "tool"
    /\ UNCHANGED patternVars

\* Fault: an unknown tool is ignored.
HandleUnknownIgnored ==
    /\ Receive
    /\ NextCall \notin AGENTS \cup Registered
    /\ receiver' = "wait"
    /\ UNCHANGED patternVars

\* "Unknown agent" and "Unknown tool" are answers like any other.
HandleUnknown ==
    /\ Receive
    /\ NextCall \notin AGENTS \cup Registered
    /\ receiver' = "output"
    /\ UNCHANGED patternVars

\* Fault: what the handler raises ends the reader.
ToolRaises ==
    /\ receiver = "tool"
    /\ receiver' \in {"output", "done"}
    /\ UNCHANGED <<patternVars, azureVars, shown, history, call>>

\* The question service answered, or the handler raised: both are outputs.
ToolReturns ==
    /\ receiver = "tool"
    /\ receiver' = "output"
    /\ UNCHANGED <<patternVars, azureVars, shown, history, call>>

\* Fault: every result is taken for a handoff.
SendOutputAsHandoff ==
    /\ receiver = "output"
    /\ conn = "open"
    /\ outputs' = Append(outputs, call)
    /\ receiver' = "update"
    /\ history' = Append(history, result)
    /\ UNCHANGED <<patternVars, configured, shown, active, asked, call, conn>>

SendOutput ==
    /\ receiver = "output"
    /\ conn = "open"
    /\ outputs' = Append(outputs, call)
    /\ IF result = NoHandoff
       THEN receiver' = "respond" /\ UNCHANGED history
       ELSE receiver' = "update" /\ history' = Append(history, result)
    /\ UNCHANGED <<patternVars, configured, shown, active, asked, call, conn>>

\* Fault: the update carries what the session had before the transfer.
SendUpdateStale ==
    /\ receiver = "update"
    /\ conn = "open"
    /\ configured' = result.from
    /\ shown' = result.to
    /\ receiver' = "respond"
    /\ UNCHANGED <<patternVars, history, active, asked, call, outputs, conn>>

\* session.update with the pattern's prompt and tools, then prompt_updated.
SendUpdate ==
    /\ receiver = "update"
    /\ conn = "open"
    /\ configured' = current
    /\ shown' = result.to
    /\ receiver' = "respond"
    /\ UNCHANGED <<patternVars, history, active, asked, call, outputs, conn>>

\* response.create; a session runs one response at a time.
SendResponse ==
    /\ receiver = "respond"
    /\ conn = "open"
    /\ active' = IF active = "none" THEN configured ELSE active
    /\ result' = NoHandoff
    /\ receiver' = "wait"
    /\ UNCHANGED <<current, configured, shown, history, asked, call, outputs, conn>>

\* A send raises, or recv does: the reader ends.
ConnectionFails ==
    /\ receiver \in {"wait", "output", "update", "respond"}
    /\ conn = "closed"
    /\ receiver' = "done"
    /\ UNCHANGED <<patternVars, azureVars, shown, history, call>>

ReceiverStep == \/ HandleTransfer \/ HandleDomainTool \/ HandleUnknown
                \/ ToolReturns \/ SendOutput \/ SendUpdate \/ SendResponse
                \/ ConnectionFails

\* The browser left: the session is cancelled, at whichever await it is.
HangUp ==
    /\ receiver # "done"
    /\ receiver' = "done"
    /\ conn' = "closed"
    /\ active' = "none"
    /\ UNCHANGED <<patternVars, configured, shown, history, asked, call, outputs>>

\* The call is over.
Over == receiver = "done" /\ UNCHANGED vars

Next == AzureStep \/ ReceiverStep \/ HangUp \/ Over

Spec == Init /\ [][Next]_vars

\* The loop runs the reader; the question client gives up after its timeout.
FairSpec == Spec /\ WF_vars(ReceiverStep)
------------------------------------------------------------------------------
(* What holds in every state *)

\* Every variable stays within its type.
HandoffTypeOK ==
    /\ current \in AGENTS /\ configured \in AGENTS /\ shown \in AGENTS
    /\ history \in Seq(Handoff)
    /\ active \in AGENTS \cup {"none"}
    /\ asked \in Seq(Tool)
    /\ call \in 0..Len(asked)
    /\ result \in Handoff \cup {NoHandoff}
    /\ outputs \in Seq(Nat)
    /\ receiver \in {"wait", "tool", "output", "update", "respond", "done"}
    /\ conn \in {"open", "closed"}

\* One agent owns the call: outside a handoff the pattern that will handle
\* the next tool, the session the model speaks under and the prompt the
\* browser shows are those of the same agent.  (The response a handoff asks
\* for is asked for with the new agent in all three places.)
ViewsAgree ==
    receiver \in {"wait", "tool", "respond"} =>
        configured = current /\ shown = current

\* The browser's handoff history is one walk from the greeter: each entry
\* starts where the last one ended, and it ends at the current agent once
\* the handoff is announced.
From(i) == IF i = 1 THEN "greeter" ELSE history[i - 1].to

HistoryIsWalk ==
    /\ \A i \in DOMAIN history : history[i].from = From(i)
    /\ receiver \in {"wait", "tool", "update", "respond"} =>
          current = From(Len(history) + 1)

\* Every function call gets its output: once, in the order of the calls,
\* none skipped, whatever the tool did.  (EventStream, with the calls as
\* what is produced and the outputs as what is shown.)
Answers == INSTANCE EventStream WITH
               Event <- Tool,
               produced <- asked,
               shown <- [i \in DOMAIN outputs |-> asked[outputs[i]]],
               open <- receiver # "done"

AnswersInOrder == Answers!Spec

\* While the connection lasts, every call is eventually answered.
CallsAnswered ==
    \A n \in 1..MaxCalls :
        (Len(asked) >= n) ~> (Len(outputs) >= n \/ conn = "closed")
------------------------------------------------------------------------------
(* The invariant behind the three safety properties *)

\* Where a handoff has got to: the result names the agent the pattern is at
\* until the response is asked for, and Azure and the browser change together.
Progress ==
    /\ shown = configured
    /\ receiver \in {"wait", "tool"} => result = NoHandoff
    /\ receiver \in {"wait", "tool", "respond"} => configured = current
    /\ receiver = "update" => result \in Handoff
    /\ receiver \in {"output", "update"} =>
          IF result = NoHandoff THEN configured = current ELSE result.to = current

\* The output of call i is the i-th output, and only the call in hand has none.
OutputsInv ==
    /\ \A i \in 1..Len(outputs) : outputs[i] = i
    /\ Len(outputs) <= call
    /\ receiver \in {"wait", "update", "respond"} => Len(outputs) = call
    /\ receiver \in {"tool", "output"} => Len(outputs) + 1 = call

\* The walk, and the handoff that is not yet announced.
WalkInv ==
    /\ HistoryIsWalk
    /\ receiver = "output" =>
          From(Len(history) + 1) = IF result = NoHandoff THEN current ELSE result.from

HandoffInv == Progress /\ OutputsInv /\ WalkInv
==============================================================================
