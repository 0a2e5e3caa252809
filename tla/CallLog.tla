------------------------------ MODULE CallLog ------------------------------
(***************************************************************************)
(* How the browser's event log, transcript, token count and claim come     *)
(* about, and what the panels of LogViews then show.  The log is the only  *)
(* account the browser keeps of a call: it outlives a call, it is emptied  *)
(* by the Clear button in the middle of one, and the end of a tool call    *)
(* may never reach it.                                                     *)
(*                                                                         *)
(* The backend is the source of the messages, in the order of              *)
(* azure_session.py: a tool call is answered before the next event of      *)
(* Azure is read, while the other reader may still report a sent text or   *)
(* an error.  Which socket a message comes from is RealtimeClient's        *)
(* concern; audio is Playback's.  No pattern.switching comes: it answers a *)
(* pattern.switch, and the browser sends none.                             *)
(***************************************************************************)
EXTENDS LogViews

CONSTANTS
    Questions,    \* the ids of the questions the caller is asked
    Usages,       \* the token usage a response may report, <<input, output>>
    MaxSteps,     \* bound: calls started, tool calls, other messages and clears together
    Unlogged      \* types of messages that the browser keeps nothing of

ASSUME CallLogAssumption == /\ Questions \subseteq DOMAIN Words \ {Nothing}
                            /\ Usages \subseteq Nat \X Nat
                            /\ MaxSteps \in Nat

\* What progress and the cells rely on, and questions_data.py grants: with 200 fields one
\* unvalidated would round to 100 %; an id that the grid takes for a place by its city or
\* intersection says location, address or where as well.
ASSUME CatalogueAssumption ==
  /\ IsFiniteSet(Questions) /\ Cardinality(Questions) < 200
  /\ \A q \in Questions : Category(q) = "location" => Words[q] \cap LocationWords # {}

VARIABLES
    pattern,      \* the pattern that is shown
    live,         \* a call is on, its messages reach the log
    agent,        \* the agent of that call, as the browser was told
    turn,         \* the response of Azure: none, thinking, speaking, or closed with the session
    outbound,     \* what the backend has yet to send of the step it is at
    events,       \* the event log
    messages,     \* the transcript
    tokenUsage,   \* tokens so far, <<input, output>>
    claimResult,  \* the tool call that submitted the claim on show, 0 if none is
    since,        \* the length of the log when this call began
    cleared,      \* the log was emptied since the pattern was chosen
    steps         \* what was used of the bound

backendVars == <<live, agent, turn, outbound>>
logVars == <<events, messages, tokenUsage, claimResult>>
vars == <<pattern, live, agent, turn, outbound, events, messages, tokenUsage,
          claimResult, since, cleared, steps>>

Patterns == {"chat-supervisor", "sequential-handoff"}

Claims == ToSet(CLAIM_IDS)

\* A message and the event that is made of it; serial is the number of the tool
\* call it is about, which no panel sees.
Blank == [type |-> Nothing, tool |-> Nothing, question |-> Nothing, value |-> Nothing,
          asked |-> {}, result |-> Nothing, from |-> Nothing, to |-> Nothing,
          usage |-> <<0, 0>>, serial |-> 0]

Msg(type) == [Blank EXCEPT !.type = type]

(***************************************************************************)
(* messageHandlers.ts                                                      *)
(***************************************************************************)
SUPPRESSED_EVENT_TYPES ==
  {"audio.delta", "audio.done", "transcript.delta", "response.content_part.added",
   "response.content_part.done", "response.output_item.added", "response.output_item.done",
   "conversation.item.created", "input_audio_buffer.committed", "tool.arguments.delta",
   "response.function_call_arguments.delta", "response.function_call_arguments.done"}

ASSUME StreamAssumption ==
  /\ Unlogged \subseteq SUPPRESSED_EVENT_TYPES \cup {"audio.stopped"}
  /\ Unknown \cap SUPPRESSED_EVENT_TYPES = {}
  /\ Unknown \cap KnownTypes = {}
  /\ Unknown \cap {"audio.started", "audio.stopped", "transcript.done", "text.sent"} = {}

HandlerEffects(m) ==
  CASE m.type = "transcript.delta" -> {"updatePartial"}
    [] m.type \in {"transcript.done", "text.sent"} -> {"addMessage"}
    [] m.type = "audio.started" -> {"flush", "event"}
    [] m.type = "tool.result" /\ m.tool = "submit_claim_data" /\ m.result = "submitted"
         -> {"event", "claim"}
    [] m.type = "response.done" /\ m.usage # <<0, 0>> -> {"event", "tokens"}
    [] OTHER -> {"event"}

\* Fault: nothing is suppressed.
ToEffectsOfAll(m) ==
  CASE m.type = "audio.delta" -> {"play"}
    [] m.type = "audio.stopped" -> {}
    [] OTHER -> HandlerEffects(m)

ToEffects(m) ==
  CASE m.type = "audio.delta" -> {"play"}
    [] m.type \in SUPPRESSED_EVENT_TYPES \cup {"audio.stopped"} -> {}
    [] OTHER -> HandlerEffects(m)

MakeEvent(m) == IF m.type = "audio.started" THEN [m EXCEPT !.type = "user.turn"] ELSE m

Role(m) == IF m.type = "text.sent" THEN "user" ELSE "agent"

TranscriptLine == [role : {"user", "agent"}, isPartial : BOOLEAN]

Finals(ms) ==
  Walk([k \in DOMAIN ms |-> [kept \in Seq(TranscriptLine) |->
          IF ms[k].isPartial THEN kept ELSE Append(kept, ms[k])]], <<>>)

AddMessage(ms, m) == Append(Finals(ms), [role |-> Role(m), isPartial |-> FALSE])

UpdatePartial(ms, m) ==
  IF \E k \in DOMAIN ms : ms[k].isPartial THEN ms
  ELSE Append(ms, [role |-> Role(m), isPartial |-> TRUE])

AddUsage(usage, m) == <<usage[1] + m.usage[1], usage[2] + m.usage[2]>>

DispatchMessage(m) ==
  LET effects == ToEffects(m) IN
  /\ events' = IF "event" \in effects THEN Append(events, MakeEvent(m)) ELSE events
  /\ messages' = CASE "addMessage" \in effects    -> AddMessage(messages, m)
                   [] "updatePartial" \in effects -> UpdatePartial(messages, m)
                   [] OTHER                       -> messages
  /\ tokenUsage' = IF "tokens" \in effects THEN AddUsage(tokenUsage, m) ELSE tokenUsage
  /\ claimResult' = IF "claim" \in effects THEN m.serial ELSE claimResult
  /\ UNCHANGED <<pattern, since, cleared>>

(***************************************************************************)
(* The backend                                                             *)
(***************************************************************************)
Init ==
  /\ pattern \in Patterns
  /\ live = FALSE
  /\ agent = "greeter"
  /\ turn = "none"
  /\ outbound = <<>>
  /\ events = <<>>
  /\ messages = <<>>
  /\ tokenUsage = <<0, 0>>
  /\ claimResult = 0
  /\ since = 0
  /\ cleared = FALSE
  /\ steps = 0

Step == steps < MaxSteps /\ steps' = steps + 1

\* What the handler and the session say first, in this order.
Greeting == <<Msg("pattern.selected"), Msg("session.created"), Msg("session.prompt_updated")>>

\* A second call goes on in the log of the first.
Start ==
  /\ ~live
  /\ Step
  /\ live' = TRUE
  /\ agent' = "greeter"
  /\ turn' = "none"
  /\ outbound' = Greeting
  /\ since' = Len(events)
  /\ UNCHANGED <<pattern, events, messages, tokenUsage, claimResult, cleared>>

\* The user ends the call, or it breaks down; the log stays.
Stop ==
  /\ live
  /\ live' = FALSE
  /\ turn' = "none"
  /\ outbound' = <<>>
  /\ UNCHANGED <<pattern, agent, events, messages, tokenUsage, claimResult, since, cleared, steps>>

AgentHandoffs ==
  [a \in Agents |->
     CASE a = "greeter" -> {"top_level_qa"}
       [] a \in {"top_level_qa", "summary"} -> Claims
       [] OTHER -> {"summary", "top_level_qa"}]

DomainTools(a) ==
  CASE pattern = "chat-supervisor" -> QuestionServiceTools
    [] a \in Claims -> {"get_next_questions", "validate_answer"}
    [] a = "summary" -> {"submit_claim_data"}
    [] OTHER -> {}

\* What the model may ask of a tool.
CallsOf(tool) ==
  CASE tool = "get_next_questions" -> {[Blank EXCEPT !.tool = tool, !.value = "auto"]}
    [] tool = "validate_answer"
         -> {[Blank EXCEPT !.tool = tool, !.question = q, !.value = "said"] : q \in Questions}
    [] OTHER -> {[Blank EXCEPT !.tool = tool]}

\* What may come back; the result says neither the question nor the call.
ResultsOf(tool) ==
  {[Blank EXCEPT !.tool = tool, !.result = "error"]} \cup
  CASE tool = "get_next_questions"
         -> {[Blank EXCEPT !.tool = tool, !.result = "questions", !.asked = qs] : qs \in {{}, Questions}}
    [] tool = "validate_answer"
         -> {[Blank EXCEPT !.tool = tool, !.result = r] : r \in {"valid", "invalid"}}
    [] OTHER -> {[Blank EXCEPT !.tool = tool, !.result = r] : r \in {"submitted", "incomplete"}}

\* The exchange, if there was one, is drained behind the result: none for questions or an
\* answer that the service had, nor when the consultation failed.
Consulted(result) ==
  LET exchange == <<Msg("supervisor.exchange")>>
  IN  CASE pattern # "chat-supervisor" \/ result.result = "error" \/ result.asked # {} -> {<<>>}
        [] result.result = "submitted" -> {exchange}
        [] OTHER -> {<<>>, exchange}

Send(called, rest) ==
  /\ live
  /\ turn = "thinking"
  /\ outbound = <<>>
  /\ Step
  /\ LET numbered(m) == [m EXCEPT !.serial = steps + 1]
     IN  /\ DispatchMessage(numbered([called EXCEPT !.type = "tool.called"]))
         /\ outbound' = <<numbered([rest[1] EXCEPT !.type = "tool.result"])>> \o Tail(rest)
  /\ UNCHANGED <<live, agent, turn>>

CallTool ==
  \E tool \in DomainTools(agent) : \E call \in CallsOf(tool), result \in ResultsOf(tool) :
    \E more \in Consulted(result) : Send(call, <<result>> \o more)

TransferTool(to) ==
  CASE to = "top_level_qa"    -> "transfer_to_top_level_qa"
    [] to = "auto_claims"     -> "transfer_to_auto_claims"
    [] to = "property_claims" -> "transfer_to_property_claims"
    [] to = "health_claims"   -> "transfer_to_health_claims"
    [] OTHER                  -> "transfer_to_summary"

Transfer ==
  /\ pattern = "sequential-handoff"
  /\ \E to \in AgentHandoffs[agent] :
       Send([Blank EXCEPT !.tool = TransferTool(to)],
            << [Blank EXCEPT !.tool = TransferTool(to), !.result = "transferred"],
               [Msg("agent.handoff") EXCEPT !.from = agent, !.to = to],
               Msg("session.prompt_updated") >>)

Deliver ==
  /\ outbound # <<>>
  /\ DispatchMessage(Head(outbound))
  /\ outbound' = Tail(outbound)
  /\ agent' = IF Head(outbound).type = "agent.handoff" THEN Head(outbound).to ELSE agent
  /\ UNCHANGED <<live, turn, steps>>

\* A tool is being run, as far as the browser was told.
Running == outbound # <<>> /\ Head(outbound).type = "tool.result"

\* An event of Azure is read when the step before it is done with.
Receive(m, from, to, more) ==
  /\ live
  /\ outbound = <<>>
  /\ turn \in from
  /\ turn' = to
  /\ DispatchMessage(m)
  /\ outbound' = more
  /\ UNCHANGED <<live, agent>>

ResponseCreated == Receive(Msg("response.created"), {"none"}, "thinking", <<>>) /\ UNCHANGED steps

TranscriptDelta ==
  Receive(Msg("transcript.delta"), {"thinking", "speaking"}, "speaking", <<>>) /\ UNCHANGED steps

TranscriptDone == Receive(Msg("transcript.done"), {"speaking"}, "thinking", <<>>) /\ Step

\* Compaction, if it is on, may delete items then.
ResponseDone ==
  \E u \in Usages, more \in {<<>>, <<Msg("compaction.applied")>>} :
    Receive([Msg("response.done") EXCEPT !.usage = u], {"thinking", "speaking"}, "none", more) /\ Step

Open == turn # "closed"

\* Audio, and what Azure says of its items: none of it is logged.
Stream ==
  \E type \in Unlogged :
    Open /\ Receive(Msg(type), {turn}, turn, <<>>) /\ UNCHANGED steps

\* Azure's own session.created, and its events that only onUnknown takes.
Announced ==
  \E type \in Unknown \cup {"session.created"} :
    Open /\ Receive(Msg(type), {turn}, turn, <<>>) /\ Step

AudioStarted == Open /\ Receive(Msg("audio.started"), {turn}, turn, <<>>) /\ Step

Greeted == \A k \in DOMAIN outbound : outbound[k] \notin ToSet(Greeting)

\* The other reader's messages come at any time after the greeting, an error even before.
TextSent ==
  live /\ Open /\ Greeted /\ DispatchMessage(Msg("text.sent")) /\ Step /\ UNCHANGED backendVars

Error ==
  live /\ Open /\ DispatchMessage(Msg("error")) /\ Step /\ UNCHANGED backendVars

\* The session has ended of itself: a handoff that failed has sent a part, the rest all.
SessionClosed ==
  /\ live /\ Open
  /\ outbound = <<>> \/ (turn = "thinking" /\ ~Running)
  /\ turn' = "closed"
  /\ DispatchMessage(Msg("session.closed"))
  /\ outbound' = <<>>
  /\ UNCHANGED <<live, agent, steps>>

(***************************************************************************)
(* The user                                                                *)
(***************************************************************************)
ClearEvents ==
  /\ events # <<>>
  /\ Step
  /\ events' = <<>>
  /\ since' = 0
  /\ cleared' = TRUE
  /\ UNCHANGED <<pattern, messages, tokenUsage, claimResult>>
  /\ UNCHANGED backendVars

Dismiss ==
  /\ claimResult # 0
  /\ claimResult' = 0
  /\ UNCHANGED <<pattern, events, messages, tokenUsage, since, cleared, steps>>
  /\ UNCHANGED backendVars

\* Fault: the tokens of the other pattern stay.
SetPatternKeepsTokens(p) ==
  /\ pattern' = p
  /\ events' = <<>>
  /\ messages' = <<>>
  /\ since' = 0
  /\ cleared' = FALSE
  /\ live' = FALSE
  /\ turn' = "none"
  /\ outbound' = <<>>
  /\ UNCHANGED <<agent, tokenUsage, claimResult, steps>>

\* Ends the call and empties what was kept of it, but for the claim.
SetPattern(p) ==
  /\ pattern' = p
  /\ events' = <<>>
  /\ messages' = <<>>
  /\ tokenUsage' = <<0, 0>>
  /\ since' = 0
  /\ cleared' = FALSE
  /\ live' = FALSE
  /\ turn' = "none"
  /\ outbound' = <<>>
  /\ UNCHANGED <<agent, claimResult, steps>>

Next ==
  \/ Start \/ Stop
  \/ CallTool \/ Transfer \/ Deliver
  \/ ResponseCreated \/ TranscriptDelta \/ TranscriptDone \/ ResponseDone
  \/ Stream \/ Announced \/ AudioStarted \/ TextSent \/ Error \/ SessionClosed
  \/ ClearEvents \/ Dismiss
  \/ \E p \in Patterns \ {pattern} : SetPattern(p)

Spec == Init /\ [][Next]_vars

(***************************************************************************)
(* What the views owe to the call                                          *)
(***************************************************************************)
\* The tool call an event is about, and the events of a call.
Own(i, j) == events[i].serial = events[j].serial

CalledFor(j) == {i \in Called(events) : Own(i, j)}

ResultFor(i) == {j \in Results(events) : Own(i, j)}

OwnPairs == {p \in Called(events) \X Results(events) : Own(p[1], p[2])}

RunningCall == {i \in Called(events) : Running /\ events[i].serial = Head(outbound).serial}

\* Tool calls that the browser was told of and whose end it will never see.
Lost == {i \in Called(events) \ RunningCall : ResultFor(i) = {}}

\* Type invariant: the log is a sequence of events with the fields the panels read, made
\* by a handler or by onUnknown, and holds none of a message that is streamed or goes to
\* the transcript; the transcript is one of lines of the two speakers (messageHandlers.ts,
\* toEffects and applyEffects).
LogTypeOK ==
  /\ pattern \in Patterns
  /\ live \in BOOLEAN /\ cleared \in BOOLEAN
  /\ agent \in Agents
  /\ turn \in {"none", "thinking", "speaking", "closed"}
  /\ since \in 0 .. Len(events)
  /\ steps \in 0 .. MaxSteps /\ claimResult \in 0 .. steps
  /\ tokenUsage \in Nat \X Nat
  /\ events \in Seq(Event)
  /\ messages \in Seq(TranscriptLine)

(***************************************************************************)
(* Safety: the call state panel, the handoff diagram and the summary, each *)
(* of which walks the log its own way, agree on the agent, and with the    *)
(* call once it has handed over within the log; every move of the call is  *)
(* drawn as visited at both its ends and lit when it has an edge.  The     *)
(* agent is stale in one case only: a call that was begun, or whose log    *)
(* was cleared, after an earlier handoff and has not handed over since.    *)
(***************************************************************************)
AgentViewsAgree ==
  LET state   == DeriveCallState(events)
      diagram == HandoffDiagram(events, live)
      summary == Summary(events, messages)
      ofCall  == {i \in Indices(events, "agent.handoff") : i > since}
      drawn   == {<<"greeter", "top_level_qa">>} \cup {"top_level_qa"} \X Claims
                   \cup Claims \X {"summary"}
  IN  /\ live => diagram.activeAgent = state.currentAgent
      /\ summary.journey # <<>> => Last(summary.journey) = state.currentAgent
      /\ summary.agentsUsed \subseteq ChainVisited(state)
      /\ diagram.visitedAgents \subseteq ChainVisited(state)
      /\ live /\ (ofCall # {} \/ (state.handoffs = <<>> /\ ~cleared))
           => state.currentAgent = agent
      /\ \A i \in ofCall :
           /\ {events[i].from, events[i].to} \subseteq diagram.visitedAgents
           /\ <<events[i].from, events[i].to>> \in drawn
                => <<events[i].from, events[i].to>> \in LitEdges(diagram)

(***************************************************************************)
(* Safety: the three panels that pair a tool's call with its result match  *)
(* each result with its own call, whatever calls before it lost their      *)
(* result; ApiHistogram, which takes the oldest, does so only while no     *)
(* call was lost.  Both diagrams show a tool as running while one runs, and*)
(* the timeline pulses for no tool that has ended, but for a lost one.     *)
(***************************************************************************)
ToolViewsAgree ==
  LET calls == ExtractApiCalls(events)
      chat  == BuildSteps(events, live)
      invalid == {j \in Results(events) : events[j].result = "invalid" /\ CalledFor(j) # {}}
  IN  /\ ComputeSpans(events).pairs = OwnPairs
      /\ ComputeToolSpans(events).pairs = OwnPairs
      /\ Lost = {} => calls.pairs = {p \in OwnPairs : events[p[1]].tool \in QuestionServiceTools}
      /\ ApiStats(events)["validate_answer"].failures = Cardinality(invalid)
      /\ RunningCall # {} => /\ chat.phase = "calling" /\ chat.activeNode = "tools"
                             /\ HandoffDiagram(events, live).phase = "calling"
      /\ Pulsing(chat.steps) = "tool-call" => Running \/ Lost # {}

(***************************************************************************)
(* Safety: a field of the claim counts as validated if and only if its     *)
(* last answer got a valid result of its own or a submission came after    *)
(* it; progress is full when all fields are; an answered place shows its   *)
(* cell, with the map.  The call state panel, which marks the first        *)
(* unmarked field, agrees while every answer is valid the first time.      *)
(***************************************************************************)
FieldsSound ==
  LET data == ExtractCollectedData(events)
      answers(q) == {i \in Called(events) : events[i].question = q}
      answered == {q \in Questions : answers(q) # {}}
      accepted(i) == \/ \E j \in ResultFor(i) : events[j].result = "valid"
                     \/ \E j \in Results(events) : j > i /\ events[j].tool = "submit_claim_data"
      checks == {j \in Results(events) : events[j].tool = "validate_answer"}
      smooth == /\ Lost = {} /\ ~Running
                /\ \A j \in checks : events[j].result = "valid" /\ CalledFor(j) # {}
                /\ \A q \in answered : Cardinality(answers(q)) = 1
      app   == AppModeView(data)
      panel == CollectedFields(events)
  IN  /\ Validated(data) = {q \in answered : accepted(Max(answers(q)))}
      /\ \A q \in Fields(data) : data.fields[q].status = "asked" <=> q \notin answered
      /\ app.progress = 100 <=> answered # {} /\ Validated(data) = Fields(data)
      /\ answered \subseteq UNION {app.cells[c] : c \in DOMAIN app.cells}
      /\ smooth => {panel[k].questionId : k \in {x \in DOMAIN panel : panel[x].valid}}
                     = Validated(data)

(***************************************************************************)
(* Safety: what the session keeps beside the log adds up to the log: the   *)
(* token count of the status bar is the total of TokenConsumptionView and  *)
(* its cost the sum of that view's rows, in one price or another, unless   *)
(* the log was cleared, when it is no less.  The claim on show is the last *)
(* that the log says was submitted.                                        *)
(***************************************************************************)
TotalsAgree ==
  LET points == BuildTokenPoints(events)
      total  == TotalUsage(points)
      Cost(model) == EstimateCost(tokenUsage, model)
      Rows(model) == CostColumn(points, model)
  IN  /\ \A k \in 1 .. 2 : tokenUsage[k] >= total[k]
      /\ ~cleared => tokenUsage = total
      /\ \A model \in {"gpt-realtime", "gpt-realtime-1.5", "gpt-realtime-mini"} :
           Cost(model) >= Rows(model) /\ (~cleared => Cost(model) = Rows(model))
      /\ claimResult # 0 =>
           \A j \in Results(events) : events[j].result = "submitted" => events[j].serial <= claimResult
=============================================================================
