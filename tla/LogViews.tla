------------------------------ MODULE LogViews ------------------------------
(***************************************************************************)
(* What the panels of the browser derive from the event log and the        *)
(* transcript.  Every panel walks the same log on its own, so these are    *)
(* functions of the log: CallLog says how the log comes about and how the  *)
(* views must agree with each other and with the call.                     *)
(*                                                                         *)
(* An event is a record of what the panels read from it: its type, the     *)
(* tool, question, value and result of a tool event, the ids a result      *)
(* asked, the agents of a handoff, the tokens of a response.  Its position *)
(* in the log stands for its timestamp.                                    *)
(***************************************************************************)
EXTENDS Integers, Sequences, FiniteSets, SequencesExt

CONSTANTS
    Words,      \* by question: the words in its id that a panel looks for
    Unknown     \* the types of Azure's events that no handler knows, logged as they come

Nothing == "null"    \* null, undefined or an empty string

QuestionServiceTools == {"get_next_questions", "validate_answer", "submit_claim_data"}

AGENT_ORDER ==
  <<"greeter", "top_level_qa", "auto_claims", "property_claims", "health_claims", "summary">>

CLAIM_IDS == <<"auto_claims", "property_claims", "health_claims">>

\* What a handler makes an event of, and what the backend itself sends and onUnknown logs.
KnownTypes ==
  {"session.created", "response.created", "response.done", "tool.called", "tool.result",
   "agent.handoff", "session.prompt_updated", "supervisor.exchange", "user.turn", "error",
   "pattern.selected", "compaction.applied", "session.closed"}

EventTypes == KnownTypes \cup Unknown

Agents == ToSet(AGENT_ORDER)

Tools == QuestionServiceTools \cup {Nothing} \cup
  {"transfer_to_top_level_qa", "transfer_to_auto_claims", "transfer_to_property_claims",
   "transfer_to_health_claims", "transfer_to_summary"}

Outcomes ==
  {Nothing, "error", "questions", "valid", "invalid", "submitted", "incomplete", "transferred"}

Texts == {Nothing, "auto", "said"}    \* a claim type, an answer

Event ==
  [type : EventTypes, tool : Tools, question : DOMAIN Words \cup {Nothing}, value : Texts,
   asked : SUBSET DOMAIN Words, result : Outcomes, from : Agents \cup {Nothing}, to : Agents \cup {Nothing},
   usage : Nat \X Nat, serial : Nat]

\* What the functions of a sequence make of base, one after the other: a fold whose step
\* is a value, so that its law can be proved of every view at once.
Walk(functions, base) ==
  LET done[k \in 0 .. Len(functions)] == IF k = 0 THEN base ELSE functions[k][done[k - 1]]
  IN  done[Len(functions)]

\* The events of some types, in their order.
OfTypes(es, types) ==
  Walk([i \in DOMAIN es |-> [kept \in Seq(Event) |->
          IF es[i].type \in types THEN Append(kept, es[i]) ELSE kept]], <<>>)

Handoffs(es) == OfTypes(es, {"agent.handoff"})

Indices(es, type) == {i \in DOMAIN es : es[i].type = type}

Called(es)  == Indices(es, "tool.called")
Results(es) == Indices(es, "tool.result")

\* What a switch on the type of an event makes of those it has a case for.
Table(cases) == [type \in {c[1] : c \in cases} |-> (CHOOSE c \in cases : c[1] = type)[2]]

\* The last event whose type is one of types, 0 if there is none.
LastOf(es, types) == Max({0} \cup {i \in DOMAIN es : es[i].type \in types})

(***************************************************************************)
(* eventParser.ts: the fields of the claim, for ProgressBoard and app mode *)
(***************************************************************************)
\* A field that the map does not have yet is "none".
FieldState == [status : {"none", "asked", "answered", "validated"}, value : Texts]

CollectedData ==
  [claimType : Texts, location : Texts, fields : [DOMAIN Words -> FieldState]]

NoData == [claimType |-> Nothing, location |-> Nothing,
           fields |-> [q \in DOMAIN Words |-> [status |-> "none", value |-> Nothing]]]

Fields(data) == {q \in DOMAIN Words : data.fields[q].status # "none"}

LocationWords == {"location", "address", "where"}

\* Fault: a result belongs to the first call.
FindFirstQuestionId(es, i) ==
  LET calls == {j \in Called(es) : j < i /\ es[j].tool = "validate_answer"}
  IN  IF calls = {} THEN Nothing ELSE es[Min(calls)].question

\* The question of the validate_answer call that a result follows.
FindQuestionId(es, i) ==
  LET calls == {j \in Called(es) : j < i /\ es[j].tool = "validate_answer"}
  IN  IF calls = {} THEN Nothing ELSE es[Max(calls)].question

AnswerField(data, e) ==
  [data EXCEPT !.fields[e.question] = [status |-> "answered", value |-> e.value],
               !.location = IF Words[e.question] \cap LocationWords # {} THEN e.value ELSE data.location]

AskFields(data, e) ==
  [data EXCEPT !.fields = [q \in DOMAIN Words |->
     IF q \in e.asked \ Fields(data) THEN [status |-> "asked", value |-> Nothing]
     ELSE data.fields[q]]]

ValidateField(data, q) ==
  IF q \in Fields(data) THEN [data EXCEPT !.fields[q].status = "validated"] ELSE data

Submitted(field) ==
  IF field.status = "answered" THEN [field EXCEPT !.status = "validated"] ELSE field

\* Whatever the result of the submission is.
ValidateAnswered(data) ==
  [data EXCEPT !.fields = [q \in DOMAIN Words |-> Submitted(data.fields[q])]]

ReadEvent(es, data, i) ==
  LET e == es[i] IN
  CASE e.type = "tool.called" /\ e.tool = "get_next_questions" /\ e.value # Nothing
         -> [data EXCEPT !.claimType = e.value]
    [] e.type = "tool.called" /\ e.tool = "validate_answer" -> AnswerField(data, e)
    [] e.type = "tool.result" /\ e.tool = "get_next_questions" -> AskFields(data, e)
    [] e.type = "tool.result" /\ e.tool = "validate_answer" /\ e.result = "valid"
         -> ValidateField(data, FindQuestionId(es, i))
    [] e.type = "tool.result" /\ e.tool = "submit_claim_data" -> ValidateAnswered(data)
    [] OTHER -> data

ExtractCollectedData(es) ==
  Walk([i \in DOMAIN es |-> [data \in CollectedData |-> ReadEvent(es, data, i)]], NoData)

Validated(data) == {q \in DOMAIN Words : data.fields[q].status = "validated"}

\* Math.round of the share of validated fields, in percent.
Progress(data) ==
  LET total == Max({1, Cardinality(Fields(data))})
  IN  (200 * Cardinality(Validated(data)) + total) \div (2 * total)

(***************************************************************************)
(* AppModeView.tsx, fieldCategorization.ts and AppModeDataGrid.tsx         *)
(***************************************************************************)
\* The first list with a word in the id takes the field.
WordLists ==
  << <<"date", {"date", "when", "time_of"}>>,
     <<"contact", {"phone", "name", "claimant", "contact", "email"}>>,
     <<"vehicle", {"vehicle", "car", "make", "model"}>>,
     <<"location", {"location", "address", "where", "city", "intersection"}>>,
     <<"policy", {"policy", "claim_type"}>> >>

Category(q) ==
  LET hits == {k \in DOMAIN WordLists : Words[q] \cap WordLists[k][2] # {}}
  IN  IF hits = {} THEN "description" ELSE WordLists[Min(hits)][1]

CategorizeFields(data) ==
  [c \in {"date", "contact", "vehicle", "location", "policy", "description"} |->
     {q \in Fields(data) : data.fields[q].value # Nothing /\ Category(q) = c}]

\* The cells of the data grid and the fields in each.
DataGrid(data) ==
  LET fields == CategorizeFields(data)
      shown(c) == CASE c = "policy"   -> fields[c] # {} \/ data.claimType # Nothing
                    [] c = "location" -> fields[c] # {} /\ data.location # Nothing
                    [] OTHER          -> fields[c] # {}
  IN  [c \in {k \in DOMAIN fields : shown(k)} |-> fields[c]]

\* Neither the grid nor the progress shows before there is an answer.
AppModeView(data) ==
  LET hasAnyData == \E q \in Fields(data) : data.fields[q].value # Nothing
  IN  [ progress |-> IF hasAnyData THEN Progress(data) ELSE 0,
        cells    |-> IF hasAnyData THEN DataGrid(data) ELSE <<>> ]

(***************************************************************************)
(* CallStatePanel.tsx                                                      *)
(***************************************************************************)
AnswerRow ==
  [questionId : DOMAIN Words \cup {Nothing, "field_n"}, answer : Texts, valid : BOOLEAN]

CollectAnswer(fields, e) ==
  LET own == {k \in DOMAIN fields : fields[k].questionId = e.question}
  IN  IF own = {}
        THEN Append(fields, [questionId |-> e.question, answer |-> e.value, valid |-> FALSE])
        ELSE [fields EXCEPT ![Min(own)].answer = e.value]

\* The mark goes to the first field that has none, whichever was answered.
MarkAnswer(fields, e) ==
  LET unmarked == {k \in DOMAIN fields : ~fields[k].valid}
  IN  IF unmarked = {}
        THEN Append(fields, [questionId |-> "field_n", answer |-> Nothing,
                             valid |-> e.result = "valid"])
        ELSE [fields EXCEPT ![Min(unmarked)].valid = (e.result = "valid")]

ReadAnswer(fields, e) ==
  CASE e.tool = "validate_answer" /\ e.type = "tool.called" -> CollectAnswer(fields, e)
    [] e.tool = "validate_answer" /\ e.type = "tool.result" -> MarkAnswer(fields, e)
    [] OTHER -> fields

CollectedFields(es) ==
  Walk([i \in DOMAIN es |-> [fields \in Seq(AnswerRow) |-> ReadAnswer(fields, es[i])]], <<>>)

\* Fault: the agent the last handoff came from.
CurrentAgentLeft(es) == IF Handoffs(es) = <<>> THEN "greeter" ELSE Last(Handoffs(es)).from

CurrentAgent(es) == IF Handoffs(es) = <<>> THEN "greeter" ELSE Last(Handoffs(es)).to

DeriveCallState(es) ==
  [ collectedFields |-> CollectedFields(es),
    handoffs        |-> Handoffs(es),
    currentAgent    |-> CurrentAgent(es),
    supervisorCount |-> Cardinality(Indices(es, "supervisor.exchange")),
    toolCallCount   |-> Cardinality(Results(es)) ]

\* The agents the progress chain marks as visited or current.
ChainVisited(state) ==
  {a \in Agents :
     a = "greeter" \/ \E k \in DOMAIN state.handoffs :
                         a \in {state.handoffs[k].from, state.handoffs[k].to}}

(***************************************************************************)
(* SequentialHandoffDiagram.tsx                                            *)
(***************************************************************************)
HandoffPhases ==
  Table({<<"agent.handoff", "active">>, <<"tool.called", "calling">>,
         <<"audio.started", "speaking">>, <<"response.created", "thinking">>,
         <<"response.done", "responded">>})

HandoffDiagram(es, isActive) ==
  LET moves  == Handoffs(es)
      active == IF moves # <<>> THEN Last(moves).to ELSE IF isActive THEN "greeter" ELSE Nothing
      last   == LastOf(es, DOMAIN HandoffPhases)
  IN  [ activeAgent   |-> active,
        visitedAgents |-> {moves[k].from : k \in DOMAIN moves} \cup ({active} \ {Nothing}),
        phase         |-> IF last # 0 THEN HandoffPhases[es[last].type]
                          ELSE IF isActive THEN "greeting" ELSE "idle" ]

\* The edges of the drawing that are lit: one is when its end was visited; those
\* into the summary are drawn from the claim agents that were visited.
LitEdges(diagram) ==
  LET visited == diagram.visitedAgents
  IN  {edge \in {<<"greeter", "top_level_qa">>} \cup {<<"top_level_qa", c>> : c \in ToSet(CLAIM_IDS)}
                  \cup {<<c, "summary">> : c \in ToSet(CLAIM_IDS) \cap visited} :
         edge[2] \in visited}

(***************************************************************************)
(* ChatSupervisorDiagram.tsx                                               *)
(***************************************************************************)
StepKinds ==
  Table({<<"audio.started", "user-audio">>, <<"response.created", "thinking">>,
         <<"tool.called", "tool-call">>, <<"tool.result", "tool-result">>,
         <<"supervisor.exchange", "supervisor">>, <<"response.done", "response">>,
         <<"error", "error">>})

ActiveNodes ==
  Table({<<"audio.started", "user">>, <<"response.created", "voice">>,
         <<"tool.called", "tools">>, <<"tool.result", "voice">>,
         <<"supervisor.exchange", "supervisor">>, <<"response.done", "voice">>})

ChatPhases ==
  Table({<<"audio.started", "speaking">>, <<"audio.stopped", "processing">>,
         <<"response.created", "generating">>, <<"tool.called", "calling">>,
         <<"supervisor.exchange", "consulting">>, <<"response.done", "responded">>})

BuildSteps(es, isActive) ==
  LET node  == LastOf(es, DOMAIN ActiveNodes)
      phase == LastOf(es, DOMAIN ChatPhases)
      shown == OfTypes(es, DOMAIN StepKinds)
  IN  [ steps      |-> [k \in DOMAIN shown |-> StepKinds[shown[k].type]],
        activeNode |-> IF node # 0 THEN ActiveNodes[es[node].type]
                       ELSE IF isActive THEN "voice" ELSE Nothing,
        phase      |-> IF phase # 0 THEN ChatPhases[es[phase].type]
                       ELSE IF isActive THEN "listening" ELSE "idle" ]

\* The step that pulses: the last one, if it stands for something under way.
Pulsing(steps) ==
  IF steps # <<>> /\ Last(steps) \in {"thinking", "tool-call"} THEN Last(steps) ELSE Nothing

(***************************************************************************)
(* The three pairings of tool.called and tool.result.  Each keeps the      *)
(* calls without a result in a Map, in the order they came.                *)
(***************************************************************************)
SameTool(es, calls, i) == {j \in calls : es[j].tool = es[i].tool}

Pairings(es) == [pending : SUBSET DOMAIN es, pairs : SUBSET ((DOMAIN es) \X (DOMAIN es))]

\* A call may replace the pending one of its tool; a result is given to the last
\* pending call of its tool or to the first.
PairEvent(es, acc, i, replaces, last) ==
  LET candidates == SameTool(es, acc.pending, i)
      own == IF last THEN Max(candidates) ELSE Min(candidates)
  IN  CASE es[i].type = "tool.called"
             -> [acc EXCEPT !.pending = (IF replaces THEN @ \ candidates ELSE @) \cup {i}]
        [] es[i].type = "tool.result" /\ candidates # {}
             -> [acc EXCEPT !.pending = @ \ {own}, !.pairs = @ \cup {<<own, i>>}]
        [] OTHER -> acc

Pair(es, replaces, last) ==
  Walk([i \in DOMAIN es |-> [acc \in Pairings(es) |-> PairEvent(es, acc, i, replaces, last)]],
       [pending |-> {}, pairs |-> {}])

\* Fault: the first pending call of the tool.
ComputeSpansFirst(es) == Pair(es, FALSE, FALSE)

\* timelineSpans.ts: the last pending call of the tool.
ComputeSpans(es) == Pair(es, FALSE, TRUE)

\* events/utils.ts: one pending call per tool, the last.
ComputeToolSpans(es) == Pair(es, TRUE, TRUE)

\* ApiHistogram.tsx: the first pending call, of the question service's tools only; a
\* result without a call gets a row of its own.
ExtractApiCalls(es) ==
  LET paired == Pair(es, FALSE, FALSE)
      mine(i) == es[i].tool \in QuestionServiceTools
  IN  [ pairs   |-> {p \in paired.pairs : mine(p[1])},
        pending |-> {i \in paired.pending : mine(i)},
        loose   |-> {i \in Results(es) : mine(i) /\ \A p \in paired.pairs : p[2] # i} ]

\* A tool that raised has neither valid nor status in its result, and counts as done.
ApiStats(es) ==
  LET calls == ExtractApiCalls(es)
      of(tool, is) == {i \in is : es[i].tool = tool}
      answered == {p[2] : p \in calls.pairs}
  IN  [tool \in QuestionServiceTools |->
         [ count    |-> Cardinality(of(tool, answered)) + Cardinality(of(tool, calls.loose))
                          + Cardinality(of(tool, calls.pending)),
           failures |-> Cardinality({i \in of(tool, answered) : es[i].result = "invalid"}) ]]

(***************************************************************************)
(* TokenConsumptionView.tsx and costEstimator.ts                           *)
(***************************************************************************)
\* Microdollars a token of the model costs, input and output.
Pricing(model) ==
  CASE model \in {"gpt-realtime-mini", "gpt-4o-mini-realtime-preview"} -> <<30, 120>>
    [] model = "gpt-realtime-1.5" -> <<40, 160>>
    [] OTHER -> <<50, 200>>

EstimateCost(usage, model) == usage[1] * Pricing(model)[1] + usage[2] * Pricing(model)[2]

HasUsage(e) == e.type = "response.done" /\ e.usage # <<0, 0>>

TokenPoint == [own : Nat \X Nat, cumulative : Nat \X Nat]

TotalUsage(points) == IF points = <<>> THEN <<0, 0>> ELSE Last(points).cumulative

\* One row per response with usage: its own tokens and those so far.
AddPoint(points, e) ==
  LET before == TotalUsage(points)
  IN  IF HasUsage(e)
        THEN Append(points, [own |-> e.usage,
                             cumulative |-> <<before[1] + e.usage[1], before[2] + e.usage[2]>>])
        ELSE points

BuildTokenPoints(es) ==
  Walk([i \in DOMAIN es |-> [points \in Seq(TokenPoint) |-> AddPoint(points, es[i])]], <<>>)

CostColumn(points, model) ==
  Walk([k \in DOMAIN points |-> [sum \in Nat |-> sum + EstimateCost(points[k].own, model)]], 0)

(***************************************************************************)
(* CallSummary.tsx                                                         *)
(***************************************************************************)
Turns(ms, role) == Len(SelectSeq(ms, LAMBDA m : m.role = role /\ ~m.isPartial))

Summary(es, ms) ==
  LET moves == Handoffs(es)
  IN  [ userTurns  |-> Turns(ms, "user"),
        agentTurns |-> Turns(ms, "agent"),
        handoffs   |-> Len(moves),
        toolCalls  |-> Cardinality(Called(es)) + Cardinality(Results(es)),
        supervisorChecks |-> Cardinality(Indices(es, "supervisor.exchange")),
        agentsUsed |-> UNION {{moves[k].from, moves[k].to} : k \in DOMAIN moves},
        journey    |-> IF moves = <<>> THEN <<>>
                       ELSE <<moves[1].from>> \o [k \in DOMAIN moves |-> moves[k].to] ]

=============================================================================
