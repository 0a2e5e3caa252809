----------------------- MODULE SequentialHandoffProofs -----------------------
(***************************************************************************)
(* Proofs about SequentialHandoff, for any number of calls and any tools a *)
(* model makes up: its types, that the three views of the current agent    *)
(* agree, and that every call is answered in order.                        *)
(***************************************************************************)
EXTENDS SequentialHandoff, TLAPS

\* What an agent may be given is among the tools.
LEMMA ToolsAreTools == ASSUME NEW a \in AGENTS PROVE GetTools(a) \subseteq Tool
BY DEF AGENTS, Claims, AfterClaim, GetTools, Handoffs, DomainTools, Tool, Registered

\* Appending keeps a sequence in its type.
LEMMA AppendTyped == ASSUME NEW S, NEW s \in Seq(S), NEW e \in S
                     PROVE  Append(s, e) \in Seq(S)
OBVIOUS

\* Types and the progress of a handoff hold together: the browser is shown
\* the agent of a result that is a handoff only because of the latter.
LEMMA ProgressInvariant == Spec => [](HandoffTypeOK /\ Progress)
<1> USE DEF Handoff, NoHandoff, patternVars, azureVars
<1> DEFINE IInv == HandoffTypeOK /\ Progress
<1>1. Init => IInv
  BY DEF Init, HandoffTypeOK, Progress, AGENTS
<1>2. IInv /\ [Next]_vars => IInv'
  <2> SUFFICES ASSUME HandoffTypeOK, Progress, [Next]_vars
               PROVE  HandoffTypeOK' /\ Progress'
    OBVIOUS
  <2> USE DEF HandoffTypeOK, Progress
  <2>1. CASE SpeechStartsResponse
    BY <2>1 DEF SpeechStartsResponse
  <2>2. CASE ModelCalls
    <3>1. PICK tool \in GetTools(active) \cup MadeUp : asked' = Append(asked, tool)
      BY <2>2 DEF ModelCalls
    <3>2. tool \in Tool
      <4>1. active \in AGENTS
        BY <2>2 DEF ModelCalls
      <4>2. GetTools(active) \subseteq Tool
        BY <4>1, ToolsAreTools
      <4> QED BY <3>1, <4>2 DEF Tool
    <3>3. asked' \in Seq(Tool) /\ Len(asked') = Len(asked) + 1
      BY <3>1, <3>2
    <3> QED BY <2>2, <3>3 DEF ModelCalls
  <2>3. CASE ResponseEnds \/ AzureCloses \/ HangUp
    BY <2>3 DEF ResponseEnds, AzureCloses, HangUp
  <2>4. CASE HandleTransfer
    BY <2>4 DEF HandleTransfer, Receive, NextCall
  <2>5. CASE HandleDomainTool \/ HandleUnknown
    BY <2>5 DEF HandleDomainTool, HandleUnknown, Receive
  <2>6. CASE SendOutput
    <3>1. outputs' \in Seq(Nat)
      BY <2>6 DEF SendOutput
    <3>2. CASE result = NoHandoff
      BY <2>6, <3>1, <3>2 DEF SendOutput
    <3>3. CASE result # NoHandoff
      <4>1. result \in Handoff
        BY <3>3
      <4>2. history' = Append(history, result)
        BY <2>6, <3>3 DEF SendOutput
      <4>3. history' \in Seq(Handoff)
        <5> HIDE DEF Handoff
        <5> QED BY <4>1, <4>2, AppendTyped
      <4> QED BY <2>6, <3>1, <3>3, <4>1, <4>3 DEF SendOutput
    <3> QED BY <3>2, <3>3
  <2>7. CASE SendUpdate
    <3>1. result # NoHandoff
      BY <2>7 DEF SendUpdate, AGENTS, Claims
    <3>2. result.to = current
      BY <2>7, <3>1 DEF SendUpdate
    <3> QED BY <2>7, <3>2 DEF SendUpdate
  <2>8. CASE ToolReturns \/ SendResponse \/ ConnectionFails
    BY <2>8 DEF ToolReturns, SendResponse, ConnectionFails
  <2>9. CASE UNCHANGED vars
    BY <2>9 DEF vars
  <2> QED BY <2>1, <2>2, <2>3, <2>4, <2>5, <2>6, <2>7, <2>8, <2>9
          DEF Next, AzureStep, ReceiverStep, Over
<1> QED BY <1>1, <1>2, PTL DEF Spec

\* Every variable keeps its type.
THEOREM TypeCorrect == Spec => []HandoffTypeOK
BY ProgressInvariant, PTL

\* Outside a handoff the pattern, the Azure session and the browser are with
\* the same agent, and a handoff's response is asked for with the new one.
THEOREM OneAgentOwnsTheCall == Spec => []ViewsAgree
<1>1. Progress => ViewsAgree
  BY DEF Progress, ViewsAgree
<1> QED BY <1>1, ProgressInvariant, PTL
------------------------------------------------------------------------------
(* The history *)

\* The browser's handoff history is one walk from the greeter, and ends at
\* the current agent once the last handoff is announced.
THEOREM HistoryIsOneWalk == Spec => []HistoryIsWalk
<1>1. Init => WalkInv
  BY DEF Init, WalkInv, HistoryIsWalk, From
<1>2. HandoffTypeOK /\ Progress /\ WalkInv /\ [Next]_vars => WalkInv'
  <2> SUFFICES ASSUME HandoffTypeOK, Progress, WalkInv, [Next]_vars PROVE WalkInv'
    OBVIOUS
  <2> USE DEF HandoffTypeOK, WalkInv, HistoryIsWalk, From, patternVars, azureVars
  <2>1. CASE AzureStep \/ UNCHANGED vars
    BY <2>1 DEF AzureStep, SpeechStartsResponse, ModelCalls, ResponseEnds,
                AzureCloses, vars
  <2>2. CASE HandleTransfer
    <3>1. current \in AGENTS /\ NoHandoff \notin Handoff
      BY DEF NoHandoff, Handoff, AGENTS, Claims
    <3>2. result' # NoHandoff
      BY <2>2, <3>1 DEF HandleTransfer, NoHandoff, AGENTS, Claims
    <3> QED BY <2>2, <3>2 DEF HandleTransfer, Receive
  <2>3. CASE HandleDomainTool \/ HandleUnknown \/ ToolReturns
    BY <2>3 DEF HandleDomainTool, HandleUnknown, ToolReturns, Receive, Progress
  <2>4. CASE SendOutput
    <3>1. CASE result = NoHandoff
      BY <2>4, <3>1 DEF SendOutput
    <3>2. CASE result # NoHandoff
      <4>1. /\ history' = Append(history, result)
            /\ Len(history') = Len(history) + 1
            /\ current' = current /\ receiver' = "update"
        BY <2>4, <3>2 DEF SendOutput
      <4>2. result.to = current /\ result.from = From(Len(history) + 1)
        BY <2>4, <3>2 DEF SendOutput, Progress
      <4>3. ASSUME NEW i \in 1..Len(history') PROVE history'[i].from = From(i)'
        <5>1. CASE i = Len(history) + 1
          BY <4>1, <4>2, <5>1
        <5>2. CASE i # Len(history) + 1
          <6>1. i \in 1..Len(history)
            BY <4>1, <5>2
          <6>2. history'[i] = history[i] /\ (i # 1 => history'[i - 1] = history[i - 1])
            BY <4>1, <6>1
          <6>3. history[i].from = From(i)
            BY <6>1
          <6> QED BY <6>2, <6>3
        <5> QED BY <5>1, <5>2
      <4>4. current' = From(Len(history) + 1)'
        BY <4>1, <4>2
      <4> QED BY <4>1, <4>2, <4>3, <4>4
    <3> QED BY <3>1, <3>2
  <2>5. CASE SendUpdate \/ SendResponse \/ ConnectionFails \/ HangUp
    BY <2>5 DEF SendUpdate, SendResponse, ConnectionFails, HangUp
  <2> QED BY <2>1, <2>2, <2>3, <2>4, <2>5 DEF Next, ReceiverStep, Over
<1>3. WalkInv => HistoryIsWalk
  BY DEF WalkInv
<1> QED BY <1>1, <1>2, <1>3, ProgressInvariant, PTL DEF Spec
------------------------------------------------------------------------------
(* The answers *)

LEMMA OutputsInvariant == Spec => []OutputsInv
<1>1. Init => OutputsInv
  BY DEF Init, OutputsInv
<1>2. HandoffTypeOK /\ OutputsInv /\ [Next]_vars => OutputsInv'
  <2> SUFFICES ASSUME HandoffTypeOK, OutputsInv, [Next]_vars PROVE OutputsInv'
    OBVIOUS
  <2> USE DEF OutputsInv, HandoffTypeOK, patternVars, azureVars
  <2>1. CASE AzureStep \/ UNCHANGED vars
    BY <2>1 DEF AzureStep, SpeechStartsResponse, ModelCalls, ResponseEnds,
                AzureCloses, vars
  <2>2. CASE HandleTransfer \/ HandleDomainTool \/ HandleUnknown
    BY <2>2 DEF HandleTransfer, HandleDomainTool, HandleUnknown, Receive
  <2>3. CASE SendOutput
    <3>1. Len(outputs') = Len(outputs) + 1 /\ call' = call
      BY <2>3 DEF SendOutput
    <3>2. ASSUME NEW i \in 1..Len(outputs') PROVE outputs'[i] = i
      BY <2>3 DEF SendOutput
    <3> QED BY <2>3, <3>1, <3>2 DEF SendOutput
  <2>4. CASE ToolReturns \/ SendUpdate \/ SendResponse \/ ConnectionFails \/ HangUp
    BY <2>4 DEF ToolReturns, SendUpdate, SendResponse, ConnectionFails, HangUp
  <2> QED BY <2>1, <2>2, <2>3, <2>4 DEF Next, ReceiverStep, Over
<1> QED BY <1>1, <1>2, TypeCorrect, PTL DEF Spec

\* The outputs are those of the first calls, so one more output is one more
\* delivery, and nothing is delivered after the reader ended.
THEOREM CallsAnsweredInOrder == Spec => AnswersInOrder
<1> DEFINE Answered == [i \in DOMAIN outputs |-> asked[outputs[i]]]
           Reading == receiver # "done"
<1>1. Init => Answers!Init
  BY DEF Init, Answers!Init
<1>2. HandoffTypeOK /\ OutputsInv /\ [Next]_vars => [Answers!Next]_(Answers!vars)
  <2> SUFFICES ASSUME HandoffTypeOK, OutputsInv, [Next]_vars
               PROVE  [Answers!Next]_(Answers!vars)
    OBVIOUS
  <2> USE DEF patternVars, azureVars
  <2>1. CASE ModelCalls
    <3>1. PICK tool \in GetTools(active) \cup MadeUp : asked' = Append(asked, tool)
      BY <2>1 DEF ModelCalls
    <3>2. tool \in Tool
      <4>1. active \in AGENTS
        BY <2>1 DEF ModelCalls, HandoffTypeOK
      <4>2. GetTools(active) \subseteq Tool
        BY <4>1, ToolsAreTools
      <4> QED BY <3>1, <4>2 DEF Tool
    <3>3. ASSUME NEW i \in DOMAIN outputs PROVE asked'[outputs[i]] = asked[outputs[i]]
      BY <3>1, <3>2 DEF HandoffTypeOK, OutputsInv
    <3>4. Answered' = Answered
      BY <2>1, <3>3 DEF ModelCalls
    <3> QED BY <2>1, <3>1, <3>2, <3>4 DEF ModelCalls, Answers!Next, Answers!Produce
  <2>2. CASE SendOutput
    <3>1. /\ outputs' = Append(outputs, call)
          /\ call = Len(outputs) + 1
          /\ asked' = asked
          /\ Reading /\ Reading'
      BY <2>2 DEF SendOutput, OutputsInv, HandoffTypeOK
    <3>2. outputs \in Seq(Nat) /\ asked \in Seq(Tool) /\ call \in 1..Len(asked)
      BY <3>1 DEF HandoffTypeOK
    <3>3. Answered \in Seq(Tool) /\ Len(Answered) = Len(outputs)
      BY <3>2 DEF OutputsInv, HandoffTypeOK
    <3>4. Answered' = Append(Answered, asked[Len(Answered) + 1])
      <4>1. DOMAIN outputs' = 1..(Len(outputs) + 1)
        BY <3>1, <3>2
      <4>2. ASSUME NEW i \in 1..(Len(outputs) + 1)
            PROVE  Answered'[i] = Append(Answered, asked[Len(Answered) + 1])[i]
        BY <3>1, <3>2, <3>3, <4>1, <4>2
      <4>3. Append(Answered, asked[Len(Answered) + 1]) \in Seq(Tool)
        <5>1. asked[Len(Answered) + 1] \in Tool
          BY <3>1, <3>2, <3>3
        <5> HIDE DEF Answered
        <5> QED BY <3>3, <5>1, AppendTyped
      <4>4. Answered' \in Seq(Tool) /\ Len(Answered') = Len(outputs) + 1
        BY <3>1, <3>2, <3>3, <4>1
      <4> QED BY <3>3, <4>2, <4>3, <4>4
    <3>5. Len(Answered) < Len(asked)
      BY <3>1, <3>2, <3>3
    <3> QED BY <3>1, <3>4, <3>5 DEF Answers!Next, Answers!Deliver
  <2>3. CASE ConnectionFails \/ HangUp
    BY <2>3 DEF ConnectionFails, HangUp, Answers!Next, Answers!Close
  <2>4. CASE SpeechStartsResponse \/ ResponseEnds \/ AzureCloses \/ UNCHANGED vars
    BY <2>4 DEF SpeechStartsResponse, ResponseEnds, AzureCloses, vars, Answers!vars
  <2>5. CASE HandleTransfer \/ HandleDomainTool \/ HandleUnknown
    BY <2>5 DEF HandleTransfer, HandleDomainTool, HandleUnknown, Receive, Answers!vars
  <2>6. CASE ToolReturns \/ SendUpdate \/ SendResponse
    BY <2>6 DEF ToolReturns, SendUpdate, SendResponse, Answers!vars
  <2> QED BY <2>1, <2>2, <2>3, <2>4, <2>5, <2>6
          DEF Next, AzureStep, ReceiverStep, Over
<1> QED BY <1>1, <1>2, TypeCorrect, OutputsInvariant, PTL
        DEF Spec, AnswersInOrder, Answers!Spec
==============================================================================
