----------------------------- MODULE ClaimIntake -----------------------------
(***************************************************************************)
(* The tools with which both patterns take a claim: get_next_questions,    *)
(* validate_answer and submit_claim_data (chat_supervisor.py,              *)
(* sequential_handoff.py), the question service they ask and the           *)
(* supervisor that has the last word in one of them.                       *)
(*                                                                         *)
(* A tool waits for the service and for the supervisor; either may fail,   *)
(* and the call may end at any of these awaits.  The service's rules       *)
(* (validator.py) are the sets of answers that each question accepts; an   *)
(* id is the set of its words.                                             *)
(***************************************************************************)
EXTENDS Naturals, Sequences

CONSTANTS
    Patterns,     \* the patterns a call may run
    Catalogue,    \* the service's questions, the top-level ones first
    ClaimTypes,   \* what the model may give as the type of the claim
    Spoken,       \* and as the id of a question
    Answers,      \* and as an answer
    MaxCalls      \* bound: tool calls

\* An id is written as the catalogue has it, in another spelling that the
\* service normalises to it, or with its words in an order of their own.
Id == [words : SUBSET STRING, form : {"id", "spelt", "words"}]

Question == [words : SUBSET STRING, category : STRING, accepts : SUBSET Answers]

ASSUME IntakeAssumption ==
  /\ Patterns \subseteq {"chat-supervisor", "sequential-handoff"}
  /\ Catalogue \in Seq(Question)
  /\ \A i, j \in DOMAIN Catalogue : Catalogue[i].words = Catalogue[j].words => i = j
  /\ Spoken \subseteq Id /\ \A id \in Spoken : id.words # {}

VARIABLES
    pattern,      \* the pattern of the call
    claimType,    \* ClaimSession.claim_type
    collected,    \* ClaimSession.collected_data
    pc,           \* what the tool in hand awaits
    call,         \* that tool and its arguments
    toolContext,  \* _tool_context
    pending,      \* _pending_events
    log           \* the tool results and exchanges put out, with their calls

sessionVars == <<claimType, collected>>
vars == <<pattern, claimType, collected, pc, call, toolContext, pending, log>>

None == "none"
Tools == {"get_next_questions", "validate_answer", "submit_claim_data"}

\* What the model may give each of them; the data it submits is its own.
NoId == [words |-> {}, form |-> "words"]
Arguments == [claimType : ClaimTypes \cup {None}, id : Spoken \cup {NoId}, answer : Answers \cup {None}]
ArgumentsOf(tool) ==
  {a \in Arguments : /\ a.claimType = None <=> tool # "get_next_questions"
                     /\ a.id = NoId <=> tool # "validate_answer"
                     /\ a.answer = None <=> tool # "validate_answer"}

Supervised == pattern = "chat-supervisor"
Slice == IF Supervised THEN 3 ELSE 2

Init ==
  /\ pattern \in Patterns
  /\ claimType = None /\ collected = <<>>
  /\ pc = "idle" /\ call = None
  /\ toolContext = None
  /\ pending = <<>> /\ log = <<>>

(***************************************************************************)
(* The question service                                                    *)
(***************************************************************************)
BranchQuestions(type) == SelectSeq(Catalogue, LAMBDA q : q.category = type)

Named(id) == {i \in DOMAIN Catalogue : id.form # "words" /\ Catalogue[i].words = id.words}

Alike(id) == {i \in DOMAIN Catalogue :
                 Catalogue[i].words \subseteq id.words \/ id.words \subseteq Catalogue[i].words}

First(S) == {i \in S : \A j \in S : i <= j}

\* Fault: any question with the words will do.
FindCriteriaFuzzy(id) == First(Alike(id))

\* The question whose criteria are applied, if there is one.
FindCriteria(id) == IF Named(id) # {} THEN First(Named(id)) ELSE First(Alike(id))

Valid(args) == \E i \in FindCriteria(args.id) : args.answer \in Catalogue[i].accepts

(***************************************************************************)
(* The tools                                                               *)
(***************************************************************************)
\* The questions of which no id is taken.
Missing(questions, ids) ==
  SelectSeq(questions, LAMBDA q : [words |-> q.words, form |-> "id"] \notin ids)

Unanswered(questions) == Missing(questions, DOMAIN collected)

Body(kind) == [kind |-> kind, offered |-> <<>>, total |-> 0]

Offer(questions, slice) ==
  [kind |-> "questions", total |-> Len(questions),
   offered |-> SubSeq(questions, 1, IF Len(questions) < slice THEN Len(questions) ELSE slice)]

Returned == Len(SelectSeq(log, LAMBDA e : e.type = "tool.result"))

\* An entry of the log; nr is the number of its call, which nobody sees.
Entry(type, body) ==
  [type |-> type, tool |-> call.tool, args |-> call.args, body |-> body, nr |-> Returned + 1]

\* The tool's result is put out; what the pattern emitted comes after it.
Return(body) ==
  /\ log' = Append(log, Entry("tool.result", body))
  /\ toolContext' = None
  /\ pc' = "send"
  /\ UNCHANGED <<pattern, call>>

Wait(what) ==
  /\ pc' = what
  /\ UNCHANGED <<pattern, call, toolContext, pending, log>>

\* Fault: under the id of the question whose criteria were applied.
RecordAnswerMatched ==
  LET id == IF FindCriteria(call.args.id) = {} THEN call.args.id
            ELSE [words |-> Catalogue[CHOOSE i \in FindCriteria(call.args.id) : TRUE].words,
                  form |-> "id"]
  IN  collected' = [i \in DOMAIN collected \cup {id} |->
                      IF i = id THEN call.args.answer ELSE collected[i]]

RecordAnswer ==
  collected' = [i \in DOMAIN collected \cup {call.args.id} |->
                  IF i = call.args.id THEN call.args.answer ELSE collected[i]]

CallTool(tool, args) ==
  /\ pc = "idle"
  /\ Returned < MaxCalls
  /\ call' = [tool |-> tool, args |-> args]
  /\ toolContext' = IF Supervised THEN tool ELSE None
  /\ claimType' = IF tool = "get_next_questions" THEN args.claimType ELSE claimType
  /\ pc' = IF tool # "submit_claim_data" THEN "service"
           ELSE IF Supervised THEN "supervisor" ELSE "submit"
  /\ UNCHANGED <<pattern, collected, pending, log>>

\* A request that fails, and a category that is unknown, give no questions.
QuestionsFetched(questions) ==
  /\ pc = "service" /\ call.tool = "get_next_questions"
  /\ \/ questions # <<>> /\ Return(Offer(Unanswered(questions), Slice)) /\ UNCHANGED pending
     \/ questions = <<>> /\ Supervised /\ Wait("supervisor")
     \/ questions = <<>> /\ ~Supervised /\ Return(Body("no questions")) /\ UNCHANGED pending
  /\ UNCHANGED sessionVars

AnswerAccepted ==
  /\ pc = "service" /\ call.tool = "validate_answer"
  /\ Valid(call.args)
  /\ RecordAnswer
  /\ Return(Body("accepted"))
  /\ UNCHANGED <<claimType, pending>>

\* "refused" is the service's verdict, "unreachable" a request that failed.
AnswerRefused(verdict) ==
  /\ pc = "service" /\ call.tool = "validate_answer"
  /\ verdict = "refused" => ~Valid(call.args)
  /\ \/ Supervised /\ Wait("supervisor")
     \/ ~Supervised /\ Return(Body(verdict)) /\ UNCHANGED pending
  /\ UNCHANGED sessionVars

Submit ==
  /\ pc = "submit"
  /\ Return(Body("submitted"))
  /\ UNCHANGED <<sessionVars, pending>>

\* What the tool makes of the supervisor's word.
Ruling(yes) ==
  CASE call.tool = "get_next_questions" -> "generated"
    [] call.tool = "validate_answer" -> IF yes THEN "accepted" ELSE "overruled"
    [] OTHER -> IF yes THEN "submitted" ELSE "incomplete"

SupervisorAnswers(yes) ==
  /\ pc = "supervisor"
  /\ IF yes /\ call.tool = "validate_answer" THEN RecordAnswer ELSE UNCHANGED collected
  /\ pending' = Append(pending, [Entry("supervisor.exchange", Body(None)) EXCEPT !.tool = toolContext])
  /\ Return(Body(Ruling(yes)))
  /\ UNCHANGED claimType

\* A consultation that fails is a no, and leaves no exchange.
SupervisorFails ==
  /\ pc = "supervisor"
  /\ Return(Body(IF call.tool = "get_next_questions" THEN "error" ELSE Ruling(FALSE)))
  /\ UNCHANGED <<sessionVars, pending>>

\* The output is sent, then the events of the pattern are put out.
SendOutput ==
  /\ pc = "send"
  /\ pc' = "idle"
  /\ log' = log \o pending
  /\ pending' = <<>>
  /\ UNCHANGED <<pattern, sessionVars, call, toolContext>>

\* A send that fails, or a cancellation at any of the awaits, ends the reader.
ReaderEnds ==
  /\ pc # "done"
  /\ pc' = "done"
  /\ toolContext' = None
  /\ UNCHANGED <<pattern, sessionVars, call, pending, log>>

Next ==
  \/ \E tool \in Tools : \E args \in ArgumentsOf(tool) : CallTool(tool, args)
  \/ \E questions \in {<<>>, BranchQuestions(claimType)} : QuestionsFetched(questions)
  \/ AnswerAccepted
  \/ \E verdict \in {"refused", "unreachable"} : AnswerRefused(verdict)
  \/ Submit
  \/ \E yes \in BOOLEAN : SupervisorAnswers(yes)
  \/ SupervisorFails
  \/ SendOutput
  \/ ReaderEnds

Spec == Init /\ [][Next]_vars
------------------------------------------------------------------------------
(* Properties *)

Accepts(i) == log[i].type = "tool.result" /\ log[i].body.kind = "accepted"

AcceptedBefore(n) == {log[i].args.id : i \in {j \in 1 .. n - 1 : Accepts(j)}}

\* What is collected is what the results say was accepted, and of each id the
\* answer accepted last: a refusal of a later answer takes nothing away.
CollectedAsShown ==
  /\ DOMAIN collected = AcceptedBefore(Len(log) + 1)
  /\ \A id \in DOMAIN collected : \E i \in DOMAIN log :
       /\ Accepts(i) /\ log[i].args.id = id /\ log[i].args.answer = collected[id]
       /\ \A j \in DOMAIN log : j > i /\ Accepts(j) => log[j].args.id # id

\* An offer is the first of the claim's questions that no result so far
\* accepted under their id, and counts all of them.
OffersTheMissing ==
  \A i \in DOMAIN log :
    log[i].body.kind = "questions" =>
      log[i].body =
        Offer(Missing(BranchQuestions(log[i].args.claimType), AcceptedBefore(i)), Slice)

(***************************************************************************)
(* Safety: what the model is told to ask next follows from what the browser *)
(* and the model were told of every answer, whichever tier accepted it and  *)
(* whatever failed in between (record_answer and unanswered of models.py).  *)
(***************************************************************************)
AsksWhatIsMissing == CollectedAsShown /\ OffersTheMissing

\* The answer meets the criteria of the question its id names, or of one that
\* it may mean if it names none.
OnMerit(args) ==
  \E i \in IF Named(args.id) # {} THEN Named(args.id) ELSE Alike(args.id) :
    args.answer \in Catalogue[i].accepts

\* The exchange that led to result i is put out, or waits for the output to be sent.
Consulted(i) ==
  \/ \E j \in DOMAIN log : log[j].type = "supervisor.exchange" /\ log[j].nr = log[i].nr
  \/ pending # <<>> /\ pending[1].nr = log[i].nr

(***************************************************************************)
(* Safety: an answer is accepted on its merit or by a supervisor whose     *)
(* exchange is shown; the service refuses no answer that meets the         *)
(* criteria of the question it names; and an exchange is of a call whose   *)
(* result is shown, and names its tool.  On which side of its result it    *)
(* stands is left open (_find_criteria_by_question_id of the question      *)
(* service, _consult and _handle_validate_answer of chat_supervisor.py).   *)
(***************************************************************************)
VerdictsExplained ==
  \A i \in DOMAIN log :
    /\ Accepts(i) => OnMerit(log[i].args) \/ Consulted(i)
    /\ log[i].body.kind = "refused" =>
         Named(log[i].args.id) = {} \/ ~OnMerit(log[i].args)
    /\ log[i].type = "supervisor.exchange" =>
         \E j \in DOMAIN log : /\ log[j].type = "tool.result" /\ log[j].nr = log[i].nr
                              /\ log[j].tool = log[i].tool
------------------------------------------------------------------------------
(* The inductive invariant *)

IsSeq(s) == s \in Seq({s[i] : i \in DOMAIN s})

\* What is put out or waits to be, and what an exchange that waits belongs to.
LogInv ==
  /\ IsSeq(log) /\ IsSeq(pending)
  /\ Len(pending) <= 1
  /\ pending # <<>> =>
       /\ pc \in {"send", "done"} /\ Len(log) > 0
       /\ log[Len(log)].type = "tool.result" /\ log[Len(log)].tool = pending[1].tool
       /\ log[Len(log)].nr = pending[1].nr
       /\ pending[1].type = "supervisor.exchange" /\ pending[1].body.kind = None

\* What a tool that waits knows of its call.
WaitInv ==
  /\ pc = "supervisor" => toolContext = call.tool
  /\ pc = "service" /\ Supervised => toolContext = call.tool
  /\ pc = "service" /\ call.tool = "get_next_questions" => claimType = call.args.claimType

IntakeInv == LogInv /\ WaitInv /\ AsksWhatIsMissing /\ VerdictsExplained
=============================================================================
