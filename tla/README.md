# voicelive-agent-patterns: verification project

TLA+ models of the program, from the backend's call to the panels of the
browser, the TLC runs that check them on small instances, and TLAPS proofs of the
properties that matter most for instances of any size. Every definition is translated from the code; names follow the code's
where TLA+ allows it, and each module's comments say what it leaves out.

Contents: [the system](#the-system) · [modules](#modules) · [runs](#runs) ·
[fairness](#fairness) · [proofs](#proofs) · [what the code does not
do](#where-the-code-and-its-documents-differ) · [not modelled](#what-is-not-modelled)

## The system

A browser talks to an insurance-claims voice agent. The Python backend
(`src/backend`, Flask under gunicorn) bridges the browser's WebSocket to one
Azure Voice Live session per call and answers the model's function calls, by
one of two patterns. A small Flask service (`src/question-service`) holds the
questions of a claim and validates answers; a React frontend
(`src/frontend/src`) captures and plays audio and shows transcript, events and
timeline. `start.sh` runs gunicorn with two worker processes of four threads.

### Components

| component | state | operations | talks to |
|---|---|---|---|
| WebSocket handler (`websocket_handler.py`, `safe_io.py`) | two queues, `azure_ready`, the future of the session, the watcher's `azure_error` and `azure_done` | `handle_websocket`, `_watch_future`, `_bridge_loop`, `_drain_outbound` | the browser, and the Azure session through the queues |
| Azure session (`azure_session.py`) | the connection, `shutdown`, the list of tracked items, the strategy | `run_azure_session`, `_read_from_browser`, `_read_from_azure`, `_handle_tool_call`, `_apply_compaction` | Azure, the pattern, the queues |
| Shared event loop (`event_loop.py`) | `_shared_loop`, `_loop_lock`, a native thread | `get_shared_loop` | the handlers' threads |
| Sequential-handoff pattern (`patterns/sequential_handoff.py`) | the current agent, a `ClaimSession` | `get_tools`, `handle_tool_call`, `_handle_transfer`, the domain tools | the question client |
| Chat-supervisor pattern (`patterns/chat_supervisor.py`, `supervisor_client.py`) | a `ClaimSession`, pending events | `handle_tool_call`, `_consult_supervisor`, `drain_events` | the question client, a text model |
| Compaction (`compaction.py`) | the running sum of `TokenBudget` | `make_strategy`, `select` | the Azure session |
| Session store and API (`session_store.py`, `api/sessions.py`, `app.py`) | an ordered map of sessions with timestamps, and each session's `status` | `put`, `get`, `pop`; create, status and delete; `ws_endpoint` | the frontend, the handler |
| Event mapper, session builder, auth, config | none | conversions of events, requests and settings | the Azure session |
| Question client, question service (`question_client.py`, `src/question-service`) | none | questions by claim type, lookup of criteria, validation of an answer | the patterns |
| Frontend session (`useSession`, `useWebSocket`, `useRealtimeSession`, `useAudioCapture`, `useAudioVisualization`, the settings panel) | session id, status, settings, socket, microphone streams | start, end, change of pattern, the socket's callbacks | the API, the handler |
| Frontend log (`messageHandlers`, `useTranscript`, `useEvents`) | transcript, event log, token count, claim | one handler per message type, clear | the socket |
| Frontend views (`eventParser`, `timelineSpans`, the diagrams, call state, histogram, tokens, summary, app mode) | none: each is derived from the log | – | the log |
| Frontend playback (`useAudioPlayback`) | the audio context, `nextStart`, the sources in flight | play, flush, stop | the socket |

Also present and without a state of interest: health and pattern endpoints,
React components, the deployment files, the evaluation harness and the
end-to-end tests (read for what they expect of the program).

### Interactions and what is hard about them

A browser creates a session over HTTP, then opens a socket that carries only
the session's id. The socket's server thread takes the session from the store,
puts a coroutine on the shared loop with `run_coroutine_threadsafe`, starts a
watcher thread, waits up to 15 s for the connection and then polls two queues
until the call is over. On the loop, two coroutines read the browser's queue
and the Azure connection; the second answers function calls inline and
compacts the conversation after each response. The hard parts:

* **Three schedulers on one call.** The handler's thread, its watcher and the
  loop's coroutines meet in queues, an event and a future. Endings come from
  each side: the browser leaves, Azure closes, a send fails, the connection
  never comes, the future is cancelled. *Correct when*: what the browser is
  shown is what was produced, in order, each event once; nothing is lost when
  the session ends by itself; a failure is told; no thread or connection stays
  behind.
* **One agent in three places.** A transfer changes the pattern at once and
  Azure and the browser after awaits, while the model speaks on with the tools
  it was given. *Correct when*: the three agree whenever a tool is dispatched;
  the announced handoffs are one walk; every call is answered, once, in order.
* **A list that stands for a remote conversation.** Items are announced late
  and deleted one by one. *Correct when*: deletes go oldest first, the last
  messages stay, and the list accounts for the conversation.
* **A bounded store with a lock around part of it.** Eviction, expiry and
  deletion race sockets that write `status` outside the lock, and every worker
  has a store of its own. *Correct when*: no entry goes before its time, a
  socket runs what its session was created with, a session that reads as
  connected has a socket.
* **A singleton started by whoever is first.** *Correct when*: every caller
  gets a loop that runs.
* **A claim filled in across awaits.** A tool waits for the question service and
  perhaps for the supervisor; each may fail and the call may end at each. The id
  the model speaks need not be the catalogue's. *Correct when*: what is asked
  next follows from the verdicts that were given, and every verdict has its
  reason or its exchange.
* **Hooks whose callbacks outlive their render.** A request, a permission and a
  socket's close are answered late, after another start, end or change of
  pattern. *Correct when*: session, socket, settings, log and microphone belong
  to the call on the screen; the model says which overlaps part them.
* **One log, a dozen readers.** Every panel walks the event log by its own rules;
  the log outlives calls, is cleared in the middle of them and may miss the
  result of a tool. *Correct when*: the panels agree with each other and with
  the call.
* **A clock of its own under the voice.** Chunks are scheduled ahead, interrupted,
  and their ends reported late. *Correct when*: they sound in order, one at a
  time, none of before an interruption, and none of a call whose socket was closed
  when the user ended one.

PROJECT.json lists each hazard at its line, with the properties that cover it
or the reason none does.

## Modules

| module | models | proofs in |
|---|---|---|
| `EventStream` | what a stream promises: things appear in order, each once, none skipped, none after it closed | – |
| `Bridge` | what the handler's thread and the session share: `inbound`, `outbound`, `azure_ready`, the future | – |
| `AzureSession` | `run_azure_session`, `_read_from_browser`, `_read_from_azure`, `_handle_tool_call`'s steps, and Azure | – |
| `WebSocketHandler` | `handle_websocket`, `_bridge_loop`, `_watch_future`, and the browser | – |
| `VoiceCall` | the three above as one system; implements `EventStream` | `VoiceCallProofs` |
| `SequentialHandoff` | the agents, a transfer and the tool loop on one session; implements `EventStream` | `SequentialHandoffProofs` |
| `Compaction` | the strategies, the tracked items, the deletes and Azure's conversation | `CompactionProofs` |
| `Sessions` | the store, the REST endpoints and `ws_endpoint` of every worker | `WorkerProofs` |
| `EventLoop` | `get_shared_loop`, its lock and the threads it starts | `WorkerProofs` |
| `ClaimIntake` | the claim tools of both patterns, `ClaimSession`, the question client and service, the supervisor's verdicts | `ClaimIntakeProofs` |
| `RealtimeClient` | the browser's session, socket, settings and microphones, and the controls of both modes | `RealtimeClientProofs` |
| `LogViews` | what every panel derives from the event log, as operators | `CallLogProofs` |
| `CallLog` | how log, transcript, tokens and claim come about, and that the views of them agree | `CallLogProofs` |
| `Playback` | `useAudioPlayback` and its audio context | `PlaybackProofs` |

`VoiceCall` EXTENDS `AzureSession` and `WebSocketHandler`, which both EXTEND
`Bridge`: a step of the call is a step of one side with the other's variables
unchanged. `SequentialHandoff` and `Compaction` open up what `AzureSession`
leaves to choice – what a tool call answers, and what a compaction selects – and
`ClaimIntake` opens up the domain tools of `SequentialHandoff`. `CallLog` EXTENDS
`LogViews`; its messages come in the order that `VoiceCall` is proved to keep.
`RealtimeClient`, `CallLog` and `Playback` share the hook `useRealtimeSession`, and
each has its start, end and change of pattern as far as its own state goes.
A definition marked `Fault` is the definition after it with a plausible bug; no
specification uses it, and PROJECT.json says which property it breaks.

### VoiceCall (Bridge, AzureSession, WebSocketHandler)

* **Grain.** Between two awaits a coroutine is one step; a thread takes one
  step per use of something shared. A queue operation is atomic, as in
  `queue.Queue`.
* **Threads.** `handler` is the statement `handle_websocket` is at: `waitReady`
  (`SeeReady`, `TimeOut`), `checkError`, the bridge loop `test` → `drain` →
  `receive`, then `putStop`, `finalDrain`, `emitClosed`, `cancel`, `join`,
  `returned`. `why` keeps the reason the bridge ended. `watcher` is
  `_watch_future`: `SeeResult` (with the error put on the queue), `SetDone`,
  `PutStopEvent`.
* **Coroutines.** `session` is `run_azure_session` up to and after `gather`;
  `reader` is `_read_from_browser`, `receiver` is `_read_from_azure` with the
  states of a tool exchange (`tool`, `output`, `update`, `respond`) and of a
  compaction (`compact`).
* **Cancellation.** `CancelFuture` asks; `DeliverCancel` is the loop delivering
  it at whichever await each coroutine is at. At the await inside
  `_recv_with_shutdown` (`receiver = "reap"`) it is swallowed, as the code does.
* **Queue entries** carry the position in `log` of their event, so that two
  events of one type are told apart; `log` is a history variable. Events the
  handler emits itself (`error`, `session.closed`) are the set `told`.
* **Left out or merged.** The read timeout of `_read_from_browser` changes no
  state, since only that coroutine sets `shutdown` (its stutter is not an
  action). A `queue.get` of a cancelled reader goes on in its executor thread
  and may still consume the STOP: nothing reads the queue then, so only the
  queue differs. A cancellation that arrives while the connection is closing is
  taken as the closing. Payloads, conversions and wording are data; an event is
  of a kind the code treats alike (`plain`, `silent`, `response.done`, `tool`),
  a frame `audio`, `text`, `switch` or `ignored`.

### SequentialHandoff

`current` is the pattern's agent, `configured` the agent whose prompt and tools
Azure's session has, `shown` the browser's. `SpeechStartsResponse` fixes the
tools of a response; `ModelCalls` appends calls as the model completes them,
also while an earlier one is being handled. `HandleTransfer`,
`HandleDomainTool`, `HandleUnknown` are the dispatch of `handle_tool_call`;
`ToolReturns`, `SendOutput`, `SendUpdate`, `SendResponse` the rest of
`_handle_tool_call`. A tool that raises is answered like one that returns, as
in the code. `MadeUp` lists tools a model may call without having been given
them; a transfer is named by its agent. What a domain tool computes is left
out. Azure acts on a message as it is sent, and a `response.create` during a
response leaves that response running.

### Compaction

An item is its position in the order Azure created it; `messages` are those
`_track_conversation_item` tracks. `wire` holds announced items and finished
responses until the reader handles them (`HandleCreated`, `HandleDone`);
`deleting` is what `select` returned and `SendDelete` sends one at a time, while
Azure creates items. `strategy` is what `make_strategy` returned, fixed for the
call. A delete has an effect while the connection is open; `tracked` and
`deleted` are history variables.

### Sessions

A session is `<<worker, n>>`, the n-th that worker created. `CreateSession`,
`GetSessionStatus`, `DeleteSession` are the endpoints with the store's `put`,
`get` and `pop`, each atomic under the lock and each with the expiry and
eviction that the call performs. A socket is a thread that goes `idle` →
`found` → `calling` → `leaving` (`OpenSocket`, `SetConnected`, `LeaveCall`,
`SetDisconnected`): the status is written in steps of its own, outside the lock.
Time does not go back, so the order of insertion is the order of timestamps, and
`put`'s eviction loop removes at most one entry. A socket
without an id does what one does whose session is not there. Restarts of a
worker are not modelled.

### EventLoop

One step per read or write of `_shared_loop`, per use of what was read, of the
lock and of the ready event. `Check` and `Recheck` read the global, `IsRunning` and
`StillNotRunning` ask the loop that was read, `StartThread` starts the thread, and
`ReturnShared` reads the global again, as each of the three `return _shared_loop`
does. The thread assigns, sets ready, reads the global once more (`Load`) and runs
what it has read (`RunForever`; asyncio's own test that the loop does not run yet is
one step with taking it).
`WaitExpires` says whether the 5 s wait may end first.

### ClaimIntake

A question is its words, its category and the answers its criteria accept; a
spoken id is a set of words with the form it was given in – the catalogue's own
(`id`), a spelling the service normalises to it (`spelt`), or words in an order
of their own (`words`). `Named` and `Alike` are the exact and the fuzzy match of
`_find_criteria_by_question_id`, `First` its catalogue order. `pc` is the await a
tool is at: `service`, `supervisor`, `submit` (which has none, and is a step of
its own), then `send`. `QuestionsFetched(<<>>)` and `AnswerRefused("unreachable")`
are requests that fail, `SupervisorFails` a consultation that does;
`ReaderEnds` is a failed send or a cancellation, and leaves what the pattern
queued where it is. What the supervisor says is a choice. What is submitted is
the model's own argument and is reviewed by the supervisor only, so it is no
state here. `MCClaimIntake` has six questions of the real catalogue, in its order,
and three answers with what `validator.py` says of each.

### RealtimeClient

A session, its POST and its socket have one number. `Start`, `Created`,
`CreateFails` are `startSession` up to and after its await, `EndSession`, `EndAnswered`
those of `endSession`, each with the values its closure captured. A socket has
the states of the browser's (`connecting`, `open`, `closing`, `closed`); `Closed`
may come long after `Disconnect`. A microphone stream is asked for, granted or
denied, held, or left on when nothing refers to it. `slips` is a history
variable: it names an overlap when it happens (a start or an end repeated while
one is under way, an old socket closing late, an edit while the request is under
way, a start that failed, an answer to a POST that was lost although the session was
made, a DELETE that was not carried out, a call ended by a change of pattern, a stop
before the permission). `onServer` is one too: the sessions the server made for this
client and no DELETE removed, whatever the client knows of them. Each property says under which of them it holds (`Without`); the overlaps it
names are those that do break it in this code, and no other.
An edit that nothing captures is no action; app mode and text mode are
arguments of the actions that depend on them.

### CallLog and LogViews

`CallLog` is `dispatchMessage` (`ToEffects`, `MakeEvent`, `AddMessage`,
`UpdatePartial`, `AddUsage`) over the messages the backend sends in its order: the
`Greeting` of the handler and the session; a response that thinks, speaks or calls a
tool; the called event, the result, the handoff's events or the supervisor's exchange
one by one (`outbound`); what compaction deleted behind a response; what Azure says of
itself, a type that no handler is for included, which `onUnknown` logs as it comes
(`Announced`, constant `Unknown`); and `session.closed` when the session ends by itself
(`SessionClosed`). The call may end between any two. Of the types the browser has a
handler for, none that the backend never sends it is here: `pattern.switching`
answers a `pattern.switch` that the browser does not send. The position of an event stands for its
timestamp; a duration is never compared. `LogViews` has one operator per derived
view, with the walk of the code as a `Walk` – a sequence of functions applied one
after the other – where the order matters and as a set where it does not; a `switch`
on the type of an event is a `Table`. Two different panels that show the same thing are two
operators, which is the point of the properties.

### Playback

Time is `AudioContext.currentTime`: it starts at 0 in each context and `Tick`
advances it. `PlayChunk` schedules a source behind `nextStart` or now;
`FlushAudio` stops the tracked ones; `OnEnded` is the callback, at any time after
a source's end; `End` is `handleEnd`, which flushes and closes the context.
The hook knows no calls, and whatever socket is open is heard (`PlayChunk`): a socket
may open beside another (`Opened`), close without the playback being told (`Closed`,
which is also what a change of pattern does), or stay open beyond an `End` that no
longer has the reference to it, as `RealtimeClient` shows. `silenced` and `cut` are
history variables. Conversion to samples is left out.

## Runs

Each run answers one question; PROJECT.json has them with their properties.

| run | bounds | distinct states | shows |
|---|---|---|---|
| `call_safety` | one server event and one frame, of every kind | 2.6 M | types; the browser's stream implements `EventStream` (`RefinesEventStream`); a session that ends by itself has delivered everything before `session.closed` (`NoLossOnSelfEnd`); a failed session is reported (`FailureReported`) |
| `call_live` | one plain event, one frame of audio or text | 48 k | `BrowserGoneHandlerReturns`, `SelfEndAnnounced`, `WatcherReleased`, `LateSessionCloses` |
| `handoff` | four function calls, an unknown and an out-of-turn tool | 50 k | the three views agree (`ViewsAgree`), the history is one walk (`HistoryIsWalk`), outputs implement `EventStream` over calls (`AnswersInOrder`), and come (`CallsAnswered`) |
| `compaction` | each strategy; eight items, two responses | 3.9 M | `OldestFirst`, `RecentKept`, `ListMatchesConversation` |
| `sessions` | one worker, two sockets, three sessions, a store of two | 2.6 M | `StoreHoldsTheDue`, `ConnectedHasSocket`, `PanelReachesCall` |
| `loop_start` | three first callers; the wait may expire | 153 k | `SettledStays`, `GetReturns`, `SharedLoopRuns` |
| `intake` | both patterns, three tool calls, six questions, six ids, three answers | 1.8 M | offers follow the verdicts shown (`AsksWhatIsMissing`); every verdict has a reason or an exchange, which is of its own call (`VerdictsExplained`) |
| `client` | two calls, two ends, one changed setting, up to four kinds of overlap | 1.3 M | `BadgeTruthful`, `SocketsFollowSession`, `NothingForgotten`, `RunsAsShown`, `LogOfShownPattern`, `MicOnlyInCall` |
| `log` | four starts, tool calls, messages and clears together; two questions, one type of message without a handler | 560 k | the panels agree on the agent (`AgentViewsAgree`), on tool calls (`ToolViewsAgree`), on the claim's fields (`FieldsSound`) and on totals (`TotalsAgree`) |
| `playback` | four chunks of two lengths, two calls, two ticks | 2.8 M | `PlaysInOrder` |
| `call_readers` | one event | – | violation, [below](#where-the-code-and-its-documents-differ) |
| `sessions_workers` | two workers | – | violation |

### Why the bounds are enough

* **Calls.** The event and the frame are in flight at once, next to the
  prologue's two events, the watcher's error and the stop sentinel, so the
  outbound queue holds several entries and every pair of handler steps can fall
  between two puts. All kinds are in one run. That more events change nothing
  is what the proofs add: they assume no bound. The liveness run has frames of
  both kinds that may fail to be sent, because a failed send is how a session
  ends by itself; tool calls are left to `handoff`, which checks that each is
  answered.
* **Handoff.** Four calls reach every agent and come back to one that was left
  (greeter, top-level Q&A, claims, summary, claims again), or take three
  transfers and a domain tool, an unknown one, a repeat or a second transfer of
  the same response at any point. The safety properties are proved for any number.
* **Compaction.** Eight tracked messages is the first length at which a quarter
  of the list is two, so `TokenBudget` pops more than one; the tokens are below
  and above the budget of four, so that one turn, and only two turns, cross it,
  and the put-back sum hits zero. Six messages more than the window of two makes
  `RollingWindow` delete several at once. Two responses make a second selection
  over a list that has already been cut.
* **Sessions.** Three sessions for two places force an eviction, the clock takes
  an entry past its life (`TTL = 0`, one tick: the entry is valid at its own time
  and expired one tick later), and two sockets on one session interleave their
  status writes.
* **EventLoop.** Three callers: one that starts the loop, one that races it and
  one that comes in whatever state the two left.
* **Claim intake.** Three tool calls answer a question, ask what is next and
  answer again under another id or with another answer, with a failure at any
  request. The catalogue's part has what makes the lookup hard: an id that is
  part of another's words, one that no question is called, an earlier question
  whose words the exact match shares. Both properties are proved for any catalogue.
* **Client.** Two calls and two ends overlap in every pair of ways: two requests,
  two sockets and two permissions are under way at once. A run is followed until it
  shows a fourth kind of overlap (`FewSlips`), by when most properties have an
  exception; they are proved for any number of calls, ends and overlaps.
  One device, as the two hooks run the same code; one setting, as all are captured
  alike.
* **Log.** Four steps are two calls, or one with three tool calls: a lost result,
  a repeat of the same tool and a result that must find its own call; a handoff,
  a clear, and a second call that goes on in the log; two answers to one question.
  A tool call counts as one step of the bound, however many events it sends.
* **Playback.** Four chunks are two before an interruption and two after, or of
  two calls, one after the other or at once; lengths of one and two let a source end
  while the next waits; proved for any lengths and numbers.

`CHECK_DEADLOCK FALSE` is set where the system stops by design: a call that is
over, a server without requests, a browser whose user does nothing more (the
bounds on steps end the frontend's runs). `SequentialHandoff`, `Compaction` and
`EventLoop` have an explicit `Over` step instead, and deadlock is checked.

## Fairness

* `VoiceCall`: weak fairness of the session, of each reader, of the handler and
  of the watcher: asyncio runs every ready coroutine, the operating system every
  thread, and each wait in them has a timeout or polls. Nothing is assumed of
  Azure (connecting, answering, closing) or of the browser. That the loop runs at
  all is the promise of `get_shared_loop`; there is one race in which it does not
  hold for the first call ([below](#where-the-code-and-its-documents-differ)).
* `SequentialHandoff`: weak fairness of the receiver's steps. The receiver waits
  for a tool; the question client's requests have a timeout, and what they
  raise is answered like a result. For the chat supervisor, whose model has no
  timeout in this repository, nothing is claimed.
* `EventLoop`: weak fairness of every caller and every thread; `wait(timeout=5)`
  ends by itself.
* `Compaction`, `Sessions`, `ClaimIntake` and the frontend's modules state safety
  only: what they wait for is a network, a model or a user, whom nothing obliges.

## Proofs

`tlapm` checks every theorem for all values of the constants. The assumptions
are those the modules state of their constants (counts are natural numbers, a
store has at least one place, event kinds are among those modelled) and, for one
theorem, that there is a single worker. `CatalogueAssumption` of `CallLog` is what the
panels rely on of `questions_data.py`: finitely many questions, fewer than 200 (with
200, `Math.round` shows 100 % while one field is still open), and no id that
the grid takes for a place by `city` or `intersection` alone (`data.location` would not
be set). It is about the catalogue's own ids, which are the ones `CallLog` answers; an id
the model makes up is in `ClaimIntake`.

| theorem | says | rests on |
|---|---|---|
| `VoiceCallProofs!TypeCorrect` | `TypeOK` | `FlagsCorrect`, `QueuesCorrect`, `SessionTypes`, `HandlerTypes` |
| `ImplementsEventStream` | `Spec => RefinesEventStream` | `QueueInvariant`, `StreamStep`, `StreamClosedCorrect` |
| `SelfEndLosesNothing` | `NoLossOnSelfEnd` | `AllSentInvariant`, with `PhaseInvariant` and `StopInvariant` |
| `FailuresAreReported` | `FailureReported` | `ErrorLoggedInvariant`, `AllSentInvariant` |
| `SequentialHandoffProofs!TypeCorrect`, `OneAgentOwnsTheCall` | `HandoffTypeOK`, `ViewsAgree` | `ProgressInvariant` |
| `HistoryIsOneWalk` | `HistoryIsWalk` | `WalkInv` |
| `CallsAnsweredInOrder` | `Spec => AnswersInOrder` | `OutputsInvariant` |
| `CompactionProofs!TypeCorrect` | `CompactionTypeOK`; the running sum never goes below zero | `SelectBound`, `PopLengths` |
| `DeletesOldestFirst` | `OldestFirst` | `StretchesInvariant` |
| `RecentMessagesStay` | `RecentKept` | `SelectBound`, `AscendingInvariant`, `PresentInvariant` |
| `ListAccountsForConversation` | `ListMatchesConversation` | `ElementsAppend`, `ElementsTail`, `ElementsPop`, `DeletedOnce`, `ListInvariant` |
| `WorkerProofs!TypeCorrect`, `StoresStaySmall` | `SessionsTypeOK`, `WithinCapacity` | `KeptFits` |
| `DueSessionsStay` | `StoreHoldsTheDue` | `OldestIsLeast`, `KeptFits`, `GetIsLookup` |
| `ConnectedIsServed` | `ConnectedHasSocket` | `OnlyCreatedInvariant` |
| `OneWorkerReachesCall` | with one worker, `PanelReachesCall` | `DueSessionsStay` |
| `WorkerProofs!LoopTypeCorrect`, `SettledLoopStays` | `LoopTypeOK`, `SettledStays` | `SharedIsSet` |
| `ClaimIntakeProofs!OffersFollowVerdicts`, `VerdictsHaveReasons` | `AsksWhatIsMissing`, `VerdictsExplained` | `IntakeInvariant`, with `ReturnKeeps`, `SendKeeps`, `CollectedGrows`, `OffersStay`, `ServiceIsFair` |
| `PlaybackProofs!AudioPlaysInOrder` | `PlaysInOrder` | `PlaybackInvariant` |
| `RealtimeClientProofs!TypeCorrect` | `ClientTypeOK`: the settings sent are always among those offered | `SettingsOffered`, `TypesKept` |
| `SocketsFollowTheSession` | `SocketsFollowSession` | `AgreementKept`, `NoStrayKept` |
| `BadgeTellsTheTruth` | `BadgeTruthful` | `BadgeKept`, `ConnectEffect` |
| `SessionsAreDeleted` | `NothingForgotten` | `KnownKept`, `OneStartKept`, `StepEffect` |
| `CallsRunAsShown`, `LogIsOfThePattern` | `RunsAsShown`, `LogOfShownPattern` | `ShownKept`, `OpenIsShown`, `LogKept` |
| `MicrophoneFollowsTheCall` | `MicOnlyInCall` | `StreamsKept` |
| `CallLogProofs!LogTypeCorrect` | `LogTypeOK`, with what is still to be sent of a tool call | `StepEffect` |
| `AgentsAgree` | `AgentViewsAgree` | `LogInvHolds`, for `Told`, `Moved`, `Listed` |
| `ToolsAgree` | `ToolViewsAgree` | `LogInvHolds`, for `Numbered`, `Current`, `Paired` |
| `FieldsTruthful` | `FieldsSound` | `LogInvHolds`, for `Filled`, `Marked`; `ProgressFull` |
| `TotalsAdd` | `TotalsAgree` | `LogInvHolds`, for `Added`, `Claimed` |

### The arguments

* **A call.** `StepEffect` sorts all steps by what they do to the queue: put
  events, put the stop, drain, nothing. `QueueInv` then says that positions
  travel in order: what was sent is 1, 2, …; what is queued is later and
  ascending; and for a browser that is there nothing is missing between the two.
  That alone gives the refinement, since `Stream!Next` needs only "one more
  event, the next one". That nothing is lost at the end needs the phases of the
  call (`PhaseInv`: an uncancelled future resolves after both readers ended; the
  bridge leaves on `azure_done` only after that) and `StopInv`: unless the call
  was cancelled, nothing is queued behind the stop sentinel, so that the drain
  that returns at the sentinel has drained everything (`DrainedIsAll`).
  `NoLossOnSelfEnd` is not inductive without these: its step at the last drain
  relates the queue to a watcher that ran much earlier.
* **A handoff.** `Progress` says, for each statement of `_handle_tool_call`,
  which of the three views has moved; `ViewsAgree` is its value at the states
  where another call can be dispatched. `WalkInv` adds the handoff that has
  happened and is not announced.
* **Compaction.** `Stretches`: `deleted`, `deleting` and `items` are consecutive
  stretches of `tracked`. `Ascending`: items are announced in the order of
  creation, so that a deleted item is none of the later ones. `Present`: only
  deleted items have left Azure, and the strategy left enough of `items`. From the
  same conjuncts an item under deletion occurs once among all of them
  (`DeletedOnce`), so each step moves one item between Azure, the announcements, the
  list and the deletes, and they go on agreeing (`ListInvariant`).
* **Sessions.** `put` keeps all live entries but the oldest, and an entry it
  evicts has the store's whole capacity created after it; so an entry with fewer
  successors is safe. A connected status is written by a thread that then has
  the call, and that overwrites it before it leaves.
* **The loop.** Once the shared loop runs, no thread is on its way and no holder of
  the lock has found it not running, what the next holder reads is the loop that
  runs; it is found to run, so nobody starts another. The exception is needed: a
  holder that asked just before the loop began to run starts its thread all the
  same, and that thread replaces the global.
* **An intake.** `IntakeInv` adds to the two properties what a waiting tool knows:
  a category fetched is the one of its own call, and the exchange that waits to be
  put out belongs to the last result in the log. A step then either appends to the
  log what the state says, or leaves it; offers and verdicts already shown are
  about earlier positions and stay (`OffersStay`). What is collected is a function
  of the accepting results, so an accepting step moves both alike. That an answer
  the service accepts has merit needs that the exact match, if there is one, is
  the only one, which is the assumption that no two questions have the same words.
* **Playback.** `PlaybackInv` says that whatever may still sound is tracked
  (so a flush reaches it), that what is tracked is no call's whose socket was closed
  at an end, and that the next chunk starts behind all of it. `CutOff` and
  `EndedCallsSilent` follow; neither is inductive by itself.
* **The browser's session.** Each property says that one thing follows another
  *unless* certain overlaps happened, and an overlap, once noted, stays
  (`StepEffect`): a step has to keep a property only where it causes none of its
  overlaps. What the properties need beside each other is when at most one request
  is under way (`OneStart`), when at most one DELETE is and what holds of session and
  socket meanwhile (`OneCall`), that a request carries what the screen shows while it
  is under way (`AskedAsShown`), and that at most one microphone stream is asked for,
  granted or held (`OneStream`). `NothingForgotten` follows DELETE by DELETE: the one
  under way is that of the session shown, and when it is done neither is left. The proof corrected the model: with three calls, a
  DELETE answer of a repeated end resets the state of a newer call, whose connecting
  socket is then replaced; so `NoStraySocket` has a repeated end among its exceptions,
  which two calls, the run's bound, cannot show.
* **The log's views.** A view is a walk over the whole log, and what it makes of a log
  of any length cannot be had by induction over the log. It is had from the invariant
  instead: `WalkStep` says that one more event applies the view's function once more, and
  `LogInv` says of each view what its value is in terms of the log's positions, without
  the walk. `Effect` sorts all steps by what they do to the log: append the call
  of a tool, its result, or another event; empty it; leave it. Each part has one
  lemma per effect. `Numbered` and `Current` (tool calls are numbered in order, and the
  result that is awaited is of the last) are what makes "the newest open call" the own
  one in `Paired`, and the question of the last call the one answered in `Filled`;
  `Marked`, of the panel that marks the first unmarked field, can be stated for smooth
  logs only, as the panel goes wrong in others.

### Only model-checked

* Liveness (`BrowserGoneHandlerReturns`, `SelfEndAnnounced`, `WatcherReleased`,
  `LateSessionCloses`, `CallsAnswered`, `GetReturns`, `SharedLoopRuns`): the
  prover does not reason about fairness and ENABLED.
* Induction over data and RECURSIVE operators are out of the prover's reach. The
  modules have no RECURSIVE operator; where a walk over a sequence needs a law
  (`WalkExists`), the proof takes the least counterexample
  (`LeastNumber`).

Every invariant of a passing run is proved.

## Where the code and its documents differ

Two disagreements have a run whose counterexample shows them (PROJECT.json quotes
the documents):

* `call_readers` – the reader of Azure ends (Azure closed, or a send of a tool
  result failed) without setting `shutdown`; the reader of the browser goes on
  polling and the call stays open and deaf.
* `sessions_workers` – with two workers, the socket may reach the worker that did
  not create the session; it runs chat-supervisor without the panel's settings.

The models show these too, or they are plain from the code; none has a run of its
own.

*A call.*

* A cancellation that arrives inside `_recv_with_shutdown` is swallowed
  (`azure_session.py:198-203`): the handler has returned, and the Azure connection
  stays open until Azure closes it. `session-lifecycle.md:80-81` has the
  connection closed when the browser's socket is.
* `session.closed` is not emitted on the timeout and error returns
  (`websocket_handler.py:59-69`, against `events-compaction.md:95`).
* Of two first callers, one may be given a loop that never runs, as `ready` is set
  before `run_forever` (`event_loop.py:40-41`, against `architecture.md:24-26`);
  two loops may then run (against `event_loop.py:1`).
* A second transfer of one response is checked against all agents, not against the
  current agent's `handoffs` (`sequential_handoff.py:295`, against
  `sequential-handoff.md:17-18`).
* `TokenBudget` sums the input tokens of the turns, each of which counts the whole
  context already, and deletes below the budget (`compaction.py:48`, against
  `SessionConfigPanel.tsx:47`).
* Function calls and their outputs are never tracked, so `RollingWindow` does not
  cap the items of a conversation (`azure_session.py:236`, against
  `events-compaction.md:194`); `compaction.applied` carries a count where
  `events-compaction.md:92` says ids.

*A claim.*

* `validation.md:51-52`: the supervisor can reject an answer that the validator
  accepted. It is not consulted on one (`chat_supervisor.py:139-141`).
* `chat-supervisor.md:34-35`: it invents the next question when no canned ones
  remain. It is consulted when the fetch gives nothing (`chat_supervisor.py:124`);
  when all are answered the result is an empty list.
* `chat-supervisor.md:42`: every consultation emits an exchange. One that fails
  emits none (`supervisor_client.py:78-80`), and one whose output cannot be sent
  is never put out.
* `validation.md:19`, 79-80, `chat-supervisor.md:47`, 67-68 and the messages of
  `mock.capture.spec.ts:126-134`, 195-202 have the exchange before the result of the
  call it is of. The code puts `tool.result` out first, sends the output to Azure and
  then drains the exchange (`azure_session.py:288-293`, 181-182). `VerdictsExplained`
  asks that the two are of one call and leaves their order open.
* `scaling.md:42-45`: what is offered is what is still missing. An answer accepted
  under another spelling of the id is recorded under that spelling
  (`models.py:17`, 20), so its question is offered again; `AsksWhatIsMissing` says
  exactly what is.
* A submission is judged by the data the model sends with it, not by what was
  recorded (`chat_supervisor.py:158`, `sequential_handoff.py:336`), and a repeated
  one gets another claim number.

*The browser.*

* `transcript.delta` is among the suppressed types (`constants.ts:36`) and dropped
  before its handler (`messageHandlers.ts:253`), so that no partial message is ever
  made; `mock.transcript.spec.ts:16` tests that one shows.
* `useAudioPlayback.ts:7`: a new response interrupts the audio before it. Only
  `audio.started`, the user's voice, flushes.
* `setPattern` ends the call without stopping the microphone or the playback and
  keeps the claim on show (`useRealtimeSession.ts:65`).
* The close of an old socket clears the reference to a newer one
  (`useWebSocket.ts:33`): the end of the call does not close that one, and its agent
  is heard on.
* A POST whose answer is lost or is no JSON, and a DELETE that fails or is refused,
  leave a session on the server that the client does not name again
  (`useSession.ts:29-30`, 51-54).
* `PromptDiffPanel.tsx:46`, "Auto-select latest", selects the first that comes and
  stays there.
* `CallStatePanel.tsx:107` gives a verdict to the first field without one, not to
  the one that was checked; `eventParser.ts:90-94` marks every answered field
  validated on any result of a submission, an incomplete one included.
* `CallSummary.tsx:63` counts calls and results together as tool calls;
  `ApiHistogram.tsx:38` pairs a result with the oldest open call of its tool, which
  is another's once a result was lost, and 55 counts a result without a call as a
  success.
* After Clear in the middle of a call the panels fall back to the greeter until the
  next handoff; a second call in one log starts with the agent of the first.
* `phi4-mm-realtime` is offered (`SessionConfigPanel.tsx`) and has no price of its
  own (`costEstimator.ts:33`).

Known hazards without a property, as nothing in the repository says what should
happen: the status of a session with two sockets, of which one leaves
(`app.py:67`); the status of a call that outlives its entry
(`session_store.py:50`); four calls that hold all four threads of a worker
(`websocket_handler.py:59`); `response.create` sent while a response runs, which
Azure answers with an error event (`azure_session.py:298`).

## What is not modelled

* **The session builder, authentication, configuration**: the session request is
  built from the settings without any state; a model would be the table again. That
  the settings reach it is in `RealtimeClient` and `Sessions`.
* **Health and pattern endpoints, the registry**: constants.
* **The question service's validators**: patterns over text; a question is the set of
  answers it accepts. Its glossary and top-level list keep no state.
* **Frontend components that only draw**: expanding, zooming, drawing, the prompt
  diff's selection, a health request every 30 s. Durations, wording and icons of the
  modelled views.
* **The conversion of samples, events and frames** (`pcm16.ts`, `event_mapper.py`):
  kinds are modelled, payloads are not.
* **Azure, the models, the network and the user**: external; they are what the code
  may observe of them.
* **Deployment, evaluation harness, tests**: read, not modelled; `start.sh`'s
  workers and threads are constants of `Sessions`. A restart of a worker loses all
  its state, as nothing is stored.
