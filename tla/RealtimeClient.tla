--------------------------- MODULE RealtimeClient ---------------------------
(***************************************************************************)
(* The browser's side of a call: the session state that useSession keeps,  *)
(* the socket of useWebSocket, the microphone streams of useAudioCapture    *)
(* and useAudioVisualization, the settings panel, and the controls that    *)
(* developer mode and app mode offer.  The server, the network, the        *)
(* permission prompt and the user are the environment.                     *)
(*                                                                         *)
(* The hooks read and write React state from callbacks that outlive the    *)
(* render they were made in: requests are answered late, sockets close     *)
(* late, and a permission is granted late.  slips is a history variable    *)
(* that names each such overlap when it happens; the invariants below say  *)
(* which of them, and only which, can break the client's bookkeeping.      *)
(***************************************************************************)
EXTENDS Integers, FiniteSets

CONSTANTS
  MaxCalls,      \* how often the user starts a call (bounds the model)
  MaxEnds,       \* how often a call is ended (bounds the model)
  Devices,       \* the hooks that ask for a microphone stream
  Choices        \* what the user picks in the settings panel, by setting

None == 0        \* null, for a session id and for wsRef

Patterns == {"chat-supervisor", "sequential-handoff"}

SessionStatus == {"idle", "connecting", "active", "ended"}

Slips == {"double_start", "double_end", "late_close", "edit", "failed_start",
          "lost_answer", "failed_delete", "pattern_end", "early_stop"}

\* The values each control of the settings panel offers; temperatures and
\* thresholds in hundredths.
Models == {"gpt-realtime", "gpt-realtime-mini", "gpt-realtime-1.5",
           "gpt-4o-realtime-preview", "gpt-4o-mini-realtime-preview", "phi4-mm-realtime"}

Voices == {"Aria", "Ava", "Andrew", "Emma", "Brian", "alloy", "echo", "shimmer"}

TurnDetectionModes == {"semantic_vad", "server_vad", "none"}

NoiseReductionModes == {"far_field", "near_field", "off"}

CompactionStrategies == {"off", "rolling_5", "rolling_10", "token_budget_4k"}

Offered ==
  [ model              |-> Models,
    temperature        |-> {10 * n : n \in 6 .. 12},
    voice              |-> Voices,
    turnDetection      |-> TurnDetectionModes,
    noiseReduction     |-> NoiseReductionModes,
    echoCancellation   |-> BOOLEAN,
    vadThreshold       |-> {5 * n : n \in 2 .. 18},
    silenceDurationMs  |-> {100 * n : n \in 2 .. 20},
    maxOutputTokens    |-> {"inf", "256", "512", "1024", "2048", "4096"},
    compactionStrategy |-> CompactionStrategies ]

SessionConfig ==
  [ model : Offered.model, temperature : Offered.temperature, voice : Offered.voice,
    turnDetection : Offered.turnDetection, noiseReduction : Offered.noiseReduction,
    echoCancellation : Offered.echoCancellation, vadThreshold : Offered.vadThreshold,
    silenceDurationMs : Offered.silenceDurationMs,
    maxOutputTokens : Offered.maxOutputTokens,
    compactionStrategy : Offered.compactionStrategy ]

DefaultSessionConfig ==
  [ model |-> "gpt-realtime", temperature |-> 80, voice |-> "Aria",
    turnDetection |-> "semantic_vad", noiseReduction |-> "far_field",
    echoCancellation |-> TRUE, vadThreshold |-> 50, silenceDurationMs |-> 500,
    maxOutputTokens |-> "inf", compactionStrategy |-> "off" ]

ASSUME ClientAssumption ==
  /\ MaxCalls \in Nat /\ MaxEnds \in Nat
  /\ Devices \subseteq {"capture", "visualization"}
  /\ DOMAIN Choices \subseteq DOMAIN Offered
  /\ \A s \in DOMAIN Choices : Choices[s] \subseteq Offered[s]

Calls == 1 .. MaxCalls

VARIABLES
  pattern,       \* the pattern the header shows
  config,        \* the settings the panel shows
  session,       \* what useSession keeps of the session
  starts,        \* POST requests sent so far; the number of the last one
  posts,         \* those not answered yet
  request,       \* what POST number k asked for
  created,       \* the sessions the browser knows to exist
  ends,          \* calls of endSession so far
  deletes,       \* DELETE requests not answered yet
  onServer,      \* history: the sessions the server made for this client and
                 \* no DELETE has removed
  sockets,       \* the state of each session's socket
  wsRef,         \* the socket useWebSocket refers to
  isConnected,   \* what the status bar reports
  log,           \* the sessions with messages in the transcript and event log
  mics,          \* per device: permissions asked, stream held, streams left on
  slips          \* history: the overlaps that happened so far

callVars == <<session, starts, posts, request, created, ends, deletes, onServer>>
wsVars   == <<sockets, wsRef, isConnected>>
uiVars   == <<pattern, config>>
vars     == <<uiVars, callVars, wsVars, log, mics, slips>>

Init ==
  /\ pattern = "chat-supervisor" /\ config = DefaultSessionConfig
  /\ session = [status |-> "idle", sessionId |-> None, pattern |-> "chat-supervisor"]
  /\ starts = 0 /\ posts = {} /\ created = {}
  /\ request = [k \in Calls |-> [pattern |-> "chat-supervisor",
                                 config |-> DefaultSessionConfig]]
  /\ ends = 0 /\ deletes = {} /\ onServer = {}
  /\ sockets = [k \in Calls |-> "none"] /\ wsRef = None /\ isConnected = FALSE
  /\ log = {}
  /\ mics = [d \in Devices |-> [asked |-> 0, held |-> FALSE, left |-> 0]]
  /\ slips = {}

(***************************************************************************)
(* What the screen offers.  The header switches the mode of the app and    *)
(* the text mode at any time and nothing else depends on them, so they are *)
(* no state of this module: an action takes the mode it is offered in.     *)
(***************************************************************************)
IsActive == session.status = "active"

\* VoiceArea disables its button while connecting, AppModeChat does not.
StartOffered(appMode) ==
  /\ ~IsActive
  /\ appMode = "developer" => session.status # "connecting"

\* The label of the connection badge.
ConnectionStatus ==
  IF isConnected THEN "connected"
  ELSE IF session.status = "connecting" THEN "connecting" ELSE "disconnected"

(***************************************************************************)
(* useWebSocket                                                            *)
(***************************************************************************)
Live(k) == sockets[k] \in {"connecting", "open"}

\* Fault: only a socket that is open is closed.
DisconnectOpenOnly ==
  /\ sockets' = [k \in Calls |-> IF k = wsRef /\ sockets[k] = "open" THEN "closing"
                                 ELSE sockets[k]]
  /\ wsRef' = None
  /\ isConnected' = FALSE

\* disconnect(): the socket referred to is closed, its close event comes later.
Disconnect ==
  /\ sockets' = [k \in Calls |-> IF k = wsRef THEN "closing" ELSE sockets[k]]
  /\ wsRef' = None
  /\ isConnected' = FALSE

\* connect(k): nothing if the socket referred to is open; one that is still
\* connecting is replaced and stays without a reference.
Connect(k) ==
  /\ IF wsRef # None /\ sockets[wsRef] = "open"
       THEN UNCHANGED <<sockets, wsRef>>
       ELSE /\ sockets' = [sockets EXCEPT ![k] = "connecting"]
            /\ wsRef' = k
  /\ UNCHANGED isConnected

(***************************************************************************)
(* The microphone: each hook asks for a stream of its own.                 *)
(***************************************************************************)
Ask(ds) == mics' = [d \in Devices |-> IF d \in ds THEN [mics[d] EXCEPT !.asked = @ + 1]
                                      ELSE mics[d]]

\* stopCapture and stopVisualization: only the stream the ref holds is stopped.
Release == mics' = [d \in Devices |-> [mics[d] EXCEPT !.held = FALSE]]

\* getUserMedia resolves: the ref is overwritten, a stream it held stays on.
Granted(d) ==
  /\ mics[d].asked > 0
  /\ mics' = [mics EXCEPT ![d] = [asked |-> @.asked - 1, held |-> TRUE,
                                  left |-> IF @.held THEN @.left + 1 ELSE @.left]]
  /\ UNCHANGED <<uiVars, callVars, wsVars, log, slips>>

\* getUserMedia rejects.
Denied(d) ==
  /\ mics[d].asked > 0
  /\ mics' = [mics EXCEPT ![d].asked = @ - 1]
  /\ UNCHANGED <<uiVars, callVars, wsVars, log, slips>>

MicOn(d) == mics[d].held \/ mics[d].left > 0

(***************************************************************************)
(* useSession                                                              *)
(***************************************************************************)
\* handleStart: startSession up to its request, then the two streams.
Start(appMode, textMode) ==
  /\ StartOffered(appMode)
  /\ starts < MaxCalls
  /\ session' = [session EXCEPT !.status = "connecting", !.pattern = pattern]
  /\ starts' = starts + 1
  /\ posts' = posts \cup {starts + 1}
  /\ request' = [request EXCEPT ![starts + 1] = [pattern |-> pattern, config |-> config]]
  /\ Ask(IF textMode THEN Devices \ {"capture"} ELSE Devices)
  /\ slips' = slips \cup (IF posts # {} THEN {"double_start"} ELSE {})
  /\ UNCHANGED <<uiVars, created, ends, deletes, onServer, wsVars, log>>

\* Fault: the request may be answered again.
CreatedAgain(k) ==
  /\ k \in posts
  /\ created' = created \cup {k} /\ onServer' = onServer \cup {k}
  /\ session' = [status |-> "active", sessionId |-> k, pattern |-> request[k].pattern]
  /\ Connect(k)
  /\ UNCHANGED <<uiVars, starts, posts, request, ends, deletes, log, mics, slips>>

\* The request is answered: the session is active and its socket is made.
Created(k) ==
  /\ k \in posts
  /\ posts' = posts \ {k}
  /\ created' = created \cup {k} /\ onServer' = onServer \cup {k}
  /\ session' = [status |-> "active", sessionId |-> k, pattern |-> request[k].pattern]
  /\ Connect(k)
  /\ UNCHANGED <<uiVars, starts, request, ends, deletes, log, mics, slips>>

\* The request fails: only the status is put back, the streams go on.  It may
\* have been refused or never have arrived; or the server made the session and
\* its answer is lost or is no JSON.
CreateFails(k) ==
  /\ k \in posts
  /\ posts' = posts \ {k}
  /\ session' = [session EXCEPT !.status = "idle"]
  /\ \/ onServer' = onServer /\ slips' = slips \cup {"failed_start"}
     \/ onServer' = onServer \cup {k} /\ slips' = slips \cup {"failed_start", "lost_answer"}
  /\ UNCHANGED <<uiVars, starts, request, created, ends, deletes, wsVars, log, mics>>

Ended(p) == [status |-> "ended", sessionId |-> None, pattern |-> p]

\* Fault: a session whose socket is gone is not deleted.
EndSessionUnlinked ==
  /\ ends < MaxEnds
  /\ ends' = ends + 1
  /\ Disconnect
  /\ IF session.sessionId # None /\ wsRef # None
       THEN /\ deletes' = deletes \cup
                 {[n |-> ends + 1, sessionId |-> session.sessionId, pattern |-> pattern]}
            /\ UNCHANGED session
       ELSE session' = Ended(pattern) /\ UNCHANGED deletes
  /\ UNCHANGED <<starts, posts, request, created, onServer>>

\* endSession: the socket is closed at once; with a session id the state
\* stays as it is until the DELETE is answered.
EndSession ==
  /\ ends < MaxEnds
  /\ ends' = ends + 1
  /\ Disconnect
  /\ IF session.sessionId # None
       THEN /\ deletes' = deletes \cup
                 {[n |-> ends + 1, sessionId |-> session.sessionId, pattern |-> pattern]}
            /\ UNCHANGED session
       ELSE session' = Ended(pattern) /\ UNCHANGED deletes
  /\ UNCHANGED <<starts, posts, request, created, onServer>>

\* Fault: the microphone is left on.
EndMicOn ==
  /\ IsActive
  /\ EndSession
  /\ slips' = slips \cup (IF deletes # {} THEN {"double_end"} ELSE {})
                    \cup (IF \E d \in Devices : mics[d].asked > 0 THEN {"early_stop"} ELSE {})
  /\ UNCHANGED <<uiVars, log, mics>>

\* handleEnd, offered while the session is active.
End ==
  /\ IsActive
  /\ EndSession
  /\ Release
  /\ slips' = slips \cup (IF deletes # {} THEN {"double_end"} ELSE {})
                    \cup (IF \E d \in Devices : mics[d].asked > 0 THEN {"early_stop"} ELSE {})
  /\ UNCHANGED <<uiVars, log>>

\* The DELETE is answered or fails, which is caught, and what the answer says is
\* not looked at: either way the session state is reset, and the server may still
\* have the session.
EndAnswered(r) ==
  /\ r \in deletes
  /\ deletes' = deletes \ {r}
  /\ session' = Ended(r.pattern)
  /\ \/ onServer' = onServer \ {r.sessionId} /\ slips' = slips
     \/ onServer' = onServer /\ slips' = slips \cup {"failed_delete"}
  /\ UNCHANGED <<uiVars, starts, posts, request, created, ends, wsVars, log, mics>>

\* Fault: the call in progress goes on.
SetPatternOnly(p) ==
  /\ pattern' = p
  /\ log' = {}
  /\ slips' = slips \cup (IF posts # {} THEN {"edit"} ELSE {})
  /\ UNCHANGED <<config, callVars, wsVars, mics>>

\* Fault: the log is not cleared.
SetPatternKeepsLog(p) ==
  /\ IF IsActive
       THEN /\ EndSession
            /\ slips' = slips \cup {"pattern_end"}
                              \cup (IF deletes # {} THEN {"double_end"} ELSE {})
       ELSE /\ slips' = slips \cup (IF posts # {} THEN {"edit"} ELSE {})
            /\ UNCHANGED <<callVars, wsVars>>
  /\ pattern' = p
  /\ UNCHANGED <<config, log, mics>>

\* setPattern: a call in progress is ended after the user confirmed, but
\* nothing stops the microphone; the log is cleared.
SetPattern(p) ==
  /\ IF IsActive
       THEN /\ EndSession
            /\ slips' = slips \cup {"pattern_end"}
                              \cup (IF deletes # {} THEN {"double_end"} ELSE {})
       ELSE /\ slips' = slips \cup (IF posts # {} THEN {"edit"} ELSE {})
            /\ UNCHANGED <<callVars, wsVars>>
  /\ pattern' = p
  /\ log' = {}
  /\ UNCHANGED <<config, mics>>

(***************************************************************************)
(* The events of a socket.                                                 *)
(***************************************************************************)
Opened(k) ==
  /\ sockets[k] = "connecting"
  /\ sockets' = [sockets EXCEPT ![k] = "open"]
  /\ isConnected' = TRUE
  /\ UNCHANGED <<uiVars, callVars, wsRef, log, mics, slips>>

\* Fault: onclose clears the ref only.
ClosedUnseen(k) ==
  /\ sockets[k] \in {"connecting", "open", "closing"}
  /\ sockets' = [sockets EXCEPT ![k] = "closed"]
  /\ wsRef' = None
  /\ slips' = slips \cup (IF wsRef \notin {None, k} THEN {"late_close"} ELSE {})
  /\ UNCHANGED <<uiVars, callVars, isConnected, log, mics>>

\* onclose, of a socket the server or an error closed or whose close() is done:
\* the ref is cleared whichever socket it holds.
Closed(k) ==
  /\ sockets[k] \in {"connecting", "open", "closing"}
  /\ sockets' = [sockets EXCEPT ![k] = "closed"]
  /\ isConnected' = FALSE
  /\ wsRef' = None
  /\ slips' = slips \cup (IF wsRef \notin {None, k} THEN {"late_close"} ELSE {})
  /\ UNCHANGED <<uiVars, callVars, log, mics>>

\* onmessage: an open socket's message goes through dispatchMessage to the log.
Message(k) ==
  /\ sockets[k] = "open"
  /\ log' = log \cup {k}
  /\ UNCHANGED <<uiVars, callVars, wsVars, mics, slips>>

(***************************************************************************)
(* The settings panel, a part of developer mode that is disabled while a   *)
(* session is active.                                                      *)
(***************************************************************************)
Configure(c) ==
  /\ ~IsActive
  /\ config' = c
  /\ slips' = slips \cup (IF posts # {} THEN {"edit"} ELSE {})
  /\ UNCHANGED <<pattern, callVars, wsVars, log, mics>>

\* The threshold and the silence are shown for server_vad only.
Shown(s) == s \in {"vadThreshold", "silenceDurationMs"} => config.turnDetection = "server_vad"

Update(s, v) == Shown(s) /\ Configure([config EXCEPT ![s] = v])

Reset == Configure(DefaultSessionConfig)

Next ==
  \/ \E m \in {"developer", "app"}, t \in BOOLEAN : Start(m, t)
  \/ End
  \/ \E k \in Calls : Created(k) \/ CreateFails(k)
  \/ \E r \in deletes : EndAnswered(r)
  \/ \E p \in Patterns : SetPattern(p)
  \/ \E k \in Calls : Opened(k) \/ Closed(k) \/ Message(k)
  \/ \E d \in Devices : Granted(d) \/ Denied(d)
  \/ \E s \in DOMAIN Choices : \E v \in Choices[s] : Update(s, v)
  \/ Reset

Spec == Init /\ [][Next]_vars

(***************************************************************************)
(* Properties                                                              *)
(***************************************************************************)
DeleteRequest == [n : 1 .. MaxEnds, sessionId : Calls, pattern : Patterns]

\* Type invariant of the client's state.
ClientTypeOK ==
  /\ pattern \in Patterns /\ config \in SessionConfig
  /\ session \in [status : SessionStatus, sessionId : Calls \cup {None}, pattern : Patterns]
  /\ request \in [Calls -> [pattern : Patterns, config : SessionConfig]]
  /\ starts \in 0 .. MaxCalls /\ posts \subseteq 1 .. starts
  /\ created \subseteq (1 .. starts) \ posts /\ onServer \subseteq (1 .. starts) \ posts
  /\ ends \in 0 .. MaxEnds /\ deletes \subseteq DeleteRequest
  /\ sockets \in [Calls -> {"none", "connecting", "open", "closing", "closed"}]
  /\ wsRef \in Calls \cup {None} /\ isConnected \in BOOLEAN
  /\ log \subseteq created
  /\ mics \in [Devices -> [asked : Nat, held : BOOLEAN, left : Nat]]
  /\ slips \subseteq Slips

Without(ss) == ss \cap slips = {}

\* The connection badge never says connected when no socket is open, whatever
\* overlaps (useWebSocket.ts:18-35): opens and closes of several sockets may
\* come in any order, and each one overwrites the flag.
BadgeTruthful == ConnectionStatus = "connected" => \E k \in Calls : sockets[k] = "open"

\* The socket the client refers to is the one of its session, and both exist
\* together, unless a start or an end was repeated (useSession.ts:29-43,
\* useWebSocket.ts:11-12): the audio and text of a call reach that call.
SocketOfSession ==
  Without({"double_start", "double_end"}) /\ wsRef # None =>
    IsActive /\ session.sessionId = wsRef /\ Live(wsRef)

\* No socket lives without the client's reference to it, so ending the call
\* closes it, unless a start or an end was repeated or an old socket closed late.
NoStraySocket ==
  Without({"double_start", "double_end", "late_close"}) =>
    \A k \in Calls : Live(k) => k = wsRef

\* Client, session and sockets stay together: what the client refers to is the
\* socket of its session and no other socket lives (the two parts name the
\* overlaps in which each fails).
SocketsFollowSession == SocketOfSession /\ NoStraySocket

\* The server keeps no session of this client but the one the client shows, until
\* its DELETE is done; others would stay until they expire.  That holds unless a
\* start or an end was repeated, the answer to a POST that made a session was
\* lost (useSession.ts:29,40-42), or a DELETE was not carried out (52-54).  The
\* page stays open: one that is left or reloaded forgets its session.
NothingForgotten ==
  Without({"double_start", "double_end", "lost_answer", "failed_delete"}) =>
    onServer \subseteq {session.sessionId}

\* The call runs with the pattern and the settings on the screen, unless they
\* were changed while its request was under way (useSession.ts:24 captures them) or
\* two starts overlapped.  While a call is being ended nothing is said: it still
\* reads as active, and a change of pattern that ended it is shown at once.
RunsAsShown ==
  Without({"double_start", "edit"}) /\ IsActive /\ deletes = {} =>
    request[session.sessionId] = [pattern |-> pattern, config |-> config]

\* The transcript and the event log never hold messages of a call of another
\* pattern than the one shown, unless one of the overlaps of a call happened:
\* setPattern clears them and closes the socket in one go.
LogOfShownPattern ==
  Without({"double_start", "double_end", "late_close", "edit"}) =>
    \A k \in log : request[k].pattern = pattern

\* A microphone stream is on only while a call is being set up or is active,
\* unless a stop came before the permission, the start failed, the call was
\* ended by a change of pattern, or a start or an end was repeated.
MicOnlyInCall ==
  Without({"double_start", "double_end", "early_stop", "failed_start", "pattern_end"}) =>
    \A d \in Devices : MicOn(d) => session.status \in {"connecting", "active"}

=============================================================================
