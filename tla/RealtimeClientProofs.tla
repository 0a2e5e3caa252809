------------------------- MODULE RealtimeClientProofs -------------------------
(***************************************************************************)
(* Proofs about RealtimeClient, for any number of calls, ends, devices and *)
(* settings: the client's bookkeeping is right in every run but those in   *)
(* which one of the named overlaps happens.                                *)
(***************************************************************************)
EXTENDS RealtimeClient, TLAPS

(***************************************************************************)
(* The inductive invariant.                                                *)
(***************************************************************************)
\* What is known of sockets and sessions whatever overlaps: a socket is that of a
\* session, the one referred to lives, and the status tells of the session.
Known ==
  /\ \A k \in Calls : sockets[k] # "none" => k \in created
  /\ wsRef # None => Live(wsRef)
  /\ session.sessionId # None => session.sessionId \in created
  /\ IsActive => session.sessionId # None
  /\ session.status = "connecting" => posts # {}

\* Without overlapping starts a request is under way only while there is no call.
OneStart ==
  Without({"double_start"}) /\ posts # {} => ~IsActive /\ \A j, k \in posts : j = k

\* With ends not repeated either, at most one end is under way, never beside a request,
\* and the call that is being ended has no socket any more.
OneCall ==
  Without({"double_start", "double_end"}) =>
    /\ \A r, q \in deletes : r = q
    /\ ~IsActive => session.sessionId = None
    /\ \A r \in deletes : IsActive /\ wsRef = None /\ session.sessionId = r.sessionId

\* What a request asked for is what is on the screen.
AskedAsShown ==
  Without({"double_start", "edit"}) =>
    \A k \in posts : request[k] = [pattern |-> pattern, config |-> config]

\* Each device is asked once per call and, once the call is being ended, off.
OneStream ==
  Without({"double_start", "double_end", "early_stop", "failed_start", "pattern_end"}) =>
    \A d \in Devices :
      /\ mics[d].left = 0
      /\ mics[d].asked = 0 \/ (mics[d].asked = 1 /\ ~mics[d].held)
      /\ session.status \in {"idle", "ended"} \/ deletes # {} => mics[d].asked = 0 /\ ~mics[d].held

Overlaps == OneStart /\ OneCall /\ AskedAsShown /\ OneStream

Safety == BadgeTruthful /\ SocketsFollowSession /\ NothingForgotten /\ RunsAsShown
            /\ LogOfShownPattern /\ MicOnlyInCall

ClientInv == Known /\ Overlaps /\ Safety

(***************************************************************************)
(* The settings                                                            *)
(***************************************************************************)
LEMMA DefaultsOffered == DefaultSessionConfig \in SessionConfig
<1>1. 80 \in {10 * n : n \in 6 .. 12} /\ 50 \in {5 * n : n \in 2 .. 18}
        /\ 500 \in {100 * n : n \in 2 .. 20}
  <2>1. 8 \in 6 .. 12 /\ 80 = 10 * 8 /\ 10 \in 2 .. 18 /\ 50 = 5 * 10
          /\ 5 \in 2 .. 20 /\ 500 = 100 * 5
    OBVIOUS
  <2> QED BY <2>1
<1> QED
  BY <1>1 DEF DefaultSessionConfig, SessionConfig, Offered, Models, Voices, TurnDetectionModes,
              NoiseReductionModes, CompactionStrategies

LEMMA SettingOffered ==
    ASSUME NEW c \in SessionConfig, NEW s \in DOMAIN Offered, NEW v \in Offered[s]
    PROVE  [c EXCEPT ![s] = v] \in SessionConfig
<1>1. s \in {"model", "temperature", "voice", "turnDetection", "noiseReduction",
             "echoCancellation", "vadThreshold", "silenceDurationMs", "maxOutputTokens",
             "compactionStrategy"}
  BY DEF Offered
<1>2. CASE s = "model"
  BY <1>2 DEF SessionConfig, Offered
<1>3. CASE s = "temperature"
  BY <1>3 DEF SessionConfig, Offered
<1>4. CASE s = "voice"
  BY <1>4 DEF SessionConfig, Offered
<1>5. CASE s = "turnDetection"
  BY <1>5 DEF SessionConfig, Offered
<1>6. CASE s = "noiseReduction"
  BY <1>6 DEF SessionConfig, Offered
<1>7. CASE s = "echoCancellation"
  BY <1>7 DEF SessionConfig, Offered
<1>8. CASE s = "vadThreshold"
  BY <1>8 DEF SessionConfig, Offered
<1>9. CASE s = "silenceDurationMs"
  BY <1>9 DEF SessionConfig, Offered
<1>10. CASE s = "maxOutputTokens"
  BY <1>10 DEF SessionConfig, Offered
<1>11. CASE s = "compactionStrategy"
  BY <1>11 DEF SessionConfig, Offered
<1> QED BY <1>1, <1>2, <1>3, <1>4, <1>5, <1>6, <1>7, <1>8, <1>9, <1>10, <1>11

\* What the panel can make of the settings is offered by it.
LEMMA SettingsOffered ==
    ASSUME config \in SessionConfig,
           (\E s \in DOMAIN Choices : \E v \in Choices[s] : Update(s, v)) \/ Reset
    PROVE  config' \in SessionConfig
<1>1. CASE Reset
  BY <1>1, DefaultsOffered DEF Reset, Configure
<1>2. ASSUME NEW s \in DOMAIN Choices, NEW v \in Choices[s], Update(s, v)
      PROVE  config' \in SessionConfig
  <2>1. s \in DOMAIN Offered /\ v \in Offered[s]
    BY ClientAssumption
  <2>2. config' = [config EXCEPT ![s] = v]
    BY <1>2 DEF Update, Configure
  <2> QED BY <2>1, <2>2, SettingOffered
<1> QED BY <1>1, <1>2

(***************************************************************************)
(* Types                                                                   *)
(***************************************************************************)
\* The parts of the type invariant.
UiTypes == pattern \in Patterns /\ config \in SessionConfig

CallTypes ==
  /\ session \in [status : SessionStatus, sessionId : Calls \cup {None}, pattern : Patterns]
  /\ request \in [Calls -> [pattern : Patterns, config : SessionConfig]]
  /\ starts \in 0 .. MaxCalls /\ posts \subseteq 1 .. starts
  /\ created \subseteq (1 .. starts) \ posts /\ onServer \subseteq (1 .. starts) \ posts
  /\ ends \in 0 .. MaxEnds /\ deletes \subseteq DeleteRequest

WsTypes ==
  /\ sockets \in [Calls -> {"none", "connecting", "open", "closing", "closed"}]
  /\ wsRef \in Calls \cup {None} /\ isConnected \in BOOLEAN

LogTypes == log \subseteq created /\ slips \subseteq Slips

MicTypes == mics \in [Devices -> [asked : Nat, held : BOOLEAN, left : Nat]]

LEMMA TypeParts == ClientTypeOK <=> UiTypes /\ CallTypes /\ WsTypes /\ LogTypes /\ MicTypes
  BY DEF ClientTypeOK, UiTypes, CallTypes, WsTypes, LogTypes, MicTypes

LEMMA InitTypes == Init => ClientTypeOK
<1> SUFFICES ASSUME Init PROVE ClientTypeOK
  OBVIOUS
<1> USE DEF Init
<1>1. UiTypes
  BY DefaultsOffered DEF UiTypes, Patterns
<1>2. CallTypes
  BY ClientAssumption, DefaultsOffered DEF CallTypes, Patterns, SessionStatus
<1>3. WsTypes
  BY DEF WsTypes
<1>4. LogTypes /\ MicTypes
  BY DEF LogTypes, MicTypes
<1> QED BY <1>1, <1>2, <1>3, <1>4, TypeParts

\* What the operations that several actions call do to types.
LEMMA EndSessionTypes ==
    ASSUME ClientTypeOK, Known, EndSession
    PROVE  CallTypes' /\ WsTypes' /\ created' = created
<1> USE TypeParts DEF EndSession
<1>1. WsTypes'
  BY DEF Disconnect, WsTypes
<1>2. ends + 1 \in 1 .. MaxEnds /\ ends' = ends + 1
  BY ClientAssumption DEF CallTypes
<1>3. CASE session.sessionId # None
  <2>1. session.sessionId \in created /\ session.sessionId \in Calls
    BY <1>3 DEF Known, CallTypes
  <2>2. [n |-> ends + 1, sessionId |-> session.sessionId, pattern |-> pattern] \in DeleteRequest
    BY <1>2, <2>1 DEF DeleteRequest, UiTypes
  <2> QED BY <1>1, <1>2, <1>3, <2>1, <2>2 DEF CallTypes
<1>4. CASE session.sessionId = None
  <2>1. session' \in [status : SessionStatus, sessionId : Calls \cup {None}, pattern : Patterns]
    BY <1>4 DEF Ended, SessionStatus, UiTypes
  <2> QED BY <1>1, <1>2, <1>4, <2>1 DEF CallTypes
<1> QED BY <1>3, <1>4

LEMMA TypesKept == ClientTypeOK /\ Known /\ [Next]_vars => ClientTypeOK'
<1> SUFFICES ASSUME ClientTypeOK, Known, [Next]_vars PROVE ClientTypeOK'
  OBVIOUS
<1> USE DEF uiVars, callVars, wsVars
<1>0. UiTypes /\ CallTypes /\ WsTypes /\ LogTypes /\ MicTypes
  BY TypeParts
<1>p. ClientTypeOK' <=> UiTypes' /\ CallTypes' /\ WsTypes' /\ LogTypes' /\ MicTypes'
  BY DEF ClientTypeOK, UiTypes, CallTypes, WsTypes, LogTypes, MicTypes
<1>1. ASSUME NEW m \in {"developer", "app"}, NEW t \in BOOLEAN, Start(m, t) PROVE ClientTypeOK'
  <2>1. UiTypes' /\ WsTypes' /\ LogTypes'
    BY <1>0, <1>1 DEF Start, UiTypes, WsTypes, LogTypes, Slips
  <2>2. MicTypes'
    BY <1>0, <1>1 DEF Start, Ask, MicTypes
  <2>3. starts + 1 \in Calls /\ starts + 1 \in 0 .. MaxCalls
    BY <1>0, <1>1, ClientAssumption DEF Start, CallTypes, Calls
  <2>4. CallTypes'
    <3>1. /\ session' \in [status : SessionStatus, sessionId : Calls \cup {None}, pattern : Patterns]
          /\ request' \in [Calls -> [pattern : Patterns, config : SessionConfig]]
      BY <1>0, <1>1, <2>3 DEF Start, CallTypes, UiTypes, SessionStatus
    <3>2. posts' \subseteq 1 .. starts' /\ created' \subseteq (1 .. starts') \ posts'
            /\ starts' \in 0 .. MaxCalls
      BY <1>0, <1>1, <2>3 DEF Start, CallTypes
    <3> QED BY <1>0, <1>1, <3>1, <3>2 DEF Start, CallTypes
  <2> QED BY <2>1, <2>2, <2>4, <1>p
<1>2. ASSUME NEW k \in Calls, Created(k) PROVE ClientTypeOK'
  <2>1. UiTypes' /\ LogTypes' /\ MicTypes'
    BY <1>0, <1>2 DEF Created, UiTypes, LogTypes, MicTypes
  <2>2. CallTypes'
    BY <1>0, <1>2 DEF Created, CallTypes, SessionStatus
  <2>3. WsTypes'
    BY <1>0, <1>2 DEF Created, Connect, WsTypes
  <2> QED BY <2>1, <2>2, <2>3, <1>p
<1>3. ASSUME NEW k \in Calls, CreateFails(k) PROVE ClientTypeOK'
  <2>1. UiTypes' /\ WsTypes' /\ LogTypes' /\ MicTypes'
    BY <1>0, <1>3 DEF CreateFails, UiTypes, WsTypes, LogTypes, MicTypes, Slips
  <2>2. CallTypes'
    BY <1>0, <1>3 DEF CreateFails, CallTypes, SessionStatus
  <2> QED BY <2>1, <2>2, <1>p
<1>4. CASE End
  <2>1. CallTypes' /\ WsTypes' /\ created' = created
    BY <1>4, EndSessionTypes DEF End
  <2>2. UiTypes' /\ LogTypes' /\ MicTypes'
    BY <1>0, <1>4, <2>1 DEF End, Release, UiTypes, LogTypes, MicTypes, Slips
  <2> QED BY <2>1, <2>2, <1>p
<1>5. ASSUME NEW r \in deletes, EndAnswered(r) PROVE ClientTypeOK'
  <2>1. UiTypes' /\ WsTypes' /\ LogTypes' /\ MicTypes'
    BY <1>0, <1>5 DEF EndAnswered, UiTypes, WsTypes, LogTypes, MicTypes, Slips
  <2>2. r.pattern \in Patterns
    BY <1>0 DEF CallTypes, DeleteRequest
  <2>3. CallTypes'
    BY <1>0, <1>5, <2>2 DEF EndAnswered, Ended, CallTypes, SessionStatus
  <2> QED BY <2>1, <2>3, <1>p
<1>6. ASSUME NEW p \in Patterns, SetPattern(p) PROVE ClientTypeOK'
  <2>1. UiTypes' /\ LogTypes' /\ MicTypes'
    BY <1>0, <1>6 DEF SetPattern, UiTypes, LogTypes, MicTypes, Slips
  <2>2. CASE IsActive
    <3>1. EndSession
      BY <1>6, <2>2 DEF SetPattern
    <3> QED BY <2>1, <3>1, EndSessionTypes, <1>p
  <2>3. CASE ~IsActive
    <3>1. CallTypes' /\ WsTypes'
      BY <1>0, <1>6, <2>3 DEF SetPattern, CallTypes, WsTypes
    <3> QED BY <2>1, <3>1, <1>p
  <2> QED BY <2>2, <2>3
<1>7. ASSUME NEW k \in Calls, Opened(k) \/ Closed(k) \/ Message(k) PROVE ClientTypeOK'
  <2>1. UiTypes' /\ CallTypes' /\ MicTypes'
    BY <1>0, <1>7 DEF Opened, Closed, Message, UiTypes, CallTypes, MicTypes
  <2>2. WsTypes'
    BY <1>0, <1>7 DEF Opened, Closed, Message, WsTypes
  <2>3. LogTypes'
    BY <1>0, <1>7 DEF Opened, Closed, Message, LogTypes, Known, Slips
  <2> QED BY <2>1, <2>2, <2>3, <1>p
<1>8. ASSUME NEW d \in Devices, Granted(d) \/ Denied(d) PROVE ClientTypeOK'
  <2>1. UiTypes' /\ CallTypes' /\ WsTypes' /\ LogTypes'
    BY <1>0, <1>8 DEF Granted, Denied, UiTypes, CallTypes, WsTypes, LogTypes
  <2>2. MicTypes'
    <3>1. mics[d] \in [asked : Nat, held : BOOLEAN, left : Nat] /\ mics[d].asked > 0
      BY <1>0, <1>8 DEF Granted, Denied, MicTypes
    <3>2. mics[d].asked - 1 \in Nat /\ mics[d].left + 1 \in Nat
      BY <3>1
    <3>3. CASE Granted(d)
      BY <1>0, <3>1, <3>2, <3>3 DEF Granted, MicTypes
    <3>4. CASE Denied(d)
      BY <1>0, <3>1, <3>2, <3>4 DEF Denied, MicTypes
    <3> QED BY <1>8, <3>3, <3>4
  <2> QED BY <2>1, <2>2, <1>p
<1>9. CASE (\E s \in DOMAIN Choices : \E v \in Choices[s] : Update(s, v)) \/ Reset
  <2>1. UiTypes'
    <3>1. config' \in SessionConfig
      BY <1>0, <1>9, SettingsOffered DEF UiTypes
    <3> QED BY <1>0, <1>9, <3>1 DEF Update, Reset, Configure, UiTypes
  <2>2. CallTypes' /\ WsTypes' /\ LogTypes' /\ MicTypes'
    BY <1>0, <1>9 DEF Update, Reset, Configure, CallTypes, WsTypes, LogTypes, MicTypes, Slips
  <2> QED BY <2>1, <2>2, <1>p
<1>10. CASE UNCHANGED vars
  BY <1>10 DEF vars, ClientTypeOK
<1> QED BY <1>1, <1>2, <1>3, <1>4, <1>5, <1>6, <1>7, <1>8, <1>9, <1>10 DEF Next
(***************************************************************************)
(* Sockets and sessions                                                    *)
(***************************************************************************)
\* What a step is to the sessions and their sockets; an overlap stays on record.
LEMMA StepEffect ==
    ASSUME [Next]_vars
    PROVE  /\ slips \subseteq slips'
           /\ \/ \E m \in {"developer", "app"}, t \in BOOLEAN : Start(m, t)
              \/ \E k \in Calls : Created(k) \/ CreateFails(k)
              \/ IsActive /\ EndSession /\ (deletes # {} => "double_end" \in slips')
              \/ \E r \in deletes : EndAnswered(r)
              \/ \E k \in Calls : Opened(k) \/ Closed(k)
              \/ UNCHANGED <<callVars, wsVars>>
<1>1. ASSUME NEW m \in {"developer", "app"}, NEW t \in BOOLEAN, Start(m, t)
      PROVE  slips \subseteq slips'
  BY <1>1 DEF Start
<1>2. ASSUME NEW k \in Calls, Created(k) \/ CreateFails(k) PROVE slips \subseteq slips'
  BY <1>2 DEF Created, CreateFails
<1>3. ASSUME End
      PROVE  /\ slips \subseteq slips'
             /\ IsActive /\ EndSession /\ (deletes # {} => "double_end" \in slips')
  BY <1>3 DEF End
<1>4. ASSUME NEW r \in deletes, EndAnswered(r) PROVE slips \subseteq slips'
  BY <1>4 DEF EndAnswered
<1>5. ASSUME NEW p \in Patterns, SetPattern(p)
      PROVE  /\ slips \subseteq slips'
             /\ \/ IsActive /\ EndSession /\ (deletes # {} => "double_end" \in slips')
                \/ UNCHANGED <<callVars, wsVars>>
  BY <1>5 DEF SetPattern
<1>6. ASSUME NEW k \in Calls, Opened(k) \/ Closed(k) PROVE slips \subseteq slips'
  BY <1>6 DEF Opened, Closed
<1>7. ASSUME \/ \E k \in Calls : Message(k)
             \/ \E d \in Devices : Granted(d) \/ Denied(d)
             \/ \E s \in DOMAIN Choices : \E v \in Choices[s] : Update(s, v)
             \/ Reset
             \/ UNCHANGED vars
      PROVE  slips \subseteq slips' /\ UNCHANGED <<callVars, wsVars>>
  BY <1>7 DEF Message, Granted, Denied, Update, Reset, Configure, vars
<1> QED BY <1>1, <1>2, <1>3, <1>4, <1>5, <1>6, <1>7 DEF Next

\* A connection is made unless the socket referred to is open.
LEMMA ConnectEffect ==
    ASSUME WsTypes, NEW k \in Calls, Connect(k)
    PROVE  \/ wsRef \in Calls /\ wsRef # None /\ sockets[wsRef] = "open"
              /\ sockets' = sockets /\ wsRef' = wsRef
           \/ sockets' = [j \in Calls |-> IF j = k THEN "connecting" ELSE sockets[j]] /\ wsRef' = k
<1>1. CASE wsRef # None /\ sockets[wsRef] = "open"
  BY <1>1 DEF Connect, WsTypes
<1>2. CASE ~(wsRef # None /\ sockets[wsRef] = "open")
  <2>1. sockets' = [sockets EXCEPT ![k] = "connecting"] /\ wsRef' = k
    BY <1>2 DEF Connect
  <2> QED BY <2>1 DEF WsTypes
<1> QED BY <1>1, <1>2

\* An end of the active call: its session is to be deleted and its socket closed.
LEMMA EndEffect ==
    ASSUME Known, IsActive, EndSession
    PROVE  /\ session' = session
           /\ \E r : r.sessionId = session.sessionId /\ deletes' = deletes \cup {r}
           /\ wsRef' = None /\ isConnected' = FALSE
           /\ sockets' = [k \in Calls |-> IF k = wsRef THEN "closing" ELSE sockets[k]]
           /\ UNCHANGED <<starts, posts, request, created, onServer>>
<1> DEFINE r == [n |-> ends + 1, sessionId |-> session.sessionId, pattern |-> pattern]
<1>1. r.sessionId = session.sessionId
  OBVIOUS
<1> HIDE DEF r
<1>2. session' = session /\ deletes' = deletes \cup {r}
  BY DEF Known, EndSession, r
<1>3. /\ wsRef' = None /\ isConnected' = FALSE
      /\ sockets' = [k \in Calls |-> IF k = wsRef THEN "closing" ELSE sockets[k]]
      /\ UNCHANGED <<starts, posts, request, created, onServer>>
  BY DEF EndSession, Disconnect
<1> QED BY <1>1, <1>2, <1>3

LEMMA KnownKept == ClientTypeOK /\ Known /\ [Next]_vars => Known'
<1> SUFFICES ASSUME ClientTypeOK, Known, [Next]_vars PROVE Known'
  OBVIOUS
<1> USE DEF Known, IsActive, Live, callVars, wsVars
<1>0. CallTypes /\ WsTypes
  BY TypeParts
<1>1. ASSUME NEW m \in {"developer", "app"}, NEW t \in BOOLEAN, Start(m, t) PROVE Known'
  BY <1>0, <1>1 DEF Start, CallTypes
<1>2. ASSUME NEW k \in Calls, Created(k) PROVE Known'
  <2>1. /\ created' = created \cup {k} /\ session'.sessionId = k /\ session'.status = "active"
        /\ Connect(k)
    BY <1>2 DEF Created
  <2>2. k # None
    BY DEF Calls, None
  <2>3. CASE wsRef \in Calls /\ wsRef # None /\ sockets[wsRef] = "open"
               /\ sockets' = sockets /\ wsRef' = wsRef
    BY <2>1, <2>2, <2>3
  <2>4. CASE sockets' = [j \in Calls |-> IF j = k THEN "connecting" ELSE sockets[j]] /\ wsRef' = k
    BY <2>1, <2>2, <2>4
  <2> QED BY <1>0, <2>1, <2>3, <2>4, ConnectEffect
<1>3. ASSUME NEW k \in Calls, CreateFails(k) PROVE Known'
  BY <1>0, <1>3 DEF CreateFails, CallTypes
<1>4. CASE IsActive /\ EndSession
  <2>1. /\ session' = session /\ created' = created /\ wsRef' = None
        /\ sockets' = [k \in Calls |-> IF k = wsRef THEN "closing" ELSE sockets[k]]
    BY <1>4, EndEffect
  <2>2. \A k \in Calls : sockets'[k] # "none" => sockets[k] # "none"
    BY <2>1 DEF None, Calls
  <2> QED BY <1>4, <2>1, <2>2
<1>5. ASSUME NEW r \in deletes, EndAnswered(r) PROVE Known'
  BY <1>5 DEF EndAnswered, Ended
<1>6. ASSUME NEW k \in Calls, Opened(k) PROVE Known'
  BY <1>0, <1>6 DEF Opened, WsTypes
<1>7. ASSUME NEW k \in Calls, Closed(k) PROVE Known'
  BY <1>0, <1>7 DEF Closed, WsTypes
<1>8. CASE UNCHANGED <<callVars, wsVars>>
  BY <1>8
<1> QED BY <1>1, <1>2, <1>3, <1>4, <1>5, <1>6, <1>7, <1>8, StepEffect

LEMMA OneStartKept ==
    ClientTypeOK /\ Known /\ OneStart /\ [Next]_vars => OneStart'
<1> SUFFICES ASSUME ClientTypeOK, Known, OneStart, [Next]_vars,
                    "double_start" \notin slips', posts' # {}
             PROVE  ~IsActive' /\ \A j, k \in posts' : j = k
  BY DEF OneStart, Without
<1>0. posts # {} => ~IsActive /\ \A j, k \in posts : j = k
  BY StepEffect DEF OneStart, Without
<1> USE DEF IsActive, callVars, wsVars
<1>1. ASSUME NEW m \in {"developer", "app"}, NEW t \in BOOLEAN, Start(m, t)
      PROVE  ~IsActive' /\ \A j, k \in posts' : j = k
  BY <1>1, TypeParts DEF Start, CallTypes
<1>2. ASSUME NEW k \in Calls, Created(k) \/ CreateFails(k) PROVE FALSE
  BY <1>0, <1>2 DEF Created, CreateFails
<1>3. CASE IsActive /\ EndSession
  BY <1>0, <1>3, EndEffect
<1>4. ASSUME NEW r \in deletes, EndAnswered(r)
      PROVE  ~IsActive' /\ \A j, k \in posts' : j = k
  BY <1>0, <1>4 DEF EndAnswered, Ended
<1>5. CASE UNCHANGED callVars
  BY <1>0, <1>5
<1>6. ASSUME NEW k \in Calls, Opened(k) \/ Closed(k) PROVE UNCHANGED callVars
  BY <1>6 DEF Opened, Closed
<1> QED BY <1>1, <1>2, <1>3, <1>4, <1>5, <1>6, StepEffect

\* Client, session and server agree on the one call there is.
Agreement == OneCall /\ SocketOfSession /\ NothingForgotten

LEMMA AgreementKept ==
    ClientTypeOK /\ Known /\ OneStart /\ Agreement /\ [Next]_vars => Agreement'
<1> DEFINE Agree ==
      /\ \A r, q \in deletes : r = q
      /\ ~IsActive => session.sessionId = None
      /\ \A r \in deletes : IsActive /\ wsRef = None /\ session.sessionId = r.sessionId
      /\ wsRef # None => IsActive /\ session.sessionId = wsRef
      /\ {"lost_answer", "failed_delete"} \cap slips = {} => onServer \subseteq {session.sessionId}
<1> SUFFICES ASSUME ClientTypeOK, Known, OneStart, Agreement, [Next]_vars PROVE Agreement'
  OBVIOUS
<1> SUFFICES ASSUME "double_start" \notin slips', "double_end" \notin slips' PROVE Agree'
  BY KnownKept DEF Agreement, OneCall, SocketOfSession, NothingForgotten, Without, Known
<1>0. Agree /\ (posts # {} => ~IsActive /\ \A j, k \in posts : j = k)
  BY StepEffect DEF Agreement, OneCall, SocketOfSession, NothingForgotten, OneStart, Without
<1>s. slips \subseteq slips'
  BY StepEffect
<1> USE DEF IsActive, callVars, wsVars
<1>1. ASSUME NEW m \in {"developer", "app"}, NEW t \in BOOLEAN, Start(m, t) PROVE Agree'
  BY <1>0, <1>1, TypeParts DEF Start, StartOffered, CallTypes
<1>2. ASSUME NEW k \in Calls, Created(k) PROVE Agree'
  <2>1. /\ session'.status = "active" /\ session'.sessionId = k /\ deletes = {} /\ deletes' = {}
        /\ onServer' = onServer \cup {k} /\ slips' = slips /\ Connect(k) /\ wsRef = None
    BY <1>0, <1>2 DEF Created
  <2>2. wsRef' = k
    BY <2>1, ConnectEffect, TypeParts
  <2>3. {"lost_answer", "failed_delete"} \cap slips = {} => onServer = {}
    <3>1. None \notin onServer /\ session.sessionId = None
      BY <1>0, <1>2, TypeParts DEF Created, CallTypes, None
    <3> QED BY <1>0, <3>1
  <2> QED BY <2>1, <2>2, <2>3
<1>3. ASSUME NEW k \in Calls, CreateFails(k) PROVE Agree'
  <2>1. /\ deletes = {} /\ deletes' = {} /\ wsRef' = wsRef /\ ~IsActive
        /\ session' = [session EXCEPT !.status = "idle"]
    BY <1>0, <1>3 DEF CreateFails
  <2>2. session'.status = "idle" /\ session'.sessionId = session.sessionId
    BY <2>1, TypeParts DEF CallTypes
  <2>3. \/ onServer' = onServer
        \/ "lost_answer" \in slips'
    BY <1>3 DEF CreateFails
  <2> QED BY <1>0, <1>s, <2>1, <2>2, <2>3
<1>4. CASE IsActive /\ EndSession /\ (deletes # {} => "double_end" \in slips')
  <2>1. deletes = {} /\ session' = session /\ wsRef' = None /\ onServer' = onServer
    BY <1>4, EndEffect
  <2>2. PICK r : r.sessionId = session.sessionId /\ deletes' = {r}
    BY <1>4, <2>1, EndEffect
  <2> QED BY <1>0, <1>s, <1>4, <2>1, <2>2
<1>5. ASSUME NEW r \in deletes, EndAnswered(r) PROVE Agree'
  <2>1. deletes' = {} /\ wsRef = None /\ wsRef' = wsRef /\ r.sessionId = session.sessionId
    BY <1>0, <1>5 DEF EndAnswered
  <2>2. session'.status = "ended" /\ session'.sessionId = None
    BY <1>5 DEF EndAnswered, Ended
  <2>3. \/ onServer' = onServer \ {r.sessionId}
        \/ "failed_delete" \in slips'
    BY <1>5 DEF EndAnswered
  <2> QED BY <1>0, <1>s, <2>1, <2>2, <2>3
<1>6. ASSUME NEW k \in Calls, Opened(k) \/ Closed(k) PROVE Agree'
  BY <1>0, <1>s, <1>6 DEF Opened, Closed
<1>7. CASE UNCHANGED <<callVars, wsVars>>
  BY <1>0, <1>s, <1>7
<1> QED BY <1>1, <1>2, <1>3, <1>4, <1>5, <1>6, <1>7, StepEffect

LEMMA NoStrayKept ==
    ClientTypeOK /\ Known /\ OneStart /\ Agreement /\ NoStraySocket /\ [Next]_vars
      => NoStraySocket'
<1> SUFFICES ASSUME ClientTypeOK, Known, OneStart, Agreement, NoStraySocket, [Next]_vars,
                    "double_start" \notin slips', "double_end" \notin slips',
                    "late_close" \notin slips'
             PROVE  \A k \in Calls : Live(k)' => k = wsRef'
  BY DEF NoStraySocket, Without, Live
<1>0. /\ \A k \in Calls : Live(k) => k = wsRef
      /\ posts # {} => wsRef = None
      /\ sockets \in [Calls -> {"none", "connecting", "open", "closing", "closed"}]
  BY StepEffect, TypeParts DEF NoStraySocket, Agreement, SocketOfSession, OneStart, Without, WsTypes
<1> USE DEF Live, callVars, wsVars
<1>1. ASSUME NEW m \in {"developer", "app"}, NEW t \in BOOLEAN, Start(m, t) PROVE UNCHANGED wsVars
  BY <1>1 DEF Start
<1>2. ASSUME NEW k \in Calls, Created(k)
      PROVE  \A j \in Calls : Live(j)' => j = wsRef'
  <2>1. wsRef = None /\ Connect(k)
    BY <1>0, <1>2 DEF Created
  <2>2. sockets' = [j \in Calls |-> IF j = k THEN "connecting" ELSE sockets[j]] /\ wsRef' = k
    BY <2>1, ConnectEffect, TypeParts
  <2> QED BY <1>0, <2>1, <2>2 DEF None, Calls
<1>3. ASSUME NEW k \in Calls, CreateFails(k) PROVE UNCHANGED wsVars
  BY <1>3 DEF CreateFails
<1>4. CASE IsActive /\ EndSession
  BY <1>0, <1>4, EndEffect
<1>5. ASSUME NEW r \in deletes, EndAnswered(r) PROVE UNCHANGED wsVars
  BY <1>5 DEF EndAnswered
<1>6. ASSUME NEW k \in Calls, Opened(k)
      PROVE  \A j \in Calls : Live(j)' => j = wsRef'
  BY <1>0, <1>6 DEF Opened
<1>7. ASSUME NEW k \in Calls, Closed(k)
      PROVE  \A j \in Calls : Live(j)' => j = wsRef'
  BY <1>0, <1>7 DEF Closed
<1>8. CASE UNCHANGED wsVars
  BY <1>0, <1>8
<1> QED BY <1>1, <1>2, <1>3, <1>4, <1>5, <1>6, <1>7, <1>8, StepEffect

LEMMA BadgeKept == ClientTypeOK /\ Known /\ BadgeTruthful /\ [Next]_vars => BadgeTruthful'
<1>0. BadgeTruthful <=> (isConnected => \E k \in Calls : sockets[k] = "open")
  BY DEF BadgeTruthful, ConnectionStatus
<1>1. BadgeTruthful' <=> (isConnected' => \E k \in Calls : sockets'[k] = "open")
  BY DEF BadgeTruthful, ConnectionStatus
<1> SUFFICES ASSUME ClientTypeOK, Known, isConnected => \E k \in Calls : sockets[k] = "open",
                    [Next]_vars, isConnected'
             PROVE  \E k \in Calls : sockets'[k] = "open"
  BY <1>0, <1>1
<1>2. sockets \in [Calls -> {"none", "connecting", "open", "closing", "closed"}]
  BY TypeParts DEF WsTypes
<1> USE DEF callVars, wsVars
<1>3. ASSUME NEW m \in {"developer", "app"}, NEW t \in BOOLEAN, Start(m, t) PROVE UNCHANGED wsVars
  BY <1>3 DEF Start
<1>4. ASSUME NEW k \in Calls, Created(k) PROVE \E j \in Calls : sockets'[j] = "open"
  <2>1. sockets[k] = "none"
    BY <1>4, TypeParts DEF Created, CallTypes, Known
  <2> QED BY <1>2, <1>4, <2>1 DEF Created, Connect
<1>5. ASSUME NEW k \in Calls, CreateFails(k) PROVE UNCHANGED wsVars
  BY <1>5 DEF CreateFails
<1>6. ASSUME IsActive, EndSession PROVE FALSE
  BY <1>6, EndEffect
<1>7. ASSUME NEW r \in deletes, EndAnswered(r) PROVE UNCHANGED wsVars
  BY <1>7 DEF EndAnswered
<1>8. ASSUME NEW k \in Calls, Opened(k) \/ Closed(k) PROVE \E j \in Calls : sockets'[j] = "open"
  BY <1>2, <1>8 DEF Opened, Closed
<1>9. CASE UNCHANGED wsVars
  BY <1>9
<1> QED BY <1>3, <1>4, <1>5, <1>6, <1>7, <1>8, <1>9, StepEffect
(***************************************************************************)
(* What is on the screen                                                   *)
(***************************************************************************)
\* The steps that change neither a session nor what is on the screen.
LEMMA ScreenStays ==
    ASSUME \/ \E k \in Calls : Opened(k) \/ Closed(k) \/ Message(k)
           \/ \E d \in Devices : Granted(d) \/ Denied(d)
           \/ UNCHANGED vars
    PROVE  UNCHANGED uiVars /\ UNCHANGED callVars
  BY DEF Opened, Closed, Message, Granted, Denied, vars, uiVars, callVars

LEMMA ShownKept ==
    ClientTypeOK /\ Known /\ OneStart /\ AskedAsShown /\ RunsAsShown /\ [Next]_vars
      => AskedAsShown' /\ RunsAsShown'
<1> DEFINE Screen == [pattern |-> pattern, config |-> config]
           Shown1 == /\ \A k \in posts : request[k] = Screen
                     /\ IsActive /\ deletes = {} => request[session.sessionId] = Screen
<1> SUFFICES ASSUME ClientTypeOK, Known, OneStart, AskedAsShown, RunsAsShown, [Next]_vars
             PROVE  AskedAsShown' /\ RunsAsShown'
  OBVIOUS
<1> SUFFICES ASSUME "double_start" \notin slips', "edit" \notin slips' PROVE Shown1'
  BY DEF AskedAsShown, RunsAsShown, Without
<1>0. /\ Shown1
      /\ posts # {} => ~IsActive /\ \A j, k \in posts : j = k
      /\ request \in [Calls -> [pattern : Patterns, config : SessionConfig]]
      /\ posts \subseteq 1 .. starts /\ starts \in 0 .. MaxCalls
  BY StepEffect, TypeParts DEF AskedAsShown, RunsAsShown, OneStart, Without, CallTypes
<1> USE DEF IsActive, uiVars, callVars
<1>1. ASSUME NEW m \in {"developer", "app"}, NEW t \in BOOLEAN, Start(m, t) PROVE Shown1'
  <2>1. posts' = {starts + 1} /\ starts + 1 \in Calls
    BY <1>0, <1>1, ClientAssumption DEF Start, Calls
  <2>2. request'[starts + 1] = Screen'
    BY <1>0, <1>1, <2>1 DEF Start
  <2>3. session'.status = "connecting"
    BY <1>1, TypeParts DEF Start, CallTypes
  <2> QED BY <2>1, <2>2, <2>3
<1>2. ASSUME NEW k \in Calls, Created(k) PROVE Shown1'
  BY <1>0, <1>2 DEF Created
<1>3. ASSUME NEW k \in Calls, CreateFails(k) PROVE Shown1'
  BY <1>0, <1>3, TypeParts DEF CreateFails, CallTypes
<1>4. ASSUME IsActive, EndSession PROVE Shown1'
  <2>1. posts' = {} /\ deletes' # {}
    BY <1>0, <1>4, EndEffect
  <2> QED BY <2>1
<1>5. ASSUME NEW r \in deletes, EndAnswered(r) PROVE Shown1'
  BY <1>0, <1>5 DEF EndAnswered, Ended
<1>6. ASSUME NEW p \in Patterns, SetPattern(p), ~IsActive PROVE Shown1'
  BY <1>0, <1>6 DEF SetPattern
<1>7. ASSUME NEW c, Configure(c) PROVE Shown1'
  BY <1>0, <1>7 DEF Configure
<1>8. CASE UNCHANGED uiVars /\ UNCHANGED callVars
  BY <1>0, <1>8
<1>9. ASSUME NEW p \in Patterns, SetPattern(p), IsActive PROVE EndSession
  BY <1>9 DEF SetPattern
<1>10. ASSUME End PROVE IsActive /\ EndSession
  BY <1>10 DEF End
<1> HIDE DEF Shown1
<1> QED BY <1>1, <1>2, <1>3, <1>4, <1>5, <1>6, <1>7, <1>8, <1>9, <1>10, ScreenStays
        DEF Next, Update, Reset

\* With one call at a time, an open socket is that of the call on the screen.
LEMMA OpenIsShown ==
    ASSUME Agreement, NoStraySocket, RunsAsShown, NEW k \in Calls, sockets[k] = "open",
           Without({"double_start", "double_end", "late_close", "edit"})
    PROVE  request[k].pattern = pattern
<1>1. k = wsRef /\ wsRef # None
  BY DEF NoStraySocket, Without, Live, Calls, None
<1>2. IsActive /\ session.sessionId = k /\ deletes = {}
  BY <1>1 DEF Agreement, OneCall, SocketOfSession, Without
<1> QED BY <1>2 DEF RunsAsShown, Without

LEMMA LogKept ==
    ClientTypeOK /\ Agreement /\ NoStraySocket /\ RunsAsShown /\ LogOfShownPattern /\ [Next]_vars
      => LogOfShownPattern'
<1> SUFFICES ASSUME ClientTypeOK, Agreement, NoStraySocket, RunsAsShown, LogOfShownPattern,
                    [Next]_vars,
                    {"double_start", "double_end", "late_close", "edit"} \cap slips' = {}
             PROVE  \A k \in log' : request'[k].pattern = pattern'
  BY DEF LogOfShownPattern, Without
<1>0. /\ Without({"double_start", "double_end", "late_close", "edit"})
      /\ \A k \in log : request[k].pattern = pattern
  BY StepEffect DEF LogOfShownPattern, Without
<1> USE DEF uiVars, callVars, wsVars
<1>1. ASSUME NEW m \in {"developer", "app"}, NEW t \in BOOLEAN, Start(m, t)
      PROVE  \A k \in log' : request'[k].pattern = pattern'
  <2>1. starts \in Nat /\ log \subseteq 1 .. starts /\ starts + 1 \notin log
    BY TypeParts DEF CallTypes, LogTypes
  <2>2. \A k \in log : request'[k] = request[k]
    BY <1>1, <2>1, TypeParts DEF Start, CallTypes
  <2> QED BY <1>0, <1>1, <2>2 DEF Start
<1>2. ASSUME NEW k \in Calls, Message(k)
      PROVE  \A j \in log' : request'[j].pattern = pattern'
  BY <1>0, <1>2, OpenIsShown DEF Message
<1>3. ASSUME NEW p \in Patterns, SetPattern(p)
      PROVE  \A k \in log' : request'[k].pattern = pattern'
  BY <1>3 DEF SetPattern
<1>4. CASE UNCHANGED <<log, request, pattern>>
  BY <1>0, <1>4
<1>5. ASSUME \/ \E k \in Calls : Created(k) \/ CreateFails(k) \/ Opened(k) \/ Closed(k)
             \/ End
             \/ \E r \in deletes : EndAnswered(r)
             \/ \E d \in Devices : Granted(d) \/ Denied(d)
             \/ \E s \in DOMAIN Choices : \E v \in Choices[s] : Update(s, v)
             \/ Reset
             \/ UNCHANGED vars
      PROVE  UNCHANGED <<log, request, pattern>>
  BY <1>5 DEF Created, CreateFails, Opened, Closed, End, EndSession, EndAnswered, Granted, Denied,
              Update, Reset, Configure, vars
<1> QED BY <1>1, <1>2, <1>3, <1>4, <1>5 DEF Next

(***************************************************************************)
(* The microphone                                                          *)
(***************************************************************************)
LEMMA StreamsKept ==
    ClientTypeOK /\ Known /\ OneStart /\ Agreement /\ OneStream /\ [Next]_vars => OneStream'
<1> DEFINE Overlap == {"double_start", "double_end", "early_stop", "failed_start", "pattern_end"}
           Streams ==
             \A d \in Devices :
               /\ mics[d].left = 0
               /\ mics[d].asked = 0 \/ (mics[d].asked = 1 /\ ~mics[d].held)
               /\ session.status \in {"idle", "ended"} \/ deletes # {}
                    => mics[d].asked = 0 /\ ~mics[d].held
<1> SUFFICES ASSUME ClientTypeOK, Known, OneStart, Agreement, OneStream, [Next]_vars,
                    Overlap \cap slips' = {}
             PROVE  Streams'
  BY DEF OneStream, Without
<1>0. /\ Streams
      /\ posts # {} => ~IsActive
      /\ deletes # {} => IsActive
      /\ session.status = "connecting" => posts # {}
      /\ session.status \in SessionStatus
      /\ mics \in [Devices -> [asked : Nat, held : BOOLEAN, left : Nat]]
  BY StepEffect, TypeParts DEF OneStream, OneStart, Agreement, OneCall, Known, Without,
                               CallTypes, MicTypes
<1> USE DEF IsActive, uiVars, callVars
<1>1. ASSUME NEW m \in {"developer", "app"}, NEW t \in BOOLEAN, Start(m, t) PROVE Streams'
  <2>1. posts = {} /\ deletes' = {} /\ session.status \in {"idle", "ended"}
    BY <1>0, <1>1 DEF Start, StartOffered, SessionStatus
  <2>2. session'.status = "connecting"
    BY <1>1, TypeParts DEF Start, CallTypes
  <2>3. \A d \in Devices : mics[d].left = 0 /\ mics[d].asked = 0 /\ ~mics[d].held
    BY <1>0, <2>1
  <2>4. \A d \in Devices : /\ mics'[d].asked \in {0, 1} /\ mics'[d].held = mics[d].held
                           /\ mics'[d].left = mics[d].left
    BY <1>0, <1>1, <2>3 DEF Start, Ask
  <2> QED BY <2>1, <2>2, <2>3, <2>4
<1>2. ASSUME NEW k \in Calls, Created(k) PROVE Streams'
  BY <1>0, <1>2 DEF Created
<1>3. ASSUME NEW k \in Calls, CreateFails(k) PROVE FALSE
  BY <1>3 DEF CreateFails
<1>4. ASSUME End PROVE Streams'
  <2>1. \A d \in Devices : mics[d].asked = 0 /\ mics[d].left = 0
    BY <1>0, <1>4 DEF End
  <2>2. \A d \in Devices : /\ mics'[d].asked = mics[d].asked /\ mics'[d].left = mics[d].left
                           /\ mics'[d].held = FALSE
    BY <1>0, <1>4 DEF End, Release
  <2> QED BY <2>1, <2>2
<1>5. ASSUME NEW r \in deletes, EndAnswered(r) PROVE Streams'
  BY <1>0, <1>5 DEF EndAnswered, Ended
<1>6. ASSUME NEW d \in Devices, Granted(d) PROVE Streams'
  BY <1>0, <1>6 DEF Granted
<1>7. ASSUME NEW d \in Devices, Denied(d) PROVE Streams'
  BY <1>0, <1>7 DEF Denied
<1>8. CASE UNCHANGED <<session, deletes, mics>>
  BY <1>0, <1>8
<1>9. ASSUME \/ \E p \in Patterns : SetPattern(p)
             \/ \E k \in Calls : Opened(k) \/ Closed(k) \/ Message(k)
             \/ \E s \in DOMAIN Choices : \E v \in Choices[s] : Update(s, v)
             \/ Reset
             \/ UNCHANGED vars
      PROVE  UNCHANGED <<session, deletes, mics>>
  BY <1>9 DEF SetPattern, Opened, Closed, Message, Update, Reset, Configure, vars
<1> HIDE DEF Streams
<1> QED BY <1>1, <1>2, <1>3, <1>4, <1>5, <1>6, <1>7, <1>8, <1>9 DEF Next

(***************************************************************************)
(* The theorems                                                            *)
(***************************************************************************)
LEMMA InitInvariant == Init => ClientInv
<1> SUFFICES ASSUME Init PROVE ClientInv
  OBVIOUS
<1> USE DEF Init, IsActive
<1>1. Known
  BY DEF Known
<1>2. Overlaps
  BY DEF Overlaps, OneStart, OneCall, AskedAsShown, OneStream
<1>3. Safety
  BY DEF Safety, BadgeTruthful, ConnectionStatus, SocketsFollowSession, SocketOfSession,
         NoStraySocket, Live, NothingForgotten, RunsAsShown, LogOfShownPattern, MicOnlyInCall, MicOn
<1> QED BY <1>1, <1>2, <1>3 DEF ClientInv

LEMMA InvariantKept ==
    ClientTypeOK /\ ClientInv /\ [Next]_vars => ClientTypeOK' /\ ClientInv'
<1> SUFFICES ASSUME ClientTypeOK, ClientInv, [Next]_vars PROVE ClientTypeOK' /\ ClientInv'
  OBVIOUS
<1>0. /\ Known /\ OneStart /\ Agreement /\ NoStraySocket /\ BadgeTruthful /\ AskedAsShown
      /\ RunsAsShown /\ LogOfShownPattern /\ OneStream
  BY DEF ClientInv, Overlaps, Safety, SocketsFollowSession, Agreement
<1>1. ClientTypeOK'
  BY <1>0, TypesKept
<1>2. Known' /\ OneStart' /\ Agreement'
  BY <1>0, KnownKept, OneStartKept, AgreementKept
<1>3. NoStraySocket' /\ BadgeTruthful'
  BY <1>0, NoStrayKept, BadgeKept
<1>4. AskedAsShown' /\ RunsAsShown' /\ LogOfShownPattern'
  BY <1>0, ShownKept, LogKept
<1>5. OneStream'
  BY <1>0, StreamsKept
<1>6. MicOnlyInCall'
  <2>1. session'.status \in SessionStatus
    BY <1>1 DEF ClientTypeOK
  <2> QED BY <1>5, <2>1 DEF OneStream, MicOnlyInCall, MicOn, Without, SessionStatus
<1> QED BY <1>1, <1>2, <1>3, <1>4, <1>5, <1>6
        DEF ClientInv, Overlaps, Safety, SocketsFollowSession, Agreement

LEMMA ClientInvariant == Spec => [](ClientTypeOK /\ ClientInv)
  BY InitTypes, InitInvariant, InvariantKept, PTL DEF Spec

\* Every variable keeps its type; in particular only sessions that the server made
\* have messages in the log (useSession.ts, useWebSocket.ts).
THEOREM TypeCorrect == Spec => []ClientTypeOK
  BY ClientInvariant, PTL

\* The connection badge is right however opens and closes of sockets interleave
\* (useWebSocket.ts:18-35).
THEOREM BadgeTellsTheTruth == Spec => []BadgeTruthful
<1>1. ClientInv => BadgeTruthful
  BY DEF ClientInv, Safety
<1> QED BY <1>1, ClientInvariant, PTL

\* The client's socket is its session's and no other lives, however many calls there
\* are, if no start or end was repeated and no old socket closed late.
THEOREM SocketsFollowTheSession == Spec => []SocketsFollowSession
<1>1. ClientInv => SocketsFollowSession
  BY DEF ClientInv, Safety
<1> QED BY <1>1, ClientInvariant, PTL

\* The server keeps no session of this client but the one the client shows, if no
\* start or end was repeated, no answer to a POST was lost and no DELETE failed.
THEOREM SessionsAreDeleted == Spec => []NothingForgotten
<1>1. ClientInv => NothingForgotten
  BY DEF ClientInv, Safety
<1> QED BY <1>1, ClientInvariant, PTL

\* The call runs with the pattern and the settings on the screen.
THEOREM CallsRunAsShown == Spec => []RunsAsShown
<1>1. ClientInv => RunsAsShown
  BY DEF ClientInv, Safety
<1> QED BY <1>1, ClientInvariant, PTL

\* The log holds messages of calls of the pattern on the screen only.
THEOREM LogIsOfThePattern == Spec => []LogOfShownPattern
<1>1. ClientInv => LogOfShownPattern
  BY DEF ClientInv, Safety
<1> QED BY <1>1, ClientInvariant, PTL

\* The microphone is on only while a call is set up or active, unless one of the
\* overlaps that leave it on happened.
THEOREM MicrophoneFollowsTheCall == Spec => []MicOnlyInCall
<1>1. ClientInv => MicOnlyInCall
  BY DEF ClientInv, Safety
<1> QED BY <1>1, ClientInvariant, PTL
=============================================================================
