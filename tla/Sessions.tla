------------------------------- MODULE Sessions -------------------------------
(***************************************************************************)
(* The session API, its TTL-bounded store and the /ws endpoint of each     *)
(* gunicorn worker.  A worker is a process: it has a store of its own and  *)
(* serves sockets on its own threads.                                      *)
(*                                                                         *)
(* The n-th session a worker creates is <<worker, n>>, which stands for    *)
(* its uuid.  Time does not go back, so the order sessions were put in a   *)
(* store is the order of their timestamps.  Every use of a store is one    *)
(* step, as its lock makes it; writing a session's status is another step, *)
(* outside the lock.                                                       *)
(***************************************************************************)
EXTENDS Naturals, FiniteSets

CONSTANTS
    Workers,       \* the gunicorn workers
    Threads,       \* the threads of one worker that serve sockets
    PATTERN_IDS,   \* the patterns there are
    MaxSize, TTL,  \* the capacity of a store and the life of its entries
    MaxSessions,   \* bound: sessions one worker creates
    MaxTime        \* bound: the clock

ASSUME SessionsAssumption ==
    /\ "chat-supervisor" \in PATTERN_IDS
    /\ "none" \notin PATTERN_IDS
    /\ MaxSize \in Nat \ {0}
    /\ TTL \in Nat
    /\ MaxSessions \in Nat \ {0}
    /\ MaxTime \in Nat

Session == Workers \X (1 .. MaxSessions)

Thread == Workers \X Threads

\* What a call runs: a pattern, with the Session Config panel's settings or not.
Choice == [pattern : PATTERN_IDS, config : {"none", "panel"}]

DefaultChoice == [pattern |-> "chat-supervisor", config |-> "none"]

VARIABLES
    clock,
    count,      \* the sessions a worker created
    birth,      \* when a session was put in the store
    wanted,     \* the pattern and the config a session was created with
    deleted,    \* history: the sessions the API deleted
    store,      \* the numbers of the sessions in a worker's store
    status,     \* the status field of a session
    handler     \* a thread: its step, its socket's parameters, what it runs

historyVars == <<clock, count, birth, wanted>>
vars == <<clock, count, birth, wanted, deleted, store, status, handler>>

Query == PATTERN_IDS \cup {"none"}

Idle(t) == [pc |-> "idle", session |-> <<t[1], 1>>, query |-> "none",
            choice |-> DefaultChoice]

Init ==
    /\ clock = 0
    /\ count = [w \in Workers |-> 0]
    /\ birth = [s \in Session |-> 0]
    /\ wanted = [s \in Session |-> DefaultChoice]
    /\ deleted = {}
    /\ store = [w \in Workers |-> {}]
    /\ status = [s \in Session |-> "created"]
    /\ handler = [t \in Thread |-> Idle(t)]
------------------------------------------------------------------------------
(* The store *)

IsExpired(s) == clock - birth[s] > TTL

Unexpired(w) == {n \in store[w] : ~IsExpired(<<w, n>>)}

\* Fault: the newest goes.
OldestIsNewest(numbers) == CHOOSE n \in numbers : \A k \in numbers : n >= k

\* The least timestamp; of equal ones, the first put.
Oldest(numbers) == CHOOSE n \in numbers : \A k \in numbers : n <= k

\* What put keeps: the loop removes one entry at most, as each put adds one.
Kept(w) == IF Cardinality(Unexpired(w)) >= MaxSize
           THEN Unexpired(w) \ {Oldest(Unexpired(w))}
           ELSE Unexpired(w)

Found(w, s) == /\ s[1] = w
               /\ s[2] \in store[w]
               /\ ~IsExpired(s)

\* get removes the entry it finds expired.
Get(w, s) == store' = IF s[1] = w /\ IsExpired(s)
                      THEN [store EXCEPT ![w] = @ \ {s[2]}]
                      ELSE store

\* The sessions a browser may name: those that were created.
Created == {s \in Session : s[2] <= count[s[1]]}

Tick == /\ clock < MaxTime
        /\ clock' = clock + 1
        /\ UNCHANGED <<count, birth, wanted, deleted, store, status, handler>>
------------------------------------------------------------------------------
(* The REST endpoints *)

CreateSession(w, choice) ==
    /\ count[w] < MaxSessions
    /\ LET n == count[w] + 1 IN
       /\ count' = [count EXCEPT ![w] = n]
       /\ birth' = [birth EXCEPT ![<<w, n>>] = clock]
       /\ wanted' = [wanted EXCEPT ![<<w, n>>] = choice]
       /\ store' = [store EXCEPT ![w] = Kept(w) \cup {n}]
    /\ UNCHANGED <<clock, deleted, status, handler>>

GetSessionStatus(w, s) ==
    /\ s \in Created
    /\ Get(w, s)
    /\ UNCHANGED <<historyVars, deleted, status, handler>>

\* pop removes the entry whether it has expired or not.
DeleteSession(w, s) ==
    /\ s \in Created
    /\ s[1] = w
    /\ s[2] \in store[w]
    /\ store' = [store EXCEPT ![w] = @ \ {s[2]}]
    /\ deleted' = deleted \cup {s}
    /\ UNCHANGED <<historyVars, status, handler>>
------------------------------------------------------------------------------
(* ws_endpoint *)

\* Fault: the config is not taken over.
ChosenNoConfig(w, s, pattern) ==
    IF pattern # "none" THEN [pattern |-> pattern, config |-> "none"]
    ELSE IF Found(w, s) THEN [wanted[s] EXCEPT !.config = "none"] ELSE DefaultChoice

\* Fault: there is no default pattern.
ChosenNoDefault(w, s, pattern) ==
    IF pattern = "none" /\ Found(w, s) THEN wanted[s]
    ELSE [pattern |-> pattern, config |-> "none"]

\* The config is the session's only if the pattern is.
Chosen(w, s, pattern) ==
    IF pattern # "none" THEN [pattern |-> pattern, config |-> "none"]
    ELSE IF Found(w, s) THEN wanted[s] ELSE DefaultChoice

\* A socket opens, on a thread of any worker; pattern is its query parameter.
OpenSocket(t, s, pattern) ==
    /\ handler[t].pc = "idle"
    /\ s \in Created
    /\ Get(t[1], s)
    /\ handler' = [handler EXCEPT ![t] =
           [pc |-> IF Found(t[1], s) THEN "found" ELSE "calling",
            session |-> s, query |-> pattern, choice |-> Chosen(t[1], s, pattern)]]
    /\ UNCHANGED <<historyVars, deleted, status>>

SetConnected(t) ==
    /\ handler[t].pc = "found"
    /\ status' = [status EXCEPT ![handler[t].session] = "connected"]
    /\ handler' = [handler EXCEPT ![t].pc = "calling"]
    /\ UNCHANGED <<historyVars, deleted, store>>

\* Fault: what handle_websocket raises skips the rest.
LeaveCallRaised(t) ==
    /\ handler[t].pc = "calling"
    /\ Get(t[1], handler[t].session)
    /\ handler' = [handler EXCEPT ![t] = Idle(t)]
    /\ UNCHANGED <<historyVars, deleted, status>>

\* handle_websocket returned or raised; the session is looked up again.
LeaveCall(t) ==
    /\ handler[t].pc = "calling"
    /\ Get(t[1], handler[t].session)
    /\ handler' = [handler EXCEPT ![t] =
           IF Found(t[1], handler[t].session) THEN [@ EXCEPT !.pc = "leaving"]
           ELSE Idle(t)]
    /\ UNCHANGED <<historyVars, deleted, status>>

SetDisconnected(t) ==
    /\ handler[t].pc = "leaving"
    /\ status' = [status EXCEPT ![handler[t].session] = "disconnected"]
    /\ handler' = [handler EXCEPT ![t] = Idle(t)]
    /\ UNCHANGED <<historyVars, deleted, store>>

Next ==
    \/ Tick
    \/ \E w \in Workers, choice \in Choice : CreateSession(w, choice)
    \/ \E w \in Workers, s \in Session : GetSessionStatus(w, s) \/ DeleteSession(w, s)
    \/ \E t \in Thread, s \in Session, pattern \in Query : OpenSocket(t, s, pattern)
    \/ \E t \in Thread : SetConnected(t) \/ LeaveCall(t) \/ SetDisconnected(t)

Spec == Init /\ [][Next]_vars
------------------------------------------------------------------------------
(* Properties *)

\* Every variable has its type.
SessionsTypeOK ==
    /\ clock \in 0 .. MaxTime
    /\ count \in [Workers -> 0 .. MaxSessions]
    /\ birth \in [Session -> 0 .. MaxTime]
    /\ wanted \in [Session -> Choice]
    /\ deleted \subseteq Session
    /\ store \in [Workers -> SUBSET (1 .. MaxSessions)]
    /\ status \in [Session -> {"created", "connected", "disconnected"}]
    /\ handler \in [Thread -> [pc : {"idle", "found", "calling", "leaving"},
                               session : Session, query : Query, choice : Choice]]

\* A store is a map of live entries, never over its capacity (put's loop).
WithinCapacity ==
    \A w \in Workers : /\ Cardinality(store[w]) <= MaxSize
                       /\ \A n \in store[w] : n <= count[w]

\* A session that nobody deleted, that has not expired and after which its
\* worker created fewer than MaxSize others.
Due(s) == /\ s \in Created
          /\ s \notin deleted
          /\ clock <= birth[s] + TTL
          /\ s[2] + MaxSize > count[s[1]]

\* The store drops no session before its time, whatever creations, lookups,
\* deletions and sockets come in between, and a deleted one never comes back.
StoreHoldsTheDue ==
    \A s \in Session : /\ Due(s) => s[2] \in store[s[1]]
                       /\ s \in deleted => s \in Created /\ s[2] \notin store[s[1]]

\* A thread that is on the call of s, or about to write "disconnected".
Serves(t, s) == /\ t[1] = s[1]
                /\ handler[t].session = s
                /\ handler[t].pc \in {"calling", "leaving"}

\* A session that the status endpoint would report as connected has a thread
\* on its call (ws_endpoint's finally), with two sockets on one session too.
ConnectedHasSocket ==
    \A s \in Session :
        status[s] = "connected" /\ s[2] \in store[s[1]] => \E t \in Thread : Serves(t, s)

\* Inductive part: threads and statuses know only created sessions, and one
\* that writes a status has the session in its own worker.
OnlyCreated ==
    /\ \A s \in Session \ Created : status[s] = "created"
    /\ \A t \in Thread : handler[t].pc # "idle" =>
          /\ handler[t].session \in Created
          /\ handler[t].pc \in {"found", "leaving"} => handler[t].session[1] = t[1]

\* A socket that names a due session and no pattern, as the frontend's does,
\* runs the pattern and the config the session was created with.
ReachesCall(t) ==
    LET h == handler'[t] IN
    /\ handler[t].pc = "idle"
    /\ h.pc # "idle"
    /\ h.query = "none"
    /\ Due(h.session)
    => h.choice = wanted[h.session]

PanelReachesCall == [][\A t \in Thread : ReachesCall(t)]_vars
==============================================================================
