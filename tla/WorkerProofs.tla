---------------------------- MODULE WorkerProofs -----------------------------
(***************************************************************************)
(* Proofs about what the threads of a worker share: about Sessions, for    *)
(* any workers and threads, any capacity and life of the stores and any    *)
(* number of sessions, and about EventLoop, for any number of callers,     *)
(* whether the wait for a thread expires or not.                           *)
(***************************************************************************)
EXTENDS Sessions, EventLoop, FiniteSetTheorems, WellFoundedInduction, TLAPS

\* A set of numbers that is not empty has an oldest.
LEMMA OldestIsLeast ==
    ASSUME NEW S \in SUBSET Nat, S # {}
    PROVE  Oldest(S) \in S /\ \A k \in S : Oldest(S) <= k
<1> DEFINE R == {ss \in Nat \X Nat : ss[1] < ss[2]}
<1>1. IsWellFoundedOn(R, Nat)
  BY NatLessThanWellFounded DEF OpToRel
<1>2. PICK n \in S : \A k \in S : ~ (<<k, n>> \in R)
  <2> HIDE DEF R
  <2> QED BY <1>1, WFMin
<1>3. \A k \in S : ~(k < n)
  BY <1>2
<1>4. \A k \in S : n <= k
  <2> HIDE DEF R
  <2> QED BY <1>3
<1> QED BY <1>4 DEF Oldest

\* What put keeps: live entries, one less than the capacity; and an entry it
\* evicts has the whole capacity of the store created after it.
LEMMA KeptFits ==
    ASSUME SessionsTypeOK, WithinCapacity, NEW w \in Workers
    PROVE  /\ Kept(w) \subseteq store[w]
           /\ IsFiniteSet(Kept(w))
           /\ Cardinality(Kept(w)) < MaxSize
           /\ \A n \in Unexpired(w) : n \in Kept(w) \/ n + MaxSize <= count[w] + 1
<1> DEFINE U == Unexpired(w)
<1>1. /\ store[w] \in SUBSET (1 .. MaxSessions)
      /\ count[w] \in Nat
      /\ MaxSize \in Nat \ {0} /\ MaxSessions \in Nat
  BY SessionsAssumption DEF SessionsTypeOK
<1>2. U \subseteq store[w] /\ U \in SUBSET Nat /\ \A n \in U : n <= count[w]
  BY <1>1 DEF Unexpired, WithinCapacity
<1> HIDE DEF U
<1>3. IsFiniteSet(store[w]) /\ Cardinality(store[w]) <= MaxSize
  <2>1. IsFiniteSet(1 .. MaxSessions)
    BY <1>1, FS_Interval
  <2>2. IsFiniteSet(store[w])
    BY <1>1, <2>1, FS_Subset
  <2> QED BY <2>2 DEF WithinCapacity
<1>4. IsFiniteSet(U) /\ Cardinality(U) <= Cardinality(store[w])
  BY <1>2, <1>3, FS_Subset
<1>5. Cardinality(U) \in Nat /\ Cardinality(store[w]) \in Nat
  BY <1>3, <1>4, FS_CardinalityType
<1>6. CASE Cardinality(U) < MaxSize
  <2>1. Kept(w) = U
    BY <1>1, <1>5, <1>6 DEF Kept, U
  <2> QED BY <1>2, <1>4, <1>6, <2>1 DEF U
<1>7. CASE Cardinality(U) >= MaxSize
  <2>1. Kept(w) = U \ {Oldest(U)}
    BY <1>7 DEF Kept, U
  <2>2. U # {}
    BY <1>1, <1>7, FS_EmptySet
  <2>3. Oldest(U) \in U /\ \A k \in U : Oldest(U) <= k
    BY <1>2, <2>2, OldestIsLeast
  <2>4. IsFiniteSet(Kept(w)) /\ Cardinality(Kept(w)) = Cardinality(U) - 1
    BY <1>4, <2>1, <2>3, FS_RemoveElement
  <2>5. Oldest(U) + MaxSize <= count[w] + 1
    <3> DEFINE o == Oldest(U)
    <3>0. o \in U /\ \A k \in U : o <= k
      BY <2>3
    <3> HIDE DEF o
    <3> DEFINE later == o .. count[w]
    <3>1. o \in Nat /\ o <= count[w] /\ o \in Int /\ count[w] \in Int
      BY <1>1, <1>2, <3>0
    <3>a. U \in SUBSET later
      BY <1>1, <1>2, <3>0, <3>1
    <3>2. IsFiniteSet(later) /\ Cardinality(later) = IF o > count[w] THEN 0 ELSE count[w] - o + 1
      BY <3>1, FS_Interval
    <3> HIDE DEF later
    <3>3. Cardinality(U) <= Cardinality(later)
      BY <3>a, <3>2, FS_Subset
    <3>4. o + MaxSize <= count[w] + 1
      BY <1>1, <1>5, <1>7, <3>1, <3>2, <3>3
    <3> QED BY <3>4 DEF o
  <2>6. Cardinality(Kept(w)) < MaxSize
    BY <1>1, <1>3, <1>4, <1>5, <2>4
  <2> QED BY <1>2, <2>1, <2>4, <2>5, <2>6 DEF U
<1> QED BY <1>1, <1>5, <1>6, <1>7

\* The steps that leave count, birth and deleted only remove expired entries.
Lookup == /\ UNCHANGED <<historyVars, deleted>>
          /\ \/ UNCHANGED store
             \/ \E s \in Session : IsExpired(s) /\ store' = [store EXCEPT ![s[1]] = @ \ {s[2]}]

LEMMA GetIsLookup ==
    ASSUME NEW w, NEW s \in Session, Get(w, s), UNCHANGED <<historyVars, deleted>>
    PROVE  Lookup
BY DEF Get, Lookup

\* What a thread may hold.
Handler == [pc : {"idle", "found", "calling", "leaving"},
            session : Session, query : Query, choice : Choice]

\* Every variable keeps its type.
THEOREM TypeCorrect == Spec => []SessionsTypeOK
<1> USE SessionsAssumption DEF SessionsTypeOK
<1>0. \A t \in Thread : <<t[1], 1>> \in Session /\ t[1] \in Workers
  BY DEF Session, Thread
<1>a. DefaultChoice \in Choice
  BY DEF DefaultChoice, Choice
<1>1. Init => SessionsTypeOK
  <2> SUFFICES ASSUME Init PROVE SessionsTypeOK
    OBVIOUS
  <2>1. handler \in [Thread -> [pc : {"idle", "found", "calling", "leaving"},
                               session : Session, query : Query, choice : Choice]]
    BY <1>0, <1>a DEF Init, Idle, Query
  <2> QED BY <1>a, <2>1 DEF Init
<1>2. SessionsTypeOK /\ [Next]_vars => SessionsTypeOK'
  <2> SUFFICES ASSUME SessionsTypeOK, [Next]_vars PROVE SessionsTypeOK'
    OBVIOUS
  <2>g. ASSUME NEW w, NEW s \in Session, Get(w, s)
        PROVE  store' \in [Workers -> SUBSET (1 .. MaxSessions)]
    BY <2>g DEF Get
  <2>1. CASE Tick
    BY <2>1 DEF Tick
  <2>2. ASSUME NEW w \in Workers, NEW choice \in Choice, CreateSession(w, choice)
        PROVE  SessionsTypeOK'
    <3>1. count[w] + 1 \in 1 .. MaxSessions
      BY <2>2 DEF CreateSession
    <3>2. <<w, count[w] + 1>> \in Session
      BY <3>1 DEF Session
    <3>3. Kept(w) \subseteq 1 .. MaxSessions
      BY DEF Kept, Unexpired
    <3> QED BY <2>2, <3>1, <3>2, <3>3 DEF CreateSession
  <2>3. ASSUME NEW w \in Workers, NEW s \in Session, GetSessionStatus(w, s)
        PROVE  SessionsTypeOK'
    BY <2>3, <2>g DEF GetSessionStatus, historyVars
  <2>4. ASSUME NEW w \in Workers, NEW s \in Session, DeleteSession(w, s)
        PROVE  SessionsTypeOK'
    BY <2>4 DEF DeleteSession, historyVars
  <2>5. ASSUME NEW t \in Thread, NEW s \in Session, NEW pattern \in Query,
               OpenSocket(t, s, pattern)
        PROVE  SessionsTypeOK'
    <3>1. Chosen(t[1], s, pattern) \in Choice
      BY <1>a DEF Chosen, Choice, Query
    <3>2. store' \in [Workers -> SUBSET (1 .. MaxSessions)]
      BY <2>5, <2>g DEF OpenSocket
    <3> QED BY <2>5, <3>1, <3>2 DEF OpenSocket, historyVars
  <2>h. ASSUME NEW t \in Thread
        PROVE  /\ handler[t] \in Handler
               /\ Idle(t) \in Handler
               /\ [handler[t] EXCEPT !.pc = "calling"] \in Handler
               /\ [handler[t] EXCEPT !.pc = "leaving"] \in Handler
    BY <1>0, <1>a DEF Idle, Query, Handler
  <2>6. ASSUME NEW t \in Thread, SetConnected(t) \/ SetDisconnected(t)
        PROVE  SessionsTypeOK'
    <3>1. handler' \in [Thread -> Handler]
      <4>1. handler \in [Thread -> Handler]
        BY DEF Handler
      <4> HIDE DEF SessionsTypeOK
      <4> QED BY <2>6, <2>h, <4>1 DEF SetConnected, SetDisconnected
    <3>2. handler[t].session \in Session
      BY <2>h DEF Handler
    <3>3. status' \in [Session -> {"created", "connected", "disconnected"}]
      BY <2>6, <3>2 DEF SetConnected, SetDisconnected
    <3> QED BY <2>6, <3>1, <3>3 DEF SetConnected, SetDisconnected, historyVars, Handler
  <2>7. ASSUME NEW t \in Thread, LeaveCall(t)
        PROVE  SessionsTypeOK'
    <3>1. store' \in [Workers -> SUBSET (1 .. MaxSessions)]
      BY <2>7, <2>g, <2>h DEF LeaveCall, Handler
    <3> QED BY <2>7, <2>h, <3>1 DEF LeaveCall, historyVars, Handler
  <2>8. CASE UNCHANGED vars
    BY <2>8 DEF vars
  <2> QED BY <2>1, <2>2, <2>3, <2>4, <2>5, <2>6, <2>7, <2>8 DEF Next
<1> QED BY <1>1, <1>2, PTL DEF Spec

\* What every step does to the stores and the history: one case per kind.
LEMMA StoreSteps ==
    ASSUME SessionsTypeOK, [Next]_vars
    PROVE  \/ Tick
           \/ \E w \in Workers, choice \in Choice : CreateSession(w, choice)
           \/ \E w \in Workers, s \in Session : DeleteSession(w, s)
           \/ Lookup
<1>1. ASSUME NEW w \in Workers, NEW s \in Session, GetSessionStatus(w, s) PROVE Lookup
  BY <1>1, GetIsLookup DEF GetSessionStatus
<1>2. ASSUME NEW t \in Thread, NEW s \in Session, NEW pattern \in Query,
             OpenSocket(t, s, pattern)
      PROVE  Lookup
  BY <1>2, GetIsLookup DEF OpenSocket
<1>3. ASSUME NEW t \in Thread, SetConnected(t) \/ SetDisconnected(t) PROVE Lookup
  BY <1>3 DEF SetConnected, SetDisconnected, Lookup
<1>4. ASSUME NEW t \in Thread, LeaveCall(t) PROVE Lookup
  BY <1>4, GetIsLookup DEF LeaveCall, SessionsTypeOK
<1>5. CASE UNCHANGED vars
  BY <1>5 DEF vars, historyVars, Lookup
<1> QED BY <1>1, <1>2, <1>3, <1>4, <1>5 DEF Next

\* No store is over its capacity and none holds a session not created yet.
THEOREM StoresStaySmall == Spec => []WithinCapacity
<1>1. Init => WithinCapacity
  BY SessionsAssumption, FS_EmptySet DEF Init, WithinCapacity
<1>2. SessionsTypeOK /\ WithinCapacity /\ [Next]_vars => WithinCapacity'
  <2> SUFFICES ASSUME SessionsTypeOK, WithinCapacity, [Next]_vars, NEW v \in Workers
               PROVE  /\ Cardinality(store'[v]) <= MaxSize
                      /\ \A n \in store'[v] : n <= count'[v]
    BY DEF WithinCapacity
  <2>1. /\ store[v] \in SUBSET (1 .. MaxSessions)
        /\ count[v] \in Nat
        /\ MaxSize \in Nat \ {0} /\ MaxSessions \in Nat
        /\ Cardinality(store[v]) <= MaxSize
        /\ \A n \in store[v] : n <= count[v]
    BY SessionsAssumption DEF SessionsTypeOK, WithinCapacity
  <2>2. IsFiniteSet(store[v]) /\ Cardinality(store[v]) \in Nat
    <3>1. IsFiniteSet(1 .. MaxSessions)
      BY <2>1, FS_Interval
    <3> QED BY <2>1, <3>1, FS_Subset, FS_CardinalityType
  <2>3. ASSUME count'[v] = count[v], store'[v] \in SUBSET store[v]
        PROVE  /\ Cardinality(store'[v]) <= MaxSize
               /\ \A n \in store'[v] : n <= count'[v]
    <3>1. /\ IsFiniteSet(store'[v])
          /\ Cardinality(store'[v]) <= Cardinality(store[v])
      BY <2>2, <2>3, FS_Subset
    <3>2. Cardinality(store'[v]) \in Nat
      BY <3>1, FS_CardinalityType
    <3> QED BY <2>1, <2>2, <2>3, <3>1, <3>2
  <2>4. CASE Tick
    BY <2>3, <2>4 DEF Tick
  <2>5. ASSUME NEW w \in Workers, NEW choice \in Choice, CreateSession(w, choice)
        PROVE  /\ Cardinality(store'[v]) <= MaxSize
               /\ \A n \in store'[v] : n <= count'[v]
    <3>1. CASE v # w
      BY <2>3, <2>5, <3>1 DEF CreateSession, SessionsTypeOK
    <3>2. CASE v = w
      <4>1. /\ Kept(v) \subseteq store[v]
            /\ IsFiniteSet(Kept(v))
            /\ Cardinality(Kept(v)) < MaxSize
        BY KeptFits
      <4>2. store'[v] = Kept(v) \cup {count[v] + 1} /\ count'[v] = count[v] + 1
        BY <2>5, <3>2 DEF CreateSession, SessionsTypeOK
      <4>3. Cardinality(store'[v]) <= Cardinality(Kept(v)) + 1
        <5>1. count[v] + 1 \notin Kept(v)
          BY <2>1, <4>1
        <5>2. Cardinality(store'[v]) = Cardinality(Kept(v)) + 1
          BY <4>1, <4>2, <5>1, FS_AddElement
        <5>3. Cardinality(Kept(v)) \in Nat
          BY <4>1, FS_CardinalityType
        <5> QED BY <5>2, <5>3
      <4>4. Cardinality(Kept(v)) \in Nat
        BY <4>1, FS_CardinalityType
      <4>5. Cardinality(store'[v]) \in Nat
        <5>1. IsFiniteSet(Kept(v) \cup {count[v] + 1})
          BY <4>1, FS_AddElement
        <5> QED BY <4>2, <5>1, FS_CardinalityType
      <4>6. \A n \in store'[v] : n <= count'[v]
        BY <2>1, <4>1, <4>2
      <4> QED BY <2>1, <4>1, <4>3, <4>4, <4>5, <4>6
    <3> QED BY <3>1, <3>2
  <2>6. ASSUME NEW w \in Workers, NEW s \in Session, DeleteSession(w, s)
        PROVE  count'[v] = count[v] /\ store'[v] \in SUBSET store[v]
    BY <2>6 DEF DeleteSession, historyVars, SessionsTypeOK
  <2>7. CASE Lookup
    BY <2>3, <2>7 DEF Lookup, historyVars, SessionsTypeOK
  <2> QED BY <2>3, <2>4, <2>5, <2>6, <2>7, StoreSteps
<1> QED BY <1>1, <1>2, TypeCorrect, PTL DEF Spec

\* The store drops no session before its time and a deleted one stays gone.
THEOREM DueSessionsStay == Spec => []StoreHoldsTheDue
<1>1. Init => StoreHoldsTheDue
  BY SessionsAssumption DEF Init, StoreHoldsTheDue, Due, Created, Session
<1>2. /\ SessionsTypeOK /\ WithinCapacity /\ StoreHoldsTheDue /\ [Next]_vars
      /\ SessionsTypeOK'
      => StoreHoldsTheDue'
  <2> SUFFICES ASSUME SessionsTypeOK, WithinCapacity, StoreHoldsTheDue, [Next]_vars,
                      SessionsTypeOK', NEW s \in Session
               PROVE  /\ Due(s)' => s[2] \in store'[s[1]]
                      /\ s \in deleted' => s \in Created' /\ s[2] \notin store'[s[1]]
    BY DEF StoreHoldsTheDue
  <2> DEFINE w == s[1]
             n == s[2]
  <2>1. /\ w \in Workers /\ n \in 1 .. MaxSessions /\ s = <<w, n>>
        /\ clock \in Nat /\ birth[s] \in Nat /\ count[w] \in Nat
        /\ MaxSize \in Nat \ {0} /\ TTL \in Nat /\ MaxSessions \in Nat
        /\ Due(s) => n \in store[w]
        /\ s \in deleted => n <= count[w] /\ n \notin store[w]
    BY SessionsAssumption DEF SessionsTypeOK, StoreHoldsTheDue, Session, Created
  <2> HIDE DEF w, n
  <2>2. CASE Tick
    <3>1. Due(s)' => Due(s)
      BY <2>1, <2>2 DEF Due, Created, Tick
    <3> QED BY <2>1, <2>2, <3>1 DEF Tick, Created, w, n
  <2>3. ASSUME NEW v \in Workers, NEW choice \in Choice, CreateSession(v, choice)
        PROVE  /\ Due(s)' => n \in store'[w]
               /\ s \in deleted' => n <= count'[w] /\ n \notin store'[w]
    <3>1. CASE v # w
      <4>1. /\ store'[w] = store[w] /\ count'[w] = count[w]
            /\ birth'[s] = birth[s] /\ deleted' = deleted /\ clock' = clock
        BY <2>1, <2>3, <3>1 DEF CreateSession, SessionsTypeOK
      <4>2. Due(s)' => Due(s)
        BY <2>1, <4>1 DEF Due, Created, w
      <4> QED BY <2>1, <4>1, <4>2
    <3>2. CASE v = w
      <4>1. /\ store'[w] = Kept(w) \cup {count[w] + 1} /\ count'[w] = count[w] + 1
            /\ n # count[w] + 1 => birth'[s] = birth[s]
            /\ deleted' = deleted /\ clock' = clock
        BY <2>1, <2>3, <3>2 DEF CreateSession, SessionsTypeOK
      <4>2. /\ Kept(w) \subseteq store[w]
            /\ \A k \in Unexpired(w) : k \in Kept(w) \/ k + MaxSize <= count[w] + 1
        BY <2>1, KeptFits
      <4>3. Due(s)' => n \in store'[w]
        <5> SUFFICES ASSUME Due(s)', n # count[w] + 1 PROVE n \in Kept(w)
          BY <4>1
        <5>1. Due(s) /\ n + MaxSize > count[w] + 1
          BY <2>1, <4>1 DEF Due, Created, w, n
        <5>2. n \in store[w]
          BY <2>1, <5>1
        <5>3. ~IsExpired(<<w, n>>)
          BY <2>1, <5>1 DEF Due, IsExpired
        <5>4. n \in Unexpired(w)
          BY <5>2, <5>3 DEF Unexpired
        <5> QED BY <2>1, <4>2, <5>1, <5>4
      <4>4. s \in deleted' => n <= count'[w] /\ n \notin store'[w]
        <5> SUFFICES ASSUME s \in deleted PROVE n <= count'[w] /\ n \notin store'[w]
          BY <4>1
        <5>1. n <= count[w]
          BY <2>1
        <5> QED BY <2>1, <4>1, <4>2, <5>1
      <4> QED BY <4>3, <4>4
    <3> QED BY <3>1, <3>2
  <2>4. ASSUME NEW v \in Workers, NEW r \in Session, DeleteSession(v, r)
        PROVE  /\ Due(s)' => n \in store'[w]
               /\ s \in deleted' => n <= count'[w] /\ n \notin store'[w]
    <3>1. /\ clock' = clock /\ count' = count /\ birth' = birth
          /\ deleted' = deleted \cup {r} /\ v = r[1]
          /\ store' = [store EXCEPT ![r[1]] = @ \ {r[2]}]
      BY <2>4 DEF DeleteSession, historyVars
    <3>2. CASE r = s
      <4>1. n <= count[w]
        BY <2>4, <3>2 DEF DeleteSession, Created, w, n
      <4>2. s \in deleted' /\ n \notin store'[w]
        BY <2>1, <3>1, <3>2 DEF SessionsTypeOK, w, n
      <4> QED BY <3>1, <4>1, <4>2 DEF Due
    <3>3. CASE r # s
      <4>1. n \in store'[w] <=> n \in store[w]
        BY <2>1, <3>1, <3>3 DEF SessionsTypeOK, Session
      <4>2. Due(s)' => Due(s)
        BY <2>1, <3>1 DEF Due, Created
      <4>3. s \in deleted' => s \in deleted
        BY <3>1, <3>3
      <4> QED BY <2>1, <3>1, <4>1, <4>2, <4>3
    <3> QED BY <3>2, <3>3
  <2>5. CASE Lookup
    <3>1. clock' = clock /\ count' = count /\ birth' = birth /\ deleted' = deleted
      BY <2>5 DEF Lookup, historyVars
    <3>2. store'[w] \subseteq store[w] /\ (Due(s) /\ n \in store[w] => n \in store'[w])
      <4>1. CASE UNCHANGED store
        BY <4>1
      <4>2. ASSUME NEW r \in Session, IsExpired(r),
                   store' = [store EXCEPT ![r[1]] = @ \ {r[2]}]
            PROVE  store'[w] \subseteq store[w] /\ (Due(s) /\ n \in store[w] => n \in store'[w])
        <5>1. Due(s) => r # s
          BY <2>1, <4>2 DEF Due, IsExpired
        <5> QED BY <2>1, <4>2, <5>1 DEF SessionsTypeOK, Session
      <4> QED BY <2>5, <4>1, <4>2 DEF Lookup
    <3>3. Due(s)' => Due(s)
      BY <3>1 DEF Due, Created
    <3> QED BY <2>1, <3>1, <3>2, <3>3 DEF Created, w, n
  <2> QED BY <2>2, <2>3, <2>4, <2>5, StoreSteps DEF Created, w, n
<1> QED BY <1>1, <1>2, TypeCorrect, StoresStaySmall, PTL DEF Spec

\* Threads and statuses know only sessions that were created.
LEMMA OnlyCreatedInvariant == Spec => []OnlyCreated
<1>1. Init => OnlyCreated
  BY DEF Init, OnlyCreated, Idle
<1>2. SessionsTypeOK /\ OnlyCreated /\ [Next]_vars => OnlyCreated'
  <2> SUFFICES ASSUME SessionsTypeOK, OnlyCreated, [Next]_vars PROVE OnlyCreated'
    OBVIOUS
  <2>0. /\ \A w \in Workers : count[w] \in Nat
        /\ handler \in [Thread -> Handler]
        /\ status \in [Session -> {"created", "connected", "disconnected"}]
        /\ \A h \in Handler : /\ [h EXCEPT !.pc = "calling"].pc = "calling"
                              /\ [h EXCEPT !.pc = "calling"].session = h.session
                              /\ [h EXCEPT !.pc = "leaving"].pc = "leaving"
                              /\ [h EXCEPT !.pc = "leaving"].session = h.session
        /\ \A t \in Thread : Idle(t).pc = "idle"
    BY DEF SessionsTypeOK, Handler, Idle
  <2>1. CASE UNCHANGED <<count, status, handler>>
    BY <2>1 DEF OnlyCreated, Created
  <2>2. ASSUME NEW w \in Workers, NEW choice \in Choice, CreateSession(w, choice)
        PROVE  OnlyCreated'
    <3>1. status' = status /\ handler' = handler
      BY <2>2 DEF CreateSession
    <3>2. \A v \in Workers : count[v] <= count'[v]
      BY <2>0, <2>2 DEF CreateSession, SessionsTypeOK
    <3>3. Created \subseteq Created'
      <4>1. count' \in [Workers -> Nat]
        BY <2>0, <2>2 DEF CreateSession, SessionsTypeOK
      <4>2. \A s \in Session : s[1] \in Workers /\ s[2] \in Nat
        BY SessionsAssumption DEF Session
      <4> QED BY <2>0, <3>2, <4>1, <4>2 DEF Created
    <3> QED BY <3>1, <3>3 DEF OnlyCreated
  <2>3. ASSUME NEW t \in Thread, NEW s \in Session, NEW pattern \in Query,
               OpenSocket(t, s, pattern)
        PROVE  OnlyCreated'
    <3>1. status' = status /\ Created' = Created /\ s \in Created
      BY <2>3 DEF OpenSocket, historyVars, Created
    <3>2. \A u \in Thread : u # t => handler'[u] = handler[u]
      BY <2>0, <2>3 DEF OpenSocket
    <3>3. /\ handler'[t].session = s
          /\ handler'[t].pc \in {"found", "calling"}
          /\ handler'[t].pc = "found" => s[1] = t[1]
      BY <2>0, <2>3 DEF OpenSocket, Found
    <3> QED BY <3>1, <3>2, <3>3 DEF OnlyCreated
  <2>4. ASSUME NEW t \in Thread, SetConnected(t) \/ LeaveCall(t) \/ SetDisconnected(t)
        PROVE  OnlyCreated'
    <3>1. Created' = Created
      BY <2>4 DEF SetConnected, LeaveCall, SetDisconnected, historyVars, Created
    <3>2. \A u \in Thread : u # t => handler'[u] = handler[u]
      BY <2>0, <2>4 DEF SetConnected, LeaveCall, SetDisconnected
    <3>3. handler[t].pc # "idle" /\ handler[t] \in Handler
      BY <2>0, <2>4 DEF SetConnected, LeaveCall, SetDisconnected
    <3>4. /\ handler'[t].pc # "idle" => handler'[t].session = handler[t].session
          /\ handler'[t].pc \in {"found", "leaving"} => handler[t].session[1] = t[1]
      <4>1. CASE SetConnected(t)
        BY <2>0, <3>3, <4>1 DEF SetConnected
      <4>2. CASE LeaveCall(t)
        BY <2>0, <3>3, <4>2 DEF LeaveCall, Found
      <4>3. CASE SetDisconnected(t)
        BY <2>0, <3>3, <4>3 DEF SetDisconnected
      <4> QED BY <2>4, <4>1, <4>2, <4>3
    <3>5. \A s \in Session \ Created : status'[s] = status[s]
      <4>1. handler[t].session \in Created
        BY <3>3 DEF OnlyCreated
      <4> QED BY <2>0, <2>4, <4>1 DEF SetConnected, LeaveCall, SetDisconnected
    <3> QED BY <3>1, <3>2, <3>3, <3>4, <3>5 DEF OnlyCreated
  <2> QED BY <2>1, <2>2, <2>3, <2>4
          DEF Next, Tick, GetSessionStatus, DeleteSession, vars, historyVars
<1> QED BY <1>1, <1>2, TypeCorrect, PTL DEF Spec

\* A session in a store that reads as connected has a thread on its call.
THEOREM ConnectedIsServed == Spec => []ConnectedHasSocket
<1>1. Init => ConnectedHasSocket
  BY DEF Init, ConnectedHasSocket
<1>2. SessionsTypeOK /\ OnlyCreated /\ ConnectedHasSocket /\ [Next]_vars
      => ConnectedHasSocket'
  <2> SUFFICES ASSUME SessionsTypeOK, OnlyCreated, ConnectedHasSocket, [Next]_vars,
                      NEW s \in Session, status'[s] = "connected",
                      s[2] \in store'[s[1]]
               PROVE  \E t \in Thread : Serves(t, s)'
    BY DEF ConnectedHasSocket
  <2>0. /\ status[s] = "connected" /\ s[2] \in store[s[1]] => \E t \in Thread : Serves(t, s)
        /\ handler \in [Thread -> Handler]
        /\ status \in [Session -> {"created", "connected", "disconnected"}]
        /\ store \in [Workers -> SUBSET (1 .. MaxSessions)]
        /\ \A h \in Handler : /\ [h EXCEPT !.pc = "calling"].pc = "calling"
                              /\ [h EXCEPT !.pc = "calling"].session = h.session
                              /\ [h EXCEPT !.pc = "leaving"].pc = "leaving"
                              /\ [h EXCEPT !.pc = "leaving"].session = h.session
        /\ s[1] \in Workers /\ s[2] \in 1 .. MaxSessions /\ s = <<s[1], s[2]>>
    BY DEF ConnectedHasSocket, SessionsTypeOK, Handler, Session
  <2>1. CASE UNCHANGED <<status, handler>> /\ s[2] \in store[s[1]]
    BY <2>0, <2>1 DEF Serves
  <2>2. ASSUME NEW w \in Workers, NEW choice \in Choice, CreateSession(w, choice)
        PROVE  UNCHANGED <<status, handler>> /\ s[2] \in store[s[1]]
    <3>1. s \in Created
      BY <2>2 DEF OnlyCreated, CreateSession
    <3>2. s # <<w, count[w] + 1>>
      BY <3>1 DEF Created, SessionsTypeOK
    <3>3. \A v \in Workers : Kept(v) \subseteq store[v]
      BY DEF Kept, Unexpired
    <3>4. CASE w = s[1]
      <4>1. store'[s[1]] = Kept(w) \cup {count[w] + 1}
        BY <2>0, <2>2, <3>4 DEF CreateSession
      <4>2. s[2] # count[w] + 1
        BY <2>0, <3>2, <3>4
      <4> QED BY <2>0, <2>2, <3>3, <4>1, <4>2 DEF CreateSession
    <3>5. CASE w # s[1]
      BY <2>0, <2>2, <3>5 DEF CreateSession
    <3> QED BY <3>4, <3>5
  <2>3. ASSUME NEW w, NEW r \in Session, Get(w, r)
        PROVE  s[2] \in store[s[1]]
    BY <2>0, <2>3 DEF Get
  <2>4. ASSUME NEW w \in Workers, NEW r \in Session, GetSessionStatus(w, r)
        PROVE  UNCHANGED <<status, handler>> /\ s[2] \in store[s[1]]
    BY <2>3, <2>4 DEF GetSessionStatus
  <2>5. ASSUME NEW w \in Workers, NEW r \in Session, DeleteSession(w, r)
        PROVE  UNCHANGED <<status, handler>> /\ s[2] \in store[s[1]]
    BY <2>0, <2>5 DEF DeleteSession
  <2>6. ASSUME NEW t \in Thread, NEW r \in Session, NEW pattern \in Query,
               OpenSocket(t, r, pattern)
        PROVE  \E u \in Thread : Serves(u, s)'
    <3>1. PICK u \in Thread : Serves(u, s)
      BY <2>0, <2>3, <2>6 DEF OpenSocket
    <3>2. u # t
      BY <2>6, <3>1 DEF OpenSocket, Serves
    <3>3. handler'[u] = handler[u]
      BY <2>0, <2>6, <3>2 DEF OpenSocket
    <3> QED BY <3>1, <3>3 DEF Serves
  <2>7. ASSUME NEW t \in Thread, SetConnected(t)
        PROVE  \E u \in Thread : Serves(u, s)'
    <3>1. CASE handler[t].session = s
      <4>1. handler'[t].session = s /\ handler'[t].pc = "calling"
        BY <2>0, <2>7, <3>1 DEF SetConnected
      <4>2. t[1] = s[1]
        BY <2>7, <3>1 DEF SetConnected, OnlyCreated
      <4> QED BY <4>1, <4>2 DEF Serves
    <3>2. CASE handler[t].session # s
      <4>1. status'[s] = status[s] /\ store' = store
        BY <2>0, <2>7, <3>2 DEF SetConnected
      <4>2. PICK u \in Thread : Serves(u, s)
        BY <2>0, <4>1
      <4>3. handler'[u] = handler[u]
        BY <2>0, <2>7, <3>2, <4>2 DEF SetConnected, Serves
      <4> QED BY <4>2, <4>3 DEF Serves
    <3> QED BY <3>1, <3>2
  <2>8. ASSUME NEW t \in Thread, LeaveCall(t)
        PROVE  \E u \in Thread : Serves(u, s)'
    <3>1. handler[t].session \in Session /\ status' = status
      BY <2>0, <2>8 DEF LeaveCall, Handler
    <3>2. PICK u \in Thread : Serves(u, s)
      BY <2>0, <2>3, <2>8, <3>1 DEF LeaveCall
    <3>3. CASE u # t
      <4>1. handler'[u] = handler[u]
        BY <2>0, <2>8, <3>3 DEF LeaveCall
      <4> QED BY <3>2, <4>1 DEF Serves
    <3>4. CASE u = t
      <4>1. Found(t[1], s)
        <5>1. handler[t].session = s /\ t[1] = s[1]
          BY <3>2, <3>4 DEF Serves
        <5>2. s[2] \in store[s[1]]
          BY <2>3, <2>8, <3>1 DEF LeaveCall
        <5>3. ~IsExpired(s)
          BY <2>0, <2>8, <5>1 DEF LeaveCall, Get
        <5> QED BY <5>1, <5>2, <5>3 DEF Found
      <4>2. handler'[t].session = s /\ handler'[t].pc = "leaving"
        BY <2>0, <2>8, <3>2, <3>4, <4>1 DEF LeaveCall, Serves
      <4> QED BY <3>2, <3>4, <4>2 DEF Serves
    <3> QED BY <3>3, <3>4
  <2>9. ASSUME NEW t \in Thread, SetDisconnected(t)
        PROVE  \E u \in Thread : Serves(u, s)'
    <3>1. handler[t].session # s
      BY <2>0, <2>9 DEF SetDisconnected
    <3>2. status'[s] = status[s] /\ store' = store
      BY <2>0, <2>9, <3>1 DEF SetDisconnected
    <3>3. PICK u \in Thread : Serves(u, s)
      BY <2>0, <3>2
    <3>4. handler'[u] = handler[u]
      BY <2>0, <2>9, <3>1, <3>3 DEF SetDisconnected, Serves
    <3> QED BY <3>3, <3>4 DEF Serves
  <2>10. CASE Tick \/ UNCHANGED vars
    BY <2>1, <2>10 DEF Tick, vars
  <2> QED BY <2>1, <2>2, <2>4, <2>5, <2>6, <2>7, <2>8, <2>9, <2>10 DEF Next
<1> QED BY <1>1, <1>2, TypeCorrect, OnlyCreatedInvariant, PTL DEF Spec

\* With one worker a socket runs what its session was created with.
THEOREM OneWorkerReachesCall ==
    ASSUME \A v, w \in Workers : v = w
    PROVE  Spec => PanelReachesCall
<1>1. SessionsTypeOK /\ StoreHoldsTheDue /\ [Next]_vars => [\A t \in Thread : ReachesCall(t)]_vars
  <2> SUFFICES ASSUME SessionsTypeOK, StoreHoldsTheDue, Next, NEW t \in Thread,
                      handler[t].pc = "idle", handler'[t].pc # "idle",
                      handler'[t].query = "none", Due(handler'[t].session)
               PROVE  handler'[t].choice = wanted[handler'[t].session]
    BY DEF ReachesCall
  <2>1. PICK u \in Thread, s \in Session, pattern \in Query : OpenSocket(u, s, pattern)
    <3>1. ASSUME NEW u \in Thread, SetConnected(u) \/ LeaveCall(u) \/ SetDisconnected(u)
          PROVE  FALSE
      BY <3>1 DEF SetConnected, LeaveCall, SetDisconnected, SessionsTypeOK, Idle
    <3>2. handler' # handler
      OBVIOUS
    <3> QED BY <3>1, <3>2 DEF Next, Tick, CreateSession, GetSessionStatus, DeleteSession
  <2>2. /\ t = u /\ handler'[t].session = s
        /\ handler'[t].query = pattern
        /\ handler'[t].choice = Chosen(t[1], s, pattern)
    BY <2>1 DEF OpenSocket, SessionsTypeOK
  <2>3. s[1] = t[1]
    BY DEF Session, Thread
  <2>4. Found(t[1], s)
    <3>1. Due(s) /\ s[2] \in store[s[1]]
      BY <2>2 DEF StoreHoldsTheDue
    <3>2. clock \in Nat /\ birth[s] \in Nat /\ TTL \in Nat
      BY SessionsAssumption DEF SessionsTypeOK
    <3> QED BY <2>3, <3>1, <3>2 DEF Due, Found, IsExpired
  <2>5. pattern = "none"
    BY <2>2
  <2> QED BY <2>2, <2>4, <2>5 DEF Chosen
<1> QED BY <1>1, TypeCorrect, DueSessionsStay, PTL DEF Spec, PanelReachesCall

(***************************************************************************)
(* The shared loop                                                         *)
(***************************************************************************)
LEMMA LoopInvariant == LoopSpec => [](LoopTypeOK /\ SharedIsSet)
<1> USE CallersAssumption DEF LoopTypeOK, SharedIsSet, SharedRuns, Goes
<1>1. LoopInit => LoopTypeOK /\ SharedIsSet
  BY DEF LoopInit
<1>2. LoopTypeOK /\ SharedIsSet /\ [LoopNext]_loopVars => LoopTypeOK' /\ SharedIsSet'
  <2> SUFFICES ASSUME LoopTypeOK, SharedIsSet, [LoopNext]_loopVars
               PROVE  LoopTypeOK' /\ SharedIsSet'
    OBVIOUS
  <2>1. ASSUME NEW c \in Callers, Check(c) PROVE LoopTypeOK' /\ SharedIsSet'
    BY <2>1 DEF Check, Reads
  <2>2. ASSUME NEW c \in Callers, IsRunning(c) PROVE LoopTypeOK' /\ SharedIsSet'
    BY <2>2 DEF IsRunning, Asks
  <2>3. ASSUME NEW c \in Callers, TakeLock(c) PROVE LoopTypeOK' /\ SharedIsSet'
    BY <2>3 DEF TakeLock
  <2>4. ASSUME NEW c \in Callers, Recheck(c) PROVE LoopTypeOK' /\ SharedIsSet'
    BY <2>4 DEF Recheck, Reads
  <2>5. ASSUME NEW c \in Callers, StillNotRunning(c) PROVE LoopTypeOK' /\ SharedIsSet'
    BY <2>5 DEF StillNotRunning, Asks
  <2>6. ASSUME NEW c \in Callers, StartThread(c) PROVE LoopTypeOK' /\ SharedIsSet'
    BY <2>6 DEF StartThread
  <2>7. ASSUME NEW c \in Callers, Waited(c) PROVE LoopTypeOK' /\ SharedIsSet'
    BY <2>7 DEF Waited
  <2>8. ASSUME NEW c \in Callers, ReturnShared(c) PROVE LoopTypeOK' /\ SharedIsSet'
    BY <2>8 DEF ReturnShared
  <2>9. ASSUME NEW c \in Callers, Assign(c) PROVE LoopTypeOK' /\ SharedIsSet'
    BY <2>9 DEF Assign
  <2>10. ASSUME NEW c \in Callers, SetReady(c) PROVE LoopTypeOK' /\ SharedIsSet'
    BY <2>10 DEF SetReady
  <2>11. ASSUME NEW c \in Callers, Load(c) PROVE LoopTypeOK' /\ SharedIsSet'
    BY <2>11 DEF Load
  <2>12. ASSUME NEW c \in Callers, RunForever(c) PROVE LoopTypeOK' /\ SharedIsSet'
    BY <2>12 DEF RunForever
  <2>13. CASE UNCHANGED loopVars
    BY <2>13 DEF loopVars
  <2> QED BY <2>1, <2>2, <2>3, <2>4, <2>5, <2>6, <2>7, <2>8, <2>9, <2>10, <2>11, <2>12, <2>13
          DEF LoopNext, CallerStep, ThreadStep, Over
<1> QED BY <1>1, <1>2, PTL DEF LoopSpec

\* Every variable has its type, and a caller that returned has a loop.
THEOREM LoopTypeCorrect == LoopSpec => []LoopTypeOK
BY LoopInvariant, PTL

\* Once the shared loop runs, no thread is on its way to its loop and no caller
\* is about to start one, the shared loop is the same one for ever.
THEOREM SettledLoopStays == LoopSpec => SettledStays
<1>1. LoopTypeOK /\ SharedIsSet /\ [LoopNext]_loopVars
      => [Settled => shared' = shared /\ Settled']_loopVars
  <2> SUFFICES ASSUME LoopTypeOK, SharedIsSet, LoopNext, Settled
               PROVE  shared' = shared /\ Settled'
    OBVIOUS
  <2> USE DEF Settled, AboutToStart, SharedRuns, Goes, LoopTypeOK
  <2>1. ASSUME NEW c \in Callers, StartThread(c) \/ ThreadStep(c) PROVE FALSE
    BY <2>1 DEF StartThread, ThreadStep, Assign, SetReady, Load, RunForever
  \* Under the lock the loop that is read is the one that runs, and it is found
  \* to run.
  <2>2. ASSUME NEW c \in Callers, Recheck(c)
        PROVE  shared' = shared /\ Settled'
    BY <2>2, CallersAssumption DEF Recheck, Reads
  <2>3. ASSUME NEW c \in Callers, StillNotRunning(c)
        PROVE  shared' = shared /\ Settled'
    BY <2>3 DEF StillNotRunning, Asks
  <2>4. ASSUME NEW c \in Callers,
               Check(c) \/ IsRunning(c) \/ TakeLock(c) \/ Waited(c) \/ ReturnShared(c)
        PROVE  shared' = shared /\ Settled'
    BY <2>4, CallersAssumption DEF Check, IsRunning, Reads, Asks, TakeLock, Waited, ReturnShared
  <2>5. CASE Over
    BY <2>5 DEF Over, loopVars
  <2> QED BY <2>1, <2>2, <2>3, <2>4, <2>5 DEF LoopNext, CallerStep
<1> QED BY <1>1, LoopInvariant, PTL DEF LoopSpec, SettledStays

==============================================================================
