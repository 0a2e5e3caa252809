---------------------------- MODULE CallLogProofs ----------------------------
(***************************************************************************)
(* Proofs about CallLog and the views of LogViews, for any questions,      *)
(* token usage and number of messages: what the panels show, each from its *)
(* own walk over the log, agrees with the call and with one another.       *)
(*                                                                         *)
(* Every view is a Walk over the log, so WalkStep gives what it makes of   *)
(* one more event; every step of CallLog adds an event of one of three     *)
(* kinds, empties the log or leaves it (Effect).  The invariant says of    *)
(* each view what it holds of the log, and one lemma per part of it goes   *)
(* through the effects.                                                    *)
(***************************************************************************)
EXTENDS CallLog, FiniteSetTheorems, NaturalsInduction, SequenceTheorems, TLAPS

\* The handoffs of the log.
Moves == Indices(events, "agent.handoff")

\* What the backend sends beside a result and behind it.
Behind == {"pattern.selected", "session.created", "session.prompt_updated", "agent.handoff",
           "supervisor.exchange", "compaction.applied"}

\* What the backend has yet to send is of the call that is on: the result of the tool
\* call first, then at most one handoff, from the agent the browser knows.
Sending ==
  /\ outbound \in Seq(Event)
  /\ ~live => outbound = <<>>
  /\ \A k \in DOMAIN outbound :
       /\ outbound[k].type \in Behind \cup {"tool.result"}
       /\ outbound[k].type = "tool.result" => k = 1
       /\ outbound[k].type = "agent.handoff" =>
            /\ outbound[k].from = agent /\ outbound[k].to \in Agents
            /\ \A j \in DOMAIN outbound : outbound[j].type = "agent.handoff" => j = k
  /\ Running =>
       /\ Head(outbound).serial \in 1 .. steps
       /\ Head(outbound).asked \subseteq Questions
       /\ Head(outbound).result = "submitted" => Head(outbound).tool = "submit_claim_data"
       /\ Head(outbound).result = "invalid" => Head(outbound).tool = "validate_answer"

\* What the log says of an event of each kind.
Told ==
  /\ \A i \in Moves : events[i].from \in Agents /\ events[i].to \in Agents
  /\ \A i \in Called(events) :
       IF events[i].tool = "validate_answer"
         THEN events[i].question \in Questions /\ events[i].value # Nothing
         ELSE events[i].question = Nothing
  /\ \A j \in Results(events) :
       /\ events[j].result = "submitted" => events[j].tool = "submit_claim_data"
       /\ events[j].result = "invalid" => events[j].tool = "validate_answer"

\* The agents of the log.
Moved ==
  /\ \A i \in Moves : i > since =>
       events[i].to = agent \/ \E j \in Moves : events[j].from = events[i].to
  /\ \A i \in Moves : i > since /\ (\A j \in Moves : j <= i) => events[i].to = agent
  /\ live /\ Moves = {} /\ ~cleared => agent = "greeter"

\* The list s holds the events of some types of a log, and ends with the last of them.
Lists(s, es, types) ==
  LET I == {i \in DOMAIN es : es[i].type \in types}
  IN  /\ s \in Seq(Event)
      /\ {s[k] : k \in DOMAIN s} = {es[i] : i \in I}
      /\ \A i \in I : (\A j \in I : j <= i) => s[Len(s)] = es[i]

\* The handoffs and the steps that the panels list.
Listed == /\ Lists(Handoffs(events), events, {"agent.handoff"})
          /\ Lists(OfTypes(events, DOMAIN StepKinds), events, DOMAIN StepKinds)

\* Tool calls are numbered in their order
Numbered ==
  /\ \A i \in Called(events) : events[i].serial \in 1 .. steps
  /\ \A j \in Results(events) : events[j].serial \in 1 .. steps
  /\ \A i, k \in Called(events) : i < k => events[i].serial < events[k].serial
  /\ \A j, k \in Results(events) : j < k => events[j].serial < events[k].serial
  /\ \A i \in Called(events), j \in Results(events) :
       Own(i, j) => i < j /\ events[i].tool = events[j].tool

\* While a tool runs, its call is the last of the log and what came after it is none of
\* what the panels show a phase for; or the log was cleared since.
Current ==
  Running =>
    /\ \A i \in Called(events) : events[i].serial <= Head(outbound).serial
    /\ \A j \in Results(events) : events[j].serial < Head(outbound).serial
    /\ \A i \in RunningCall :
         /\ events[i].tool = Head(outbound).tool
         /\ \A j \in DOMAIN events : j > i => events[j].type = "error"
    /\ RunningCall = {} => Called(events) = {}

\* The results whose call is in the log.
Expected == {j \in Results(events) : CalledFor(j) # {}}

\* The calls whose result is not in the log.
Unanswered == {i \in Called(events) : ResultFor(i) = {}}

\* What the three pairings hold: each has given every result to its own call; their
\* pending calls have no result, and hold the one that runs.  The pairing of the oldest
\* call does so only while no call was lost.
Paired ==
  LET spans == ComputeSpans(events)
      tools == ComputeToolSpans(events)
      api   == Pair(events, FALSE, FALSE)
  IN  /\ spans.pending = Unanswered /\ spans.pairs = OwnPairs
      /\ tools.pending \subseteq Unanswered /\ RunningCall \subseteq tools.pending
      /\ tools.pairs = OwnPairs
      /\ RunningCall \subseteq api.pending /\ api.pending \subseteq Called(events)
      /\ \A p \in api.pairs : p[1] \in Called(events) /\ events[p[1]].tool = events[p[2]].tool
      /\ {p[2] : p \in api.pairs} = Expected
      /\ Lost = {} => api.pending = RunningCall /\ api.pairs = OwnPairs

\* The answers to a question that a log holds; the questions that have one, and the
\* answers that were accepted.
Replies(es, q) == {i \in Called(es) : es[i].question = q}

Answered == {q \in Questions : Replies(events, q) # {}}

Accepted == {i \in Called(events) :
               \/ \E j \in ResultFor(i) : events[j].result = "valid"
               \/ \E j \in Results(events) : j > i /\ events[j].tool = "submit_claim_data"}

Latest(es, q) == {i \in Replies(es, q) : \A k \in Replies(es, q) : k <= i}

\* The fields of the claim, of a log with some questions answered and some answers
\* accepted: a field with an answer shows the state of the last one, one without was at
\* most asked.
FilledBy(data, es, answered, accepted) ==
  /\ data \in CollectedData
  /\ Fields(data) \subseteq Questions
  /\ \A q \in Questions \ answered :
       data.fields[q].status \in {"none", "asked"} /\ data.fields[q].value = Nothing
  /\ \A q \in answered :
       /\ data.fields[q].value # Nothing
       /\ \A i \in Latest(es, q) :
            data.fields[q].status = IF i \in accepted THEN "validated" ELSE "answered"
       /\ Words[q] \cap LocationWords # {} => data.location # Nothing

\* So are those that the parser collects.
Filled == FilledBy(ExtractCollectedData(events), events, Answered, Accepted)

\* The results of the answers.
Checks == {j \in Results(events) : events[j].tool = "validate_answer"}

\* Each answer was accepted the first time and none of their results was lost.
Smooth ==
  /\ Lost = {}
  /\ \A j \in Checks : events[j].result = "valid" /\ j \in Expected
  /\ \A i, k \in Called(events) :
       events[i].question = events[k].question /\ events[i].question # Nothing => i = k

\* While all is smooth, the panel has a row per answer, marked but for the one that runs.
MarkedBy(panel, answered, running) ==
  /\ \A k \in DOMAIN panel : panel[k].questionId \in answered
  /\ \A q \in answered : \E k \in DOMAIN panel : panel[k].questionId = q
  /\ \A j, k \in DOMAIN panel : panel[j].questionId = panel[k].questionId => j = k
  /\ \A k \in DOMAIN panel : panel[k].valid <=> panel[k].questionId \notin running

\* The question whose answer is being checked.
RunningQuestion == {events[i].question : i \in RunningCall}

\* The rows of the call state panel.
Marked ==
  /\ CollectedFields(events) \in Seq(AnswerRow)
  /\ Smooth => MarkedBy(CollectedFields(events), Answered, RunningQuestion)

\* The models that TotalsAgree asks for.
Models == {"gpt-realtime", "gpt-realtime-1.5", "gpt-realtime-mini"}

\* The rows of the token panel add up to its total, which is the session's count unless
\* the log was cleared.
Added ==
  LET points == BuildTokenPoints(events)
      total == TotalUsage(points)
  IN  /\ points \in Seq(TokenPoint)
      /\ \A k \in 1 .. 2 : tokenUsage[k] >= total[k]
      /\ ~cleared => tokenUsage = total
      /\ \A model \in Models : CostColumn(points, model) = EstimateCost(total, model)

\* The claim on show is the last that the log says was submitted.
Claimed ==
  claimResult # 0 =>
     \A j \in Results(events) : events[j].result = "submitted" => events[j].serial <= claimResult

\* The first n values of a walk.
IsWalk(w, step, base, n) == w = [k \in 0 .. n |-> IF k = 0 THEN base ELSE step[k][w[k - 1]]]

\* Walk is the end of a function that IsWalk describes.
LEMMA WalkChosen ==
    ASSUME NEW step, NEW base
    PROVE  Walk(step, base) = (CHOOSE w : IsWalk(w, step, base, Len(step)))[Len(step)]
BY DEF Walk, IsWalk

\* A set of numbers that is not empty has a least.
LEMMA LeastNumber ==
    ASSUME NEW P \in SUBSET Nat, P # {}
    PROVE  \E m \in P : \A k \in P : m <= k
<1> DEFINE R == {ss \in Nat \X Nat : ss[1] < ss[2]}
<1>1. IsWellFoundedOn(R, Nat)
  BY NatLessThanWellFounded DEF OpToRel
<1>2. PICK n \in P : \A k \in P : ~ (<<k, n>> \in R)
  <2> HIDE DEF R
  <2> QED BY <1>1, WFMin
<1>3. \A k \in P : ~(k < n)
  BY <1>2
<1> QED BY <1>3

\* Each value of a walk is made of the one before it.
LEMMA WalkAt ==
    ASSUME NEW w, NEW step, NEW base, NEW n \in Nat, IsWalk(w, step, base, n)
    PROVE  w[0] = base /\ \A k \in 1 .. n : w[k] = step[k][w[k - 1]]
<1> DEFINE body(k) == IF k = 0 THEN base ELSE step[k][w[k - 1]]
<1>1. w = [k \in 0 .. n |-> body(k)]
  BY DEF IsWalk
<1>2. body(0) = base /\ \A k \in 1 .. n : body(k) = step[k][w[k - 1]]
  OBVIOUS
<1>3. 0 \in 0 .. n /\ \A k \in 1 .. n : k \in 0 .. n
  OBVIOUS
<1> HIDE DEF body
<1>4. \A k \in 0 .. n : w[k] = body(k)
  BY <1>1
<1> QED BY <1>2, <1>3, <1>4

\* A function whose values are made so is a walk.
LEMMA WalkIs ==
    ASSUME NEW w, NEW step, NEW base, NEW n \in Nat, w = [k \in 0 .. n |-> w[k]],
           w[0] = base, \A k \in 1 .. n : w[k] = step[k][w[k - 1]]
    PROVE  IsWalk(w, step, base, n)
<1> DEFINE body(k) == IF k = 0 THEN base ELSE step[k][w[k - 1]]
<1>1. \A k \in 0 .. n : k = 0 \/ k \in 1 .. n
  OBVIOUS
<1>2. \A k \in 0 .. n : w[k] = body(k)
  BY <1>1
<1> HIDE DEF body
<1>3. w = [k \in 0 .. n |-> body(k)]
  BY <1>2
<1> QED BY <1>3 DEF IsWalk, body

\* There is a walk of any length.
LEMMA WalkExists ==
    ASSUME NEW step, NEW base, NEW n \in Nat
    PROVE  \E w : IsWalk(w, step, base, n)
<1> DEFINE Bad == {k \in Nat : ~ \E w : IsWalk(w, step, base, k)}
<1> SUFFICES ASSUME Bad # {} PROVE FALSE
  OBVIOUS
<1>0. Bad \in SUBSET Nat
  OBVIOUS
<1>1. PICK k \in Bad : \A j \in Bad : k <= j
  <2> HIDE DEF Bad
  <2> QED BY <1>0, LeastNumber
<1>2. 0 \notin Bad
  <2> DEFINE w == [i \in 0 .. 0 |-> base]
  <2>1. w = [i \in 0 .. 0 |-> w[i]] /\ w[0] = base
    OBVIOUS
  <2> HIDE DEF w
  <2>2. IsWalk(w, step, base, 0)
    <3>1. 0 \in Nat /\ \A j \in 1 .. 0 : w[j] = step[j][w[j - 1]]
      OBVIOUS
    <3> QED BY <2>1, <3>1, WalkIs
  <2> QED BY <2>2
<1>3. k # 0 /\ k - 1 \in Nat /\ k - 1 \notin Bad
  BY <1>0, <1>1, <1>2
<1>4. PICK w : IsWalk(w, step, base, k - 1)
  BY <1>3
<1>5. w[0] = base /\ \A i \in 1 .. k - 1 : w[i] = step[i][w[i - 1]]
  BY <1>3, <1>4, WalkAt
<1> DEFINE v == [i \in 0 .. k |-> IF i = k THEN step[k][w[k - 1]] ELSE w[i]]
<1>6. v = [i \in 0 .. k |-> v[i]]
  OBVIOUS
<1>7. v[0] = base /\ v[k] = step[k][w[k - 1]] /\ \A i \in 1 .. k - 1 : v[i] = w[i]
  BY <1>0, <1>3, <1>5
<1>8. v[k - 1] = w[k - 1]
  BY <1>0, <1>3
<1> HIDE DEF v
<1>9. \A i \in 1 .. k : v[i] = step[i][v[i - 1]]
  <2> TAKE i \in 1 .. k
  <2>1. CASE i = k
    BY <1>7, <1>8, <2>1
  <2>2. CASE i # k
    <3>1. i \in 1 .. k - 1 /\ (i - 1 = 0 \/ i - 1 \in 1 .. k - 1)
      BY <1>0, <2>2
    <3> QED BY <1>5, <1>7, <3>1
  <2> QED BY <2>1, <2>2
<1>10. IsWalk(v, step, base, k)
  BY <1>0, <1>6, <1>7, <1>9, WalkIs
<1> QED BY <1>10

\* The functions g are the n functions f on S, and one more.
Extends(S, n, base, f, g) ==
  /\ n \in Nat /\ base \in S
  /\ Len(f) = n /\ Len(g) = n + 1
  /\ \A a \in S : \A i \in 1 .. n : f[i][a] \in S /\ g[i][a] = f[i][a]

\* A walk over one more function makes one more step from where the walk ended.
LEMMA WalkStep ==
    ASSUME NEW S, NEW n, NEW base, NEW f, NEW g, Extends(S, n, base, f, g)
    PROVE  /\ Walk(f, base) \in S
           /\ Walk(g, base) = g[n + 1][Walk(f, base)]
<1> DEFINE v == CHOOSE w : IsWalk(w, f, base, n)
           u == CHOOSE w : IsWalk(w, g, base, n + 1)
<1>e. /\ n \in Nat /\ base \in S /\ Len(f) = n /\ Len(g) = n + 1
      /\ \A a \in S : \A i \in 1 .. n : f[i][a] \in S /\ g[i][a] = f[i][a]
  BY DEF Extends
<1>0. n + 1 \in Nat
  BY <1>e
<1>a. IsWalk(v, f, base, n)
  BY <1>e, WalkExists
<1>b. IsWalk(u, g, base, n + 1)
  BY <1>0, WalkExists
<1>2. Walk(f, base) = v[n] /\ Walk(g, base) = u[n + 1]
  BY <1>e, WalkChosen
<1> HIDE DEF v, u
<1>3. v[0] = base /\ \A i \in 1 .. n : v[i] = f[i][v[i - 1]]
  BY <1>e, <1>a, WalkAt
<1>4. u[0] = base /\ \A i \in 1 .. n + 1 : u[i] = g[i][u[i - 1]]
  BY <1>0, <1>b, WalkAt
<1>5. \A k \in 0 .. n : v[k] \in S /\ u[k] = v[k]
  <2> DEFINE Bad == {k \in 0 .. n : ~(v[k] \in S /\ u[k] = v[k])}
  <2> SUFFICES ASSUME Bad # {} PROVE FALSE
    OBVIOUS
  <2>0. Bad \in SUBSET Nat /\ 0 \notin Bad /\ Bad \in SUBSET (0 .. n)
    BY <1>e, <1>3, <1>4
  <2>1. PICK k \in Bad : \A j \in Bad : k <= j
    <3> HIDE DEF Bad
    <3> QED BY <2>0, LeastNumber
  <2>2. k \in 1 .. n /\ k - 1 \in 0 .. n /\ k - 1 \notin Bad
    <3> HIDE DEF Bad
    <3> QED BY <1>e, <2>0, <2>1
  <2>3. v[k - 1] \in S /\ u[k - 1] = v[k - 1] /\ k \in 1 .. n + 1
    BY <1>e, <2>2
  <2>4. v[k] \in S /\ u[k] = v[k]
    <3>1. v[k] = f[k][v[k - 1]] /\ u[k] = g[k][u[k - 1]]
      BY <1>3, <1>4, <2>2, <2>3
    <3>2. f[k][v[k - 1]] \in S /\ g[k][v[k - 1]] = f[k][v[k - 1]]
      BY <1>e, <2>2, <2>3
    <3> HIDE DEF Bad
    <3> QED BY <2>3, <3>1, <3>2
  <2> QED BY <2>2, <2>4
<1>6. n \in 0 .. n /\ n + 1 \in 1 .. n + 1 /\ (n + 1) - 1 = n
  BY <1>e
<1> QED BY <1>2, <1>4, <1>5, <1>6

\* A walk over no function stays.
LEMMA WalkNone ==
    ASSUME NEW f, NEW base, Len(f) = 0 PROVE Walk(f, base) = base
<1> DEFINE v == CHOOSE x : IsWalk(x, f, base, 0)
<1>1. IsWalk(v, f, base, 0)
  <2>1. 0 \in Nat
    OBVIOUS
  <2> QED BY <2>1, WalkExists
<1>2. Walk(f, base) = v[0]
  BY WalkChosen
<1> HIDE DEF v
<1>3. 0 \in Nat
  OBVIOUS
<1> QED BY <1>1, <1>2, <1>3, WalkAt

(***************************************************************************)
(* What each view makes of one more event.                                 *)
(***************************************************************************)
LEMMA LogAppend ==
    ASSUME NEW T, NEW es \in Seq(T), NEW e \in T
    PROVE  /\ Append(es, e) \in Seq(T)
           /\ Len(es) \in Nat /\ DOMAIN es = 1 .. Len(es)
           /\ Len(Append(es, e)) = Len(es) + 1
           /\ DOMAIN Append(es, e) = 1 .. Len(es) + 1
           /\ Append(es, e)[Len(es) + 1] = e
           /\ \A i \in 1 .. Len(es) : Append(es, e)[i] = es[i] /\ es[i] \in T
  OBVIOUS

\* The functions of a view over a log, and those over one more event.
LEMMA LogFunctions ==
    ASSUME NEW n \in Nat, NEW f, DOMAIN f = 1 .. n, f = [i \in DOMAIN f |-> f[i]]
    PROVE  Len(f) = n
  OBVIOUS

\* OfTypes: the event is listed if its type is.
LEMMA OfTypesAppend ==
    ASSUME NEW es \in Seq(Event), NEW e \in Event, NEW types
    PROVE  /\ OfTypes(es, types) \in Seq(Event)
           /\ OfTypes(Append(es, e), types) =
                IF e.type \in types THEN Append(OfTypes(es, types), e) ELSE OfTypes(es, types)
<1> DEFINE n == Len(es)
           es1 == Append(es, e)
           S == Seq(Event)
           f == [i \in DOMAIN es |-> [kept \in S |->
                   IF es[i].type \in types THEN Append(kept, es[i]) ELSE kept]]
           g == [i \in DOMAIN es1 |-> [kept \in S |->
                   IF es1[i].type \in types THEN Append(kept, es1[i]) ELSE kept]]
<1>1. /\ n \in Nat /\ DOMAIN es = 1 .. n /\ DOMAIN es1 = 1 .. n + 1 /\ es1[n + 1] = e
      /\ \A i \in 1 .. n : es1[i] = es[i] /\ es[i] \in Event
  BY LogAppend
<1> HIDE DEF n, es1
<1>2. Len(f) = n /\ Len(g) = n + 1
  BY <1>1, LogFunctions
<1>3. \A a \in S : \A i \in 1 .. n : f[i][a] \in S /\ g[i][a] = f[i][a]
  <2> SUFFICES ASSUME NEW a \in S, NEW i \in 1 .. n PROVE f[i][a] \in S /\ g[i][a] = f[i][a]
    OBVIOUS
  <2>1. f[i][a] = IF es[i].type \in types THEN Append(a, es[i]) ELSE a
    BY <1>1
  <2>2. g[i][a] = IF es[i].type \in types THEN Append(a, es[i]) ELSE a
    BY <1>1
  <2> HIDE DEF f, g
  <2> QED BY <1>1, <2>1, <2>2, LogAppend
<1>4. \A a \in S : g[n + 1][a] = IF e.type \in types THEN Append(a, e) ELSE a
  BY <1>1
<1>5. <<>> \in S
  OBVIOUS
<1>6. OfTypes(es, types) = Walk(f, <<>>) /\ OfTypes(es1, types) = Walk(g, <<>>)
  <2>1. OfTypes(es, types) = Walk(f, <<>>)
    BY DEF OfTypes
  <2>2. OfTypes(es1, types) = Walk(g, <<>>)
    BY DEF OfTypes
  <2> QED BY <2>1, <2>2
<1> HIDE DEF f, g, S
<1>7. Walk(f, <<>>) \in S /\ Walk(g, <<>>) = g[n + 1][Walk(f, <<>>)]
  <2>1. Extends(S, n, <<>>, f, g)
    BY <1>1, <1>2, <1>3, <1>5 DEF Extends
  <2> QED BY <2>1, WalkStep
<1> QED BY <1>4, <1>6, <1>7 DEF es1, S

\* A set of bounded numbers has a largest, its Max.
LEMMA MaxIs ==
    ASSUME NEW n \in Nat, NEW I \in SUBSET (0 .. n), I # {}
    PROVE  Max(I) \in I /\ \A i \in I : i <= Max(I)
<1> DEFINE P == {k \in 0 .. n : n - k \in I}
<1>0. \A i \in I : i \in 0 .. n /\ n - i \in P
  <2>1. \A i \in I : i \in 0 .. n
    OBVIOUS
  <2>2. \A i \in 0 .. n : n - i \in 0 .. n /\ n - (n - i) = i
    OBVIOUS
  <2> QED BY <2>1, <2>2
<1>1. P \in SUBSET Nat /\ P # {}
  <2>1. P \in SUBSET Nat
    OBVIOUS
  <2>2. PICK i \in I : TRUE
    OBVIOUS
  <2> HIDE DEF P
  <2> QED BY <1>0, <2>1, <2>2
<1>2. PICK m \in P : \A k \in P : m <= k
  <2> HIDE DEF P
  <2> QED BY <1>1, LeastNumber
<1>3. PICK x \in I : m = n - x
  <2>1. m \in 0 .. n /\ n - m \in I /\ m = n - (n - m)
    OBVIOUS
  <2> QED BY <2>1
<1> HIDE DEF P
<1>5. \A i \in I : x >= i
  BY <1>0, <1>2, <1>3
<1>6. \A i \in I : i \in Int
  OBVIOUS
<1>7. Max(I) \in I /\ \A i \in I : Max(I) >= i
  BY <1>5 DEF Max
<1> QED BY <1>6, <1>7

\* A set of bounded numbers has a least, its Min.
LEMMA MinIs ==
    ASSUME NEW n \in Nat, NEW I \in SUBSET (0 .. n), I # {}
    PROVE  Min(I) \in I /\ \A i \in I : Min(I) <= i
<1>1. I \in SUBSET Nat
  OBVIOUS
<1>2. PICK m \in I : \A k \in I : m <= k
  BY <1>1, LeastNumber
<1> QED BY <1>2 DEF Min

\* A step of a pairing stays in what it pairs, and reads what came before it only.
LEMMA PairEventReads ==
    ASSUME NEW es \in Seq(Event), NEW es1 \in Seq(Event), Len(es) <= Len(es1),
           \A j \in 1 .. Len(es) : es1[j] = es[j],
           NEW a \in Pairings(es), NEW i \in 1 .. Len(es), NEW replaces, NEW last
    PROVE  /\ PairEvent(es, a, i, replaces, last) \in Pairings(es)
           /\ PairEvent(es1, a, i, replaces, last) = PairEvent(es, a, i, replaces, last)
<1> DEFINE candidates == SameTool(es, a.pending, i)
           own == IF last THEN Max(candidates) ELSE Min(candidates)
<1>1. DOMAIN es = 1 .. Len(es) /\ Len(es) \in Nat
  OBVIOUS
<1>2. a \in [pending : SUBSET (1 .. Len(es)), pairs : SUBSET ((1 .. Len(es)) \X (1 .. Len(es)))]
  BY <1>1 DEF Pairings
<1>3. SameTool(es1, a.pending, i) = candidates
  BY <1>2 DEF SameTool
<1>4. candidates \in SUBSET (1 .. Len(es)) /\ candidates \in SUBSET (0 .. Len(es))
  BY <1>2 DEF SameTool
<1> HIDE DEF candidates
<1>5. candidates # {} => own \in 1 .. Len(es)
  BY <1>1, <1>4, MaxIs, MinIs
<1> HIDE DEF own
<1>a. a = [pending |-> a.pending, pairs |-> a.pairs]
  BY <1>2
<1>6. PairEvent(es, a, i, replaces, last) \in Pairings(es)
  <2>1. CASE es[i].type = "tool.called"
    <3>1. PairEvent(es, a, i, replaces, last) =
            [pending |-> (IF replaces THEN a.pending \ candidates ELSE a.pending) \cup {i},
             pairs |-> a.pairs]
      BY <1>a, <2>1 DEF PairEvent, candidates
    <3> QED BY <3>1, <1>1, <1>2 DEF Pairings
  <2>2. CASE es[i].type = "tool.result" /\ candidates # {}
    <3>1. PairEvent(es, a, i, replaces, last) =
            [pending |-> a.pending \ {own}, pairs |-> a.pairs \cup {<<own, i>>}]
      BY <1>a, <2>2 DEF PairEvent, candidates, own
    <3> QED BY <3>1, <1>1, <1>2, <1>5, <2>2 DEF Pairings
  <2>3. CASE es[i].type # "tool.called" /\ ~(es[i].type = "tool.result" /\ candidates # {})
    BY <2>3 DEF PairEvent, candidates
  <2> QED BY <2>1, <2>2, <2>3
<1>7. es1[i] = es[i]
  OBVIOUS
<1>8. PairEvent(es1, a, i, replaces, last) = PairEvent(es, a, i, replaces, last)
  BY <1>3, <1>7 DEF PairEvent, candidates
<1> QED BY <1>6, <1>8

\* The pairing acc of the log es, and acc1 of the log with one more event e.
Pairs1(es, e, acc, acc1, replaces, last) ==
  LET calls == {j \in acc.pending : es[j].tool = e.tool}
      n == Len(es) + 1
  IN  /\ acc \in Pairings(es)
      /\ e.type = "tool.called" =>
           /\ acc1.pending = (IF replaces THEN acc.pending \ calls ELSE acc.pending) \cup {n}
           /\ acc1.pairs = acc.pairs
      /\ e.type = "tool.result" /\ calls # {} =>
           \E own \in calls : /\ last => \A j \in calls : j <= own
                              /\ acc1.pending = acc.pending \ {own}
                              /\ acc1.pairs = acc.pairs \cup {<<own, n>>}
      /\ e.type # "tool.called" /\ (e.type = "tool.result" => calls = {}) => acc1 = acc

\* Pair: the pairing of a longer log is made of the one before by PairEvent.
LEMMA PairAppend ==
    ASSUME NEW es \in Seq(Event), NEW e \in Event, NEW replaces, NEW last
    PROVE  Pairs1(es, e, Pair(es, replaces, last), Pair(Append(es, e), replaces, last), replaces, last)
<1> DEFINE n == Len(es)
           es1 == Append(es, e)
           S == Pairings(es)
           none == [pending |-> {}, pairs |-> {}]
           f == [i \in DOMAIN es |-> [a \in Pairings(es) |-> PairEvent(es, a, i, replaces, last)]]
           g == [i \in DOMAIN es1 |-> [a \in Pairings(es1) |-> PairEvent(es1, a, i, replaces, last)]]
           acc == Pair(es, replaces, last)
           acc1 == Pair(es1, replaces, last)
           calls == {j \in acc.pending : es[j].tool = e.tool}
<1>1. /\ n \in Nat /\ DOMAIN es = 1 .. n /\ DOMAIN es1 = 1 .. n + 1 /\ es1[n + 1] = e
      /\ \A i \in 1 .. n : es1[i] = es[i]
      /\ es1 \in Seq(Event) /\ Len(es1) = n + 1
  BY LogAppend
<1> HIDE DEF es1
<1>2. S \subseteq Pairings(es1) /\ none \in S
  BY <1>1 DEF Pairings
<1>3. Len(f) = n /\ Len(g) = n + 1
  BY <1>1, LogFunctions
<1>4. \A a \in S : \A i \in 1 .. n : f[i][a] \in S /\ g[i][a] = f[i][a]
  <2> SUFFICES ASSUME NEW a \in S, NEW i \in 1 .. n PROVE f[i][a] \in S /\ g[i][a] = f[i][a]
    OBVIOUS
  <2>1. f[i][a] = PairEvent(es, a, i, replaces, last)
    BY <1>1
  <2>2. g[i][a] = PairEvent(es1, a, i, replaces, last)
    BY <1>1, <1>2
  <2> HIDE DEF f, g
  <2> QED BY <1>1, <2>1, <2>2, PairEventReads
<1>5. \A a \in S : g[n + 1][a] = PairEvent(es1, a, n + 1, replaces, last)
  BY <1>1, <1>2
<1>6. acc = Walk(f, none) /\ acc1 = Walk(g, none)
  <2>1. acc = Walk(f, none)
    BY DEF Pair
  <2>2. acc1 = Walk(g, none)
    BY DEF Pair
  <2> QED BY <2>1, <2>2
<1> HIDE DEF f, g, S, none
<1>7. Walk(f, none) \in S /\ Walk(g, none) = g[n + 1][Walk(f, none)]
  <2>1. Extends(S, n, none, f, g)
    BY <1>1, <1>2, <1>3, <1>4 DEF Extends
  <2> QED BY <2>1, WalkStep
<1>8. acc \in Pairings(es) /\ acc1 = PairEvent(es1, acc, n + 1, replaces, last)
  BY <1>5, <1>6, <1>7 DEF S
<1> HIDE DEF acc, acc1
<1>9. acc = [pending |-> acc.pending, pairs |-> acc.pairs] /\ acc.pending \in SUBSET (1 .. n)
  BY <1>1, <1>8 DEF Pairings
<1>10. SameTool(es1, acc.pending, n + 1) = calls
  BY <1>1, <1>9 DEF SameTool
<1>11. calls \in SUBSET (0 .. n)
  BY <1>9
<1> HIDE DEF calls
<1>12. ASSUME e.type = "tool.called"
       PROVE  /\ acc1.pending = (IF replaces THEN acc.pending \ calls ELSE acc.pending) \cup {n + 1}
              /\ acc1.pairs = acc.pairs
  BY <1>1, <1>8, <1>9, <1>10, <1>12 DEF PairEvent
<1>13. ASSUME e.type = "tool.result", calls # {}
       PROVE  \E own \in calls : /\ last => \A j \in calls : j <= own
                                 /\ acc1.pending = acc.pending \ {own}
                                 /\ acc1.pairs = acc.pairs \cup {<<own, n + 1>>}
  <2> DEFINE own == IF last THEN Max(calls) ELSE Min(calls)
  <2>1. own \in calls /\ (last => \A j \in calls : j <= own)
    BY <1>1, <1>11, <1>13, MaxIs, MinIs
  <2>2. acc1.pending = acc.pending \ {own} /\ acc1.pairs = acc.pairs \cup {<<own, n + 1>>}
    BY <1>1, <1>8, <1>9, <1>10, <1>13 DEF PairEvent
  <2> QED BY <2>1, <2>2
<1>14. e.type # "tool.called" /\ (e.type = "tool.result" => calls = {}) => acc1 = acc
  BY <1>1, <1>8, <1>10 DEF PairEvent
<1> QED BY <1>8, <1>12, <1>13, <1>14 DEF acc, acc1, calls, es1, Pairs1

\* The type of what the progress board has collected is kept.
LEMMA ReadEventReads ==
    ASSUME NEW es \in Seq(Event), NEW es1 \in Seq(Event), Len(es) <= Len(es1),
           \A j \in 1 .. Len(es) : es1[j] = es[j],
           NEW a \in CollectedData, NEW i \in 1 .. Len(es)
    PROVE  ReadEvent(es, a, i) \in CollectedData /\ ReadEvent(es1, a, i) = ReadEvent(es, a, i)
<1>1. es[i] \in Event /\ es1[i] = es[i]
  OBVIOUS
<1>2. es[i].value \in Texts
  BY <1>1 DEF Event
<1>3. a.fields \in [DOMAIN Words -> FieldState] /\ a.claimType \in Texts /\ a.location \in Texts
      /\ a = [claimType |-> a.claimType, location |-> a.location, fields |-> a.fields]
  BY DEF CollectedData
<1>4. AnswerField(a, es[i]) \in CollectedData
  <2> DEFINE fs == [a.fields EXCEPT ![es[i].question] = [status |-> "answered", value |-> es[i].value]]
             at == IF Words[es[i].question] \cap LocationWords # {} THEN es[i].value ELSE a.location
  <2>1. AnswerField(a, es[i]) = [claimType |-> a.claimType, location |-> at, fields |-> fs]
    <3>1. AnswerField(a, es[i]) = [[a EXCEPT !.fields = fs] EXCEPT !.location = at]
      BY DEF AnswerField
    <3> HIDE DEF fs, at
    <3> QED BY <3>1 DEF CollectedData
  <2>2. [status |-> "answered", value |-> es[i].value] \in FieldState
    BY <1>2 DEF FieldState
  <2>3. fs \in [DOMAIN Words -> FieldState]
    BY <1>3, <2>2
  <2>4. at \in Texts
    BY <1>2, <1>3
  <2> QED BY <1>3, <2>1, <2>3, <2>4 DEF CollectedData
<1>5. AskFields(a, es[i]) \in CollectedData
  <2> DEFINE fs == [q \in DOMAIN Words |->
                      IF q \in es[i].asked \ Fields(a) THEN [status |-> "asked", value |-> Nothing]
                      ELSE a.fields[q]]
  <2>1. AskFields(a, es[i]) = [claimType |-> a.claimType, location |-> a.location, fields |-> fs]
    BY DEF AskFields, CollectedData
  <2>2. [status |-> "asked", value |-> Nothing] \in FieldState
    BY DEF FieldState, Nothing, Texts
  <2>3. fs \in [DOMAIN Words -> FieldState]
    BY <1>3, <2>2
  <2> QED BY <1>3, <2>1, <2>3 DEF CollectedData
<1>6. ASSUME NEW q PROVE ValidateField(a, q) \in CollectedData
  <2> SUFFICES ASSUME q \in Fields(a) PROVE ValidateField(a, q) \in CollectedData
    BY DEF ValidateField
  <2> DEFINE fs == [a.fields EXCEPT ![q] = [status |-> "validated", value |-> a.fields[q].value]]
  <2>1. q \in DOMAIN Words /\ a.fields[q] \in FieldState
    BY <1>3 DEF Fields
  <2>2. [a.fields[q] EXCEPT !.status = "validated"] = [status |-> "validated", value |-> a.fields[q].value]
    BY <2>1 DEF FieldState
  <2>3. [status |-> "validated", value |-> a.fields[q].value] \in FieldState
    BY <2>1 DEF FieldState
  <2>4. ValidateField(a, q) = [claimType |-> a.claimType, location |-> a.location, fields |-> fs]
    BY <1>3, <2>2 DEF ValidateField
  <2>5. fs \in [DOMAIN Words -> FieldState]
    BY <1>3, <2>3
  <2> QED BY <1>3, <2>4, <2>5 DEF CollectedData
<1>7. ValidateAnswered(a) \in CollectedData
  <2> DEFINE fs == [q \in DOMAIN Words |-> Submitted(a.fields[q])]
  <2>1. ValidateAnswered(a) = [claimType |-> a.claimType, location |-> a.location, fields |-> fs]
    BY <1>3 DEF ValidateAnswered
  <2>2. \A x \in FieldState : Submitted(x) \in FieldState
    BY DEF FieldState, Submitted
  <2>3. fs \in [DOMAIN Words -> FieldState]
    BY <1>3, <2>2
  <2> QED BY <1>3, <2>1, <2>3 DEF CollectedData
<1>8. [a EXCEPT !.claimType = es[i].value] \in CollectedData
  BY <1>2, <1>3 DEF CollectedData
<1>9. ReadEvent(es, a, i) \in CollectedData
  BY <1>4, <1>5, <1>6, <1>7, <1>8 DEF ReadEvent
<1>10. FindQuestionId(es1, i) = FindQuestionId(es, i)
  <2>1. {j \in Called(es1) : j < i /\ es1[j].tool = "validate_answer"}
          = {j \in Called(es) : j < i /\ es[j].tool = "validate_answer"}
    BY DEF Called, Indices
  <2> DEFINE calls == {j \in Called(es) : j < i /\ es[j].tool = "validate_answer"}
  <2>2. calls \in SUBSET (1 .. Len(es)) /\ calls \in SUBSET (0 .. Len(es)) /\ Len(es) \in Nat
    BY DEF Called, Indices
  <2>3. FindQuestionId(es1, i) = IF calls = {} THEN Nothing ELSE es1[Max(calls)].question
    BY <2>1 DEF FindQuestionId
  <2>4. FindQuestionId(es, i) = IF calls = {} THEN Nothing ELSE es[Max(calls)].question
    BY DEF FindQuestionId
  <2> HIDE DEF calls
  <2>5. calls # {} => Max(calls) \in 1 .. Len(es)
    BY <2>2, MaxIs
  <2> QED BY <2>3, <2>4, <2>5
<1>11. ReadEvent(es1, a, i) = ReadEvent(es, a, i)
  BY <1>1, <1>10 DEF ReadEvent
<1> QED BY <1>9, <1>11

\* ExtractCollectedData: the fields of a longer log are made by ReadEvent.
LEMMA DataAppend ==
    ASSUME NEW es \in Seq(Event), NEW e \in Event
    PROVE  /\ ExtractCollectedData(es) \in CollectedData
           /\ ExtractCollectedData(Append(es, e))
                = ReadEvent(Append(es, e), ExtractCollectedData(es), Len(es) + 1)
<1> DEFINE n == Len(es)
           es1 == Append(es, e)
           f == [i \in DOMAIN es |-> [a \in CollectedData |-> ReadEvent(es, a, i)]]
           g == [i \in DOMAIN es1 |-> [a \in CollectedData |-> ReadEvent(es1, a, i)]]
<1>1. /\ n \in Nat /\ DOMAIN es = 1 .. n /\ DOMAIN es1 = 1 .. n + 1
      /\ \A i \in 1 .. n : es1[i] = es[i]
      /\ es1 \in Seq(Event) /\ Len(es1) = n + 1
  BY LogAppend
<1> HIDE DEF es1
<1>2. NoData \in CollectedData
  <2>1. [status |-> "none", value |-> Nothing] \in FieldState
    BY DEF FieldState, Texts
  <2> QED BY <2>1 DEF NoData, CollectedData, Texts
<1>3. Len(f) = n /\ Len(g) = n + 1
  BY <1>1, LogFunctions
<1>4. \A a \in CollectedData : \A i \in 1 .. n : f[i][a] \in CollectedData /\ g[i][a] = f[i][a]
  <2> SUFFICES ASSUME NEW a \in CollectedData, NEW i \in 1 .. n
               PROVE  f[i][a] \in CollectedData /\ g[i][a] = f[i][a]
    OBVIOUS
  <2>1. f[i][a] = ReadEvent(es, a, i)
    BY <1>1
  <2>2. g[i][a] = ReadEvent(es1, a, i)
    BY <1>1
  <2> HIDE DEF f, g
  <2> QED BY <1>1, <2>1, <2>2, ReadEventReads
<1>5. \A a \in CollectedData : g[n + 1][a] = ReadEvent(es1, a, n + 1)
  BY <1>1
<1>6. ExtractCollectedData(es) = Walk(f, NoData) /\ ExtractCollectedData(es1) = Walk(g, NoData)
  <2>1. ExtractCollectedData(es) = Walk(f, NoData)
    BY DEF ExtractCollectedData
  <2>2. ExtractCollectedData(es1) = Walk(g, NoData)
    BY DEF ExtractCollectedData
  <2> QED BY <2>1, <2>2
<1> HIDE DEF f, g
<1>7. Walk(f, NoData) \in CollectedData /\ Walk(g, NoData) = g[n + 1][Walk(f, NoData)]
  <2>1. Extends(CollectedData, n, NoData, f, g)
    BY <1>1, <1>2, <1>3, <1>4 DEF Extends
  <2> QED BY <2>1, WalkStep
<1> QED BY <1>5, <1>6, <1>7 DEF es1

\* ReadAnswer makes rows of rows, whatever event it reads.
LEMMA ReadAnswerReads ==
    ASSUME NEW a \in Seq(AnswerRow), NEW e \in Event
    PROVE  ReadAnswer(a, e) \in Seq(AnswerRow)
<1>0. /\ e.question \in DOMAIN Words \cup {Nothing} /\ e.value \in Texts
      /\ DOMAIN a = 1 .. Len(a) /\ Len(a) \in Nat
  BY DEF Event
<1>1. CollectAnswer(a, e) \in Seq(AnswerRow)
  <2> DEFINE own == {k \in DOMAIN a : a[k].questionId = e.question}
             row == [questionId |-> e.question, answer |-> e.value, valid |-> FALSE]
  <2>1. row \in AnswerRow
    BY <1>0 DEF AnswerRow
  <2>2. own # {} => Min(own) \in own
    <3>1. own \in SUBSET (0 .. Len(a))
      BY <1>0
    <3> HIDE DEF own
    <3> QED BY <1>0, <3>1, MinIs
  <2>3. \A k \in DOMAIN a : [a EXCEPT ![k].answer = e.value] \in Seq(AnswerRow)
    <3> SUFFICES ASSUME NEW k \in DOMAIN a PROVE [a EXCEPT ![k].answer = e.value] \in Seq(AnswerRow)
      OBVIOUS
    <3>1. a[k] \in AnswerRow
      OBVIOUS
    <3> DEFINE new == [a[k] EXCEPT !.answer = e.value]
    <3>2. new \in AnswerRow
      BY <1>0, <3>1 DEF AnswerRow
    <3>3. k \in 1 .. Len(a)
      BY <1>0
    <3> HIDE DEF new
    <3>4. [a EXCEPT ![k] = new] \in Seq(AnswerRow)
      BY <3>2, <3>3, ExceptSeq
    <3> QED BY <3>4 DEF new
  <2>4. CollectAnswer(a, e) = IF own = {} THEN Append(a, row)
                              ELSE [a EXCEPT ![Min(own)].answer = e.value]
    BY DEF CollectAnswer
  <2>5. own \in SUBSET DOMAIN a
    OBVIOUS
  <2> HIDE DEF own, row
  <2>6. CASE own = {}
    <3>1. CollectAnswer(a, e) = Append(a, row)
      BY <2>4, <2>6
    <3> QED BY <2>1, <3>1
  <2>7. CASE own # {}
    <3>1. CollectAnswer(a, e) = [a EXCEPT ![Min(own)].answer = e.value]
      BY <2>4, <2>7
    <3> QED BY <2>2, <2>3, <2>5, <2>7, <3>1
  <2> QED BY <2>6, <2>7
<1>2. MarkAnswer(a, e) \in Seq(AnswerRow)
  <2> DEFINE unmarked == {k \in DOMAIN a : ~a[k].valid}
             row == [questionId |-> "field_n", answer |-> Nothing, valid |-> e.result = "valid"]
  <2>0. (e.result = "valid") \in BOOLEAN
    OBVIOUS
  <2>1. row \in AnswerRow
    BY <2>0 DEF AnswerRow, Texts
  <2>2. unmarked # {} => Min(unmarked) \in unmarked
    <3>1. unmarked \in SUBSET (0 .. Len(a))
      BY <1>0
    <3> HIDE DEF unmarked
    <3> QED BY <1>0, <3>1, MinIs
  <2>3. \A k \in DOMAIN a : [a EXCEPT ![k].valid = (e.result = "valid")] \in Seq(AnswerRow)
    <3> SUFFICES ASSUME NEW k \in DOMAIN a
                 PROVE  [a EXCEPT ![k].valid = (e.result = "valid")] \in Seq(AnswerRow)
      OBVIOUS
    <3>1. a[k] \in AnswerRow
      OBVIOUS
    <3> DEFINE new == [a[k] EXCEPT !.valid = (e.result = "valid")]
    <3>2. new \in AnswerRow
      BY <2>0, <3>1 DEF AnswerRow
    <3>3. k \in 1 .. Len(a)
      BY <1>0
    <3> HIDE DEF new
    <3>4. [a EXCEPT ![k] = new] \in Seq(AnswerRow)
      BY <3>2, <3>3, ExceptSeq
    <3> QED BY <3>4 DEF new
  <2>4. MarkAnswer(a, e) = IF unmarked = {} THEN Append(a, row)
                           ELSE [a EXCEPT ![Min(unmarked)].valid = (e.result = "valid")]
    BY DEF MarkAnswer
  <2>5. unmarked \in SUBSET DOMAIN a
    OBVIOUS
  <2> HIDE DEF unmarked, row
  <2>6. CASE unmarked = {}
    <3>1. MarkAnswer(a, e) = Append(a, row)
      BY <2>4, <2>6
    <3> QED BY <2>1, <3>1
  <2>7. CASE unmarked # {}
    <3>1. MarkAnswer(a, e) = [a EXCEPT ![Min(unmarked)].valid = (e.result = "valid")]
      BY <2>4, <2>7
    <3> QED BY <2>2, <2>3, <2>5, <2>7, <3>1
  <2> QED BY <2>6, <2>7
<1> QED BY <1>1, <1>2 DEF ReadAnswer

\* CollectedFields: the rows of a longer log are made by ReadAnswer.
LEMMA FieldsAppend ==
    ASSUME NEW es \in Seq(Event), NEW e \in Event
    PROVE  /\ CollectedFields(es) \in Seq(AnswerRow)
           /\ CollectedFields(Append(es, e)) = ReadAnswer(CollectedFields(es), e)
<1> DEFINE n == Len(es)
           es1 == Append(es, e)
           S == Seq(AnswerRow)
           f == [i \in DOMAIN es |-> [fields \in Seq(AnswerRow) |-> ReadAnswer(fields, es[i])]]
           g == [i \in DOMAIN es1 |-> [fields \in Seq(AnswerRow) |-> ReadAnswer(fields, es1[i])]]
<1>1. /\ n \in Nat /\ DOMAIN es = 1 .. n /\ DOMAIN es1 = 1 .. n + 1
      /\ \A i \in 1 .. n : es1[i] = es[i] /\ es[i] \in Event
      /\ es1[n + 1] = e
  BY LogAppend
<1> HIDE DEF es1
<1>3. Len(f) = n /\ Len(g) = n + 1
  BY <1>1, LogFunctions
<1>4. \A a \in S : \A i \in 1 .. n : f[i][a] \in S /\ g[i][a] = f[i][a]
  BY <1>1, ReadAnswerReads
<1>5. \A a \in S : g[n + 1][a] = ReadAnswer(a, e)
  BY <1>1
<1>6. CollectedFields(es) = Walk(f, <<>>) /\ CollectedFields(es1) = Walk(g, <<>>)
  <2>1. CollectedFields(es) = Walk(f, <<>>)
    BY DEF CollectedFields
  <2>2. CollectedFields(es1) = Walk(g, <<>>)
    BY DEF CollectedFields
  <2> QED BY <2>1, <2>2
<1>2. <<>> \in S
  OBVIOUS
<1> HIDE DEF f, g, S
<1>7. Walk(f, <<>>) \in S /\ Walk(g, <<>>) = g[n + 1][Walk(f, <<>>)]
  <2>1. Extends(S, n, <<>>, f, g)
    BY <1>1, <1>2, <1>3, <1>4 DEF Extends
  <2> QED BY <2>1, WalkStep
<1> QED BY <1>5, <1>6, <1>7 DEF es1, S

\* AddPoint adds a row for a response with usage, with the new total.
LEMMA AddPointTyped ==
    ASSUME NEW a \in Seq(TokenPoint), NEW e \in Event
    PROVE  /\ TotalUsage(a) \in Nat \X Nat
           /\ AddPoint(a, e) \in Seq(TokenPoint)
           /\ ~HasUsage(e) => AddPoint(a, e) = a
           /\ HasUsage(e) => \E p \in TokenPoint :
                /\ AddPoint(a, e) = Append(a, p) /\ p.own = e.usage
                /\ TotalUsage(AddPoint(a, e))
                     = <<TotalUsage(a)[1] + e.usage[1], TotalUsage(a)[2] + e.usage[2]>>
<1>1. e.usage \in Nat \X Nat
  BY DEF Event
<1>2. TotalUsage(a) \in Nat \X Nat
  <2>1. CASE a = <<>>
    BY <2>1 DEF TotalUsage
  <2>2. CASE a # <<>>
    <3>1. Len(a) \in 1 .. Len(a) /\ a[Len(a)] \in TokenPoint
      BY <2>2
    <3> QED BY <2>2, <3>1 DEF TotalUsage, Last, TokenPoint
  <2> QED BY <2>1, <2>2
<1> DEFINE total == <<TotalUsage(a)[1] + e.usage[1], TotalUsage(a)[2] + e.usage[2]>>
           p == [own |-> e.usage, cumulative |-> total]
<1>3. total \in Nat \X Nat
  BY <1>1, <1>2
<1>4. AddPoint(a, e) = IF HasUsage(e) THEN Append(a, p) ELSE a
  BY DEF AddPoint
<1> HIDE DEF total
<1>5. p \in TokenPoint /\ p.own = e.usage /\ p.cumulative = total
  BY <1>1, <1>3 DEF TokenPoint
<1> HIDE DEF p
<1>6. TotalUsage(Append(a, p)) = total
  <2>1. Append(a, p) # <<>> /\ Append(a, p)[Len(Append(a, p))] = p
    BY <1>5, LogAppend
  <2> QED BY <1>5, <2>1 DEF TotalUsage, Last
<1> QED BY <1>2, <1>4, <1>5, <1>6 DEF total

\* BuildTokenPoints: the rows of a longer log are made by AddPoint.
LEMMA PointsAppend ==
    ASSUME NEW es \in Seq(Event), NEW e \in Event
    PROVE  /\ BuildTokenPoints(es) \in Seq(TokenPoint)
           /\ BuildTokenPoints(Append(es, e)) = AddPoint(BuildTokenPoints(es), e)
<1> DEFINE n == Len(es)
           es1 == Append(es, e)
           S == Seq(TokenPoint)
           f == [i \in DOMAIN es |-> [points \in Seq(TokenPoint) |-> AddPoint(points, es[i])]]
           g == [i \in DOMAIN es1 |-> [points \in Seq(TokenPoint) |-> AddPoint(points, es1[i])]]
<1>1. /\ n \in Nat /\ DOMAIN es = 1 .. n /\ DOMAIN es1 = 1 .. n + 1
      /\ \A i \in 1 .. n : es1[i] = es[i] /\ es[i] \in Event
      /\ es1[n + 1] = e
  BY LogAppend
<1> HIDE DEF es1
<1>3. Len(f) = n /\ Len(g) = n + 1
  BY <1>1, LogFunctions
<1>4. \A a \in S : \A i \in 1 .. n : f[i][a] \in S /\ g[i][a] = f[i][a]
  BY <1>1, AddPointTyped
<1>5. \A a \in S : g[n + 1][a] = AddPoint(a, e)
  BY <1>1
<1>6. BuildTokenPoints(es) = Walk(f, <<>>) /\ BuildTokenPoints(es1) = Walk(g, <<>>)
  <2>1. BuildTokenPoints(es) = Walk(f, <<>>)
    BY DEF BuildTokenPoints
  <2>2. BuildTokenPoints(es1) = Walk(g, <<>>)
    BY DEF BuildTokenPoints
  <2> QED BY <2>1, <2>2
<1>2. <<>> \in S
  OBVIOUS
<1> HIDE DEF f, g, S
<1>7. Walk(f, <<>>) \in S /\ Walk(g, <<>>) = g[n + 1][Walk(f, <<>>)]
  <2>1. Extends(S, n, <<>>, f, g)
    BY <1>1, <1>2, <1>3, <1>4 DEF Extends
  <2> QED BY <2>1, WalkStep
<1> QED BY <1>5, <1>6, <1>7 DEF es1, S

\* A total is a pair of numbers.
LEMMA TotalTyped == ASSUME NEW a \in Seq(TokenPoint) PROVE TotalUsage(a) \in Nat \X Nat
<1>1. CASE a = <<>>
  BY <1>1 DEF TotalUsage
<1>2. CASE a # <<>>
  <2>1. TotalUsage(a) = a[Len(a)].cumulative /\ a[Len(a)] \in TokenPoint
    BY <1>2 DEF TotalUsage, Last
  <2> QED BY <2>1 DEF TokenPoint
<1> QED BY <1>1, <1>2

\* A cost is a number.
LEMMA CostTyped ==
    ASSUME NEW usage \in Nat \X Nat, NEW model
    PROVE  EstimateCost(usage, model) \in Nat
<1>1. usage[1] \in Nat /\ usage[2] \in Nat
  OBVIOUS
<1>2. Pricing(model)[1] \in {30, 40, 50} /\ Pricing(model)[2] \in {120, 160, 200}
  BY DEF Pricing
<1> QED BY <1>1, <1>2 DEF EstimateCost

\* CostColumn: one more row adds its own cost.
LEMMA CostAppend ==
    ASSUME NEW ps \in Seq(TokenPoint), NEW p \in TokenPoint, NEW model
    PROVE  /\ CostColumn(ps, model) \in Nat
           /\ CostColumn(Append(ps, p), model) = CostColumn(ps, model) + EstimateCost(p.own, model)
<1> DEFINE n == Len(ps)
           ps1 == Append(ps, p)
           f == [k \in DOMAIN ps |-> [sum \in Nat |-> sum + EstimateCost(ps[k].own, model)]]
           g == [k \in DOMAIN ps1 |-> [sum \in Nat |-> sum + EstimateCost(ps1[k].own, model)]]
<1>1. /\ n \in Nat /\ DOMAIN ps = 1 .. n /\ DOMAIN ps1 = 1 .. n + 1
      /\ \A i \in 1 .. n : ps1[i] = ps[i] /\ ps[i] \in TokenPoint
      /\ ps1[n + 1] = p
  BY LogAppend
<1> HIDE DEF ps1
<1>3. Len(f) = n /\ Len(g) = n + 1
  BY <1>1, LogFunctions
<1>4. \A a \in Nat : \A i \in 1 .. n : f[i][a] \in Nat /\ g[i][a] = f[i][a]
  <2> SUFFICES ASSUME NEW a \in Nat, NEW i \in 1 .. n PROVE f[i][a] \in Nat /\ g[i][a] = f[i][a]
    OBVIOUS
  <2>1. ps[i].own \in Nat \X Nat
    BY <1>1 DEF TokenPoint
  <2>2. EstimateCost(ps[i].own, model) \in Nat
    BY <2>1, CostTyped
  <2>3. f[i][a] = a + EstimateCost(ps[i].own, model) /\ g[i][a] = a + EstimateCost(ps[i].own, model)
    BY <1>1
  <2> HIDE DEF f, g
  <2> QED BY <2>2, <2>3
<1>5. \A a \in Nat : g[n + 1][a] = a + EstimateCost(p.own, model)
  BY <1>1
<1>6. CostColumn(ps, model) = Walk(f, 0) /\ CostColumn(ps1, model) = Walk(g, 0)
  <2>1. CostColumn(ps, model) = Walk(f, 0)
    BY DEF CostColumn
  <2>2. CostColumn(ps1, model) = Walk(g, 0)
    BY DEF CostColumn
  <2> QED BY <2>1, <2>2
<1>2. 0 \in Nat
  OBVIOUS
<1> HIDE DEF f, g
<1>7. Walk(f, 0) \in Nat /\ Walk(g, 0) = g[n + 1][Walk(f, 0)]
  <2>1. Extends(Nat, n, 0, f, g)
    BY <1>1, <1>2, <1>3, <1>4 DEF Extends
  <2> QED BY <2>1, WalkStep
<1> QED BY <1>5, <1>6, <1>7 DEF ps1

\* A message added to a transcript replaces the lines under way.
LEMMA FinalsTyped ==
    ASSUME NEW ms \in Seq(TranscriptLine)
    PROVE  Finals(ms) \in Seq(TranscriptLine)
<1> DEFINE n == Len(ms)
           S == Seq(TranscriptLine)
           f == [k \in DOMAIN ms |-> [kept \in Seq(TranscriptLine) |->
                   IF ms[k].isPartial THEN kept ELSE Append(kept, ms[k])]]
           g == [k \in 1 .. n + 1 |-> IF k <= n THEN f[k] ELSE f]
<1>1. n \in Nat /\ DOMAIN ms = 1 .. n /\ \A i \in 1 .. n : ms[i] \in TranscriptLine
  OBVIOUS
<1>2. DOMAIN f = 1 .. n /\ f = [i \in DOMAIN f |-> f[i]]
  BY <1>1
<1>3. DOMAIN g = 1 .. n + 1 /\ g = [i \in DOMAIN g |-> g[i]] /\ n + 1 \in Nat
  BY <1>1
<1>4. \A a \in S : \A i \in 1 .. n : f[i][a] \in S
  BY <1>1
<1>5. Finals(ms) = Walk(f, <<>>)
  BY DEF Finals
<1>6. \A i \in 1 .. n : g[i] = f[i]
  <2> HIDE DEF f
  <2> QED BY <1>1
<1>7. <<>> \in S
  OBVIOUS
<1> HIDE DEF f, g, S
<1>8. Len(f) = n /\ Len(g) = n + 1
  BY <1>1, <1>2, <1>3, LogFunctions
<1>9. Extends(S, n, <<>>, f, g)
  BY <1>1, <1>4, <1>6, <1>7, <1>8 DEF Extends
<1> QED BY <1>5, <1>9, WalkStep DEF S

\* Nothing is shown of an empty log.
LEMMA EmptyLog ==
    /\ \A types : OfTypes(<<>>, types) = <<>>
    /\ \A replaces, last : Pair(<<>>, replaces, last) = [pending |-> {}, pairs |-> {}]
    /\ ExtractCollectedData(<<>>) = NoData
    /\ CollectedFields(<<>>) = <<>>
    /\ BuildTokenPoints(<<>>) = <<>>
    /\ \A model : CostColumn(<<>>, model) = 0
<1>1. \A F : Len([i \in DOMAIN <<>> |-> F[i]]) = 0
  OBVIOUS
<1> QED BY WalkNone DEF OfTypes, Pair, ExtractCollectedData, CollectedFields, BuildTokenPoints,
             CostColumn

(***************************************************************************)
(* What a step does to the log.                                            *)
(***************************************************************************)
Draft ==
  [type : EventTypes \cup {Nothing}, tool : Tools, question : DOMAIN Words \cup {Nothing},
   value : Texts, asked : SUBSET DOMAIN Words, result : Outcomes, from : Agents \cup {Nothing},
   to : Agents \cup {Nothing}, usage : Nat \X Nat, serial : Nat]

\* A draft as Send numbers and types it.
Numbering(d, t, s) == [[d EXCEPT !.type = t] EXCEPT !.serial = s]

\* A numbered draft is an event with the fields of the draft.
LEMMA DraftSent ==
    ASSUME NEW d \in Draft, NEW t \in EventTypes, NEW s \in Nat
    PROVE  /\ Numbering(d, t, s)
                 = [type |-> t, tool |-> d.tool, question |-> d.question, value |-> d.value,
                    asked |-> d.asked, result |-> d.result, from |-> d.from, to |-> d.to,
                    usage |-> d.usage, serial |-> s]
           /\ Numbering(d, t, s) \in Event
<1> DEFINE T == EventTypes \cup {Nothing}
           Q == DOMAIN Words \cup {Nothing}
           QS == SUBSET DOMAIN Words
           A == Agents \cup {Nothing}
           U == Nat \X Nat
<1>1. d \in [type : T, tool : Tools, question : Q, value : Texts, asked : QS, result : Outcomes,
             from : A, to : A, usage : U, serial : Nat]
  BY DEF Draft
<1>2. Event = [type : EventTypes, tool : Tools, question : Q, value : Texts, asked : QS,
               result : Outcomes, from : A, to : A, usage : U, serial : Nat]
  BY DEF Event
<1> HIDE DEF T, Q, QS, A, U
<1>4. [type |-> t, tool |-> d.tool, question |-> d.question, value |-> d.value,
       asked |-> d.asked, result |-> d.result, from |-> d.from, to |-> d.to,
       usage |-> d.usage, serial |-> s] \in Event
  BY <1>1, <1>2
<1>5. \A x \in [type : {t}, tool : Tools, question : Q, value : Texts, asked : QS, result : Outcomes,
                from : A, to : A, usage : U, serial : Nat] :
        [x EXCEPT !.serial = s] =
          [type |-> t, tool |-> x.tool, question |-> x.question, value |-> x.value,
           asked |-> x.asked, result |-> x.result, from |-> x.from, to |-> x.to,
           usage |-> x.usage, serial |-> s]
  OBVIOUS
<1> DEFINE x == [d EXCEPT !.type = t]
<1>6. x \in [type : {t}, tool : Tools, question : Q, value : Texts, asked : QS, result : Outcomes,
             from : A, to : A, usage : U, serial : Nat]
  BY <1>1
<1>7. /\ x.tool = d.tool /\ x.question = d.question /\ x.value = d.value /\ x.asked = d.asked
      /\ x.result = d.result /\ x.from = d.from /\ x.to = d.to /\ x.usage = d.usage
  BY <1>1
<1> HIDE DEF x
<1>8. [x EXCEPT !.serial = s] =
        [type |-> t, tool |-> d.tool, question |-> d.question, value |-> d.value,
         asked |-> d.asked, result |-> d.result, from |-> d.from, to |-> d.to,
         usage |-> d.usage, serial |-> s]
  BY <1>5, <1>6, <1>7
<1> QED BY <1>4, <1>8 DEF x, Numbering

\* The agents and those of the claims, one by one.
LEMMA AgentSet ==
    /\ Agents = {"greeter", "top_level_qa", "auto_claims", "property_claims", "health_claims",
                 "summary"}
    /\ Claims = {"auto_claims", "property_claims", "health_claims"}
<1>1. Agents = {AGENT_ORDER[i] : i \in 1 .. 6}
  BY DEF Agents, ToSet, AGENT_ORDER
<1>2. 1 .. 6 = {1, 2, 3, 4, 5, 6}
  OBVIOUS
<1>3. Claims = {CLAIM_IDS[i] : i \in 1 .. 3}
  BY DEF Claims, ToSet, CLAIM_IDS
<1>4. 1 .. 3 = {1, 2, 3}
  OBVIOUS
<1> QED BY <1>1, <1>2, <1>3, <1>4 DEF AGENT_ORDER, CLAIM_IDS

\* The effects of a message that is an event.
LEMMA DispatchEvent ==
    ASSUME NEW m \in Event, m.type # "user.turn", DispatchMessage(m)
    PROVE  /\ events' = Append(events, m)
           /\ messages' = messages
           /\ tokenUsage' = IF HasUsage(m) THEN AddUsage(tokenUsage, m) ELSE tokenUsage
           /\ claimResult' = IF /\ m.type = "tool.result" /\ m.tool = "submit_claim_data"
                                /\ m.result = "submitted"
                               THEN m.serial ELSE claimResult
           /\ UNCHANGED <<pattern, since, cleared>>
<1>1. m.type \in EventTypes
  BY DEF Event
<1>0. m.type \notin SUPPRESSED_EVENT_TYPES \cup {"audio.started", "audio.stopped", "transcript.done", "text.sent"}
  <2>1. CASE m.type \in Unknown
    BY <2>1, StreamAssumption
  <2>2. CASE m.type \in KnownTypes
    BY <2>2 DEF KnownTypes, SUPPRESSED_EVENT_TYPES
  <2> QED BY <1>1, <2>1, <2>2 DEF EventTypes
<1>2. ToEffects(m) = HandlerEffects(m)
  BY <1>0 DEF ToEffects, SUPPRESSED_EVENT_TYPES
<1> DEFINE submitted == m.type = "tool.result" /\ m.tool = "submit_claim_data" /\ m.result = "submitted"
<1>3. HandlerEffects(m) = IF submitted THEN {"event", "claim"}
                          ELSE IF HasUsage(m) THEN {"event", "tokens"} ELSE {"event"}
  BY <1>0 DEF HandlerEffects, HasUsage, SUPPRESSED_EVENT_TYPES
<1>5. submitted => ~HasUsage(m)
  BY DEF HasUsage
<1> HIDE DEF submitted
<1>4. MakeEvent(m) = m
  BY <1>0 DEF MakeEvent
<1>6. CASE submitted
  <2>1. ToEffects(m) = {"event", "claim"}
    BY <1>2, <1>3, <1>6
  <2> QED BY <1>4, <1>5, <1>6, <2>1 DEF DispatchMessage, submitted
<1>7. CASE ~submitted /\ HasUsage(m)
  <2>1. ToEffects(m) = {"event", "tokens"}
    BY <1>2, <1>3, <1>7
  <2> QED BY <1>4, <1>7, <2>1 DEF DispatchMessage, submitted
<1>8. CASE ~submitted /\ ~HasUsage(m)
  <2>1. ToEffects(m) = {"event"}
    BY <1>2, <1>3, <1>8
  <2> QED BY <1>4, <1>8, <2>1 DEF DispatchMessage, submitted
<1> QED BY <1>6, <1>7, <1>8

\* A message that is not logged changes the transcript at most.
LEMMA DispatchOther ==
    ASSUME NEW m, DispatchMessage(m),
           m.type \in SUPPRESSED_EVENT_TYPES \cup {"audio.stopped", "transcript.done", "text.sent"}
    PROVE  /\ UNCHANGED <<events, tokenUsage, claimResult, pattern, since, cleared>>
           /\ messages' = messages \/ messages' = AddMessage(messages, m)
<1>1. ToEffects(m) \in {{}, {"play"}, {"addMessage"}}
  BY DEF ToEffects, HandlerEffects, SUPPRESSED_EVENT_TYPES
<1> QED BY <1>1 DEF DispatchMessage

\* The start of the caller's speech is logged as a turn of the user.
LEMMA DispatchAudio ==
    ASSUME DispatchMessage(Msg("audio.started"))
    PROVE  /\ events' = Append(events, [Blank EXCEPT !.type = "user.turn"])
           /\ UNCHANGED <<messages, tokenUsage, claimResult, pattern, since, cleared>>
<1> DEFINE m == Msg("audio.started")
<1>1. m.type = "audio.started"
  BY DEF Msg, Blank
<1>2. ToEffects(m) = {"flush", "event"}
  BY <1>1 DEF ToEffects, HandlerEffects, SUPPRESSED_EVENT_TYPES
<1>3. MakeEvent(m) = [m EXCEPT !.type = "user.turn"]
  BY <1>1 DEF MakeEvent
<1>4. [m EXCEPT !.type = "user.turn"] = [Blank EXCEPT !.type = "user.turn"]
  BY DEF Msg, Blank
<1> QED BY <1>2, <1>3, <1>4 DEF DispatchMessage

\* A message of no content.
LEMMA MsgIs ==
    ASSUME NEW t
    PROVE  /\ Msg(t).type = t /\ Msg(t).tool = Nothing /\ Msg(t).question = Nothing
           /\ Msg(t).result = Nothing /\ Msg(t).usage = <<0, 0>> /\ Msg(t).serial = 0
           /\ t \in EventTypes => Msg(t) \in Event
<1>1. Msg(t) = [type |-> t, tool |-> Nothing, question |-> Nothing, value |-> Nothing,
                asked |-> {}, result |-> Nothing, from |-> Nothing, to |-> Nothing,
                usage |-> <<0, 0>>, serial |-> 0]
  BY DEF Msg, Blank
<1>2. Nothing \in Tools /\ Nothing \in Texts /\ Nothing \in Outcomes
  BY DEF Tools, Texts, Outcomes
<1> QED BY <1>1, <1>2 DEF Event

\* A step puts one event in the log, empties it, or leaves it alone.
SameRun == (Running' <=> Running) /\ (Running => Head(outbound') = Head(outbound))

\* A tool call is logged and its result is to be sent next.
LogsCall(c) ==
  /\ c.type = "tool.called" /\ c.serial = steps + 1 /\ steps' = steps + 1
  /\ IF c.tool = "validate_answer" THEN c.question \in Questions /\ c.value # Nothing
     ELSE c.question = Nothing
  /\ ~Running /\ Running'
  /\ Head(outbound').serial = c.serial /\ Head(outbound').tool = c.tool
  /\ events' = Append(events, c)
  /\ UNCHANGED <<live, agent, tokenUsage, claimResult, since, cleared>>

\* The result of the running tool is logged.
LogsResult ==
  /\ Running /\ ~Running'
  /\ Head(outbound) \in Event
  /\ events' = Append(events, Head(outbound))
  /\ claimResult' = IF Head(outbound).result = "submitted" THEN Head(outbound).serial ELSE claimResult
  /\ UNCHANGED <<live, agent, tokenUsage, since, cleared, steps>>

\* Another event is logged; while a tool runs it can only be an error.
LogsOther(e) ==
  /\ e.type \notin {"tool.called", "tool.result"}
  /\ SameRun /\ (Running => e.type = "error")
  /\ events' = Append(events, e)
  /\ tokenUsage' = IF HasUsage(e) THEN AddUsage(tokenUsage, e) ELSE tokenUsage
  /\ IF e.type = "agent.handoff" THEN e.from = agent /\ e.to \in Agents /\ agent' = e.to
     ELSE agent' = agent
  /\ steps' >= steps
  /\ UNCHANGED <<live, claimResult, since, cleared>>

\* The log is emptied: by Clear, or with the pattern.
Empties ==
  /\ events' = <<>> /\ since' = 0
  /\ Running' => Running /\ Head(outbound') = Head(outbound)
  /\ \/ cleared' = TRUE /\ tokenUsage' = tokenUsage
     \/ cleared' = FALSE /\ tokenUsage' = <<0, 0>> /\ live' = FALSE
  /\ steps' >= steps
  /\ UNCHANGED <<agent, claimResult>>

\* The log stays; a tool may stop running and a call may begin or end.
Leaves ==
  /\ events' = events
  /\ Running' => Running /\ Head(outbound') = Head(outbound)
  /\ \/ since' = since /\ agent' = agent /\ (live' => live)
     \/ since' = Len(events) /\ agent' = "greeter"
  /\ claimResult' \in {claimResult, 0}
  /\ steps' >= steps
  /\ UNCHANGED <<tokenUsage, cleared>>

\* The effects a step of the system may have on the log.
Effect ==
  \/ \E c \in Event : LogsCall(c)
  \/ LogsResult
  \/ \E e \in Event : LogsOther(e)
  \/ Empties
  \/ Leaves

\* The type invariant and what is on its way.
Typed == LogTypeOK /\ Sending

\* The rest of a tool call, behind its result.
Rest(more) ==
  /\ more \in Seq(Event)
  /\ \A k \in DOMAIN more :
       /\ more[k].type \in {"agent.handoff", "session.prompt_updated", "supervisor.exchange"}
       /\ more[k].type = "agent.handoff" =>
            /\ more[k].from = agent /\ more[k].to \in Agents
            /\ \A j \in DOMAIN more : more[j].type = "agent.handoff" => j = k

\* A tool call that is sent logs a call; what follows is its result.
LEMMA SendEffect ==
    ASSUME NEW call \in Draft, NEW result \in Draft, NEW more, Rest(more), NEW rest,
           rest[1] = result, Tail(rest) = more, call.tool = result.tool,
           call.usage = <<0, 0>>, result.usage = <<0, 0>>,
           IF call.tool = "validate_answer" THEN call.question \in Questions /\ call.value # Nothing
             ELSE call.question = Nothing,
           result.result = "submitted" => result.tool = "submit_claim_data",
           result.result = "invalid" => result.tool = "validate_answer",
           result.asked \subseteq Questions,
           Typed, Send(call, rest)
    PROVE  Typed' /\ Effect
<1> DEFINE c == Numbering(call, "tool.called", steps + 1)
           r == Numbering(result, "tool.result", steps + 1)
<1>1. steps \in Nat /\ steps + 1 \in Nat /\ steps + 1 \in 1 .. steps + 1
  BY DEF Typed, LogTypeOK
<1>2. /\ c \in Event /\ c.type = "tool.called" /\ c.serial = steps + 1 /\ c.tool = call.tool
      /\ c.question = call.question /\ c.value = call.value /\ c.usage = <<0, 0>>
  <2>1. "tool.called" \in EventTypes
    BY DEF EventTypes, KnownTypes
  <2> QED BY <1>1, <2>1, DraftSent
<1>3. /\ r \in Event /\ r.type = "tool.result" /\ r.serial = steps + 1 /\ r.tool = result.tool
      /\ r.result = result.result /\ r.asked = result.asked
  <2>1. "tool.result" \in EventTypes
    BY DEF EventTypes, KnownTypes
  <2> QED BY <1>1, <2>1, DraftSent
<1>4. /\ live /\ outbound = <<>> /\ steps < MaxSteps /\ steps' = steps + 1
      /\ DispatchMessage(c) /\ outbound' = <<r>> \o more
      /\ UNCHANGED <<live, agent, turn>>
  BY DEF Send, Step, Numbering
<1> HIDE DEF c, r
<1>5. /\ events' = Append(events, c) /\ messages' = messages /\ tokenUsage' = tokenUsage
      /\ claimResult' = claimResult /\ UNCHANGED <<pattern, since, cleared>>
  BY <1>2, <1>4, DispatchEvent DEF HasUsage
<1>6. /\ outbound' \in Seq(Event) /\ outbound' # <<>> /\ Head(outbound') = r /\ outbound'[1] = r
      /\ DOMAIN outbound' = 1 .. Len(more) + 1
      /\ \A k \in DOMAIN outbound' : k = 1 \/ (k - 1 \in DOMAIN more /\ outbound'[k] = more[k - 1])
  BY <1>3, <1>4 DEF Rest
<1>7. LogsCall(c)
  BY <1>2, <1>3, <1>4, <1>5, <1>6 DEF LogsCall, Running
<1>8. Sending'
  <2>1. \A k \in DOMAIN outbound' :
          /\ outbound'[k].type \in Behind \cup {"tool.result"}
          /\ outbound'[k].type = "tool.result" => k = 1
          /\ outbound'[k].type = "agent.handoff" =>
               /\ k # 1 /\ outbound'[k].from = agent' /\ outbound'[k].to \in Agents
               /\ \A j \in DOMAIN more : more[j].type = "agent.handoff" => j = k - 1
    BY <1>3, <1>4, <1>6 DEF Rest, Behind
  <2>2. \A k \in DOMAIN outbound' : outbound'[k].type = "agent.handoff" =>
          \A j \in DOMAIN outbound' : outbound'[j].type = "agent.handoff" => j = k
    <3> SUFFICES ASSUME NEW k \in DOMAIN outbound', outbound'[k].type = "agent.handoff",
                        NEW j \in DOMAIN outbound', outbound'[j].type = "agent.handoff"
                 PROVE  j = k
      OBVIOUS
    <3>1. j # 1 /\ k # 1
      BY <2>1
    <3>2. j - 1 \in DOMAIN more /\ more[j - 1].type = "agent.handoff"
      BY <1>6, <3>1
    <3>3. j - 1 = k - 1
      BY <2>1, <3>2
    <3> QED BY <1>6, <3>3
  <2>3. /\ r.serial \in 1 .. steps' /\ r.asked \subseteq Questions
        /\ r.result = "submitted" => r.tool = "submit_claim_data"
        /\ r.result = "invalid" => r.tool = "validate_answer"
    BY <1>1, <1>3, <1>4
  <2> QED BY <1>4, <1>6, <2>1, <2>2, <2>3 DEF Sending, Running
<1>9. LogTypeOK'
  <2>1. events' \in Seq(Event) /\ Len(events') = Len(events) + 1 /\ Len(events) \in Nat
    BY <1>2, <1>5, LogAppend DEF Typed, LogTypeOK
  <2>2. since' \in 0 .. Len(events')
    BY <1>5, <2>1 DEF Typed, LogTypeOK
  <2>3. steps' \in 0 .. MaxSteps /\ claimResult' \in 0 .. steps'
    BY <1>4, <1>5, CallLogAssumption DEF Typed, LogTypeOK
  <2> QED BY <1>4, <1>5, <2>1, <2>2, <2>3 DEF Typed, LogTypeOK
<1> QED BY <1>2, <1>7, <1>8, <1>9 DEF Typed, Effect

\* A tool of the question service.
LEMMA CallToolEffect == ASSUME Typed, CallTool PROVE Typed' /\ Effect
<1>1. PICK tool \in DomainTools(agent) :
        \E call \in CallsOf(tool), result \in ResultsOf(tool) :
          \E more \in Consulted(result) : Send(call, <<result>> \o more)
  BY DEF CallTool
<1>2. PICK call \in CallsOf(tool), result \in ResultsOf(tool) :
        \E more \in Consulted(result) : Send(call, <<result>> \o more)
  BY <1>1
<1>m. PICK more \in Consulted(result) : Send(call, <<result>> \o more)
  BY <1>2
<1>3. tool \in QuestionServiceTools
  BY <1>1 DEF DomainTools, QuestionServiceTools
<1>b. Blank = [type |-> Nothing, tool |-> Nothing, question |-> Nothing, value |-> Nothing,
               asked |-> {}, result |-> Nothing, from |-> Nothing, to |-> Nothing,
               usage |-> <<0, 0>>, serial |-> 0]
  BY DEF Blank
<1>q. /\ tool \in Tools /\ Nothing \in Tools /\ Nothing \in Texts /\ Nothing \in Outcomes
      /\ "auto" \in Texts /\ "said" \in Texts /\ Questions \in SUBSET DOMAIN Words
      /\ "said" # Nothing
  BY <1>3, CallLogAssumption DEF Nothing, Tools, Texts, Outcomes
<1>4. /\ call \in Draft /\ call.tool = tool /\ call.usage = <<0, 0>>
      /\ IF call.tool = "validate_answer" THEN call.question \in Questions /\ call.value # Nothing
         ELSE call.question = Nothing
  <2>1. CASE tool = "get_next_questions"
    <3>1. call = [type |-> Nothing, tool |-> tool, question |-> Nothing, value |-> "auto",
                  asked |-> {}, result |-> Nothing, from |-> Nothing, to |-> Nothing,
                  usage |-> <<0, 0>>, serial |-> 0]
      BY <1>2, <1>b, <2>1 DEF CallsOf
    <3> QED BY <1>q, <2>1, <3>1 DEF Draft
  <2>2. CASE tool = "validate_answer"
    <3>1. PICK q \in Questions :
            call = [type |-> Nothing, tool |-> tool, question |-> q, value |-> "said",
                    asked |-> {}, result |-> Nothing, from |-> Nothing, to |-> Nothing,
                    usage |-> <<0, 0>>, serial |-> 0]
      BY <1>2, <1>b, <2>2 DEF CallsOf
    <3> QED BY <1>q, <2>2, <3>1 DEF Draft
  <2>3. CASE tool = "submit_claim_data"
    <3>1. call = [type |-> Nothing, tool |-> tool, question |-> Nothing, value |-> Nothing,
                  asked |-> {}, result |-> Nothing, from |-> Nothing, to |-> Nothing,
                  usage |-> <<0, 0>>, serial |-> 0]
      BY <1>2, <1>b, <2>3 DEF CallsOf
    <3> QED BY <1>q, <2>3, <3>1 DEF Draft
  <2> QED BY <1>3, <2>1, <2>2, <2>3 DEF QuestionServiceTools
<1>5. /\ result \in Draft /\ result.tool = tool /\ result.usage = <<0, 0>>
      /\ result.asked \subseteq Questions
      /\ result.result = "submitted" => result.tool = "submit_claim_data"
      /\ result.result = "invalid" => result.tool = "validate_answer"
  <2>1. PICK asked \in SUBSET Questions, res \in Outcomes :
          /\ result = [type |-> Nothing, tool |-> tool, question |-> Nothing, value |-> Nothing,
                       asked |-> asked, result |-> res, from |-> Nothing, to |-> Nothing,
                       usage |-> <<0, 0>>, serial |-> 0]
          /\ res = "submitted" => tool = "submit_claim_data"
          /\ res = "invalid" => tool = "validate_answer"
    <3> DEFINE Is(asked, res) ==
                 result = [type |-> Nothing, tool |-> tool, question |-> Nothing, value |-> Nothing,
                           asked |-> asked, result |-> res, from |-> Nothing, to |-> Nothing,
                           usage |-> <<0, 0>>, serial |-> 0]
    <3>1. CASE result = [Blank EXCEPT !.tool = tool, !.result = "error"]
      <4>1. Is({}, "error")
        BY <1>b, <3>1
      <4> QED BY <4>1 DEF Outcomes
    <3>2. CASE tool = "get_next_questions" /\ \E qs \in {{}, Questions} :
               result = [Blank EXCEPT !.tool = tool, !.result = "questions", !.asked = qs]
      <4>1. PICK qs \in {{}, Questions} : Is(qs, "questions")
        BY <1>b, <3>2
      <4> QED BY <1>q, <4>1 DEF Outcomes
    <3>3. CASE tool = "validate_answer" /\
               \E r \in {"valid", "invalid"} : result = [Blank EXCEPT !.tool = tool, !.result = r]
      <4>1. PICK r \in {"valid", "invalid"} : Is({}, r)
        BY <1>b, <3>3
      <4> QED BY <3>3, <4>1 DEF Outcomes
    <3>4. CASE tool = "submit_claim_data" /\
               \E r \in {"submitted", "incomplete"} : result = [Blank EXCEPT !.tool = tool, !.result = r]
      <4>1. PICK r \in {"submitted", "incomplete"} : Is({}, r)
        BY <1>b, <3>4
      <4> QED BY <3>4, <4>1 DEF Outcomes
    <3> HIDE DEF Is
    <3>5. \/ result = [Blank EXCEPT !.tool = tool, !.result = "error"]
          \/ tool = "get_next_questions" /\ \E qs \in {{}, Questions} :
               result = [Blank EXCEPT !.tool = tool, !.result = "questions", !.asked = qs]
          \/ tool = "validate_answer" /\
               \E r \in {"valid", "invalid"} : result = [Blank EXCEPT !.tool = tool, !.result = r]
          \/ tool = "submit_claim_data" /\
               \E r \in {"submitted", "incomplete"} : result = [Blank EXCEPT !.tool = tool, !.result = r]
      BY <1>2, <1>3 DEF ResultsOf, QuestionServiceTools
    <3> QED BY <3>1, <3>2, <3>3, <3>4, <3>5
  <2> QED BY <1>q, <2>1 DEF Draft
<1>6. more \in {<<>>, <<Msg("supervisor.exchange")>>}
  BY <1>m DEF Consulted
<1>7. Rest(more)
  <2>1. "supervisor.exchange" \in EventTypes
    BY DEF EventTypes, KnownTypes
  <2>2. Msg("supervisor.exchange") \in Event /\ Msg("supervisor.exchange").type = "supervisor.exchange"
    BY <2>1, MsgIs
  <2> DEFINE m == Msg("supervisor.exchange")
  <2> HIDE DEF m
  <2>3. Rest(<<>>)
    BY DEF Rest
  <2>4. Rest(<<m>>)
    BY <2>2 DEF Rest, m
  <2> QED BY <1>6, <2>3, <2>4 DEF m
<1> DEFINE rest == <<result>> \o more
<1>8. rest[1] = result /\ Tail(rest) = more
  <2>1. more \in Seq(Event)
    BY <1>7 DEF Rest
  <2> QED BY <2>1
<1>9. Send(call, rest)
  BY <1>m
<1> HIDE DEF rest
<1> QED BY <1>4, <1>5, <1>7, <1>8, <1>9, SendEffect

\* A transfer.
LEMMA TransferEffect == ASSUME Typed, Transfer PROVE Typed' /\ Effect
<1>1. PICK to \in AgentHandoffs[agent] :
        Send([Blank EXCEPT !.tool = TransferTool(to)],
             << [Blank EXCEPT !.tool = TransferTool(to), !.result = "transferred"],
                [Msg("agent.handoff") EXCEPT !.from = agent, !.to = to],
                Msg("session.prompt_updated") >>)
  BY DEF Transfer
<1>2. agent \in Agents /\ to \in Agents
  BY <1>1, AgentSet DEF Typed, LogTypeOK, AgentHandoffs
<1>t. PICK tool \in Tools : tool = TransferTool(to) /\ tool # "validate_answer"
  BY DEF TransferTool, Tools
<1>c. PICK call, result, handoff :
        /\ call = [Blank EXCEPT !.tool = tool]
        /\ result = [Blank EXCEPT !.tool = tool, !.result = "transferred"]
        /\ handoff = [Msg("agent.handoff") EXCEPT !.from = agent, !.to = to]
  OBVIOUS
<1> DEFINE update == Msg("session.prompt_updated")
           more == <<handoff, update>>
           rest == <<result, handoff, update>>
<1>b. Blank = [type |-> Nothing, tool |-> Nothing, question |-> Nothing, value |-> Nothing,
               asked |-> {}, result |-> Nothing, from |-> Nothing, to |-> Nothing,
               usage |-> <<0, 0>>, serial |-> 0]
  BY DEF Blank
<1>q. /\ Nothing \in Tools /\ Nothing \in Texts /\ Nothing \in Outcomes /\ "transferred" \in Outcomes
      /\ "agent.handoff" \in EventTypes /\ "session.prompt_updated" \in EventTypes
  BY DEF Tools, Texts, Outcomes, EventTypes, KnownTypes
<1>7. Send(call, rest)
  BY <1>1, <1>t, <1>c
<1>3. /\ call \in Draft /\ call.tool = tool /\ call.usage = <<0, 0>>
      /\ call.question = Nothing
  <2>1. call = [type |-> Nothing, tool |-> tool, question |-> Nothing, value |-> Nothing,
                asked |-> {}, result |-> Nothing, from |-> Nothing, to |-> Nothing,
                usage |-> <<0, 0>>, serial |-> 0]
    BY <1>b, <1>c
  <2> QED BY <1>q, <2>1 DEF Draft
<1>4. /\ result \in Draft /\ result.tool = tool /\ result.usage = <<0, 0>> /\ result.asked = {}
      /\ result.result = "transferred"
  <2>1. result = [type |-> Nothing, tool |-> tool, question |-> Nothing, value |-> Nothing,
                  asked |-> {}, result |-> "transferred", from |-> Nothing, to |-> Nothing,
                  usage |-> <<0, 0>>, serial |-> 0]
    BY <1>b, <1>c
  <2> QED BY <1>q, <2>1 DEF Draft
<1>5. handoff \in Event /\ handoff.type = "agent.handoff" /\ handoff.from = agent /\ handoff.to = to
  <2>1. handoff = [type |-> "agent.handoff", tool |-> Nothing, question |-> Nothing, value |-> Nothing,
                   asked |-> {}, result |-> Nothing, from |-> agent, to |-> to,
                   usage |-> <<0, 0>>, serial |-> 0]
    BY <1>b, <1>c DEF Msg
  <2> QED BY <1>q, <1>2, <2>1 DEF Event
<1>6. update \in Event /\ update.type = "session.prompt_updated"
  BY <1>q, MsgIs
<1> HIDE DEF update
<1>8. rest[1] = result /\ Tail(rest) = more
  OBVIOUS
<1>9. Rest(more)
  <2>1. more \in Seq(Event) /\ DOMAIN more = {1, 2} /\ more[1] = handoff /\ more[2] = update
    BY <1>5, <1>6
  <2> HIDE DEF more
  <2> QED BY <1>2, <1>5, <1>6, <2>1 DEF Rest
<1> HIDE DEF more, rest
<1> QED BY <1>t, <1>3, <1>4, <1>7, <1>8, <1>9, SendEffect

\* A message of the tool call is delivered.
LEMMA DeliverEffect == ASSUME Typed, Deliver PROVE Typed' /\ Effect
<1> DEFINE h == Head(outbound)
<1>1. /\ outbound \in Seq(Event) /\ outbound # <<>> /\ outbound' = Tail(outbound)
      /\ DispatchMessage(h) /\ UNCHANGED <<live, turn, steps>>
      /\ agent' = IF h.type = "agent.handoff" THEN h.to ELSE agent
  BY DEF Deliver, Typed, Sending
<1>2. /\ h \in Event /\ h = outbound[1] /\ 1 \in DOMAIN outbound
      /\ outbound' \in Seq(Event) /\ Len(outbound) \in Nat \ {0}
      /\ DOMAIN outbound = 1 .. Len(outbound) /\ DOMAIN outbound' = 1 .. Len(outbound) - 1
      /\ \A k \in DOMAIN outbound' : k + 1 \in DOMAIN outbound /\ outbound'[k] = outbound[k + 1]
      /\ outbound' # <<>> => Head(outbound') = outbound'[1] /\ 1 \in DOMAIN outbound'
  BY <1>1
<1> HIDE DEF h
<1>3. /\ h.type \in Behind \cup {"tool.result"}
      /\ h.type = "agent.handoff" => /\ h.from = agent /\ h.to \in Agents
                                     /\ \A j \in DOMAIN outbound : outbound[j].type = "agent.handoff" => j = 1
  BY <1>1, <1>2 DEF Typed, Sending
<1>4. Running <=> h.type = "tool.result"
  BY <1>1 DEF Running, h
<1>5. /\ events' = Append(events, h) /\ messages' = messages
      /\ tokenUsage' = IF HasUsage(h) THEN AddUsage(tokenUsage, h) ELSE tokenUsage
      /\ claimResult' = IF h.type = "tool.result" /\ h.tool = "submit_claim_data"
                             /\ h.result = "submitted" THEN h.serial ELSE claimResult
      /\ UNCHANGED <<pattern, since, cleared>>
  BY <1>1, <1>2, <1>3, DispatchEvent DEF Behind
<1>6. ~HasUsage(h)
  BY <1>3 DEF HasUsage, Behind
<1>7. \A k \in DOMAIN outbound' :
        /\ outbound'[k].type \in Behind
        /\ outbound'[k].type = "agent.handoff" =>
             /\ outbound'[k].from = agent' /\ outbound'[k].to \in Agents
             /\ \A j \in DOMAIN outbound' : outbound'[j].type = "agent.handoff" => j = k
  <2> SUFFICES ASSUME NEW k \in DOMAIN outbound'
               PROVE  /\ outbound'[k].type \in Behind
                      /\ outbound'[k].type = "agent.handoff" =>
                           /\ outbound'[k].from = agent' /\ outbound'[k].to \in Agents
                           /\ \A j \in DOMAIN outbound' : outbound'[j].type = "agent.handoff" => j = k
    OBVIOUS
  <2>1. k + 1 \in DOMAIN outbound /\ outbound'[k] = outbound[k + 1] /\ k + 1 # 1 /\ k \in Nat
    BY <1>2
  <2>2. /\ outbound[k + 1].type \in Behind
        /\ outbound[k + 1].type = "agent.handoff" =>
             /\ outbound[k + 1].from = agent /\ outbound[k + 1].to \in Agents
             /\ \A j \in DOMAIN outbound : outbound[j].type = "agent.handoff" => j = k + 1
    BY <2>1 DEF Typed, Sending
  <2>3. outbound[k + 1].type = "agent.handoff" => agent' = agent
    BY <1>1, <1>3, <2>1
  <2>4. outbound[k + 1].type = "agent.handoff" =>
          \A j \in DOMAIN outbound' : outbound'[j].type = "agent.handoff" => j = k
    <3> SUFFICES ASSUME outbound[k + 1].type = "agent.handoff",
                        NEW j \in DOMAIN outbound', outbound'[j].type = "agent.handoff"
                 PROVE  j = k
      OBVIOUS
    <3>1. j + 1 \in DOMAIN outbound /\ outbound[j + 1].type = "agent.handoff" /\ j \in Nat
      BY <1>2
    <3>2. j + 1 = k + 1
      BY <2>2, <3>1
    <3> QED BY <2>1, <3>1, <3>2
  <2> QED BY <2>1, <2>2, <2>3, <2>4
<1>8. ~Running'
  BY <1>2, <1>7 DEF Running, Behind
<1>9. (~live)' => outbound' = <<>>
  BY <1>1 DEF Typed, Sending
<1>10. Sending'
  BY <1>2, <1>7, <1>8, <1>9 DEF Sending, Behind
<1>11. LogTypeOK'
  <2>1. events' \in Seq(Event) /\ Len(events') = Len(events) + 1 /\ Len(events) \in Nat
    BY <1>2, <1>5, LogAppend DEF Typed, LogTypeOK
  <2>2. since' \in 0 .. Len(events')
    BY <1>5, <2>1 DEF Typed, LogTypeOK
  <2>3. h.type = "tool.result" => h.serial \in 1 .. steps
    BY <1>4 DEF Typed, Sending, h
  <2>4. claimResult' \in 0 .. steps'
    BY <1>1, <1>5, <2>3 DEF Typed, LogTypeOK
  <2>5. agent' \in Agents
    BY <1>1, <1>3 DEF Typed, LogTypeOK
  <2> QED BY <1>1, <1>5, <1>6, <2>1, <2>2, <2>4, <2>5 DEF Typed, LogTypeOK
<1>12. CASE h.type = "tool.result"
  <2>1. h.result = "submitted" => h.tool = "submit_claim_data"
    BY <1>4, <1>12 DEF Typed, Sending, h
  <2>2. LogsResult
    BY <1>1, <1>2, <1>3, <1>4, <1>5, <1>6, <1>8, <1>12, <2>1 DEF LogsResult, h
  <2> QED BY <1>10, <1>11, <2>2 DEF Typed, Effect
<1>13. CASE h.type # "tool.result"
  <2>1. LogsOther(h)
    <3>1. steps' >= steps
      BY <1>1 DEF Typed, LogTypeOK
    <3> QED BY <1>1, <1>3, <1>4, <1>5, <1>8, <1>13, <3>1 DEF LogsOther, SameRun, Behind
  <2> QED BY <1>2, <1>10, <1>11, <2>1 DEF Typed, Effect
<1> QED BY <1>12, <1>13

\* What an event of Azure, a message of the other reader or the user leaves alone; while
\* no tool runs, what is to be sent may end, or begin with what compaction says.
Beside ==
  /\ UNCHANGED <<pattern, live, agent, since, cleared>>
  /\ \/ outbound' = outbound
     \/ ~Running /\ live /\ outbound' \in {<<>>, <<Msg("compaction.applied")>>}
  /\ turn' \in {turn, "none", "thinking", "speaking", "closed"}
  /\ steps' = steps \/ Step

\* The run of a tool goes on beside it.
LEMMA BesideRun ==
    ASSUME Typed, Beside, steps' >= steps
    PROVE  SameRun /\ Sending'
<1>1. CASE outbound' = outbound
  <2>1. Running' <=> Running
    BY <1>1 DEF Running
  <2>2. Head(outbound') = Head(outbound) /\ \A x : x \in 1 .. steps => x \in 1 .. steps'
    <3>1. steps \in Nat /\ steps' \in Nat /\ steps' >= steps
      BY CallLogAssumption DEF Typed, LogTypeOK, Beside, Step
    <3> QED BY <1>1, <3>1
  <2> QED BY <1>1, <2>1, <2>2 DEF Typed, Sending, Beside, SameRun
<1>2. CASE ~Running /\ live /\ outbound' = <<>>
  <2>1. ~Running'
    BY <1>2 DEF Running
  <2> QED BY <1>2, <2>1 DEF Sending, SameRun
<1>3. CASE ~Running /\ live /\ outbound' = <<Msg("compaction.applied")>>
  <2> DEFINE m == Msg("compaction.applied")
  <2>1. m \in Event /\ m.type = "compaction.applied"
    <3>1. "compaction.applied" \in EventTypes
      BY DEF EventTypes, KnownTypes
    <3> QED BY <3>1, MsgIs
  <2> HIDE DEF m
  <2>2. outbound' = <<m>>
    BY <1>3 DEF m
  <2>3. outbound' \in Seq(Event) /\ DOMAIN outbound' = {1} /\ outbound'[1] = m /\ Head(outbound') = m
    BY <2>1, <2>2
  <2>4. ~Running'
    BY <2>1, <2>3 DEF Running
  <2>5. live'
    BY <1>3 DEF Beside
  <2> QED BY <1>3, <2>1, <2>3, <2>4, <2>5 DEF Sending, SameRun, Behind
<1> QED BY <1>1, <1>2, <1>3 DEF Beside

\* An event beside the tool call is logged.
LEMMA EventEffect ==
    ASSUME Typed, NEW e \in Event, Beside,
           e.type \notin {"tool.called", "tool.result", "agent.handoff"},
           Running => e.type = "error",
           events' = Append(events, e), messages' = messages, claimResult' = claimResult,
           tokenUsage' = IF HasUsage(e) THEN AddUsage(tokenUsage, e) ELSE tokenUsage
    PROVE  Typed' /\ Effect
<1>1. steps' \in 0 .. MaxSteps /\ steps' >= steps /\ claimResult' \in 0 .. steps'
  BY CallLogAssumption DEF Typed, LogTypeOK, Beside, Step
<1>2. events' \in Seq(Event) /\ Len(events') = Len(events) + 1 /\ Len(events) \in Nat
  BY LogAppend DEF Typed, LogTypeOK
<1>3. since' \in 0 .. Len(events')
  BY <1>2 DEF Typed, LogTypeOK, Beside
<1>4. tokenUsage' \in Nat \X Nat
  <2>1. e.usage \in Nat \X Nat
    BY DEF Event
  <2>2. tokenUsage \in Nat \X Nat
    BY DEF Typed, LogTypeOK
  <2> QED BY <2>1, <2>2 DEF AddUsage
<1>5. LogTypeOK'
  BY <1>1, <1>2, <1>3, <1>4 DEF Typed, LogTypeOK, Beside
<1>6. SameRun /\ Sending'
  BY <1>1, BesideRun
<1>8. LogsOther(e)
  BY <1>1, <1>6 DEF LogsOther, Beside
<1> QED BY <1>5, <1>6, <1>8 DEF Typed, Effect

\* A step that logs nothing.
LEMMA LeaveEffect ==
    ASSUME Typed, Beside, events' = events,
           messages' \in Seq(TranscriptLine), claimResult' \in {claimResult, 0},
           tokenUsage' = tokenUsage
    PROVE  Typed' /\ Effect
<1>1. steps' \in 0 .. MaxSteps /\ steps' >= steps /\ claimResult' \in 0 .. steps'
  BY CallLogAssumption DEF Typed, LogTypeOK, Beside, Step
<1>5. LogTypeOK'
  BY <1>1 DEF Typed, LogTypeOK, Beside
<1>6. SameRun /\ Sending'
  BY <1>1, BesideRun
<1>8. Leaves
  BY <1>1, <1>6 DEF Leaves, Beside, SameRun
<1> QED BY <1>5, <1>6, <1>8 DEF Typed, Effect

\* A line is added to the transcript.
LEMMA AddMessageTyped ==
    ASSUME Typed, NEW m PROVE AddMessage(messages, m) \in Seq(TranscriptLine)
<1>1. Finals(messages) \in Seq(TranscriptLine)
  BY FinalsTyped DEF Typed, LogTypeOK
<1>2. [role |-> Role(m), isPartial |-> FALSE] \in TranscriptLine
  BY DEF Role, TranscriptLine
<1> QED BY <1>1, <1>2 DEF AddMessage

\* The events of Azure.
LEMMA AzureEffect ==
    ASSUME Typed,
           \/ ResponseCreated \/ TranscriptDelta \/ TranscriptDone \/ ResponseDone
           \/ Stream \/ Announced \/ AudioStarted \/ SessionClosed
    PROVE  Typed' /\ Effect
<1>0. outbound = <<>> => ~Running
  BY DEF Running
<1>1. CASE ResponseCreated
  <2> DEFINE m == Msg("response.created")
  <2>1. Receive(m, {"none"}, "thinking", <<>>) /\ UNCHANGED steps
    BY <1>1 DEF ResponseCreated
  <2>2. m \in Event /\ m.type = "response.created" /\ m.usage = <<0, 0>>
    <3>1. "response.created" \in EventTypes
      BY DEF EventTypes, KnownTypes
    <3> QED BY <3>1, MsgIs
  <2> HIDE DEF m
  <2>3. DispatchMessage(m) /\ outbound = <<>>
    BY <2>1 DEF Receive
  <2>4. /\ events' = Append(events, m) /\ messages' = messages /\ claimResult' = claimResult
        /\ tokenUsage' = tokenUsage /\ ~HasUsage(m) /\ UNCHANGED <<pattern, since, cleared>>
    BY <2>2, <2>3, DispatchEvent DEF HasUsage
  <2>5. Beside
    BY <1>0, <2>1, <2>4 DEF Beside, Receive
  <2> QED BY <1>0, <2>2, <2>3, <2>4, <2>5, EventEffect
<1>2. CASE TranscriptDelta
  <2> DEFINE m == Msg("transcript.delta")
  <2>1. Receive(m, {"thinking", "speaking"}, "speaking", <<>>) /\ UNCHANGED steps
    BY <1>2 DEF TranscriptDelta
  <2>2. m.type \in SUPPRESSED_EVENT_TYPES
    BY MsgIs DEF SUPPRESSED_EVENT_TYPES
  <2> HIDE DEF m
  <2>3. DispatchMessage(m)
    BY <2>1 DEF Receive
  <2>4. /\ UNCHANGED <<events, tokenUsage, claimResult, pattern, since, cleared>>
        /\ messages' \in Seq(TranscriptLine)
    BY <2>2, <2>3, DispatchOther, AddMessageTyped DEF Typed, LogTypeOK
  <2>5. Beside
    BY <1>0, <2>1, <2>4 DEF Beside, Receive
  <2> QED BY <2>4, <2>5, LeaveEffect
<1>3. CASE TranscriptDone
  <2> DEFINE m == Msg("transcript.done")
  <2>1. Receive(m, {"speaking"}, "thinking", <<>>) /\ Step
    BY <1>3 DEF TranscriptDone
  <2>2. m.type = "transcript.done"
    BY MsgIs
  <2> HIDE DEF m
  <2>3. DispatchMessage(m)
    BY <2>1 DEF Receive
  <2>4. /\ UNCHANGED <<events, tokenUsage, claimResult, pattern, since, cleared>>
        /\ messages' \in Seq(TranscriptLine)
    BY <2>2, <2>3, DispatchOther, AddMessageTyped DEF Typed, LogTypeOK
  <2>5. Beside
    BY <1>0, <2>1, <2>4 DEF Beside, Receive
  <2> QED BY <2>4, <2>5, LeaveEffect
<1>4. CASE ResponseDone
  <2>1. PICK u \in Usages, more \in {<<>>, <<Msg("compaction.applied")>>} :
          Receive([Msg("response.done") EXCEPT !.usage = u], {"thinking", "speaking"}, "none", more) /\ Step
    BY <1>4 DEF ResponseDone
  <2>2. PICK m : m = [Msg("response.done") EXCEPT !.usage = u]
    OBVIOUS
  <2>3. m = [type |-> "response.done", tool |-> Nothing, question |-> Nothing, value |-> Nothing,
             asked |-> {}, result |-> Nothing, from |-> Nothing, to |-> Nothing,
             usage |-> u, serial |-> 0]
    BY <2>2 DEF Msg, Blank
  <2>4. m \in Event /\ m.type = "response.done"
    <3>1. Nothing \in Tools /\ Nothing \in Texts /\ Nothing \in Outcomes /\ u \in Nat \X Nat
          /\ "response.done" \in EventTypes
      BY <2>1, CallLogAssumption DEF Tools, Texts, Outcomes, EventTypes, KnownTypes
    <3> QED BY <2>3, <3>1 DEF Event
  <2>5. DispatchMessage(m) /\ outbound = <<>>
    BY <2>1, <2>2 DEF Receive
  <2>6. /\ events' = Append(events, m) /\ messages' = messages /\ claimResult' = claimResult
        /\ tokenUsage' = IF HasUsage(m) THEN AddUsage(tokenUsage, m) ELSE tokenUsage
        /\ UNCHANGED <<pattern, since, cleared>>
    BY <2>4, <2>5, DispatchEvent
  <2>7. Beside
    BY <1>0, <2>1, <2>6 DEF Beside, Receive
  <2> QED BY <1>0, <2>4, <2>5, <2>6, <2>7, EventEffect
<1>5. CASE Stream
  <2>1. PICK type \in Unlogged : Receive(Msg(type), {turn}, turn, <<>>) /\ UNCHANGED steps
    BY <1>5 DEF Stream
  <2> DEFINE m == Msg(type)
  <2>2. m.type \in SUPPRESSED_EVENT_TYPES \cup {"audio.stopped"}
    BY <2>1, MsgIs, StreamAssumption
  <2> HIDE DEF m
  <2>3. DispatchMessage(m) /\ Receive(m, {turn}, turn, <<>>)
    BY <2>1 DEF Receive, m
  <2>4. /\ UNCHANGED <<events, tokenUsage, claimResult, pattern, since, cleared>>
        /\ messages' \in Seq(TranscriptLine)
    BY <2>2, <2>3, DispatchOther, AddMessageTyped DEF Typed, LogTypeOK
  <2>5. Beside
    BY <1>0, <2>1, <2>3, <2>4 DEF Beside, Receive
  <2> QED BY <2>4, <2>5, LeaveEffect
<1>6. CASE AudioStarted
  <2>1. Receive(Msg("audio.started"), {turn}, turn, <<>>) /\ Step
    BY <1>6 DEF AudioStarted
  <2>2. PICK m : m = [Blank EXCEPT !.type = "user.turn"]
    OBVIOUS
  <2>3. m \in Event /\ m.type = "user.turn" /\ ~HasUsage(m)
    <3>1. m = [type |-> "user.turn", tool |-> Nothing, question |-> Nothing, value |-> Nothing,
               asked |-> {}, result |-> Nothing, from |-> Nothing, to |-> Nothing,
               usage |-> <<0, 0>>, serial |-> 0]
      BY <2>2 DEF Blank
    <3>2. Nothing \in Tools /\ Nothing \in Texts /\ Nothing \in Outcomes /\ "user.turn" \in EventTypes
      BY DEF Tools, Texts, Outcomes, EventTypes, KnownTypes
    <3> QED BY <3>1, <3>2 DEF Event, HasUsage
  <2>4. DispatchMessage(Msg("audio.started")) /\ outbound = <<>>
    BY <2>1 DEF Receive
  <2>5. /\ events' = Append(events, m)
        /\ UNCHANGED <<messages, tokenUsage, claimResult, pattern, since, cleared>>
    BY <2>2, <2>4, DispatchAudio
  <2>6. Beside
    BY <1>0, <2>1, <2>5 DEF Beside, Receive
  <2> QED BY <1>0, <2>3, <2>4, <2>5, <2>6, EventEffect
<1>7. CASE Announced
  <2>1. PICK type \in Unknown \cup {"session.created"} : Receive(Msg(type), {turn}, turn, <<>>) /\ Step
    BY <1>7 DEF Announced
  <2> DEFINE m == Msg(type)
  <2>2. m \in Event /\ m.type = type /\ m.usage = <<0, 0>>
    <3>1. type \in EventTypes
      BY <2>1 DEF EventTypes, KnownTypes
    <3> QED BY <3>1, MsgIs
  <2>q. type \notin {"tool.called", "tool.result", "agent.handoff", "user.turn", "response.done"}
    BY <2>1, StreamAssumption DEF KnownTypes
  <2>3. DispatchMessage(m) /\ outbound = <<>> /\ Receive(m, {turn}, turn, <<>>)
    BY <2>1 DEF Receive
  <2> HIDE DEF m
  <2>4. /\ events' = Append(events, m) /\ messages' = messages /\ claimResult' = claimResult
        /\ tokenUsage' = tokenUsage /\ ~HasUsage(m) /\ UNCHANGED <<pattern, since, cleared>>
    BY <2>2, <2>3, <2>q, DispatchEvent DEF HasUsage
  <2>5. Beside
    BY <1>0, <2>1, <2>3, <2>4 DEF Beside, Receive
  <2> QED BY <1>0, <2>2, <2>3, <2>4, <2>5, <2>q, EventEffect
<1>8. CASE SessionClosed
  <2> DEFINE m == Msg("session.closed")
  <2>1. /\ live /\ ~Running /\ turn' = "closed" /\ DispatchMessage(m) /\ outbound' = <<>>
        /\ UNCHANGED <<live, agent, steps>>
    BY <1>0, <1>8 DEF SessionClosed
  <2>2. m \in Event /\ m.type = "session.closed" /\ m.usage = <<0, 0>>
    <3>1. "session.closed" \in EventTypes
      BY DEF EventTypes, KnownTypes
    <3> QED BY <3>1, MsgIs
  <2> HIDE DEF m
  <2>4. /\ events' = Append(events, m) /\ messages' = messages /\ claimResult' = claimResult
        /\ tokenUsage' = tokenUsage /\ ~HasUsage(m) /\ UNCHANGED <<pattern, since, cleared>>
    BY <2>1, <2>2, DispatchEvent DEF HasUsage
  <2>5. Beside
    BY <2>1, <2>4 DEF Beside
  <2> QED BY <2>1, <2>2, <2>4, <2>5, EventEffect
<1> QED BY <1>1, <1>2, <1>3, <1>4, <1>5, <1>6, <1>7, <1>8

\* The user, the other reader, and a step that changes nothing.
LEMMA OtherEffect ==
    ASSUME Typed,
           \/ Start \/ Stop \/ TextSent \/ Error \/ ClearEvents \/ Dismiss
           \/ \E p \in Patterns \ {pattern} : SetPattern(p)
           \/ UNCHANGED vars
    PROVE  Typed' /\ Effect
<1>0. steps \in 0 .. MaxSteps /\ claimResult \in 0 .. steps /\ events \in Seq(Event)
      /\ Len(events) \in Nat /\ since \in 0 .. Len(events) /\ steps >= steps
  BY DEF Typed, LogTypeOK
<1>s. Step => steps' \in 0 .. MaxSteps /\ steps' >= steps /\ claimResult \in 0 .. steps'
  BY <1>0, CallLogAssumption DEF Step
<1>1. CASE Start
  <2> DEFINE m(t) == Msg(t)
  <2>1. \A t \in Behind : m(t) \in Event /\ m(t).type = t
    <3>1. \A t \in Behind : t \in EventTypes
      BY DEF Behind, EventTypes, KnownTypes
    <3> QED BY <3>1, MsgIs
  <2>2. outbound' = <<m("pattern.selected"), m("session.created"), m("session.prompt_updated")>>
    BY <1>1 DEF Start, Greeting
  <2> HIDE DEF m
  <2>3. /\ outbound' \in Seq(Event) /\ DOMAIN outbound' = 1 .. 3 /\ Head(outbound') = outbound'[1]
        /\ \A k \in 1 .. 3 : outbound'[k].type \in Behind \ {"agent.handoff"}
    <3>1. {"pattern.selected", "session.created", "session.prompt_updated"} \subseteq Behind \ {"agent.handoff"}
      BY DEF Behind
    <3> QED BY <2>1, <2>2, <3>1
  <2>4. ~Running'
    BY <2>3 DEF Running, Behind
  <2>5. Sending'
    BY <1>1, <2>3, <2>4 DEF Sending, Start, Behind
  <2>6. LogTypeOK'
    <3>1. "greeter" \in Agents /\ since' \in 0 .. Len(events')
      BY <1>0, <1>1, AgentSet DEF Start
    <3> QED BY <1>1, <1>s, <3>1 DEF Start, Typed, LogTypeOK
  <2>7. Leaves
    BY <1>1, <1>s, <2>4 DEF Start, Leaves
  <2> QED BY <2>5, <2>6, <2>7 DEF Typed, Effect
<1>2. CASE Stop
  <2>4. ~Running'
    BY <1>2 DEF Stop, Running
  <2>5. Sending'
    BY <1>2, <2>4 DEF Sending, Stop
  <2>6. LogTypeOK'
    BY <1>2 DEF Stop, Typed, LogTypeOK
  <2>7. Leaves
    BY <1>0, <1>2, <2>4 DEF Stop, Leaves
  <2> QED BY <2>5, <2>6, <2>7 DEF Typed, Effect
<1>3. CASE TextSent
  <2> DEFINE m == Msg("text.sent")
  <2>1. DispatchMessage(m) /\ Step /\ UNCHANGED backendVars
    BY <1>3 DEF TextSent
  <2>2. m.type = "text.sent"
    BY MsgIs
  <2> HIDE DEF m
  <2>4. /\ UNCHANGED <<events, tokenUsage, claimResult, pattern, since, cleared>>
        /\ messages' \in Seq(TranscriptLine)
    BY <2>1, <2>2, DispatchOther, AddMessageTyped DEF Typed, LogTypeOK
  <2>5. Beside
    BY <2>1, <2>4 DEF Beside, backendVars
  <2> QED BY <2>4, <2>5, LeaveEffect
<1>4. CASE Error
  <2> DEFINE m == Msg("error")
  <2>1. DispatchMessage(m) /\ Step /\ UNCHANGED backendVars
    BY <1>4 DEF Error
  <2>2. m \in Event /\ m.type = "error"
    <3>1. "error" \in EventTypes
      BY DEF EventTypes, KnownTypes
    <3> QED BY <3>1, MsgIs
  <2> HIDE DEF m
  <2>4. /\ events' = Append(events, m) /\ messages' = messages /\ claimResult' = claimResult
        /\ tokenUsage' = tokenUsage /\ ~HasUsage(m) /\ UNCHANGED <<pattern, since, cleared>>
    BY <2>1, <2>2, DispatchEvent DEF HasUsage
  <2>5. Beside
    BY <2>1, <2>4 DEF Beside, backendVars
  <2> QED BY <2>2, <2>4, <2>5, EventEffect
<1>5. CASE ClearEvents
  <2>1. /\ events' = <<>> /\ since' = 0 /\ cleared' = TRUE /\ Step
        /\ UNCHANGED <<pattern, messages, tokenUsage, claimResult, live, agent, turn, outbound>>
    BY <1>5 DEF ClearEvents, backendVars
  <2>2. Running' <=> Running
    BY <2>1 DEF Running
  <2>3. Sending'
    <3>1. Head(outbound)' = Head(outbound) /\ \A x : x \in 1 .. steps => x \in 1 .. steps'
      BY <1>0, <1>s, <2>1
    <3> QED BY <2>1, <2>2, <3>1 DEF Typed, Sending
  <2>4. LogTypeOK'
    <3>1. <<>> \in Seq(Event) /\ 0 \in 0 .. Len(<<>>)
      OBVIOUS
    <3> QED BY <1>s, <2>1, <3>1 DEF Typed, LogTypeOK
  <2>5. Empties
    BY <1>s, <2>1, <2>2 DEF Empties
  <2> QED BY <2>3, <2>4, <2>5 DEF Typed, Effect
<1>6. CASE Dismiss
  <2>1. Beside
    BY <1>6 DEF Dismiss, Beside, backendVars
  <2>2. messages' \in Seq(TranscriptLine)
    BY <1>6 DEF Dismiss, Typed, LogTypeOK
  <2> QED BY <1>6, <2>1, <2>2, LeaveEffect DEF Dismiss
<1>7. CASE \E p \in Patterns \ {pattern} : SetPattern(p)
  <2>1. PICK p \in Patterns : SetPattern(p)
    BY <1>7
  <2>2. /\ pattern' = p /\ events' = <<>> /\ messages' = <<>> /\ tokenUsage' = <<0, 0>> /\ since' = 0
        /\ cleared' = FALSE /\ live' = FALSE /\ turn' = "none" /\ outbound' = <<>>
        /\ UNCHANGED <<agent, claimResult, steps>>
    BY <2>1 DEF SetPattern
  <2>3. ~Running'
    BY <2>2 DEF Running
  <2>4. Sending'
    BY <2>2, <2>3 DEF Sending
  <2>5. LogTypeOK'
    <3>1. <<>> \in Seq(Event) /\ <<>> \in Seq(TranscriptLine) /\ 0 \in 0 .. Len(<<>>)
      OBVIOUS
    <3> QED BY <1>0, <2>2, <3>1 DEF Typed, LogTypeOK
  <2>6. Empties
    BY <1>0, <2>2, <2>3 DEF Empties
  <2> QED BY <2>4, <2>5, <2>6 DEF Typed, Effect
<1>8. CASE UNCHANGED vars
  <2>1. Beside
    BY <1>8 DEF vars, Beside
  <2>2. messages' \in Seq(TranscriptLine)
    BY <1>8 DEF vars, Typed, LogTypeOK
  <2> QED BY <1>8, <2>1, <2>2, LeaveEffect DEF vars
<1> QED BY <1>1, <1>2, <1>3, <1>4, <1>5, <1>6, <1>7, <1>8

\* Every step keeps the types and has one of the effects.
LEMMA StepEffect == ASSUME Typed, [Next]_vars PROVE Typed' /\ Effect
BY CallToolEffect, TransferEffect, DeliverEffect, AzureEffect, OtherEffect DEF Next

\* The initial state is typed.
LEMMA TypedInit == ASSUME Init PROVE Typed
<1>1. "greeter" \in Agents /\ MaxSteps \in Nat
  BY AgentSet, CallLogAssumption
<1>2. LogTypeOK
  <2>1. /\ events \in Seq(Event) /\ messages \in Seq(TranscriptLine) /\ since \in 0 .. Len(events)
        /\ tokenUsage \in Nat \X Nat /\ steps \in 0 .. MaxSteps /\ claimResult \in 0 .. steps
    BY <1>1 DEF Init
  <2> QED BY <1>1, <2>1 DEF Init, LogTypeOK
<1>3. ~Running
  BY DEF Init, Running
<1> QED BY <1>2, <1>3 DEF Init, Typed, Sending

\* Type invariant of the log's session: see LogTypeOK in CallLog.
THEOREM LogTypeCorrect == Spec => []LogTypeOK
<1>1. Init => Typed
  BY TypedInit
<1>2. Typed /\ [Next]_vars => Typed'
  BY StepEffect
<1>3. Typed => LogTypeOK
  BY DEF Typed
<1> QED BY <1>1, <1>2, <1>3, PTL DEF Spec

(***************************************************************************)
(* What the log says of an event, and the agents of its handoffs.          *)
(***************************************************************************)
Grows(e) == e \in Event /\ events \in Seq(Event) /\ events' = Append(events, e)

\* What an event adds to the log and to the sets of events of a type.
LEMMA Growth ==
    ASSUME NEW e, Grows(e)
    PROVE  /\ Len(events) \in Nat /\ DOMAIN events = 1 .. Len(events)
           /\ DOMAIN events' = 1 .. Len(events) + 1 /\ events'[Len(events) + 1] = e
           /\ \A i \in 1 .. Len(events) : events'[i] = events[i] /\ events[i] \in Event
           /\ \A t : /\ Indices(events', t) = IF e.type = t THEN Indices(events, t) \cup {Len(events) + 1}
                                              ELSE Indices(events, t)
                     /\ \A i \in Indices(events, t) :
                          i \in 1 .. Len(events) /\ events'[i] = events[i] /\ i # Len(events) + 1
<1>1. /\ Len(events) \in Nat /\ DOMAIN events = 1 .. Len(events)
      /\ DOMAIN events' = 1 .. Len(events) + 1 /\ events'[Len(events) + 1] = e
      /\ \A i \in 1 .. Len(events) : events'[i] = events[i] /\ events[i] \in Event
  BY LogAppend DEF Grows
<1>2. \A i \in 1 .. Len(events) + 1 : i \in 1 .. Len(events) \/ i = Len(events) + 1
  BY <1>1
<1>3. \A i \in 1 .. Len(events) : i \in 1 .. Len(events) + 1 /\ i # Len(events) + 1
  BY <1>1
<1>4. Len(events) + 1 \in 1 .. Len(events) + 1
  BY <1>1
<1>5. ASSUME NEW t
      PROVE  /\ Indices(events', t) = IF e.type = t THEN Indices(events, t) \cup {Len(events) + 1}
                                      ELSE Indices(events, t)
             /\ \A i \in Indices(events, t) :
                  i \in 1 .. Len(events) /\ events'[i] = events[i] /\ i # Len(events) + 1
  BY <1>1, <1>2, <1>3, <1>4 DEF Indices
<1> QED BY <1>1, <1>5

\* Three of the effects add an event.
LEMMA EffectGrows ==
    ASSUME Typed
    PROVE  /\ \A c \in Event : LogsCall(c) => Grows(c)
           /\ LogsResult => Grows(Head(outbound)) /\ Head(outbound).type = "tool.result"
           /\ \A e \in Event : LogsOther(e) => Grows(e)
BY DEF Typed, LogTypeOK, LogsCall, LogsResult, LogsOther, Grows, Running

\* An empty log has no events.
LEMMA EmptyIndices == \A t : Indices(<<>>, t) = {}
BY DEF Indices

\* Told is kept: what a new event says fits its kind.
LEMMA ToldStep == ASSUME Typed, Told, Effect PROVE Told'
<1>1. ASSUME NEW c \in Event, LogsCall(c) PROVE Told'
  <2>1. Grows(c) /\ c.type = "tool.called"
    BY <1>1, EffectGrows DEF LogsCall
  <2>2. IF c.tool = "validate_answer" THEN c.question \in Questions /\ c.value # Nothing
        ELSE c.question = Nothing
    BY <1>1 DEF LogsCall
  <2> QED BY <2>1, <2>2, Growth DEF Told, Moves, Called, Results
<1>2. CASE LogsResult
  <2>1. Grows(Head(outbound)) /\ Head(outbound).type = "tool.result"
    BY <1>2, EffectGrows
  <2>2. /\ Head(outbound).result = "submitted" => Head(outbound).tool = "submit_claim_data"
        /\ Head(outbound).result = "invalid" => Head(outbound).tool = "validate_answer"
    BY <1>2 DEF Typed, Sending, LogsResult
  <2> QED BY <2>1, <2>2, Growth DEF Told, Moves, Called, Results
<1>3. ASSUME NEW e \in Event, LogsOther(e) PROVE Told'
  <2>1. Grows(e) /\ e.type \notin {"tool.called", "tool.result"}
    BY <1>3, EffectGrows DEF LogsOther
  <2>2. e.type = "agent.handoff" => e.from \in Agents /\ e.to \in Agents
    BY <1>3 DEF LogsOther, Typed, LogTypeOK
  <2> QED BY <2>1, <2>2, Growth DEF Told, Moves, Called, Results
<1>4. CASE Empties
  BY <1>4, EmptyIndices DEF Empties, Told, Moves, Called, Results
<1>5. CASE Leaves
  BY <1>5 DEF Leaves, Told, Moves, Called, Results
<1> QED BY <1>1, <1>2, <1>3, <1>4, <1>5 DEF Effect

\* Moved is kept: a handoff starts from the agent the browser knows.
LEMMA MovedStep == ASSUME Typed, Moved, Effect PROVE Moved'
<1>0. Len(events) \in Nat /\ since \in 0 .. Len(events) /\ \A i \in Moves : i \in 1 .. Len(events)
  BY DEF Typed, LogTypeOK, Moves, Indices
<1>1. ASSUME NEW e, Grows(e), e.type # "agent.handoff", UNCHANGED <<live, agent, since, cleared>>
      PROVE  Moved'
  <2>1. Moves' = Moves /\ \A i \in Moves : events'[i] = events[i]
    BY <1>1, Growth DEF Moves
  <2> QED BY <1>1, <2>1 DEF Moved
<1>2. ASSUME NEW c \in Event, LogsCall(c) PROVE Moved'
  <2>1. Grows(c) /\ c.type # "agent.handoff" /\ UNCHANGED <<live, agent, since, cleared>>
    BY <1>2, EffectGrows DEF LogsCall
  <2> QED BY <1>1, <2>1
<1>3. CASE LogsResult
  <2>1. /\ Grows(Head(outbound)) /\ Head(outbound).type # "agent.handoff"
        /\ UNCHANGED <<live, agent, since, cleared>>
    BY <1>3, EffectGrows DEF LogsResult
  <2> QED BY <1>1, <2>1
<1>4. ASSUME NEW e \in Event, LogsOther(e) PROVE Moved'
  <2>1. Grows(e) /\ UNCHANGED <<live, since, cleared>>
    BY <1>4, EffectGrows DEF LogsOther
  <2>2. CASE e.type # "agent.handoff"
    BY <1>1, <1>4, <2>1, <2>2 DEF LogsOther
  <2>3. CASE e.type = "agent.handoff"
    <3> DEFINE n == Len(events) + 1
    <3>1. /\ Moves' = Moves \cup {n} /\ events'[n] = e
          /\ \A i \in Moves : events'[i] = events[i] /\ ~(n <= i)
      BY <1>0, <2>1, <2>3, Growth DEF Moves
    <3>2. e.from = agent /\ e.to = agent'
      BY <1>4, <2>3 DEF LogsOther
    <3> HIDE DEF n
    <3>3. \A i \in Moves' : i > since' =>
            events'[i].to = agent' \/ \E j \in Moves' : events'[j].from = events'[i].to
      <4> SUFFICES ASSUME NEW i \in Moves', i > since', events'[i].to # agent'
                   PROVE  \E j \in Moves' : events'[j].from = events'[i].to
        OBVIOUS
      <4>1. i \in Moves /\ events'[i] = events[i] /\ i > since
        BY <2>1, <3>1, <3>2
      <4>2. events[i].to = agent \/ \E j \in Moves : events[j].from = events[i].to
        BY <4>1 DEF Moved
      <4> QED BY <3>1, <3>2, <4>1, <4>2
    <3>4. \A i \in Moves' : (\A j \in Moves' : j <= i) => events'[i].to = agent'
      BY <3>1, <3>2
    <3> QED BY <3>1, <3>3, <3>4 DEF Moved
  <2> QED BY <2>2, <2>3
<1>5. CASE Empties
  <2>1. Moves' = {} /\ (live' => cleared')
    BY <1>5, EmptyIndices DEF Empties, Moves
  <2> QED BY <2>1 DEF Moved
<1>6. CASE Leaves
  <2>1. Moves' = Moves /\ events' = events /\ cleared' = cleared
    BY <1>6 DEF Leaves, Moves
  <2>2. CASE since' = since /\ agent' = agent /\ (live' => live)
    BY <2>1, <2>2 DEF Moved
  <2>3. CASE since' = Len(events) /\ agent' = "greeter"
    <3>1. \A i \in Moves : ~(i > since')
      BY <1>0, <2>3
    <3> QED BY <2>1, <2>3, <3>1 DEF Moved
  <2> QED BY <1>6, <2>2, <2>3 DEF Leaves
<1> QED BY <1>2, <1>3, <1>4, <1>5, <1>6 DEF Effect

\* A list grows with its log.
LEMMA ListsAppend ==
    ASSUME NEW es \in Seq(Event), NEW e \in Event, NEW types, Lists(OfTypes(es, types), es, types)
    PROVE  Lists(OfTypes(Append(es, e), types), Append(es, e), types)
<1> DEFINE n == Len(es)
           es1 == Append(es, e)
           s == OfTypes(es, types)
           s1 == OfTypes(es1, types)
           I == {i \in DOMAIN es : es[i].type \in types}
           I1 == {i \in DOMAIN es1 : es1[i].type \in types}
<1>1. /\ n \in Nat /\ DOMAIN es = 1 .. n /\ DOMAIN es1 = 1 .. n + 1 /\ es1[n + 1] = e
      /\ \A i \in 1 .. n : es1[i] = es[i]
  BY LogAppend
<1>2. s \in Seq(Event) /\ s1 = IF e.type \in types THEN Append(s, e) ELSE s
  BY OfTypesAppend
<1>3. /\ {s[k] : k \in DOMAIN s} = {es[i] : i \in I}
      /\ \A i \in I : (\A j \in I : j <= i) => s[Len(s)] = es[i]
  BY DEF Lists
<1> HIDE DEF es1, s, s1
<1>4. CASE e.type \notin types
  <2>1. I1 = I
    BY <1>1, <1>4
  <2>2. \A i \in I : es1[i] = es[i]
    BY <1>1
  <2>3. {es1[i] : i \in I1} = {es[i] : i \in I}
    <3> HIDE DEF I, I1
    <3> QED BY <2>1, <2>2
  <2>4. Lists(s1, es1, types)
    <3>1. \A i \in I1 : (\A j \in I1 : j <= i) => s1[Len(s1)] = es1[i]
      <4> HIDE DEF I, I1
      <4> QED BY <1>2, <1>3, <1>4, <2>1, <2>2
    <3> QED BY <1>2, <1>3, <1>4, <2>3, <3>1 DEF Lists
  <2> QED BY <2>4 DEF es1, s1
<1>5. CASE e.type \in types
  <2>1. I1 = I \cup {n + 1} /\ \A i \in I : i \in 1 .. n
    BY <1>1, <1>5
  <2>2. \A i \in I : es1[i] = es[i] /\ ~(n + 1 <= i)
    BY <1>1
  <2>3. /\ s1 \in Seq(Event) /\ s1[Len(s1)] = e
        /\ DOMAIN s1 = DOMAIN s \cup {Len(s) + 1} /\ s1[Len(s) + 1] = e
        /\ \A k \in DOMAIN s : s1[k] = s[k]
    BY <1>2, <1>5, LogAppend
  <2>4. {s1[k] : k \in DOMAIN s1} = {s[k] : k \in DOMAIN s} \cup {e}
    BY <2>3
  <2>5. {es1[i] : i \in I1} = {es[i] : i \in I} \cup {e}
    <3> HIDE DEF I, I1
    <3>1. {es1[i] : i \in I1} = {es1[i] : i \in I} \cup {es1[n + 1]}
      BY <2>1
    <3>2. {es1[i] : i \in I} = {es[i] : i \in I}
      BY <2>2
    <3>3. es1[n + 1] = e
      BY <1>1
    <3> HIDE DEF n
    <3> QED BY <3>1, <3>2, <3>3, Zenon
  <2>6. \A i \in I1 : (\A j \in I1 : j <= i) => s1[Len(s1)] = es1[i]
    <3> HIDE DEF I, I1
    <3> QED BY <1>1, <2>1, <2>2, <2>3
  <2>7. Lists(s1, es1, types)
    <3>1. {s1[k] : k \in DOMAIN s1} = {es1[i] : i \in I1}
      <4> HIDE DEF I, I1
      <4> QED BY <1>3, <2>4, <2>5
    <3> QED BY <2>3, <2>6, <3>1 DEF Lists
  <2> QED BY <2>7 DEF es1, s1
<1> QED BY <1>4, <1>5

\* Nothing is listed of an empty log.
LEMMA ListsEmpty == ASSUME NEW types PROVE Lists(OfTypes(<<>>, types), <<>>, types)
<1>1. OfTypes(<<>>, types) = <<>>
  BY EmptyLog
<1>2. DOMAIN <<>> = {} /\ <<>> \in Seq(Event)
  OBVIOUS
<1>3. ASSUME NEW s, DOMAIN s = {} PROVE {i \in DOMAIN s : s[i].type \in types} = {}
  BY <1>3
<1>4. ASSUME NEW s, DOMAIN s = {}, s \in Seq(Event) PROVE Lists(s, s, types)
  BY <1>3, <1>4 DEF Lists
<1> QED BY <1>1, <1>2, <1>4

\* Listed is kept.
LEMMA ListedStep == ASSUME Typed, Listed, Effect PROVE Listed'
<1>1. ASSUME NEW e, Grows(e) PROVE Listed'
  BY <1>1, ListsAppend DEF Grows, Listed, Handoffs
<1>2. CASE Empties
  BY <1>2, ListsEmpty DEF Empties, Listed, Handoffs
<1>3. CASE Leaves
  BY <1>3 DEF Leaves, Listed, Handoffs
<1> QED BY <1>1, <1>2, <1>3, EffectGrows DEF Effect

(***************************************************************************)
(* Tool calls and their results.                                           *)
(***************************************************************************)
LEMMA Grown ==
    ASSUME NEW e, Grows(e)
    PROVE  /\ e.type = "tool.called" =>
                Called(events') = Called(events) \cup {Len(events) + 1} /\ Results(events') = Results(events)
           /\ e.type = "tool.result" =>
                Results(events') = Results(events) \cup {Len(events) + 1} /\ Called(events') = Called(events)
           /\ e.type \notin {"tool.called", "tool.result"} =>
                Called(events') = Called(events) /\ Results(events') = Results(events)
           /\ \A i \in Called(events) \cup Results(events) :
                i \in 1 .. Len(events) /\ events'[i] = events[i] /\ events[i] \in Event
           /\ events'[Len(events) + 1] = e /\ e \in Event /\ Len(events) \in Nat
           /\ Len(events) + 1 \notin Called(events) \cup Results(events)
BY Growth DEF Called, Results, Grows

\* The numbers of the tool calls in the log are bounded by the steps taken.
LEMMA SerialBound ==
    ASSUME Typed, Numbered, steps' >= steps, steps' \in Nat, NEW i \in Called(events) \cup Results(events)
    PROVE  events[i].serial \in 1 .. steps /\ events[i].serial \in 1 .. steps'
<1>1. steps \in Nat /\ events[i].serial \in 1 .. steps
  BY DEF Numbered, Typed, LogTypeOK
<1> QED BY <1>1

\* Numbered is kept: a call has the next number, a result that of the last call.
LEMMA NumberedStep == ASSUME Typed, Typed', Numbered, Current, Effect PROVE Numbered'
<1>0. steps \in Nat /\ steps' \in Nat
  BY DEF Typed, LogTypeOK
<1>1. ASSUME NEW c \in Event, LogsCall(c) PROVE Numbered'
  <2> DEFINE n == Len(events) + 1
  <2>1. /\ Called(events') = Called(events) \cup {n} /\ Results(events') = Results(events)
        /\ \A i \in Called(events) \cup Results(events) :
             i \in Nat /\ i < n /\ ~(n <= i) /\ events'[i] = events[i]
        /\ events'[n] = c /\ n \in Nat
    BY <1>1, EffectGrows, Grown DEF LogsCall
  <2>2. c.serial = steps + 1 /\ steps' = steps + 1
    BY <1>1 DEF LogsCall
  <2>3. \A i \in Called(events) \cup Results(events) :
          events[i].serial \in 1 .. steps /\ events[i].serial < steps + 1 /\ events[i].serial \in 1 .. steps'
    BY <1>0, <2>2 DEF Numbered
  <2>4. c.serial \in 1 .. steps'
    BY <1>0, <2>2
  <2> HIDE DEF n
  <2>5. \A i, k \in Called(events') : i < k => events'[i].serial < events'[k].serial
    <3> SUFFICES ASSUME NEW i \in Called(events'), NEW k \in Called(events'), i < k
                 PROVE  events'[i].serial < events'[k].serial
      OBVIOUS
    <3>1. i \in Called(events)
      BY <2>1
    <3>2. CASE k = n
      BY <2>1, <2>2, <2>3, <3>1, <3>2
    <3>3. CASE k # n
      BY <2>1, <3>1, <3>3 DEF Numbered
    <3> QED BY <3>2, <3>3
  <2>6. \A j, k \in Results(events') : j < k => events'[j].serial < events'[k].serial
    BY <2>1 DEF Numbered
  <2>7. \A i \in Called(events'), j \in Results(events') :
          events'[i].serial = events'[j].serial => i < j /\ events'[i].tool = events'[j].tool
    <3> SUFFICES ASSUME NEW i \in Called(events'), NEW j \in Results(events'),
                        events'[i].serial = events'[j].serial
                 PROVE  i < j /\ events'[i].tool = events'[j].tool
      OBVIOUS
    <3>1. j \in Results(events) /\ events'[j] = events[j] /\ events[j].serial \in 1 .. steps
      BY <2>1, <2>3
    <3>2. i # n
      BY <1>0, <2>1, <2>2, <3>1
    <3>3. i \in Called(events) /\ events'[i] = events[i]
      BY <2>1, <3>2
    <3> QED BY <3>1, <3>3 DEF Numbered, Own
  <2>8. \A i \in Called(events') : events'[i].serial \in 1 .. steps'
    BY <2>1, <2>3, <2>4
  <2>9. \A j \in Results(events') : events'[j].serial \in 1 .. steps'
    BY <2>1, <2>3
  <2> QED BY <2>5, <2>6, <2>7, <2>8, <2>9 DEF Numbered, Own
<1>2. CASE LogsResult
  <2> DEFINE n == Len(events) + 1
             r == Head(outbound)
  <2>1. /\ Results(events') = Results(events) \cup {n} /\ Called(events') = Called(events)
        /\ \A i \in Called(events) \cup Results(events) :
             i \in Nat /\ i < n /\ ~(n <= i) /\ events'[i] = events[i]
        /\ events'[n] = r /\ n \in Nat
    BY <1>2, EffectGrows, Grown DEF LogsResult
  <2>2. Running /\ r.serial \in 1 .. steps /\ steps' = steps
    BY <1>2 DEF LogsResult, Typed, Sending
  <2>3. \A j \in Results(events) : events[j].serial < r.serial
    BY <2>2 DEF Current
  <2>4. \A i \in Called(events) : events[i].serial = r.serial => events[i].tool = r.tool
    BY <2>2 DEF Current, RunningCall
  <2> HIDE DEF n, r
  <2>5. \A i, k \in Called(events') : i < k => events'[i].serial < events'[k].serial
    BY <2>1 DEF Numbered
  <2>6. \A j, k \in Results(events') : j < k => events'[j].serial < events'[k].serial
    <3> SUFFICES ASSUME NEW j \in Results(events'), NEW k \in Results(events'), j < k
                 PROVE  events'[j].serial < events'[k].serial
      OBVIOUS
    <3>1. j \in Results(events)
      BY <2>1
    <3>2. CASE k = n
      BY <2>1, <2>3, <3>1, <3>2
    <3>3. CASE k # n
      BY <2>1, <3>1, <3>3 DEF Numbered
    <3> QED BY <3>2, <3>3
  <2>7. \A i \in Called(events'), j \in Results(events') :
          events'[i].serial = events'[j].serial => i < j /\ events'[i].tool = events'[j].tool
    <3> SUFFICES ASSUME NEW i \in Called(events'), NEW j \in Results(events'),
                        events'[i].serial = events'[j].serial
                 PROVE  i < j /\ events'[i].tool = events'[j].tool
      OBVIOUS
    <3>1. i \in Called(events) /\ events'[i] = events[i] /\ i < n
      BY <2>1
    <3>2. CASE j = n
      BY <2>1, <2>4, <3>1, <3>2
    <3>3. CASE j # n
      <4>1. j \in Results(events) /\ events'[j] = events[j]
        BY <2>1, <3>3
      <4> QED BY <3>1, <4>1 DEF Numbered, Own
    <3> QED BY <3>2, <3>3
  <2>8. \A i \in Called(events') : events'[i].serial \in 1 .. steps'
    BY <2>1, <2>2 DEF Numbered
  <2>9. \A j \in Results(events') : events'[j].serial \in 1 .. steps'
    BY <2>1, <2>2 DEF Numbered
  <2> QED BY <2>5, <2>6, <2>7, <2>8, <2>9 DEF Numbered, Own
<1>3. ASSUME steps' >= steps, Called(events') = Called(events), Results(events') = Results(events),
             \A i \in Called(events) \cup Results(events) : events'[i] = events[i]
      PROVE  Numbered'
  <2>1. \A i \in Called(events) \cup Results(events) : events[i].serial \in 1 .. steps'
    BY <1>0, <1>3, SerialBound
  <2> QED BY <1>3, <2>1 DEF Numbered, Own
<1>4. ASSUME NEW e \in Event, LogsOther(e) PROVE Numbered'
  BY <1>3, <1>4, EffectGrows, Grown DEF LogsOther
<1>5. CASE Empties
  <2>1. Called(events') = {} /\ Results(events') = {}
    BY <1>5, EmptyIndices DEF Empties, Called, Results
  <2> QED BY <2>1 DEF Numbered
<1>6. CASE Leaves
  BY <1>3, <1>6 DEF Leaves
<1> QED BY <1>1, <1>2, <1>4, <1>5, <1>6 DEF Effect

\* Current is kept: while a tool runs only errors are logged, or the log is emptied.
LEMMA CurrentStep == ASSUME Typed, Typed', Numbered, Current, Effect PROVE Current'
<1>0. steps \in Nat
  BY DEF Typed, LogTypeOK
<1>1. ASSUME NEW c \in Event, LogsCall(c) PROVE Current'
  <2> DEFINE n == Len(events) + 1
  <2>1. /\ Called(events') = Called(events) \cup {n} /\ Results(events') = Results(events)
        /\ \A i \in Called(events) \cup Results(events) : events'[i] = events[i]
        /\ events'[n] = c /\ n \in Nat
    BY <1>1, EffectGrows, Grown DEF LogsCall
  <2>2. /\ c.serial = steps + 1 /\ Running'
        /\ Head(outbound').serial = steps + 1 /\ Head(outbound').tool = c.tool
    BY <1>1 DEF LogsCall
  <2>3. \A i \in Called(events) \cup Results(events) : events[i].serial \in Int /\ events[i].serial < steps + 1
    BY <1>0 DEF Numbered
  <2>4. DOMAIN events' = 1 .. n
    BY <1>1, EffectGrows, Growth DEF LogsCall
  <2>5. \A j \in DOMAIN events' : ~(j > n)
    BY <2>1, <2>4
  <2> HIDE DEF n
  <2>6. RunningCall' = {n}
    BY <1>0, <2>1, <2>2, <2>3 DEF RunningCall
  <2>7. \A i \in Called(events') : events'[i].serial <= Head(outbound').serial
    BY <1>0, <2>1, <2>2, <2>3
  <2>8. \A j \in Results(events') : events'[j].serial < Head(outbound').serial
    BY <2>1, <2>2, <2>3
  <2> QED BY <2>1, <2>2, <2>5, <2>6, <2>7, <2>8 DEF Current
<1>2. CASE LogsResult
  BY <1>2 DEF LogsResult, Current
<1>3. ASSUME NEW e \in Event, LogsOther(e) PROVE Current'
  <2> SUFFICES ASSUME Running' PROVE Current'
    BY DEF Current
  <2>1. Running /\ Head(outbound') = Head(outbound) /\ e.type = "error"
    BY <1>3 DEF LogsOther, SameRun
  <2>2. /\ Called(events') = Called(events) /\ Results(events') = Results(events)
        /\ \A i \in Called(events) \cup Results(events) : events'[i] = events[i]
    BY <1>3, EffectGrows, Grown DEF LogsOther
  <2>3. RunningCall' = RunningCall
    BY <2>1, <2>2 DEF RunningCall
  <2>4. \A j \in DOMAIN events' : \/ j \in DOMAIN events /\ events'[j] = events[j]
                               \/ events'[j].type = "error"
    <3>1. Grows(e)
      BY <1>3, EffectGrows
    <3>2. \A j \in 1 .. Len(events) + 1 : Len(events) \in Nat => j \in 1 .. Len(events) \/ j = Len(events) + 1
      OBVIOUS
    <3> QED BY <2>1, <3>1, <3>2, Growth
  <2>5. \A i \in RunningCall' : /\ events'[i].tool = Head(outbound').tool
                                /\ \A j \in DOMAIN events' : j > i => events'[j].type = "error"
    BY <2>1, <2>2, <2>3, <2>4 DEF Current, RunningCall
  <2> QED BY <2>1, <2>2, <2>3, <2>5 DEF Current
<1>4. CASE Empties
  <2>1. Called(events') = {} /\ Results(events') = {}
    BY <1>4, EmptyIndices DEF Empties, Called, Results
  <2>2. RunningCall' = {}
    BY <2>1 DEF RunningCall
  <2> QED BY <2>1, <2>2 DEF Current
<1>5. CASE Leaves
  <2> SUFFICES ASSUME Running' PROVE Current'
    BY DEF Current
  <2>1. Running /\ Head(outbound') = Head(outbound) /\ events' = events
    BY <1>5 DEF Leaves
  <2>2. RunningCall' = RunningCall
    BY <2>1 DEF RunningCall
  <2> QED BY <2>1, <2>2 DEF Current
<1> QED BY <1>1, <1>2, <1>3, <1>4, <1>5 DEF Effect

\* What a logged call changes of the calls, the results and their pairs.
LEMMA CallFacts ==
    ASSUME Typed, Typed', Numbered, Current, NEW c \in Event, LogsCall(c)
    PROVE  LET n == Len(events) + 1 IN
           /\ Called(events') = Called(events) \cup {n} /\ Results(events') = Results(events)
           /\ n \notin Called(events) /\ n \in Nat /\ events'[n] = c
           /\ \A i \in Called(events) \cup Results(events) : events'[i] = events[i]
           /\ RunningCall = {} /\ RunningCall' = {n}
           /\ OwnPairs' = OwnPairs /\ Expected' = Expected
           /\ Unanswered' = Unanswered \cup {n} /\ Lost' = Lost /\ Lost = Unanswered
           /\ \A i \in Called(events) : i < n
           /\ \A j \in Results(events) : events[j].serial # c.serial
<1> DEFINE n == Len(events) + 1
<1>1. /\ Called(events') = Called(events) \cup {n} /\ Results(events') = Results(events)
      /\ \A i \in Called(events) \cup Results(events) : events'[i] = events[i] /\ i < n
      /\ events'[n] = c /\ n \in Nat /\ n \notin Called(events) /\ n \notin Results(events)
  BY EffectGrows, Grown DEF LogsCall
<1>2. /\ c.serial = steps + 1 /\ Running' /\ ~Running /\ Head(outbound').serial = steps + 1
      /\ steps \in Nat
  BY DEF LogsCall, Typed, LogTypeOK
<1>3. \A i \in Called(events) \cup Results(events) : events[i].serial # steps + 1
  BY <1>2 DEF Numbered
<1> HIDE DEF n
<1>4. RunningCall' = {n} /\ RunningCall = {}
  BY <1>1, <1>2, <1>3 DEF RunningCall
<1>5. OwnPairs' = OwnPairs
  <2>1. OwnPairs' = {p \in Called(events') \X Results(events') : events'[p[1]].serial = events'[p[2]].serial}
    BY DEF OwnPairs, Own
  <2>2. OwnPairs = {p \in Called(events) \X Results(events) : events[p[1]].serial = events[p[2]].serial}
    BY DEF OwnPairs, Own
  <2>3. \A i \in Called(events'), j \in Results(events') :
          events'[i].serial = events'[j].serial
            <=> i \in Called(events) /\ events[i].serial = events[j].serial
    BY <1>1, <1>2, <1>3
  <2> QED BY <1>1, <2>1, <2>2, <2>3
<1>6. \A j \in Results(events) :
        {i \in Called(events') : events'[i].serial = events'[j].serial} = CalledFor(j)
  BY <1>1, <1>2, <1>3 DEF CalledFor, Own
<1>7. Expected' = Expected
  BY <1>1, <1>6 DEF Expected, CalledFor, Own
<1>8. /\ \A i \in Called(events) :
           {j \in Results(events') : events'[i].serial = events'[j].serial} = ResultFor(i)
      /\ {j \in Results(events') : events'[n].serial = events'[j].serial} = {}
  BY <1>1, <1>2, <1>3 DEF ResultFor, Own
<1>9. Unanswered' = Unanswered \cup {n}
  BY <1>1, <1>8 DEF Unanswered, ResultFor, Own
<1>10. Lost = Unanswered /\ Lost' = Unanswered' \ {n}
  <2>1. Lost = Unanswered \ RunningCall /\ Lost' = Unanswered' \ RunningCall'
    BY DEF Lost, Unanswered
  <2> QED BY <1>4, <2>1
<1>11. n \notin Unanswered
  BY <1>1 DEF Unanswered
<1> QED BY <1>1, <1>2, <1>3, <1>4, <1>5, <1>7, <1>9, <1>10, <1>11 DEF n

\* What a logged result changes of them.
LEMMA ResultFacts ==
    ASSUME Typed, Typed', Numbered, Current, LogsResult
    PROVE  LET n == Len(events) + 1 r == Head(outbound) IN
           /\ Results(events') = Results(events) \cup {n} /\ Called(events') = Called(events)
           /\ n \notin Results(events) /\ n \in Nat /\ events'[n] = r
           /\ \A i \in Called(events) \cup Results(events) : events'[i] = events[i] /\ i < n
           /\ RunningCall' = {} /\ RunningCall \subseteq Unanswered
           /\ OwnPairs' = OwnPairs \cup {p \in Called(events) \X {n} : p[1] \in RunningCall}
           /\ Expected' = Expected \cup {j \in {n} : RunningCall # {}}
           /\ Unanswered' = Unanswered \ RunningCall /\ Lost' = Lost /\ Lost = Unanswered \ RunningCall
           /\ RunningCall = {} => Called(events) = {}
           /\ \A i \in RunningCall : /\ i \in Called(events) /\ RunningCall = {i}
                                     /\ events[i].tool = r.tool
                                     /\ \A k \in Called(events) : k <= i
           /\ \A i \in Called(events) : events[i].serial = r.serial <=> i \in RunningCall
<1> DEFINE n == Len(events) + 1
           r == Head(outbound)
<1>1. /\ Results(events') = Results(events) \cup {n} /\ Called(events') = Called(events)
      /\ \A i \in Called(events) \cup Results(events) : events'[i] = events[i] /\ i < n /\ i \in Nat
      /\ events'[n] = r /\ n \in Nat /\ n \notin Called(events) /\ n \notin Results(events)
  BY EffectGrows, Grown DEF LogsResult
<1>2. Running /\ ~Running' /\ r.serial \in Nat
  BY DEF LogsResult, Typed, Sending
<1>3. /\ \A i \in Called(events) : events[i].serial \in Nat /\ events[i].serial <= r.serial
      /\ \A j \in Results(events) : events[j].serial \in Nat /\ events[j].serial < r.serial
  BY <1>2 DEF Current, Numbered
<1>4. \A i \in Called(events) : events[i].serial = r.serial <=> i \in RunningCall
  BY <1>2 DEF RunningCall
<1>a. \A i \in RunningCall : i \in Called(events) /\ events[i].tool = r.tool /\ events[i].serial = r.serial
  BY <1>2 DEF RunningCall, Current
<1>b. RunningCall = {} => Called(events) = {}
  BY <1>2 DEF Current
<1>c. RunningCall' = {}
  BY <1>2 DEF RunningCall
<1> HIDE DEF n, r
<1>5. \A i \in RunningCall : \A k \in Called(events) : k <= i
  <2> SUFFICES ASSUME NEW i \in RunningCall, NEW k \in Called(events), i < k PROVE FALSE
    BY <1>1, <1>a
  <2>1. events[i].serial < events[k].serial
    BY <1>a DEF Numbered
  <2> QED BY <1>3, <1>a, <2>1
<1>6. \A i \in RunningCall : RunningCall = {i}
  <2> SUFFICES ASSUME NEW i \in RunningCall, NEW k \in RunningCall PROVE i = k
    OBVIOUS
  <2>1. i <= k /\ k <= i /\ i \in Nat /\ k \in Nat
    BY <1>1, <1>5, <1>a
  <2> QED BY <2>1
<1>7. OwnPairs' = OwnPairs \cup {p \in Called(events) \X {n} : p[1] \in RunningCall}
  <2>1. OwnPairs' = {p \in Called(events') \X Results(events') : events'[p[1]].serial = events'[p[2]].serial}
    BY DEF OwnPairs, Own
  <2>2. OwnPairs = {p \in Called(events) \X Results(events) : events[p[1]].serial = events[p[2]].serial}
    BY DEF OwnPairs, Own
  <2>3. \A i \in Called(events) : events'[i].serial = events'[n].serial <=> i \in RunningCall
    BY <1>1, <1>4
  <2>4. \A i \in Called(events), j \in Results(events) :
          events'[i].serial = events'[j].serial <=> events[i].serial = events[j].serial
    BY <1>1
  <2> QED BY <1>1, <2>1, <2>2, <2>3, <2>4
<1>8. /\ \A j \in Results(events) :
           {i \in Called(events') : events'[i].serial = events'[j].serial} = CalledFor(j)
      /\ {i \in Called(events') : events'[i].serial = events'[n].serial} = RunningCall
  BY <1>1, <1>4, <1>a DEF CalledFor, Own
<1>9. Expected' = Expected \cup {j \in {n} : RunningCall # {}}
  BY <1>1, <1>8 DEF Expected, CalledFor, Own
<1>10. \A i \in Called(events) :
         {j \in Results(events') : events'[i].serial = events'[j].serial}
           = ResultFor(i) \cup {j \in {n} : i \in RunningCall}
  BY <1>1, <1>4 DEF ResultFor, Own
<1>11. Unanswered' = Unanswered \ RunningCall
  BY <1>1, <1>10 DEF Unanswered, ResultFor, Own
<1>12. RunningCall \subseteq Unanswered
  <2> SUFFICES ASSUME NEW i \in RunningCall, NEW j \in ResultFor(i) PROVE FALSE
    BY <1>a DEF Unanswered
  <2>1. j \in Results(events) /\ events[j].serial = r.serial
    BY <1>a DEF ResultFor, Own
  <2> QED BY <1>2, <1>3, <2>1
<1>13. Lost = Unanswered \ RunningCall /\ Lost' = Unanswered' \ RunningCall'
  BY DEF Lost, Unanswered
<1> QED BY <1>1, <1>4, <1>5, <1>6, <1>7, <1>9, <1>11, <1>12, <1>13, <1>a, <1>b, <1>c DEF n, r

\* Another event changes nothing of them.
LEMMA OtherFacts ==
    ASSUME NEW e \in Event, Grows(e), e.type \notin {"tool.called", "tool.result"}, SameRun
    PROVE  /\ Called(events') = Called(events) /\ Results(events') = Results(events)
           /\ \A i \in Called(events) \cup Results(events) : events'[i] = events[i]
           /\ RunningCall' = RunningCall /\ OwnPairs' = OwnPairs /\ Expected' = Expected
           /\ Unanswered' = Unanswered /\ Lost' = Lost
<1>1. /\ Called(events') = Called(events) /\ Results(events') = Results(events)
      /\ \A i \in Called(events) \cup Results(events) : events'[i] = events[i]
  BY Grown
<1>2. RunningCall' = RunningCall
  BY <1>1 DEF RunningCall, SameRun
<1>3. OwnPairs' = OwnPairs
  BY <1>1 DEF OwnPairs, Own
<1>4. \A j \in Results(events) : {i \in Called(events') : events'[i].serial = events'[j].serial} = CalledFor(j)
  BY <1>1 DEF CalledFor, Own
<1>5. \A i \in Called(events) : {j \in Results(events') : events'[i].serial = events'[j].serial} = ResultFor(i)
  BY <1>1 DEF ResultFor, Own
<1>6. Expected' = Expected
  BY <1>1, <1>4 DEF Expected, CalledFor, Own
<1>7. Unanswered' = Unanswered
  BY <1>1, <1>5 DEF Unanswered, ResultFor, Own
<1>8. Lost = Unanswered \ RunningCall /\ Lost' = Unanswered' \ RunningCall'
  BY DEF Lost, Unanswered
<1> QED BY <1>1, <1>2, <1>3, <1>6, <1>7, <1>8

\* Nor does a step that logs nothing; a tool that stops running is lost.
LEMMA LeaveFacts ==
    ASSUME Leaves
    PROVE  /\ RunningCall' = RunningCall \/ RunningCall' = {}
           /\ OwnPairs' = OwnPairs /\ Expected' = Expected /\ Unanswered' = Unanswered
           /\ Lost = Unanswered \ RunningCall /\ Lost' = Unanswered \ RunningCall'
<1>1. events' = events /\ (Running' => Running /\ Head(outbound') = Head(outbound))
  BY DEF Leaves
<1>2. RunningCall' = RunningCall \/ RunningCall' = {}
  <2>1. CASE Running'
    BY <1>1, <2>1 DEF RunningCall
  <2>2. CASE ~Running'
    BY <1>1, <2>2 DEF RunningCall
  <2> QED BY <2>1, <2>2
<1>3. OwnPairs' = OwnPairs /\ Expected' = Expected /\ Unanswered' = Unanswered
  BY <1>1 DEF OwnPairs, Expected, Unanswered, CalledFor, ResultFor, Own
<1>4. Lost = Unanswered \ RunningCall /\ Lost' = Unanswered' \ RunningCall'
  BY DEF Lost, Unanswered
<1> QED BY <1>2, <1>3, <1>4

\* An empty log has none.
LEMMA EmptyFacts ==
    ASSUME Empties
    PROVE  /\ Called(events') = {} /\ Results(events') = {} /\ RunningCall' = {}
           /\ OwnPairs' = {} /\ Expected' = {} /\ Unanswered' = {} /\ Lost' = {}
<1>1. Called(events') = {} /\ Results(events') = {}
  BY EmptyIndices DEF Empties, Called, Results
<1> QED BY <1>1 DEF RunningCall, OwnPairs, Expected, Unanswered, Lost

\* A pairing of the log after an event, from the one before.
LEMMA PairGrown ==
    ASSUME NEW e, Grows(e), NEW replaces, NEW last
    PROVE  Pairs1(events, e, Pair(events, replaces, last), Pair(events', replaces, last), replaces, last)
<1>1. e \in Event /\ events \in Seq(Event) /\ events' = Append(events, e)
  BY DEF Grows
<1>2. Pairs1(events, e, Pair(events, replaces, last), Pair(Append(events, e), replaces, last), replaces, last)
  BY <1>1, PairAppend, Zenon
<1> QED BY <1>1, <1>2

\* The three of them.
LEMMA PairsGrown ==
    ASSUME NEW e, Grows(e)
    PROVE  /\ Pairs1(events, e, Pair(events, FALSE, TRUE), Pair(events', FALSE, TRUE), FALSE, TRUE)
           /\ Pairs1(events, e, Pair(events, TRUE, TRUE), Pair(events', TRUE, TRUE), TRUE, TRUE)
           /\ Pairs1(events, e, Pair(events, FALSE, FALSE), Pair(events', FALSE, FALSE), FALSE, FALSE)
BY PairGrown, Zenon

\* Paired is kept.
LEMMA PairedStep == ASSUME Typed, Typed', Numbered, Current, Paired, Effect PROVE Paired'
<1> DEFINE spans == Pair(events, FALSE, TRUE)
           tools == Pair(events, TRUE, TRUE)
           api == Pair(events, FALSE, FALSE)
           spans1 == Pair(events', FALSE, TRUE)
           tools1 == Pair(events', TRUE, TRUE)
           api1 == Pair(events', FALSE, FALSE)
           n == Len(events) + 1
<1>p. /\ spans.pending = Unanswered /\ spans.pairs = OwnPairs
      /\ tools.pending \subseteq Unanswered /\ RunningCall \subseteq tools.pending
      /\ tools.pairs = OwnPairs
      /\ RunningCall \subseteq api.pending /\ api.pending \subseteq Called(events)
      /\ \A p \in api.pairs : p[1] \in Called(events) /\ events[p[1]].tool = events[p[2]].tool
      /\ {p[2] : p \in api.pairs} = Expected
      /\ Lost = {} => api.pending = RunningCall /\ api.pairs = OwnPairs
  BY DEF Paired, ComputeSpans, ComputeToolSpans
<1>q. ASSUME /\ spans1.pending = Unanswered' /\ spans1.pairs = OwnPairs'
             /\ tools1.pending \subseteq Unanswered' /\ RunningCall' \subseteq tools1.pending
             /\ tools1.pairs = OwnPairs'
             /\ RunningCall' \subseteq api1.pending /\ api1.pending \subseteq Called(events')
             /\ \A p \in api1.pairs : p[1] \in Called(events') /\ events'[p[1]].tool = events'[p[2]].tool
             /\ {p[2] : p \in api1.pairs} = Expected'
             /\ Lost' = {} => api1.pending = RunningCall' /\ api1.pairs = OwnPairs'
      PROVE  Paired'
  BY <1>q DEF Paired, ComputeSpans, ComputeToolSpans
<1>u. Unanswered \subseteq Called(events)
  BY DEF Unanswered
<1>i. \A p \in api.pairs : p[1] \in DOMAIN events /\ p[2] \in DOMAIN events
  <2>1. api \in Pairings(events)
    <3>1. PICK e \in Event : TRUE
      <4>1. "error" \in EventTypes
        BY DEF EventTypes, KnownTypes
      <4> QED BY <4>1, MsgIs
    <3>2. Pairs1(events, e, api, Pair(Append(events, e), FALSE, FALSE), FALSE, FALSE)
      <4>1. events \in Seq(Event)
        BY DEF Typed, LogTypeOK
      <4> QED BY <4>1, PairAppend, Zenon
    <3> QED BY <3>2 DEF Pairs1
  <2> QED BY <2>1 DEF Pairings
<1>1. ASSUME NEW c \in Event, LogsCall(c) PROVE Paired'
  <2>1. /\ Called(events') = Called(events) \cup {n} /\ Results(events') = Results(events)
        /\ n \notin Called(events) /\ n \in Nat /\ events'[n] = c
        /\ \A i \in Called(events) \cup Results(events) : events'[i] = events[i]
        /\ RunningCall = {} /\ RunningCall' = {n}
        /\ OwnPairs' = OwnPairs /\ Expected' = Expected
        /\ Unanswered' = Unanswered \cup {n} /\ Lost' = Lost /\ Lost = Unanswered
    BY <1>1, CallFacts
  <2>g. /\ events \in Seq(Event) /\ events' = Append(events, c) /\ c.type = "tool.called"
        /\ \A i \in DOMAIN events : events'[i] = events[i]
    BY <1>1, EffectGrows, Growth DEF Grows, LogsCall
  <2>h. /\ Pairs1(events, c, spans, spans1, FALSE, TRUE) /\ Pairs1(events, c, tools, tools1, TRUE, TRUE)
        /\ Pairs1(events, c, api, api1, FALSE, FALSE)
    BY <1>1, EffectGrows, PairsGrown
  <2> HIDE DEF spans, spans1, api, api1, tools, tools1
  <2>2. spans1.pending = spans.pending \cup {n} /\ spans1.pairs = spans.pairs
    BY <2>g, <2>h DEF Pairs1
  <2>3. api1.pending = api.pending \cup {n} /\ api1.pairs = api.pairs
    BY <2>g, <2>h DEF Pairs1
  <2>4. PICK calls : tools1.pending = (tools.pending \ calls) \cup {n} /\ tools1.pairs = tools.pairs
    BY <2>g, <2>h DEF Pairs1
  <2> HIDE DEF n
  <2>5. \A p \in api1.pairs : p[1] \in Called(events') /\ events'[p[1]].tool = events'[p[2]].tool
    BY <1>p, <1>i, <2>1, <2>3, <2>g
  <2>6. spans1.pending = Unanswered' /\ spans1.pairs = OwnPairs'
    BY <1>p, <2>1, <2>2
  <2>7. tools1.pending \subseteq Unanswered' /\ RunningCall' \subseteq tools1.pending /\ tools1.pairs = OwnPairs'
    BY <1>p, <2>1, <2>4
  <2>8. /\ RunningCall' \subseteq api1.pending /\ api1.pending \subseteq Called(events')
        /\ {p[2] : p \in api1.pairs} = Expected'
    BY <1>p, <2>1, <2>3
  <2>9. Lost' = {} => api1.pending = RunningCall' /\ api1.pairs = OwnPairs'
    BY <1>p, <2>1, <2>3
  <2> QED BY <1>q, <2>5, <2>6, <2>7, <2>8, <2>9
<1>2. CASE LogsResult
  <2> DEFINE r == Head(outbound)
  <2>1. /\ Results(events') = Results(events) \cup {n} /\ Called(events') = Called(events)
        /\ n \notin Results(events) /\ n \in Nat /\ events'[n] = r
        /\ \A i \in Called(events) \cup Results(events) : events'[i] = events[i] /\ i < n
        /\ RunningCall' = {} /\ RunningCall \subseteq Unanswered
        /\ OwnPairs' = OwnPairs \cup {p \in Called(events) \X {n} : p[1] \in RunningCall}
        /\ Expected' = Expected \cup {j \in {n} : RunningCall # {}}
        /\ Unanswered' = Unanswered \ RunningCall /\ Lost' = Lost /\ Lost = Unanswered \ RunningCall
        /\ RunningCall = {} => Called(events) = {}
        /\ \A i \in RunningCall : /\ i \in Called(events) /\ RunningCall = {i}
                                  /\ events[i].tool = r.tool
                                  /\ \A k \in Called(events) : k <= i
    BY <1>2, ResultFacts
  <2>g. /\ events \in Seq(Event) /\ events' = Append(events, r) /\ r.type = "tool.result" /\ r \in Event
        /\ \A i \in DOMAIN events : events'[i] = events[i]
    BY <1>2, EffectGrows, Growth DEF Grows, LogsResult
  <2>h. /\ Pairs1(events, r, spans, spans1, FALSE, TRUE) /\ Pairs1(events, r, tools, tools1, TRUE, TRUE)
        /\ Pairs1(events, r, api, api1, FALSE, FALSE)
    BY <1>2, EffectGrows, PairsGrown
  <2> HIDE DEF r, spans, spans1, api, api1, tools, tools1
  <2>2. CASE RunningCall = {}
    <3>1. spans.pending = {} /\ tools.pending = {} /\ api.pending = {}
      BY <1>p, <1>u, <2>1, <2>2
    <3>2. spans1 = spans
      BY <2>g, <2>h, <3>1 DEF Pairs1
    <3>3. tools1 = tools
      BY <2>g, <2>h, <3>1 DEF Pairs1
    <3>4. api1 = api
      BY <2>g, <2>h, <3>1 DEF Pairs1
    <3> HIDE DEF spans, spans1, api, api1, tools, tools1, n
    <3>5. OwnPairs' = OwnPairs /\ Expected' = Expected /\ Unanswered' = Unanswered
      BY <2>1, <2>2
    <3>6. \A p \in api1.pairs : p[1] \in Called(events') /\ events'[p[1]].tool = events'[p[2]].tool
      BY <1>p, <1>i, <2>1, <2>g, <3>4
    <3> QED BY <1>p, <1>q, <2>1, <2>2, <3>2, <3>3, <3>4, <3>5, <3>6
  <2>3. CASE RunningCall # {}
    <3>1. PICK i \in RunningCall : /\ i \in Called(events) /\ RunningCall = {i}
                                   /\ events[i].tool = r.tool
                                   /\ \A k \in Called(events) : k <= i
      BY <2>1, <2>3
    <3>0. \A k \in Called(events) : k \in Nat
      BY DEF Called, Indices, Typed, LogTypeOK
    <3>2. OwnPairs' = OwnPairs \cup {<<i, n>>} /\ Expected' = Expected \cup {n}
          /\ Unanswered' = Unanswered \ {i} /\ Lost' = Unanswered \ {i} /\ RunningCall' = {}
      <4> HIDE DEF n
      <4>1. {p \in Called(events) \X {n} : p[1] \in RunningCall} = {<<i, n>>}
        BY <3>1
      <4> QED BY <2>1, <2>3, <3>1, <4>1
    <3>3. spans1.pending = Unanswered' /\ spans1.pairs = OwnPairs'
      <4> DEFINE calls == {j \in spans.pending : events[j].tool = r.tool}
      <4>1. i \in calls /\ \A j \in calls : j <= i /\ j \in Nat
        BY <1>p, <1>u, <2>1, <3>0, <3>1
      <4>2. PICK own \in calls : /\ \A j \in calls : j <= own
                                 /\ spans1.pending = spans.pending \ {own}
                                 /\ spans1.pairs = spans.pairs \cup {<<own, n>>}
        <5>1. calls # {}
          BY <4>1
        <5> QED BY <2>g, <2>h, <5>1 DEF Pairs1
      <4> HIDE DEF calls, spans, spans1, n
      <4>3. own = i
        BY <4>1, <4>2
      <4> QED BY <1>p, <3>2, <4>2, <4>3
    <3>4. tools1.pending \subseteq Unanswered' /\ RunningCall' \subseteq tools1.pending /\ tools1.pairs = OwnPairs'
      <4> DEFINE calls == {j \in tools.pending : events[j].tool = r.tool}
      <4>1. i \in calls /\ \A j \in calls : j <= i /\ j \in Nat
        BY <1>p, <1>u, <2>1, <3>0, <3>1
      <4>2. PICK own \in calls : /\ \A j \in calls : j <= own
                                 /\ tools1.pending = tools.pending \ {own}
                                 /\ tools1.pairs = tools.pairs \cup {<<own, n>>}
        <5>1. calls # {}
          BY <4>1
        <5> QED BY <2>g, <2>h, <5>1 DEF Pairs1
      <4> HIDE DEF calls, tools, tools1, n
      <4>3. own = i
        BY <4>1, <4>2
      <4> QED BY <1>p, <3>2, <4>2, <4>3
    <3>5. PICK own : /\ own \in Called(events) /\ own \in api.pending /\ events[own].tool = r.tool
                     /\ api1.pending = api.pending \ {own}
                     /\ api1.pairs = api.pairs \cup {<<own, n>>}
      <4> DEFINE calls == {j \in api.pending : events[j].tool = r.tool}
      <4>1. calls # {}
        BY <1>p, <3>1
      <4>2. PICK own \in calls : /\ api1.pending = api.pending \ {own}
                                 /\ api1.pairs = api.pairs \cup {<<own, n>>}
        BY <2>g, <2>h, <4>1 DEF Pairs1
      <4> QED BY <1>p, <4>2
    <3> HIDE DEF spans, spans1, api, api1, tools, tools1, n
    <3>6. \A p \in api1.pairs : p[1] \in Called(events') /\ events'[p[1]].tool = events'[p[2]].tool
      <4> SUFFICES ASSUME NEW p \in api1.pairs
                   PROVE  p[1] \in Called(events') /\ events'[p[1]].tool = events'[p[2]].tool
        OBVIOUS
      <4>1. CASE p \in api.pairs
        BY <1>p, <1>i, <2>1, <2>g, <4>1
      <4>2. CASE p = <<own, n>>
        BY <2>1, <3>5, <4>2
      <4> QED BY <3>5, <4>1, <4>2
    <3>7. {p[2] : p \in api1.pairs} = Expected'
      <4>1. {p[2] : p \in api1.pairs} = {p[2] : p \in api.pairs} \cup {n}
        <5>1. ASSUME NEW t, api1.pairs = api.pairs \cup {t}
              PROVE  {p[2] : p \in api1.pairs} = {p[2] : p \in api.pairs} \cup {t[2]}
          BY <5>1
        <5>2. <<own, n>>[2] = n
          OBVIOUS
        <5> QED BY <3>5, <5>1, <5>2
      <4> QED BY <1>p, <3>2, <4>1
    <3>8. Lost' = {} => api1.pending = RunningCall' /\ api1.pairs = OwnPairs'
      <4> SUFFICES ASSUME Lost' = {} PROVE api1.pending = RunningCall' /\ api1.pairs = OwnPairs'
        OBVIOUS
      <4>1. api.pending = RunningCall /\ api.pairs = OwnPairs
        BY <1>p, <2>1
      <4>2. own = i
        BY <3>1, <3>5, <4>1
      <4> QED BY <3>1, <3>2, <3>5, <4>1, <4>2
    <3>9. RunningCall' \subseteq api1.pending /\ api1.pending \subseteq Called(events')
      BY <1>p, <2>1, <3>2, <3>5
    <3> QED BY <1>q, <3>3, <3>4, <3>6, <3>7, <3>8, <3>9
  <2> QED BY <2>2, <2>3
<1>3. ASSUME NEW e \in Event, LogsOther(e) PROVE Paired'
  <2>1. Grows(e) /\ e.type \notin {"tool.called", "tool.result"} /\ SameRun
    BY <1>3, EffectGrows DEF LogsOther
  <2>h. /\ Pairs1(events, e, spans, spans1, FALSE, TRUE) /\ Pairs1(events, e, tools, tools1, TRUE, TRUE)
        /\ Pairs1(events, e, api, api1, FALSE, FALSE)
    BY <2>1, PairsGrown
  <2> HIDE DEF spans, spans1, api, api1, tools, tools1
  <2>2. spans1 = spans
    BY <2>1, <2>h DEF Pairs1
  <2>3. tools1 = tools
    BY <2>1, <2>h DEF Pairs1
  <2>4. api1 = api
    BY <2>1, <2>h DEF Pairs1
  <2>5. \A i \in DOMAIN events : events'[i] = events[i]
    BY <2>1, Growth
  <2>6. /\ Called(events') = Called(events)
        /\ RunningCall' = RunningCall /\ OwnPairs' = OwnPairs /\ Expected' = Expected
        /\ Unanswered' = Unanswered /\ Lost' = Lost
    BY <2>1, OtherFacts
  <2> HIDE DEF spans, spans1, api, api1, tools, tools1
  <2>7. \A p \in api1.pairs : p[1] \in Called(events') /\ events'[p[1]].tool = events'[p[2]].tool
    BY <1>p, <1>i, <2>4, <2>5, <2>6
  <2> QED BY <1>p, <1>q, <2>2, <2>3, <2>4, <2>6, <2>7
<1>4. CASE Empties
  <2>1. events' = <<>>
    BY <1>4 DEF Empties
  <2>2. /\ spans1.pending = {} /\ spans1.pairs = {} /\ tools1.pending = {} /\ tools1.pairs = {}
        /\ api1.pending = {} /\ api1.pairs = {}
    <3>1. \A replaces, last : Pair(events', replaces, last) = [pending |-> {}, pairs |-> {}]
      BY <2>1, EmptyLog
    <3>2. spans1 = [pending |-> {}, pairs |-> {}]
      BY <3>1, Zenon
    <3>3. tools1 = [pending |-> {}, pairs |-> {}]
      BY <3>1, Zenon
    <3>4. api1 = [pending |-> {}, pairs |-> {}]
      BY <3>1, Zenon
    <3> HIDE DEF spans1, api1, tools1
    <3> QED BY <3>2, <3>3, <3>4
  <2> HIDE DEF spans1, api1, tools1
  <2> QED BY <1>4, <1>q, <2>2, EmptyFacts
<1>5. CASE Leaves
  <2>1. events' = events
    BY <1>5 DEF Leaves
  <2>2. spans1 = spans /\ tools1 = tools /\ api1 = api
    BY <2>1
  <2>3. /\ RunningCall' = RunningCall \/ RunningCall' = {}
        /\ OwnPairs' = OwnPairs /\ Expected' = Expected /\ Unanswered' = Unanswered
        /\ Lost = Unanswered \ RunningCall /\ Lost' = Unanswered \ RunningCall'
    BY <1>5, LeaveFacts
  <2> HIDE DEF spans, spans1, api, api1, tools, tools1
  <2>4. Lost' = {} => Lost = {} /\ RunningCall = RunningCall'
    BY <1>p, <2>3
  <2> QED BY <1>p, <1>q, <2>1, <2>2, <2>3, <2>4
<1> QED BY <1>1, <1>2, <1>3, <1>4, <1>5 DEF Effect

(***************************************************************************)
(* Tokens, their cost, and the claim on show.                              *)
(***************************************************************************)
Sum2(u, v) == <<u[1] + v[1], u[2] + v[2]>>

\* The cost of a sum is the sum of the costs.
LEMMA CostAdds ==
    ASSUME NEW u \in Nat \X Nat, NEW v \in Nat \X Nat, NEW model
    PROVE  /\ EstimateCost(Sum2(u, v), model) = EstimateCost(u, model) + EstimateCost(v, model)
           /\ EstimateCost(u, model) \in Nat /\ EstimateCost(<<0, 0>>, model) = 0
<1>1. u[1] \in Nat /\ u[2] \in Nat /\ v[1] \in Nat /\ v[2] \in Nat
  OBVIOUS
<1>2. Sum2(u, v)[1] = u[1] + v[1] /\ Sum2(u, v)[2] = u[2] + v[2]
  BY DEF Sum2
<1>3. EstimateCost(u, model) \in Nat
  BY CostTyped
<1>4. CASE Pricing(model) = <<30, 120>>
  BY <1>1, <1>2, <1>3, <1>4 DEF EstimateCost
<1>5. CASE Pricing(model) = <<40, 160>>
  BY <1>1, <1>2, <1>3, <1>5 DEF EstimateCost
<1>6. CASE Pricing(model) = <<50, 200>>
  BY <1>1, <1>2, <1>3, <1>6 DEF EstimateCost
<1> QED BY <1>4, <1>5, <1>6 DEF Pricing

\* More tokens cost no less.
LEMMA CostGrows ==
    ASSUME NEW u \in Nat \X Nat, NEW v \in Nat \X Nat, u[1] >= v[1], u[2] >= v[2], NEW model
    PROVE  EstimateCost(u, model) >= EstimateCost(v, model)
<1>1. u[1] \in Nat /\ u[2] \in Nat /\ v[1] \in Nat /\ v[2] \in Nat
  OBVIOUS
<1>4. CASE Pricing(model) = <<30, 120>>
  BY <1>1, <1>4 DEF EstimateCost
<1>5. CASE Pricing(model) = <<40, 160>>
  BY <1>1, <1>5 DEF EstimateCost
<1>6. CASE Pricing(model) = <<50, 200>>
  BY <1>1, <1>6 DEF EstimateCost
<1> QED BY <1>4, <1>5, <1>6 DEF Pricing

\* The rows and what they say of a token count.
AddsUp(points, usage, all) ==
  /\ points \in Seq(TokenPoint)
  /\ usage[1] >= TotalUsage(points)[1] /\ usage[2] >= TotalUsage(points)[2]
  /\ all => usage = TotalUsage(points)
  /\ \A model \in Models : CostColumn(points, model) = EstimateCost(TotalUsage(points), model)

\* Added is AddsUp of the log.
LEMMA AddedIs == Added <=> AddsUp(BuildTokenPoints(events), tokenUsage, ~cleared)
<1>1. 1 .. 2 = {1, 2}
  OBVIOUS
<1> QED BY <1>1 DEF Added, AddsUp

\* An event adds the same to the count and to the rows.
LEMMA AddsUpStep ==
    ASSUME NEW points, NEW usage \in Nat \X Nat, NEW all, AddsUp(points, usage, all), NEW e \in Event
    PROVE  AddsUp(AddPoint(points, e), IF HasUsage(e) THEN AddUsage(usage, e) ELSE usage, all)
<1>0. points \in Seq(TokenPoint)
  BY DEF AddsUp
<1>1. CASE ~HasUsage(e)
  <2>1. AddPoint(points, e) = points
    BY <1>0, <1>1, AddPointTyped
  <2> QED BY <1>1, <2>1
<1>2. CASE HasUsage(e)
  <2> DEFINE total == TotalUsage(points)
             points1 == AddPoint(points, e)
  <2>1. total \in Nat \X Nat /\ points1 \in Seq(TokenPoint) /\ e.usage \in Nat \X Nat
    BY <1>0, AddPointTyped DEF Event
  <2>2. PICK p \in TokenPoint : /\ points1 = Append(points, p) /\ p.own = e.usage
                                /\ TotalUsage(points1) = <<total[1] + e.usage[1], total[2] + e.usage[2]>>
    BY <1>0, <1>2, AddPointTyped
  <2>3. TotalUsage(points1) = Sum2(total, e.usage) /\ AddUsage(usage, e) = Sum2(usage, e.usage)
    BY <2>2 DEF Sum2, AddUsage
  <2>4. /\ usage[1] >= total[1] /\ usage[2] >= total[2] /\ (all => usage = total)
        /\ \A model \in Models : CostColumn(points, model) = EstimateCost(total, model)
    BY DEF AddsUp
  <2>5. \A model \in Models : CostColumn(points1, model) = CostColumn(points, model) + EstimateCost(e.usage, model)
    BY <1>0, <2>2, CostAppend
  <2> HIDE DEF total, points1
  <2>6. \A model \in Models : CostColumn(points1, model) = EstimateCost(TotalUsage(points1), model)
    BY <2>1, <2>3, <2>4, <2>5, CostAdds
  <2>7. Sum2(usage, e.usage)[1] >= Sum2(total, e.usage)[1] /\ Sum2(usage, e.usage)[2] >= Sum2(total, e.usage)[2]
    BY <2>1, <2>4 DEF Sum2
  <2>8. AddsUp(points1, AddUsage(usage, e), all)
    BY <2>1, <2>3, <2>4, <2>6, <2>7 DEF AddsUp
  <2> QED BY <1>2, <2>8 DEF points1
<1> QED BY <1>1, <1>2

\* Added is kept.
LEMMA AddedStep == ASSUME Typed, Added, Effect PROVE Added'
<1>0. tokenUsage \in Nat \X Nat /\ AddsUp(BuildTokenPoints(events), tokenUsage, ~cleared)
  BY AddedIs DEF Typed, LogTypeOK
<1>a. Added' <=> AddsUp(BuildTokenPoints(events'), tokenUsage', ~cleared')
  <2>1. 1 .. 2 = {1, 2}
    OBVIOUS
  <2> QED BY <2>1 DEF Added, AddsUp
<1>1. ASSUME NEW e, Grows(e), cleared' = cleared,
             tokenUsage' = IF HasUsage(e) THEN AddUsage(tokenUsage, e) ELSE tokenUsage
      PROVE  Added'
  <2>1. BuildTokenPoints(events') = AddPoint(BuildTokenPoints(events), e)
    BY <1>1, PointsAppend DEF Grows
  <2>2. e \in Event
    BY <1>1 DEF Grows
  <2>3. AddsUp(BuildTokenPoints(events'), tokenUsage', ~cleared)
    BY <1>0, <1>1, <2>1, <2>2, AddsUpStep
  <2> QED BY <1>1, <1>a, <2>3
<1>2. ASSUME NEW c \in Event, LogsCall(c) PROVE Added'
  <2>1. Grows(c) /\ ~HasUsage(c) /\ tokenUsage' = tokenUsage /\ cleared' = cleared
    BY <1>2, EffectGrows DEF LogsCall, HasUsage
  <2> QED BY <1>1, <2>1
<1>3. CASE LogsResult
  <2>1. /\ Grows(Head(outbound)) /\ ~HasUsage(Head(outbound)) /\ tokenUsage' = tokenUsage
        /\ cleared' = cleared
    BY <1>3, EffectGrows DEF LogsResult, HasUsage
  <2> QED BY <1>1, <2>1
<1>4. ASSUME NEW e \in Event, LogsOther(e) PROVE Added'
  BY <1>1, <1>4, EffectGrows DEF LogsOther
<1>5. CASE Empties
  <2>1. BuildTokenPoints(events') = <<>> /\ \A model : CostColumn(<<>>, model) = 0
    BY <1>5, EmptyLog DEF Empties
  <2>2. TotalUsage(<<>>) = <<0, 0>>
    BY DEF TotalUsage
  <2>3. \A model : EstimateCost(<<0, 0>>, model) = 0
    BY <1>0, CostAdds
  <2>4. tokenUsage' \in Nat \X Nat /\ (~cleared' => tokenUsage' = <<0, 0>>)
    BY <1>0, <1>5 DEF Empties
  <2>5. tokenUsage'[1] >= 0 /\ tokenUsage'[2] >= 0 /\ <<0, 0>>[1] = 0 /\ <<0, 0>>[2] = 0
    BY <2>4
  <2>6. AddsUp(<<>>, tokenUsage', ~cleared')
    BY <2>1, <2>2, <2>3, <2>4, <2>5 DEF AddsUp
  <2> QED BY <1>a, <2>1, <2>6
<1>6. CASE Leaves
  BY <1>0, <1>6, <1>a DEF Leaves
<1> QED BY <1>2, <1>3, <1>4, <1>5, <1>6 DEF Effect

\* Claimed is kept: a submission has a number no submission before it had.
LEMMA ClaimedStep == ASSUME Typed, Typed', Numbered, Current, Claimed, Effect PROVE Claimed'
<1>1. ASSUME NEW c \in Event, LogsCall(c) PROVE Claimed'
  BY <1>1, EffectGrows, Grown DEF LogsCall, Claimed
<1>2. CASE LogsResult
  <2> DEFINE n == Len(events) + 1
             r == Head(outbound)
  <2>1. /\ Results(events') = Results(events) \cup {n} /\ events'[n] = r
        /\ \A j \in Results(events) : events'[j] = events[j]
    BY <1>2, EffectGrows, Grown
  <2>2. /\ r.serial \in Nat
        /\ \A j \in Results(events) : events[j].serial \in Nat /\ events[j].serial < r.serial
    BY <1>2 DEF LogsResult, Typed, Sending, Current, Numbered
  <2>3. claimResult' = IF r.result = "submitted" THEN r.serial ELSE claimResult
    BY <1>2 DEF LogsResult
  <2> HIDE DEF n, r
  <2>4. CASE r.result = "submitted"
    BY <2>1, <2>2, <2>3, <2>4 DEF Claimed
  <2>5. CASE r.result # "submitted"
    BY <2>1, <2>3, <2>5 DEF Claimed
  <2> QED BY <2>4, <2>5
<1>3. ASSUME NEW e \in Event, LogsOther(e) PROVE Claimed'
  BY <1>3, EffectGrows, Grown DEF LogsOther, Claimed
<1>4. CASE Empties
  BY <1>4, EmptyFacts DEF Claimed
<1>5. CASE Leaves
  BY <1>5 DEF Leaves, Claimed
<1> QED BY <1>1, <1>2, <1>3, <1>4, <1>5 DEF Effect

(***************************************************************************)
(* The fields of the claim.                                                *)
(***************************************************************************)
LEMMA UpdateFacts ==
    ASSUME NEW a \in CollectedData, NEW e \in Event
    PROVE  /\ e.question \in DOMAIN Words =>
                \A q \in DOMAIN Words :
                  AnswerField(a, e).fields[q] =
                    IF q = e.question THEN [status |-> "answered", value |-> e.value] ELSE a.fields[q]
           /\ AnswerField(a, e).location =
                IF Words[e.question] \cap LocationWords # {} THEN e.value ELSE a.location
           /\ AskFields(a, e).location = a.location
           /\ \A q \in DOMAIN Words :
                AskFields(a, e).fields[q] =
                  IF q \in e.asked \ Fields(a) THEN [status |-> "asked", value |-> Nothing] ELSE a.fields[q]
           /\ ValidateAnswered(a).location = a.location
           /\ \A q \in DOMAIN Words :
                /\ ValidateAnswered(a).fields[q].value = a.fields[q].value
                /\ ValidateAnswered(a).fields[q].status =
                     IF a.fields[q].status = "answered" THEN "validated" ELSE a.fields[q].status
           /\ [a EXCEPT !.claimType = e.value].location = a.location
           /\ [a EXCEPT !.claimType = e.value].fields = a.fields
<1>0. /\ a.fields \in [DOMAIN Words -> FieldState]
      /\ a = [claimType |-> a.claimType, location |-> a.location, fields |-> a.fields]
  BY DEF CollectedData
<1>1. /\ e.question \in DOMAIN Words =>
           \A q \in DOMAIN Words :
             AnswerField(a, e).fields[q] =
               IF q = e.question THEN [status |-> "answered", value |-> e.value] ELSE a.fields[q]
      /\ AnswerField(a, e).location =
           IF Words[e.question] \cap LocationWords # {} THEN e.value ELSE a.location
  <2> DEFINE fs == [a.fields EXCEPT ![e.question] = [status |-> "answered", value |-> e.value]]
             at == IF Words[e.question] \cap LocationWords # {} THEN e.value ELSE a.location
  <2>1. AnswerField(a, e) = [claimType |-> a.claimType, location |-> at, fields |-> fs]
    <3>1. AnswerField(a, e) = [[a EXCEPT !.fields = fs] EXCEPT !.location = at]
      BY DEF AnswerField
    <3> HIDE DEF fs, at
    <3> QED BY <3>1 DEF CollectedData
  <2>2. e.question \in DOMAIN Words =>
          \A q \in DOMAIN Words :
            fs[q] = IF q = e.question THEN [status |-> "answered", value |-> e.value] ELSE a.fields[q]
    BY <1>0
  <2>3. AnswerField(a, e).fields = fs /\ AnswerField(a, e).location = at
    <3> HIDE DEF fs, at
    <3> QED BY <2>1
  <2> HIDE DEF fs
  <2> QED BY <2>2, <2>3
<1>2. /\ AskFields(a, e).location = a.location
      /\ \A q \in DOMAIN Words :
           AskFields(a, e).fields[q] =
             IF q \in e.asked \ Fields(a) THEN [status |-> "asked", value |-> Nothing] ELSE a.fields[q]
  BY <1>0 DEF AskFields
<1>3. /\ ValidateAnswered(a).location = a.location
      /\ \A q \in DOMAIN Words :
           /\ ValidateAnswered(a).fields[q].value = a.fields[q].value
           /\ ValidateAnswered(a).fields[q].status =
                IF a.fields[q].status = "answered" THEN "validated" ELSE a.fields[q].status
  <2>1. \A x \in FieldState : /\ Submitted(x).value = x.value
                              /\ Submitted(x).status = IF x.status = "answered" THEN "validated" ELSE x.status
    BY DEF FieldState, Submitted
  <2>2. \A q \in DOMAIN Words : ValidateAnswered(a).fields[q] = Submitted(a.fields[q]) /\ a.fields[q] \in FieldState
    BY <1>0 DEF ValidateAnswered
  <2>3. ValidateAnswered(a).location = a.location
    BY <1>0 DEF ValidateAnswered
  <2> QED BY <2>1, <2>2, <2>3
<1>4. [a EXCEPT !.claimType = e.value].location = a.location /\ [a EXCEPT !.claimType = e.value].fields = a.fields
  BY <1>0
<1> QED BY <1>1, <1>2, <1>3, <1>4

\* What a valid result makes of the fields.
LEMMA ValidateFacts ==
    ASSUME NEW a \in CollectedData, NEW q0
    PROVE  /\ ValidateField(a, q0).location = a.location
           /\ \A q \in DOMAIN Words :
                /\ ValidateField(a, q0).fields[q].value = a.fields[q].value
                /\ ValidateField(a, q0).fields[q].status =
                     IF q = q0 /\ q \in Fields(a) THEN "validated" ELSE a.fields[q].status
<1>0. /\ a.fields \in [DOMAIN Words -> FieldState]
      /\ a = [claimType |-> a.claimType, location |-> a.location, fields |-> a.fields]
  BY DEF CollectedData
<1>1. CASE q0 \notin Fields(a)
  BY <1>1 DEF ValidateField
<1>2. CASE q0 \in Fields(a)
  <2> DEFINE fs == [a.fields EXCEPT ![q0] = [status |-> "validated", value |-> a.fields[q0].value]]
  <2>1. q0 \in DOMAIN Words /\ a.fields[q0] \in FieldState
    BY <1>0, <1>2 DEF Fields
  <2>2. [a.fields[q0] EXCEPT !.status = "validated"] = [status |-> "validated", value |-> a.fields[q0].value]
    BY <2>1 DEF FieldState
  <2>3. ValidateField(a, q0) = [claimType |-> a.claimType, location |-> a.location, fields |-> fs]
    BY <1>0, <1>2, <2>2 DEF ValidateField
  <2>4. \A q \in DOMAIN Words : fs[q] = IF q = q0 THEN [status |-> "validated", value |-> a.fields[q0].value]
                                        ELSE a.fields[q]
    BY <1>0
  <2>5. ValidateField(a, q0).location = a.location /\ ValidateField(a, q0).fields = fs
    <3> HIDE DEF fs
    <3> QED BY <2>3
  <2> HIDE DEF fs
  <2> QED BY <1>2, <2>4, <2>5
<1> QED BY <1>1, <1>2

\* The fields of the log after an event, from those before.
LEMMA DataGrown ==
    ASSUME NEW e, Grows(e)
    PROVE  LET data == ExtractCollectedData(events)
           IN  /\ data \in CollectedData /\ ExtractCollectedData(events') \in CollectedData
               /\ ExtractCollectedData(events') = ReadEvent(events', data, Len(events) + 1)
<1>1. events \in Seq(Event) /\ e \in Event /\ events' = Append(events, e) /\ events' \in Seq(Event)
  BY LogAppend DEF Grows
<1>2. /\ ExtractCollectedData(events) \in CollectedData
      /\ ExtractCollectedData(events') = ReadEvent(events', ExtractCollectedData(events), Len(events) + 1)
  BY <1>1, DataAppend
<1>3. ExtractCollectedData(events') \in CollectedData
  BY <1>1, DataAppend
<1> QED BY <1>2, <1>3

\* A nonempty set of replies has a latest one.
LEMMA LatestIs ==
    ASSUME NEW es \in Seq(Event), NEW q, Replies(es, q) # {}
    PROVE  \E i \in Replies(es, q) : Latest(es, q) = {i}
<1>1. Replies(es, q) \in SUBSET (0 .. Len(es)) /\ Len(es) \in Nat
  BY DEF Replies, Called, Indices
<1>2. PICK i \in Replies(es, q) : \A k \in Replies(es, q) : k <= i
  BY <1>1, MaxIs
<1>3. \A k \in Replies(es, q) : k \in Int
  BY <1>1
<1>4. Latest(es, q) = {i}
  BY <1>2, <1>3 DEF Latest
<1> QED BY <1>4

\* A call accepts no answer.
LEMMA AcceptedCall ==
    ASSUME Typed, Typed', Numbered, Current, NEW c \in Event, LogsCall(c)
    PROVE  Accepted' = Accepted
<1> DEFINE n == Len(events) + 1
<1>1. /\ Called(events') = Called(events) \cup {n} /\ Results(events') = Results(events)
      /\ n \notin Called(events) /\ n \in Nat /\ events'[n] = c
      /\ \A i \in Called(events) \cup Results(events) : events'[i] = events[i]
      /\ \A j \in Results(events) : events[j].serial # c.serial
  BY CallFacts
<1>2. \A j \in Results(events) : ~(j > n)
  BY EffectGrows, Grown DEF LogsCall
<1> HIDE DEF n
<1>3. \A i \in Called(events) :
        {j \in Results(events') : events'[i].serial = events'[j].serial} = ResultFor(i)
  BY <1>1 DEF ResultFor, Own
<1>4. {j \in Results(events') : events'[n].serial = events'[j].serial} = {}
  BY <1>1
<1>5. Accepted' = {i \in Called(events') :
        \/ \E j \in {k \in Results(events') : events'[i].serial = events'[k].serial} : events'[j].result = "valid"
        \/ \E j \in Results(events') : j > i /\ events'[j].tool = "submit_claim_data"}
  BY DEF Accepted, ResultFor, Own
<1>6. \A i \in Called(events) : ResultFor(i) \subseteq Results(events)
  BY DEF ResultFor
<1> QED BY <1>1, <1>2, <1>3, <1>4, <1>5, <1>6 DEF Accepted

\* A valid result accepts the answer that runs, a submission every answer.
LEMMA AcceptedResult ==
    ASSUME Typed, Typed', Numbered, Current, LogsResult
    PROVE  \A i \in Called(events) :
             i \in Accepted' <=> \/ i \in Accepted
                                 \/ i \in RunningCall /\ Head(outbound).result = "valid"
                                 \/ Head(outbound).tool = "submit_claim_data"
<1> DEFINE n == Len(events) + 1
           r == Head(outbound)
<1>1. /\ Results(events') = Results(events) \cup {n} /\ Called(events') = Called(events)
      /\ n \in Nat /\ events'[n] = r
      /\ \A i \in Called(events) \cup Results(events) : events'[i] = events[i] /\ i < n
      /\ \A i \in Called(events) : events[i].serial = r.serial <=> i \in RunningCall
  BY ResultFacts
<1>2. \A i \in Called(events) : n > i
  BY Grown, EffectGrows
<1> HIDE DEF n, r
<1>3. \A i \in Called(events) :
        {j \in Results(events') : events'[i].serial = events'[j].serial}
          = ResultFor(i) \cup {j \in {n} : i \in RunningCall}
  BY <1>1 DEF ResultFor, Own
<1>5. Accepted' = {i \in Called(events') :
        \/ \E j \in {k \in Results(events') : events'[i].serial = events'[k].serial} : events'[j].result = "valid"
        \/ \E j \in Results(events') : j > i /\ events'[j].tool = "submit_claim_data"}
  BY DEF Accepted, ResultFor, Own
<1>6. \A i \in Called(events) : ResultFor(i) \subseteq Results(events)
  BY DEF ResultFor
<1>7. \A i \in Called(events) :
        (\E j \in {k \in Results(events') : events'[i].serial = events'[k].serial} : events'[j].result = "valid")
          <=> (\E j \in ResultFor(i) : events[j].result = "valid") \/ (i \in RunningCall /\ r.result = "valid")
  BY <1>1, <1>3, <1>6
<1>8. \A i \in Called(events) :
        (\E j \in Results(events') : j > i /\ events'[j].tool = "submit_claim_data")
          <=> (\E j \in Results(events) : j > i /\ events[j].tool = "submit_claim_data")
                \/ r.tool = "submit_claim_data"
  BY <1>1, <1>2
<1>9. \A i \in Called(events) :
        i \in Accepted' <=> \/ i \in Accepted
                            \/ i \in RunningCall /\ r.result = "valid"
                            \/ r.tool = "submit_claim_data"
  BY <1>1, <1>5, <1>7, <1>8 DEF Accepted
<1> QED BY <1>9 DEF r

\* The fields and the place stay, and so do the answers and which were accepted.
Alike(data, data1, es, es1, accepted, accepted1) ==
  /\ data1 \in CollectedData /\ data1.location = data.location
  /\ \A q \in DOMAIN Words : data1.fields[q] = data.fields[q]
  /\ \A q \in Questions : Replies(es1, q) = Replies(es, q)
  /\ \A q \in Questions : \A i \in Replies(es, q) : i \in accepted1 <=> i \in accepted

\* A log with the same fields, answers and accepted answers is filled alike.
LEMMA FilledAlike ==
    ASSUME NEW data, NEW data1, NEW es, NEW es1, NEW answered, NEW accepted, NEW accepted1,
           FilledBy(data, es, answered, accepted), Alike(data, data1, es, es1, accepted, accepted1),
           answered \subseteq Questions
    PROVE  FilledBy(data1, es1, answered, accepted1)
<1>1. \A q \in answered : Latest(es1, q) = Latest(es, q) /\ Latest(es, q) \subseteq Replies(es, q)
  BY DEF Alike, Latest
<1>2. Questions \subseteq DOMAIN Words
  BY CallLogAssumption
<1>3. Fields(data1) = Fields(data)
  BY DEF Alike, Fields
<1> QED BY <1>1, <1>2, <1>3 DEF Alike, FilledBy

\* A call: a new answer is the last of its question and not accepted yet.
LEMMA FilledCall ==
    ASSUME Typed, Typed', Numbered, Current, Filled, NEW c \in Event, LogsCall(c)
    PROVE  Filled'
<1> DEFINE n == Len(events) + 1
           data == ExtractCollectedData(events)
           data1 == ExtractCollectedData(events')
<1>0. FilledBy(data, events, Answered, Accepted) /\ data \in CollectedData
  BY DEF Filled, FilledBy
<1>1. /\ Called(events') = Called(events) \cup {n} /\ n \notin Called(events) /\ n \in Nat /\ events'[n] = c
      /\ \A i \in Called(events) : events'[i] = events[i] /\ i < n /\ i \in Nat
      /\ c.type = "tool.called"
  BY EffectGrows, Grown DEF LogsCall
<1>2. data1 \in CollectedData /\ data1 = ReadEvent(events', data, n)
  BY EffectGrows, DataGrown
<1>3. Accepted' = Accepted /\ Accepted \subseteq Called(events)
  BY AcceptedCall DEF Accepted
<1>4. Questions \subseteq DOMAIN Words /\ Nothing \notin Questions
  BY CallLogAssumption
<1>5. Filled' <=> FilledBy(data1, events', Answered', Accepted')
  BY DEF Filled
<1> HIDE DEF data, data1, n
<1>6. CASE c.tool = "validate_answer"
  <2> DEFINE q0 == c.question
  <2>1. q0 \in Questions /\ q0 \in DOMAIN Words /\ c.value # Nothing
    BY <1>4, <1>6 DEF LogsCall
  <2>2. data1 = AnswerField(data, c)
    BY <1>1, <1>2, <1>6 DEF ReadEvent
  <2>3. /\ \A q \in DOMAIN Words :
             data1.fields[q] = IF q = q0 THEN [status |-> "answered", value |-> c.value] ELSE data.fields[q]
        /\ data1.location = IF Words[q0] \cap LocationWords # {} THEN c.value ELSE data.location
    BY <1>0, <2>1, <2>2, UpdateFacts
  <2>4. \A q \in Questions : Replies(events', q) = IF q = q0 THEN Replies(events, q) \cup {n} ELSE Replies(events, q)
    BY <1>1 DEF Replies
  <2> HIDE DEF q0
  <2>5. Answered' = Answered \cup {q0}
    <3>1. Answered' = {q \in Questions : Replies(events', q) # {}}
      BY DEF Answered
    <3> QED BY <2>1, <2>4, <3>1 DEF Answered
  <2>6. Latest(events', q0) = {n} /\ n \notin Accepted
    <3>1. n \in Latest(events', q0)
      BY <1>1, <2>1, <2>4 DEF Latest, Replies
    <3>2. \A i \in Latest(events', q0) : i = n
      BY <1>1, <2>1, <2>4 DEF Latest, Replies
    <3> QED BY <1>1, <1>3, <3>1, <3>2
  <2>7. \A q \in Questions \ {q0} : Latest(events', q) = Latest(events, q)
    BY <2>4 DEF Latest
  <2>8. Fields(data1) \subseteq Questions
    <3> SUFFICES ASSUME NEW q \in Fields(data1), q # q0 PROVE q \in Questions
      BY <2>1
    <3>1. q \in DOMAIN Words /\ data1.fields[q] = data.fields[q] /\ data1.fields[q].status # "none"
      BY <2>3 DEF Fields
    <3>2. q \in Fields(data)
      BY <3>1 DEF Fields
    <3> QED BY <1>0, <3>2 DEF FilledBy
  <2>9. \A q \in Answered \cup {q0} :
          /\ data1.fields[q].value # Nothing
          /\ \A i \in Latest(events', q) :
               data1.fields[q].status = IF i \in Accepted THEN "validated" ELSE "answered"
          /\ Words[q] \cap LocationWords # {} => data1.location # Nothing
    <3> SUFFICES ASSUME NEW q \in Answered \cup {q0}
                 PROVE  /\ data1.fields[q].value # Nothing
                        /\ \A i \in Latest(events', q) :
                             data1.fields[q].status = IF i \in Accepted THEN "validated" ELSE "answered"
                        /\ Words[q] \cap LocationWords # {} => data1.location # Nothing
      OBVIOUS
    <3>1. CASE q = q0
      <4>1. data1.fields[q] = [status |-> "answered", value |-> c.value]
        BY <2>1, <2>3, <3>1
      <4>2. Words[q] \cap LocationWords # {} => data1.location # Nothing
        BY <2>1, <2>3, <3>1
      <4> QED BY <2>1, <2>6, <3>1, <4>1, <4>2
    <3>2. CASE q # q0
      <4>1. q \in Answered /\ q \in Questions /\ q \in DOMAIN Words
        BY <1>4, <3>2 DEF Answered
      <4>2. data1.fields[q] = data.fields[q] /\ Latest(events', q) = Latest(events, q)
        BY <2>3, <2>7, <3>2, <4>1
      <4>3. data.location # Nothing => data1.location # Nothing
        BY <2>1, <2>3
      <4> QED BY <1>0, <4>1, <4>2, <4>3 DEF FilledBy
    <3> QED BY <3>1, <3>2
  <2>10. \A q \in Questions \ (Answered \cup {q0}) :
           data1.fields[q].status \in {"none", "asked"} /\ data1.fields[q].value = Nothing
    <3> SUFFICES ASSUME NEW q \in Questions \ (Answered \cup {q0})
                 PROVE  data1.fields[q].status \in {"none", "asked"} /\ data1.fields[q].value = Nothing
      OBVIOUS
    <3>1. data1.fields[q] = data.fields[q]
      BY <1>4, <2>3
    <3> QED BY <1>0, <3>1 DEF FilledBy
  <2> QED BY <1>2, <1>3, <1>5, <2>5, <2>8, <2>9, <2>10 DEF FilledBy
<1>7. CASE c.tool # "validate_answer"
  <2>1. c.question = Nothing
    BY <1>7 DEF LogsCall
  <2>3. data1.location = data.location /\ data1.fields = data.fields
    <3>1. CASE c.tool = "get_next_questions" /\ c.value # Nothing
      <4>1. PICK x : x = [data EXCEPT !.claimType = c.value]
        OBVIOUS
      <4>2. data1 = x
        BY <1>1, <1>2, <3>1, <4>1 DEF ReadEvent
      <4> QED BY <1>0, <4>1, <4>2, UpdateFacts
    <3>2. CASE ~(c.tool = "get_next_questions" /\ c.value # Nothing)
      <4>1. data1 = data
        BY <1>1, <1>2, <1>7, <3>2 DEF ReadEvent
      <4> QED BY <4>1
    <3> QED BY <3>1, <3>2
  <2>4. \A q \in Questions : Replies(events', q) = Replies(events, q)
    BY <1>1, <1>4, <2>1 DEF Replies
  <2>5. Answered' = Answered /\ Answered \subseteq Questions
    <3>1. Answered' = {q \in Questions : Replies(events', q) # {}}
      BY DEF Answered
    <3> QED BY <2>4, <3>1 DEF Answered
  <2>6. Alike(data, data1, events, events', Accepted, Accepted')
    BY <1>2, <1>3, <2>3, <2>4 DEF Alike
  <2> QED BY <1>0, <1>5, <2>5, <2>6, FilledAlike
<1> QED BY <1>6, <1>7

\* What asked questions make of the fields.
LEMMA AskFacts ==
    ASSUME NEW a \in CollectedData, NEW e \in Event
    PROVE  /\ AskFields(a, e).location = a.location
           /\ \A q \in DOMAIN Words :
                AskFields(a, e).fields[q] =
                  IF q \in e.asked \ Fields(a) THEN [status |-> "asked", value |-> Nothing] ELSE a.fields[q]
BY UpdateFacts

\* What a submission makes of the fields.
LEMMA SubmitFacts ==
    ASSUME NEW a \in CollectedData, NEW e \in Event
    PROVE  /\ ValidateAnswered(a).location = a.location
           /\ \A q \in DOMAIN Words :
                /\ ValidateAnswered(a).fields[q].value = a.fields[q].value
                /\ ValidateAnswered(a).fields[q].status =
                     IF a.fields[q].status = "answered" THEN "validated" ELSE a.fields[q].status
BY UpdateFacts

\* A question with an answer has a field.
LEMMA AnsweredFields ==
    ASSUME Typed, Filled
    PROVE  Answered \subseteq Fields(ExtractCollectedData(events)) /\ Answered \subseteq Questions
<1> DEFINE data == ExtractCollectedData(events)
<1>1. FilledBy(data, events, Answered, Accepted)
  BY DEF Filled
<1> HIDE DEF data
<1>2. Answered \subseteq Questions /\ Questions \subseteq DOMAIN Words
  BY CallLogAssumption DEF Answered
<1>3. ASSUME NEW q \in Answered PROVE data.fields[q].status # "none"
  <2>1. Replies(events, q) # {} /\ events \in Seq(Event)
    BY DEF Answered, Typed, LogTypeOK
  <2>2. PICK i \in Replies(events, q) : Latest(events, q) = {i}
    BY <2>1, LatestIs
  <2> QED BY <1>1, <2>2 DEF FilledBy
<1> QED BY <1>2, <1>3 DEF Fields, data

\* A result: the question found is that of the call that runs.
LEMMA FilledResult ==
    ASSUME Typed, Typed', Told, Numbered, Current, Filled, LogsResult
    PROVE  Filled'
<1> DEFINE n == Len(events) + 1
           r == Head(outbound)
           data == ExtractCollectedData(events)
           data1 == ExtractCollectedData(events')
<1>0. FilledBy(data, events, Answered, Accepted) /\ data \in CollectedData
  BY DEF Filled, FilledBy
<1>1. /\ Called(events') = Called(events) /\ n \in Nat /\ events'[n] = r
      /\ \A i \in Called(events) : events'[i] = events[i] /\ i < n
      /\ RunningCall = {} => Called(events) = {}
      /\ \A i \in RunningCall : /\ i \in Called(events) /\ RunningCall = {i}
                                /\ events[i].tool = r.tool
                                /\ \A k \in Called(events) : k <= i
  BY ResultFacts
<1>2. /\ data1 \in CollectedData /\ data1 = ReadEvent(events', data, n) /\ r \in Event
      /\ r.type = "tool.result"
  BY EffectGrows, DataGrown DEF LogsResult
<1>3. \A i \in Called(events) :
        i \in Accepted' <=> \/ i \in Accepted
                            \/ i \in RunningCall /\ r.result = "valid"
                            \/ r.tool = "submit_claim_data"
  BY AcceptedResult
<1>4. /\ Questions \subseteq DOMAIN Words /\ Nothing \notin Questions
      /\ Answered \subseteq Fields(data) /\ Answered \subseteq Questions
      /\ r.asked \subseteq Questions
  BY CallLogAssumption, AnsweredFields DEF LogsResult, Typed, Sending
<1>5. Filled' <=> FilledBy(data1, events', Answered', Accepted')
  BY DEF Filled
<1>d. DOMAIN events' = 1 .. n /\ \A i \in Called(events) : i \in Nat
  BY EffectGrows, Growth DEF Called, Indices
<1> HIDE DEF data, data1, n, r
<1>6. \A q \in Questions : Replies(events', q) = Replies(events, q)
  BY <1>1 DEF Replies
<1>7. Answered' = Answered
  <2>1. Answered' = {q \in Questions : Replies(events', q) # {}}
    BY DEF Answered
  <2> QED BY <1>6, <2>1 DEF Answered
<1>8. \A q \in Questions : \A i \in Replies(events, q) :
        i \in Called(events) /\ events[i].tool = "validate_answer" /\ events[i].question = q
  BY <1>4 DEF Replies, Told
<1>9. \A q \in Questions : Latest(events', q) = Latest(events, q) /\ Latest(events, q) \subseteq Replies(events, q)
  BY <1>6 DEF Latest
<1>10. r.tool \notin {"validate_answer", "submit_claim_data"} \/ (r.tool = "validate_answer" /\ r.result # "valid")
         => \A q \in Questions : \A i \in Replies(events, q) : i \in Accepted' <=> i \in Accepted
  BY <1>1, <1>3, <1>8
<1>11. CASE r.tool = "get_next_questions"
  <2>1. data1 = AskFields(data, r)
    BY <1>1, <1>2, <1>11 DEF ReadEvent
  <2>2. /\ data1.location = data.location
        /\ \A q \in DOMAIN Words :
             data1.fields[q] = IF q \in r.asked \ Fields(data) THEN [status |-> "asked", value |-> Nothing]
                               ELSE data.fields[q]
    BY <1>0, <1>2, <2>1, AskFacts
  <2>3. Fields(data1) \subseteq Questions
    <3> SUFFICES ASSUME NEW q \in Fields(data1), q \notin r.asked PROVE q \in Questions
      BY <1>4
    <3>1. q \in DOMAIN Words /\ data1.fields[q] = data.fields[q] /\ data1.fields[q].status # "none"
      BY <2>2 DEF Fields
    <3>2. q \in Fields(data)
      BY <3>1 DEF Fields
    <3> QED BY <1>0, <3>2 DEF FilledBy
  <2>4. \A q \in Questions \ Answered :
          data1.fields[q].status \in {"none", "asked"} /\ data1.fields[q].value = Nothing
    <3> SUFFICES ASSUME NEW q \in Questions \ Answered
                 PROVE  data1.fields[q].status \in {"none", "asked"} /\ data1.fields[q].value = Nothing
      OBVIOUS
    <3>1. CASE q \in r.asked \ Fields(data)
      <4>1. data1.fields[q] = [status |-> "asked", value |-> Nothing]
        BY <1>4, <2>2, <3>1
      <4> QED BY <4>1
    <3>2. CASE q \notin r.asked \ Fields(data)
      <4>1. data1.fields[q] = data.fields[q]
        BY <1>4, <2>2, <3>2
      <4> QED BY <1>0, <4>1 DEF FilledBy
    <3> QED BY <3>1, <3>2
  <2>5. \A q \in Answered :
          /\ data1.fields[q].value # Nothing
          /\ \A i \in Latest(events', q) :
               data1.fields[q].status = IF i \in Accepted' THEN "validated" ELSE "answered"
          /\ Words[q] \cap LocationWords # {} => data1.location # Nothing
    <3> SUFFICES ASSUME NEW q \in Answered
                 PROVE  /\ data1.fields[q].value # Nothing
                        /\ \A i \in Latest(events', q) :
                             data1.fields[q].status = IF i \in Accepted' THEN "validated" ELSE "answered"
                        /\ Words[q] \cap LocationWords # {} => data1.location # Nothing
      OBVIOUS
    <3>1. data1.fields[q] = data.fields[q] /\ q \in Questions
      BY <1>4, <2>2
    <3>2. \A i \in Latest(events', q) : i \in Latest(events, q) /\ (i \in Accepted' <=> i \in Accepted)
      BY <1>9, <1>10, <1>11, <3>1
    <3> QED BY <1>0, <2>2, <3>1, <3>2 DEF FilledBy
  <2> QED BY <1>2, <1>5, <1>7, <2>3, <2>4, <2>5 DEF FilledBy
<1>12. CASE r.tool = "validate_answer" /\ r.result = "valid"
  <2> DEFINE calls == {j \in Called(events') : j < n /\ events'[j].tool = "validate_answer"}
  <2>1. data1 = ValidateField(data, FindQuestionId(events', n))
    BY <1>1, <1>2, <1>12 DEF ReadEvent
  <2>2. FindQuestionId(events', n) = IF calls = {} THEN Nothing ELSE events'[Max(calls)].question
    BY DEF FindQuestionId
  <2>3. CASE RunningCall = {}
    <3>1. calls = {}
      BY <1>1, <2>3
    <3>2. Nothing \notin Fields(data)
      BY <1>0, <1>4 DEF FilledBy
    <3>3. data1 = data
      BY <2>1, <2>2, <3>1, <3>2 DEF ValidateField
    <3>4. \A q \in Questions : Replies(events, q) = {}
      BY <1>1, <2>3 DEF Replies
    <3>5. Alike(data, data1, events, events', Accepted, Accepted')
      BY <1>2, <1>6, <3>3, <3>4 DEF Alike
    <3> QED BY <1>0, <1>4, <1>5, <1>7, <3>5, FilledAlike
  <2>4. CASE RunningCall # {}
    <3>1. PICK i \in RunningCall : /\ i \in Called(events) /\ RunningCall = {i}
                                   /\ events[i].tool = "validate_answer"
                                   /\ \A k \in Called(events) : k <= i
      BY <1>1, <1>12, <2>4
    <3> DEFINE q0 == events[i].question
    <3>2. q0 \in Questions
      BY <3>1 DEF Told
    <3>3. FindQuestionId(events', n) = q0
      <4>1. calls \in SUBSET (0 .. n) /\ i \in calls /\ \A k \in calls : k <= i /\ k \in Nat
        BY <1>1, <1>d, <3>1
      <4> HIDE DEF calls
      <4>2. Max(calls) \in calls /\ i <= Max(calls)
        BY <1>1, <4>1, MaxIs
      <4>3. \A m : m \in calls /\ i <= m => m = i
        BY <4>1
      <4>4. Max(calls) = i
        BY <4>2, <4>3
      <4> QED BY <1>1, <2>2, <3>1, <4>1, <4>4
    <3> HIDE DEF calls, q0
    <3>4. /\ data1.location = data.location
          /\ \A q \in DOMAIN Words :
               /\ data1.fields[q].value = data.fields[q].value
               /\ data1.fields[q].status = IF q = q0 /\ q \in Fields(data) THEN "validated"
                                           ELSE data.fields[q].status
      BY <1>0, <2>1, <3>3, ValidateFacts
    <3>5. i \in Replies(events, q0)
      BY <3>1 DEF Replies, q0
    <3>6. q0 \in Answered /\ q0 \in Fields(data)
      BY <1>4, <3>2, <3>5 DEF Answered
    <3>7. \A q \in Questions : \A k \in Latest(events, q) :
            k \in Accepted' <=> k \in Accepted \/ q = q0
      <4> SUFFICES ASSUME NEW q \in Questions, NEW k \in Latest(events, q)
                   PROVE  k \in Accepted' <=> k \in Accepted \/ q = q0
        OBVIOUS
      <4>1. k \in Called(events) /\ events[k].question = q
        BY <1>8, <1>9
      <4>2. k \in Accepted' <=> k \in Accepted \/ k = i
        BY <1>3, <1>12, <3>1, <4>1
      <4>3. k = i => q = q0
        BY <4>1 DEF q0
      <4>4. q = q0 => k = i
        <5> SUFFICES ASSUME q = q0 PROVE k = i
          OBVIOUS
        <5>1. i <= k /\ k <= i /\ i \in Nat /\ k \in Nat
          BY <1>d, <3>1, <3>5, <4>1 DEF Latest
        <5> QED BY <5>1
      <4> QED BY <4>2, <4>3, <4>4
    <3>8. Fields(data1) \subseteq Questions
      <4> SUFFICES ASSUME NEW q \in Fields(data1), q # q0 PROVE q \in Questions
        BY <3>2
      <4>1. q \in DOMAIN Words /\ data1.fields[q].status = data.fields[q].status /\ data1.fields[q].status # "none"
        BY <3>4 DEF Fields
      <4>2. q \in Fields(data)
        BY <4>1 DEF Fields
      <4> QED BY <1>0, <4>2 DEF FilledBy
    <3>9. \A q \in Questions \ Answered :
            data1.fields[q].status \in {"none", "asked"} /\ data1.fields[q].value = Nothing
      <4> SUFFICES ASSUME NEW q \in Questions \ Answered
                   PROVE  data1.fields[q].status \in {"none", "asked"} /\ data1.fields[q].value = Nothing
        OBVIOUS
      <4>1. data1.fields[q].status = data.fields[q].status /\ data1.fields[q].value = data.fields[q].value
        BY <1>4, <3>4, <3>6
      <4> QED BY <1>0, <4>1 DEF FilledBy
    <3>10. \A q \in Answered :
             /\ data1.fields[q].value # Nothing
             /\ \A k \in Latest(events', q) :
                  data1.fields[q].status = IF k \in Accepted' THEN "validated" ELSE "answered"
             /\ Words[q] \cap LocationWords # {} => data1.location # Nothing
      <4> SUFFICES ASSUME NEW q \in Answered
                   PROVE  /\ data1.fields[q].value # Nothing
                          /\ \A k \in Latest(events', q) :
                               data1.fields[q].status = IF k \in Accepted' THEN "validated" ELSE "answered"
                          /\ Words[q] \cap LocationWords # {} => data1.location # Nothing
        OBVIOUS
      <4>1. q \in Questions /\ q \in DOMAIN Words /\ q \in Fields(data) /\ Latest(events', q) = Latest(events, q)
        BY <1>4, <1>9
      <4>2. /\ data.fields[q].value # Nothing
            /\ \A k \in Latest(events, q) :
                 data.fields[q].status = IF k \in Accepted THEN "validated" ELSE "answered"
            /\ Words[q] \cap LocationWords # {} => data.location # Nothing
        BY <1>0 DEF FilledBy
      <4>3. data1.fields[q].status = IF q = q0 THEN "validated" ELSE data.fields[q].status
        BY <3>4, <4>1
      <4> QED BY <3>4, <3>7, <4>1, <4>2, <4>3
    <3> QED BY <1>2, <1>5, <1>7, <3>8, <3>9, <3>10 DEF FilledBy
  <2> QED BY <2>3, <2>4
<1>13. CASE r.tool = "submit_claim_data"
  <2>1. data1 = ValidateAnswered(data)
    BY <1>1, <1>2, <1>13 DEF ReadEvent
  <2>2. /\ data1.location = data.location
        /\ \A q \in DOMAIN Words :
             /\ data1.fields[q].value = data.fields[q].value
             /\ data1.fields[q].status = IF data.fields[q].status = "answered" THEN "validated"
                                         ELSE data.fields[q].status
    BY <1>0, <1>2, <2>1, SubmitFacts
  <2>3. Fields(data1) \subseteq Questions
    <3> SUFFICES ASSUME NEW q \in Fields(data1) PROVE q \in Questions
      OBVIOUS
    <3>1. q \in DOMAIN Words /\ data1.fields[q].status # "none"
      BY DEF Fields
    <3>2. q \in Fields(data)
      BY <2>2, <3>1 DEF Fields
    <3> QED BY <1>0, <3>2 DEF FilledBy
  <2>4. \A q \in Questions \ Answered :
          data1.fields[q].status \in {"none", "asked"} /\ data1.fields[q].value = Nothing
    <3> SUFFICES ASSUME NEW q \in Questions \ Answered
                 PROVE  data1.fields[q].status \in {"none", "asked"} /\ data1.fields[q].value = Nothing
      OBVIOUS
    <3>1. data.fields[q].status \in {"none", "asked"} /\ data.fields[q].value = Nothing /\ q \in DOMAIN Words
      BY <1>0, <1>4 DEF FilledBy
    <3> QED BY <2>2, <3>1
  <2>5. \A q \in Answered :
          /\ data1.fields[q].value # Nothing
          /\ \A i \in Latest(events', q) :
               data1.fields[q].status = IF i \in Accepted' THEN "validated" ELSE "answered"
          /\ Words[q] \cap LocationWords # {} => data1.location # Nothing
    <3> SUFFICES ASSUME NEW q \in Answered
                 PROVE  /\ data1.fields[q].value # Nothing
                        /\ \A i \in Latest(events', q) :
                             data1.fields[q].status = IF i \in Accepted' THEN "validated" ELSE "answered"
                        /\ Words[q] \cap LocationWords # {} => data1.location # Nothing
      OBVIOUS
    <3>1. q \in Questions /\ q \in DOMAIN Words /\ Latest(events', q) = Latest(events, q)
      BY <1>4, <1>9
    <3>2. /\ data.fields[q].value # Nothing
          /\ \A k \in Latest(events, q) :
               data.fields[q].status = IF k \in Accepted THEN "validated" ELSE "answered"
          /\ Words[q] \cap LocationWords # {} => data.location # Nothing
      BY <1>0 DEF FilledBy
    <3>3. \A k \in Latest(events, q) : k \in Accepted'
      BY <1>3, <1>8, <1>9, <1>13, <3>1
    <3> QED BY <2>2, <3>1, <3>2, <3>3
  <2> QED BY <1>2, <1>5, <1>7, <2>3, <2>4, <2>5 DEF FilledBy
<1>14. CASE \/ r.tool \notin QuestionServiceTools
            \/ r.tool = "validate_answer" /\ r.result # "valid"
  <2>1. data1 = data
    BY <1>1, <1>2, <1>14 DEF ReadEvent, QuestionServiceTools
  <2>2. Alike(data, data1, events, events', Accepted, Accepted')
    BY <1>2, <1>6, <1>10, <1>14, <2>1 DEF Alike, QuestionServiceTools
  <2> QED BY <1>0, <1>4, <1>5, <1>7, <2>2, FilledAlike
<1> QED BY <1>11, <1>12, <1>13, <1>14 DEF QuestionServiceTools

\* Another event accepts no answer.
LEMMA AcceptedSame ==
    ASSUME Called(events') = Called(events), Results(events') = Results(events),
           \A i \in Called(events) \cup Results(events) : events'[i] = events[i]
    PROVE  Accepted' = Accepted
<1>1. \A i \in Called(events) :
        {j \in Results(events') : events'[i].serial = events'[j].serial} = ResultFor(i)
  BY DEF ResultFor, Own
<1>2. Accepted' = {i \in Called(events') :
        \/ \E j \in {k \in Results(events') : events'[i].serial = events'[k].serial} : events'[j].result = "valid"
        \/ \E j \in Results(events') : j > i /\ events'[j].tool = "submit_claim_data"}
  BY DEF Accepted, ResultFor, Own
<1>3. \A i \in Called(events) : ResultFor(i) \subseteq Results(events)
  BY DEF ResultFor
<1> QED BY <1>1, <1>2, <1>3 DEF Accepted

\* Nothing is filled of an empty log.
LEMMA NoDataFilled ==
    ASSUME NEW es, NEW accepted PROVE FilledBy(NoData, es, {}, accepted)
<1>1. Questions \subseteq DOMAIN Words
  BY CallLogAssumption
<1>2. [status |-> "none", value |-> Nothing] \in FieldState
  BY DEF FieldState, Texts
<1>3. NoData.fields \in [DOMAIN Words -> FieldState] /\ NoData \in CollectedData
  BY <1>2 DEF NoData, CollectedData, Texts
<1>4. \A q \in DOMAIN Words : NoData.fields[q] = [status |-> "none", value |-> Nothing]
  BY DEF NoData
<1>5. Fields(NoData) = {}
  BY <1>4 DEF Fields
<1> QED BY <1>1, <1>3, <1>4, <1>5 DEF FilledBy

\* Filled is kept.
LEMMA FilledStep == ASSUME Typed, Typed', Told, Numbered, Current, Filled, Effect PROVE Filled'
<1>1. ASSUME NEW c \in Event, LogsCall(c) PROVE Filled'
  BY <1>1, FilledCall
<1>2. CASE LogsResult
  BY <1>2, FilledResult
<1>3. ASSUME NEW e \in Event, LogsOther(e) PROVE Filled'
  <2> DEFINE data == ExtractCollectedData(events)
             data1 == ExtractCollectedData(events')
             n == Len(events) + 1
  <2>1. Grows(e) /\ e.type \notin {"tool.called", "tool.result"} /\ SameRun
    BY <1>3, EffectGrows DEF LogsOther
  <2>2. /\ Called(events') = Called(events) /\ Results(events') = Results(events)
        /\ \A i \in Called(events) \cup Results(events) : events'[i] = events[i]
    BY <2>1, OtherFacts
  <2>3. data \in CollectedData /\ data1 \in CollectedData /\ data1 = ReadEvent(events', data, n)
    BY <2>1, DataGrown
  <2>4. events'[n] = e
    BY <2>1, Growth
  <2>5. Filled' <=> FilledBy(data1, events', Answered', Accepted')
    BY DEF Filled
  <2>6. FilledBy(data, events, Answered, Accepted)
    BY DEF Filled
  <2> HIDE DEF data, data1, n
  <2>7. data1 = data
    BY <2>1, <2>3, <2>4 DEF ReadEvent
  <2>8. \A q \in Questions : Replies(events', q) = Replies(events, q)
    BY <2>2 DEF Replies
  <2>9. Answered' = Answered /\ Answered \subseteq Questions
    <3>1. Answered' = {q \in Questions : Replies(events', q) # {}}
      BY DEF Answered
    <3> QED BY <2>8, <3>1 DEF Answered
  <2>10. Accepted' = Accepted
    BY <2>2, AcceptedSame
  <2>11. Alike(data, data1, events, events', Accepted, Accepted')
    BY <2>3, <2>7, <2>8, <2>10 DEF Alike
  <2> QED BY <2>5, <2>6, <2>9, <2>11, FilledAlike
<1>4. CASE Empties
  <2>1. ExtractCollectedData(events') = NoData
    BY <1>4, EmptyLog DEF Empties
  <2>2. Answered' = {}
    <3>1. Answered' = {q \in Questions : Replies(events', q) # {}}
      BY DEF Answered
    <3>2. \A q : Replies(events', q) = {}
      BY <1>4, EmptyFacts DEF Replies
    <3> QED BY <3>1, <3>2
  <2>3. FilledBy(NoData, events', {}, Accepted')
    BY NoDataFilled
  <2> QED BY <2>1, <2>2, <2>3 DEF Filled
<1>5. CASE Leaves
  <2>1. events' = events
    BY <1>5 DEF Leaves
  <2>2. Answered' = Answered /\ Accepted' = Accepted
    BY <2>1 DEF Answered, Accepted, ResultFor, Own
  <2> QED BY <2>1, <2>2 DEF Filled
<1> QED BY <1>1, <1>2, <1>3, <1>4, <1>5 DEF Effect

(***************************************************************************)
(* The call state panel's rows.                                            *)
(***************************************************************************)
LEMMA PanelGrown ==
    ASSUME NEW e, Grows(e)
    PROVE  /\ CollectedFields(events) \in Seq(AnswerRow) /\ CollectedFields(events') \in Seq(AnswerRow)
           /\ CollectedFields(events') = ReadAnswer(CollectedFields(events), e)
<1>1. events \in Seq(Event) /\ e \in Event /\ events' = Append(events, e)
  BY DEF Grows
<1>2. Append(events, e) \in Seq(Event)
  BY <1>1
<1>3. CollectedFields(Append(events, e)) \in Seq(AnswerRow)
  BY <1>1, <1>2, FieldsAppend
<1> QED BY <1>1, <1>3, FieldsAppend

\* What the panel shows of answers to questions only.
LEMMA MarkedIdle ==
    ASSUME NEW panel, NEW answered \in SUBSET Questions, NEW running, NEW running1,
           MarkedBy(panel, answered, running), running \subseteq {Nothing}, running1 \subseteq {Nothing}
    PROVE  MarkedBy(panel, answered, running1)
<1>1. Nothing \notin Questions
  BY CallLogAssumption
<1> QED BY <1>1 DEF MarkedBy

\* One more answer gets a row of its own, unmarked.
LEMMA RowAdded ==
    ASSUME NEW panel \in Seq(AnswerRow), NEW answered \in SUBSET Questions, NEW e \in Event,
           MarkedBy(panel, answered, {}), e.question \in Questions \ answered
    PROVE  MarkedBy(CollectAnswer(panel, e), answered \cup {e.question}, {e.question})
<1> DEFINE row == [questionId |-> e.question, answer |-> e.value, valid |-> FALSE]
           own == {k \in DOMAIN panel : panel[k].questionId = e.question}
<1>1. own = {}
  BY DEF MarkedBy
<1>2. CollectAnswer(panel, e) = Append(panel, row)
  BY <1>1 DEF CollectAnswer
<1>3. row.questionId = e.question /\ row.valid = FALSE
  OBVIOUS
<1> HIDE DEF row
<1>4. /\ Len(panel) \in Nat /\ DOMAIN panel = 1 .. Len(panel)
      /\ DOMAIN Append(panel, row) = 1 .. Len(panel) + 1 /\ Append(panel, row)[Len(panel) + 1] = row
      /\ \A k \in 1 .. Len(panel) : Append(panel, row)[k] = panel[k]
  OBVIOUS
<1>5. /\ \A k \in 1 .. Len(panel) + 1 : k \in 1 .. Len(panel) \/ k = Len(panel) + 1
      /\ Len(panel) + 1 \in 1 .. Len(panel) + 1
      /\ \A k \in 1 .. Len(panel) : k \in 1 .. Len(panel) + 1
  BY <1>4
<1> QED BY <1>2, <1>3, <1>4, <1>5 DEF MarkedBy

\* A valid result marks the row of the question that runs.
LEMMA RowMarked ==
    ASSUME NEW panel \in Seq(AnswerRow), NEW answered \in SUBSET Questions, NEW e \in Event,
           NEW q \in answered, MarkedBy(panel, answered, {q}), e.result = "valid"
    PROVE  MarkedBy(MarkAnswer(panel, e), answered, {})
<1> DEFINE unmarked == {k \in DOMAIN panel : ~panel[k].valid}
<1>1. PICK k \in DOMAIN panel : panel[k].questionId = q
  BY DEF MarkedBy
<1>2. unmarked = {k}
  BY <1>1 DEF MarkedBy
<1>3. k \in 0 .. Len(panel) /\ Len(panel) \in Nat /\ DOMAIN panel = 1 .. Len(panel)
  BY <1>1
<1> HIDE DEF unmarked
<1>4. Min(unmarked) = k
  <2>1. unmarked \in SUBSET (0 .. Len(panel)) /\ unmarked # {}
    BY <1>2, <1>3
  <2>2. Min(unmarked) \in unmarked
    BY <1>3, <2>1, MinIs
  <2> QED BY <1>2, <2>2
<1>5. MarkAnswer(panel, e) = [panel EXCEPT ![k].valid = TRUE]
  <2>1. MarkAnswer(panel, e) = IF unmarked = {}
          THEN Append(panel, [questionId |-> "field_n", answer |-> Nothing, valid |-> e.result = "valid"])
          ELSE [panel EXCEPT ![Min(unmarked)].valid = (e.result = "valid")]
    BY DEF MarkAnswer, unmarked
  <2>2. MarkAnswer(panel, e) = [panel EXCEPT ![k].valid = (e.result = "valid")]
    BY <1>2, <1>4, <2>1
  <2>3. (e.result = "valid") = TRUE
    OBVIOUS
  <2> QED BY <2>2, <2>3
<1> DEFINE panel1 == [panel EXCEPT ![k].valid = TRUE]
<1>6. DOMAIN panel1 = DOMAIN panel
  OBVIOUS
<1>7. \A j \in DOMAIN panel : panel[j] \in AnswerRow
  OBVIOUS
<1>8. \A j \in DOMAIN panel : j # k => panel1[j] = panel[j]
  OBVIOUS
<1>9. panel1[k].questionId = q /\ panel1[k].valid = TRUE
  BY <1>1, <1>7 DEF AnswerRow
<1> HIDE DEF panel1
<1>10. \A j \in DOMAIN panel : panel1[j].questionId = panel[j].questionId /\ panel1[j].valid
  BY <1>1, <1>2, <1>8, <1>9 DEF unmarked
<1>11. MarkedBy(panel1, answered, {})
  BY <1>6, <1>10 DEF MarkedBy
<1> QED BY <1>5, <1>11 DEF panel1

\* The questions with an answer, before a step and after it.
LEMMA AnsweredIs == Answered \subseteq Questions /\ Answered' = {q \in Questions : Replies(events', q) # {}}
BY DEF Answered

\* A call: while all is smooth its question has no row yet.
LEMMA MarkedCall ==
    ASSUME Typed, Typed', Numbered, Current, Marked, NEW c \in Event, LogsCall(c)
    PROVE  Marked'
<1> DEFINE n == Len(events) + 1
           panel == CollectedFields(events)
           panel1 == CollectedFields(events')
<1>1. /\ Called(events') = Called(events) \cup {n} /\ Results(events') = Results(events)
      /\ n \notin Called(events) /\ events'[n] = c
      /\ \A i \in Called(events) \cup Results(events) : events'[i] = events[i]
      /\ RunningCall = {} /\ RunningCall' = {n}
      /\ Expected' = Expected /\ Lost' = Lost
  BY CallFacts
<1>2. panel \in Seq(AnswerRow) /\ panel1 \in Seq(AnswerRow) /\ panel1 = ReadAnswer(panel, c)
  BY EffectGrows, PanelGrown
<1>3. c.type = "tool.called"
  BY DEF LogsCall
<1>4. IF c.tool = "validate_answer" THEN c.question \in Questions ELSE c.question = Nothing
  BY DEF LogsCall
<1>5. Nothing \notin Questions /\ Answered \subseteq Questions
  BY CallLogAssumption, AnsweredIs
<1>6. Marked' <=> panel1 \in Seq(AnswerRow) /\ (Smooth' => MarkedBy(panel1, Answered', RunningQuestion'))
  BY DEF Marked
<1>7. RunningQuestion = {} /\ RunningQuestion' = {c.question}
  <2>1. RunningQuestion' = {events'[i].question : i \in RunningCall'}
    BY DEF RunningQuestion
  <2> QED BY <1>1, <2>1 DEF RunningQuestion
<1> HIDE DEF n, panel, panel1
<1>8. SUFFICES ASSUME Smooth' PROVE MarkedBy(panel1, Answered', {c.question})
  BY <1>2, <1>6, <1>7
<1>9. /\ Lost' = {}
      /\ \A j \in Results(events') : events'[j].tool = "validate_answer" =>
           events'[j].result = "valid" /\ j \in Expected'
      /\ \A i, k \in Called(events') :
           events'[i].question = events'[k].question /\ events'[i].question # Nothing => i = k
  BY <1>8 DEF Smooth, Checks
<1>10. Smooth
  BY <1>1, <1>9 DEF Smooth, Checks
<1>11. MarkedBy(panel, Answered, {})
  BY <1>7, <1>10 DEF Marked, panel
<1>12. CASE c.tool = "validate_answer"
  <2>1. c.question \notin Answered
    <3> SUFFICES ASSUME c.question \in Answered PROVE FALSE
      OBVIOUS
    <3>1. PICK i \in Called(events) : events[i].question = c.question
      BY DEF Answered, Replies
    <3>2. i = n
      BY <1>1, <1>4, <1>5, <1>9, <1>12, <3>1
    <3> QED BY <1>1, <3>1, <3>2
  <2>2. Answered' = Answered \cup {c.question}
    <3>1. \A q \in Questions : Replies(events', q) = IF q = c.question THEN Replies(events, q) \cup {n} ELSE Replies(events, q)
      BY <1>1 DEF Replies
    <3> QED BY <1>4, <1>12, <3>1, AnsweredIs DEF Answered
  <2>3. panel1 = CollectAnswer(panel, c)
    BY <1>2, <1>3, <1>12 DEF ReadAnswer
  <2> QED BY <1>2, <1>4, <1>5, <1>11, <1>12, <2>1, <2>2, <2>3, RowAdded
<1>13. CASE c.tool # "validate_answer"
  <2>1. panel1 = panel
    BY <1>2, <1>13 DEF ReadAnswer
  <2>2. Answered' = Answered
    <3>1. \A q \in Questions : Replies(events', q) = Replies(events, q)
      BY <1>1, <1>4, <1>5, <1>13 DEF Replies
    <3> QED BY <3>1, AnsweredIs DEF Answered
  <2>3. MarkedBy(panel, Answered, {c.question})
    BY <1>4, <1>5, <1>11, <1>13, MarkedIdle
  <2> QED BY <2>1, <2>2, <2>3
<1> QED BY <1>12, <1>13

\* A result: while all is smooth it is valid, and the one row without a mark is its own.
LEMMA MarkedResult ==
    ASSUME Typed, Typed', Told, Numbered, Current, Marked, LogsResult
    PROVE  Marked'
<1> DEFINE n == Len(events) + 1
           r == Head(outbound)
           panel == CollectedFields(events)
           panel1 == CollectedFields(events')
<1>1. /\ Results(events') = Results(events) \cup {n} /\ Called(events') = Called(events)
      /\ n \notin Results(events) /\ events'[n] = r
      /\ \A i \in Called(events) \cup Results(events) : events'[i] = events[i]
      /\ RunningCall' = {} /\ Lost' = Lost
      /\ Expected' = Expected \cup {j \in {n} : RunningCall # {}}
      /\ \A i \in RunningCall : /\ i \in Called(events) /\ RunningCall = {i}
                                /\ events[i].tool = r.tool
  BY ResultFacts
<1>2. panel \in Seq(AnswerRow) /\ panel1 \in Seq(AnswerRow) /\ panel1 = ReadAnswer(panel, r)
  BY EffectGrows, PanelGrown
<1>3. r.type = "tool.result" /\ r \in Event
  BY EffectGrows DEF LogsResult
<1>5. Nothing \notin Questions /\ Answered \subseteq Questions
  BY CallLogAssumption, AnsweredIs
<1>6. Marked' <=> panel1 \in Seq(AnswerRow) /\ (Smooth' => MarkedBy(panel1, Answered', RunningQuestion'))
  BY DEF Marked
<1>7. RunningQuestion' = {}
  <2>1. RunningQuestion' = {events'[i].question : i \in RunningCall'}
    BY DEF RunningQuestion
  <2> QED BY <1>1, <2>1
<1> HIDE DEF n, r, panel, panel1
<1>8. SUFFICES ASSUME Smooth' PROVE MarkedBy(panel1, Answered', {})
  BY <1>2, <1>6, <1>7
<1>9. /\ Lost' = {}
      /\ \A j \in Results(events') : events'[j].tool = "validate_answer" =>
           events'[j].result = "valid" /\ j \in Expected'
      /\ \A i, k \in Called(events') :
           events'[i].question = events'[k].question /\ events'[i].question # Nothing => i = k
  BY <1>8 DEF Smooth, Checks
<1>10. Smooth
  BY <1>1, <1>9 DEF Smooth, Checks
<1>11. MarkedBy(panel, Answered, RunningQuestion)
  BY <1>10 DEF Marked, panel
<1>12. Answered' = Answered
  <2>1. \A q \in Questions : Replies(events', q) = Replies(events, q)
    BY <1>1 DEF Replies
  <2> QED BY <2>1, AnsweredIs DEF Answered
<1>13. CASE r.tool = "validate_answer"
  <2>1. r.result = "valid" /\ RunningCall # {}
    <3>1. n \in Results(events') /\ n \notin Expected
      BY <1>1 DEF Expected
    <3> QED BY <1>1, <1>9, <1>13, <3>1
  <2>2. PICK i \in RunningCall : i \in Called(events) /\ RunningCall = {i} /\ events[i].tool = "validate_answer"
    BY <1>1, <1>13, <2>1
  <2>3. RunningQuestion = {events[i].question}
    BY <2>2 DEF RunningQuestion
  <2>4. events[i].question \in Answered
    BY <2>2 DEF Told, Answered, Replies
  <2>5. panel1 = MarkAnswer(panel, r)
    BY <1>2, <1>3, <1>13 DEF ReadAnswer
  <2> QED BY <1>2, <1>3, <1>5, <1>11, <1>12, <2>1, <2>3, <2>4, <2>5, RowMarked
<1>14. CASE r.tool # "validate_answer"
  <2>1. panel1 = panel
    BY <1>2, <1>14 DEF ReadAnswer
  <2>2. RunningQuestion \subseteq {Nothing}
    BY <1>1, <1>14 DEF RunningQuestion, Told
  <2>3. MarkedBy(panel, Answered, {})
    BY <1>5, <1>11, <2>2, MarkedIdle
  <2> QED BY <1>12, <2>1, <2>3
<1> QED BY <1>13, <1>14

\* Marked is kept.
LEMMA MarkedStep ==
    ASSUME Typed, Typed', Told, Numbered, Current, Paired, Marked, Effect
    PROVE  Marked'
<1>0. Marked' <=> /\ CollectedFields(events') \in Seq(AnswerRow)
                  /\ Smooth' => MarkedBy(CollectedFields(events'), Answered', RunningQuestion')
  BY DEF Marked
<1>s. Smooth' <=> /\ Lost' = {}
                  /\ \A j \in Results(events') : events'[j].tool = "validate_answer" =>
                       events'[j].result = "valid" /\ j \in Expected'
                  /\ \A i, k \in Called(events') :
                       events'[i].question = events'[k].question /\ events'[i].question # Nothing => i = k
  BY DEF Smooth, Checks
<1>q. RunningQuestion' = {events'[i].question : i \in RunningCall'}
  BY DEF RunningQuestion
<1>1. ASSUME NEW c \in Event, LogsCall(c) PROVE Marked'
  BY <1>1, MarkedCall
<1>2. CASE LogsResult
  BY <1>2, MarkedResult
<1>3. ASSUME NEW e \in Event, LogsOther(e) PROVE Marked'
  <2>1. Grows(e) /\ e.type \notin {"tool.called", "tool.result"} /\ SameRun
    BY <1>3, EffectGrows DEF LogsOther
  <2>2. /\ Called(events') = Called(events) /\ Results(events') = Results(events)
        /\ \A i \in Called(events) \cup Results(events) : events'[i] = events[i]
        /\ RunningCall' = RunningCall /\ Expected' = Expected /\ Lost' = Lost
    BY <2>1, OtherFacts
  <2>3. CollectedFields(events') = CollectedFields(events)
    BY <2>1, PanelGrown DEF ReadAnswer
  <2>4. Answered' = Answered
    <3>1. \A q \in Questions : Replies(events', q) = Replies(events, q)
      BY <2>2 DEF Replies
    <3> QED BY <3>1, AnsweredIs DEF Answered
  <2>5. RunningQuestion' = RunningQuestion
    BY <1>q, <2>2 DEF RunningQuestion, RunningCall
  <2>6. Smooth' => Smooth
    BY <1>s, <2>2 DEF Smooth, Checks
  <2> QED BY <1>0, <2>3, <2>4, <2>5, <2>6 DEF Marked
<1>4. CASE Empties
  <2>1. CollectedFields(events') = <<>> /\ Answered' = {}
    <3>1. \A q : Replies(events', q) = {}
      BY <1>4, EmptyFacts DEF Replies
    <3>2. Answered' = {}
      BY <3>1, AnsweredIs
    <3> QED BY <1>4, <3>2, EmptyLog DEF Empties
  <2>2. MarkedBy(<<>>, {}, RunningQuestion') /\ <<>> \in Seq(AnswerRow)
    BY DEF MarkedBy
  <2> QED BY <1>0, <2>1, <2>2
<1>5. CASE Leaves
  <2>1. /\ events' = events
        /\ RunningCall' = RunningCall \/ RunningCall' = {}
        /\ Expected' = Expected /\ Lost = Unanswered \ RunningCall /\ Lost' = Unanswered \ RunningCall'
    BY <1>5, LeaveFacts DEF Leaves
  <2>2. RunningCall \subseteq Unanswered
    BY DEF Paired
  <2>3. Smooth' => Lost = {} /\ RunningCall' = RunningCall
    BY <1>s, <2>1, <2>2
  <2>4. Smooth' => Smooth /\ RunningQuestion' = RunningQuestion
    BY <1>s, <1>q, <2>1, <2>3 DEF Smooth, Checks, RunningQuestion
  <2>5. Answered' = Answered
    BY <2>1 DEF Answered
  <2> QED BY <1>0, <2>1, <2>4, <2>5 DEF Marked
<1> QED BY <1>1, <1>2, <1>3, <1>4, <1>5 DEF Effect

(***************************************************************************)
(* The inductive invariant.                                                *)
(***************************************************************************)
LogInv ==
  /\ Typed
  /\ Told /\ Moved /\ Listed
  /\ Numbered /\ Current /\ Paired
  /\ Filled /\ Marked
  /\ Added /\ Claimed

\* It holds of an empty log.
LEMMA LogInvInit == ASSUME Init PROVE LogInv
<1>1. /\ events = <<>> /\ outbound = <<>> /\ tokenUsage = <<0, 0>> /\ claimResult = 0
      /\ live = FALSE /\ since = 0 /\ agent = "greeter"
  BY DEF Init
<1>2. Moves = {} /\ Called(events) = {} /\ Results(events) = {} /\ ~Running
  BY <1>1, EmptyIndices DEF Moves, Called, Results, Running
<1>3. Typed
  BY TypedInit
<1>4. Told /\ Claimed /\ Current
  BY <1>1, <1>2 DEF Told, Claimed, Current
<1>m. Moved
  BY <1>1, <1>2 DEF Moved
<1>5. Numbered
  BY <1>2 DEF Numbered
<1>6. Listed
  BY <1>1, ListsEmpty DEF Listed, Handoffs
<1>7. /\ OwnPairs = {} /\ RunningCall = {} /\ Unanswered = {} /\ Expected = {}
      /\ Answered = {} /\ Accepted = {} /\ RunningQuestion = {}
  BY <1>2 DEF OwnPairs, RunningCall, Unanswered, Expected, Answered, Replies, Accepted,
     RunningQuestion
<1>8. Paired
  <2> DEFINE spans == Pair(events, FALSE, TRUE)
             tools == Pair(events, TRUE, TRUE)
             api == Pair(events, FALSE, FALSE)
  <2>1. \A replaces, last : Pair(events, replaces, last) = [pending |-> {}, pairs |-> {}]
    BY <1>1, EmptyLog
  <2>2. spans = [pending |-> {}, pairs |-> {}]
    BY <2>1, Zenon
  <2>3. tools = [pending |-> {}, pairs |-> {}]
    BY <2>1, Zenon
  <2>4. api = [pending |-> {}, pairs |-> {}]
    BY <2>1, Zenon
  <2>5. Paired <=>
          /\ spans.pending = Unanswered /\ spans.pairs = OwnPairs
          /\ tools.pending \subseteq Unanswered /\ RunningCall \subseteq tools.pending
          /\ tools.pairs = OwnPairs
          /\ RunningCall \subseteq api.pending /\ api.pending \subseteq Called(events)
          /\ \A p \in api.pairs : p[1] \in Called(events) /\ events[p[1]].tool = events[p[2]].tool
          /\ {p[2] : p \in api.pairs} = Expected
          /\ Lost = {} => api.pending = RunningCall /\ api.pairs = OwnPairs
    BY DEF Paired, ComputeSpans, ComputeToolSpans
  <2> HIDE DEF spans, tools, api
  <2> QED BY <1>2, <1>7, <2>2, <2>3, <2>4, <2>5
<1>9. Filled
  BY <1>1, <1>7, EmptyLog, NoDataFilled DEF Filled
<1>10. Marked
  <2>1. MarkedBy(<<>>, {}, {}) /\ <<>> \in Seq(AnswerRow)
    BY DEF MarkedBy
  <2> QED BY <1>1, <1>7, <2>1, EmptyLog DEF Marked
<1>11. Added
  <2>1. <<>> \in Seq(TokenPoint) /\ TotalUsage(<<>>) = <<0, 0>>
    BY DEF TotalUsage
  <2>2. \A model \in Models : EstimateCost(<<0, 0>>, model) = 0
    <3>1. <<0, 0>> \in Nat \X Nat
      OBVIOUS
    <3> QED BY <3>1, CostAdds
  <2>3. AddsUp(<<>>, <<0, 0>>, TRUE)
    BY <2>1, <2>2, EmptyLog DEF AddsUp
  <2> QED BY <1>1, <2>3, EmptyLog, AddedIs DEF AddsUp
<1> QED BY <1>3, <1>4, <1>m, <1>5, <1>6, <1>8, <1>9, <1>10, <1>11 DEF LogInv

\* Every step keeps it.
LEMMA LogInvStep == ASSUME LogInv, [Next]_vars PROVE LogInv'
<1>1. Typed /\ Told /\ Moved /\ Listed /\ Numbered /\ Current /\ Paired /\ Filled /\ Marked /\ Added /\ Claimed
  BY DEF LogInv
<1>2. Typed' /\ Effect
  BY <1>1, StepEffect
<1>3. Told' /\ Moved' /\ Listed'
  BY <1>1, <1>2, ToldStep, MovedStep, ListedStep
<1>4. Numbered' /\ Current' /\ Paired'
  BY <1>1, <1>2, NumberedStep, CurrentStep, PairedStep
<1>5. Filled' /\ Marked'
  BY <1>1, <1>2, FilledStep, MarkedStep
<1>6. Added' /\ Claimed'
  BY <1>1, <1>2, AddedStep, ClaimedStep
<1> QED BY <1>2, <1>3, <1>4, <1>5, <1>6 DEF LogInv

\* It holds in every state.
LEMMA LogInvHolds == Spec => []LogInv
<1>1. Init => LogInv
  BY LogInvInit
<1>2. LogInv /\ [Next]_vars => LogInv'
  BY LogInvStep
<1> QED BY <1>1, <1>2, PTL DEF Spec

\* TotalsAgree, for any usage and number of responses: the count in the status bar, the
\* total and the cost column of the token panel agree, and the claim on show is the last
\* submitted, whatever was cleared, dismissed or begun anew in between.
THEOREM TotalsAdd == Spec => []TotalsAgree
<1>1. ASSUME LogInv PROVE TotalsAgree
  <2> DEFINE points == BuildTokenPoints(events)
             total == TotalUsage(points)
  <2>1. tokenUsage \in Nat \X Nat /\ AddsUp(points, tokenUsage, ~cleared) /\ Claimed
    BY <1>1, AddedIs DEF LogInv, Typed, LogTypeOK
  <2>2. total \in Nat \X Nat
    <3>1. points \in Seq(TokenPoint)
      BY <2>1 DEF AddsUp
    <3> HIDE DEF points
    <3> QED BY <3>1, TotalTyped
  <2>3. \A model \in Models : CostColumn(points, model) = EstimateCost(total, model)
    BY <2>1 DEF AddsUp
  <2>4. tokenUsage[1] >= total[1] /\ tokenUsage[2] >= total[2] /\ (~cleared => tokenUsage = total)
    BY <2>1 DEF AddsUp
  <2>5. 1 .. 2 = {1, 2}
    OBVIOUS
  <2>6. \A k \in 1 .. 2 : tokenUsage[k] >= total[k]
    BY <2>4, <2>5
  <2>7. TotalsAgree <=>
          /\ \A k \in 1 .. 2 : tokenUsage[k] >= total[k]
          /\ ~cleared => tokenUsage = total
          /\ \A model \in Models :
               /\ EstimateCost(tokenUsage, model) >= CostColumn(points, model)
               /\ ~cleared => EstimateCost(tokenUsage, model) = CostColumn(points, model)
          /\ Claimed
    BY DEF TotalsAgree, Claimed, Models
  <2> HIDE DEF points, total
  <2>8. \A model \in Models : EstimateCost(tokenUsage, model) >= EstimateCost(total, model)
    BY <2>1, <2>2, <2>4, CostGrows
  <2> QED BY <2>1, <2>3, <2>4, <2>6, <2>7, <2>8
<1> QED BY <1>1, LogInvHolds, PTL

(***************************************************************************)
(* The agents: what a list of handoffs says of the log.                    *)
(***************************************************************************)
\* The list of the handoffs is empty with their set, ends with the last of them and
\* holds each.
LEMMA HandoffList ==
    ASSUME Typed, Told, Listed
    PROVE  LET h == Handoffs(events) IN
           /\ h \in Seq(Event)
           /\ h = <<>> <=> Moves = {}
           /\ \A k \in DOMAIN h : \E i \in Moves : h[k] = events[i]
           /\ \A i \in Moves : \E k \in DOMAIN h : h[k] = events[i]
           /\ \A k \in DOMAIN h : h[k].from \in Agents /\ h[k].to \in Agents
           /\ Moves # {} => \E m \in Moves : /\ \A i \in Moves : i <= m
                                             /\ Len(h) \in DOMAIN h /\ h[Len(h)] = events[m]
<1> DEFINE h == Handoffs(events)
<1>1. Moves = {i \in DOMAIN events : events[i].type \in {"agent.handoff"}}
  BY DEF Moves, Indices
<1>2. Lists(h, events, {"agent.handoff"})
  BY DEF Listed
<1> HIDE DEF h
<1>3. /\ h \in Seq(Event)
      /\ {h[k] : k \in DOMAIN h} = {events[i] : i \in Moves}
      /\ \A i \in Moves : (\A j \in Moves : j <= i) => h[Len(h)] = events[i]
  BY <1>1, <1>2 DEF Lists
<1>4. /\ \A k \in DOMAIN h : \E i \in Moves : h[k] = events[i]
      /\ \A i \in Moves : \E k \in DOMAIN h : h[k] = events[i]
  BY <1>3
<1>5. /\ h = <<>> <=> DOMAIN h = {}
      /\ h # <<>> => Len(h) \in DOMAIN h
  BY <1>3
<1>6. h = <<>> <=> Moves = {}
  BY <1>4, <1>5
<1>7. ASSUME Moves # {} PROVE \E m \in Moves : \A i \in Moves : i <= m
  <2>1. Moves \in SUBSET (0 .. Len(events)) /\ Len(events) \in Nat
    BY DEF Moves, Indices, Typed, LogTypeOK
  <2> QED BY <1>7, <2>1, MaxIs
<1>8. \A k \in DOMAIN h : h[k].from \in Agents /\ h[k].to \in Agents
  BY <1>4 DEF Told
<1> QED BY <1>3, <1>4, <1>5, <1>6, <1>7, <1>8 DEF h

\* AgentViewsAgree, for any number of calls, handoffs and clears: the panels name the same
\* agent, that of the call once it has handed over within the log, and draw every move.
THEOREM AgentsAgree == Spec => []AgentViewsAgree
<1>1. ASSUME LogInv PROVE AgentViewsAgree
  <2> DEFINE h == Handoffs(events)
             state == DeriveCallState(events)
             diagram == HandoffDiagram(events, live)
             summary == Summary(events, messages)
             ofCall == {i \in Moves : i > since}
             current == IF h = <<>> THEN "greeter" ELSE h[Len(h)].to
             active == IF h # <<>> THEN h[Len(h)].to ELSE IF live THEN "greeter" ELSE Nothing
             visited == {h[k].from : k \in DOMAIN h} \cup ({active} \ {Nothing})
             chain == {a \in Agents : a = "greeter" \/ \E k \in DOMAIN h : a \in {h[k].from, h[k].to}}
             drawn == {<<"greeter", "top_level_qa">>} \cup {"top_level_qa"} \X Claims \cup Claims \X {"summary"}
  <2>1. Typed /\ Told /\ Moved /\ Listed /\ agent \in Agents
    BY <1>1 DEF LogInv, Typed, LogTypeOK
  <2>2. /\ h \in Seq(Event)
        /\ h = <<>> <=> Moves = {}
        /\ \A k \in DOMAIN h : \E i \in Moves : h[k] = events[i]
        /\ \A i \in Moves : \E k \in DOMAIN h : h[k] = events[i]
        /\ \A k \in DOMAIN h : h[k].from \in Agents /\ h[k].to \in Agents
        /\ Moves # {} => \E m \in Moves : /\ \A i \in Moves : i <= m
                                          /\ Len(h) \in DOMAIN h /\ h[Len(h)] = events[m]
    BY <2>1, HandoffList
  <2>3. state.handoffs = h /\ state.currentAgent = current
    BY DEF DeriveCallState, CurrentAgent, Last
  <2>4. diagram.activeAgent = active /\ diagram.visitedAgents = visited
    BY DEF HandoffDiagram, Last
  <2>5. /\ summary.agentsUsed = UNION {{h[k].from, h[k].to} : k \in DOMAIN h}
        /\ summary.journey = IF h = <<>> THEN <<>> ELSE <<h[1].from>> \o [k \in DOMAIN h |-> h[k].to]
    BY DEF Summary
  <2>6. ChainVisited(state) = chain
    BY <2>3 DEF ChainVisited
  <2>7. LitEdges(diagram) =
          {edge \in {<<"greeter", "top_level_qa">>} \cup {<<"top_level_qa", c>> : c \in Claims}
                      \cup {<<c, "summary">> : c \in Claims \cap visited} : edge[2] \in visited}
    BY <2>4 DEF LitEdges, Claims
  <2>8. AgentViewsAgree <=>
          /\ live => diagram.activeAgent = state.currentAgent
          /\ summary.journey # <<>> => Last(summary.journey) = state.currentAgent
          /\ summary.agentsUsed \subseteq ChainVisited(state)
          /\ diagram.visitedAgents \subseteq ChainVisited(state)
          /\ live /\ (ofCall # {} \/ (state.handoffs = <<>> /\ ~cleared)) => state.currentAgent = agent
          /\ \A i \in ofCall :
               /\ {events[i].from, events[i].to} \subseteq diagram.visitedAgents
               /\ <<events[i].from, events[i].to>> \in drawn
                    => <<events[i].from, events[i].to>> \in LitEdges(diagram)
    BY DEF AgentViewsAgree, Moves
  <2> HIDE DEF h, state, diagram, summary
  <2>9. summary.journey # <<>> => Last(summary.journey) = current
    <3> SUFFICES ASSUME h # <<>> PROVE Last(summary.journey) = current
      BY <2>5
    <3> DEFINE a == h[1].from
               tos == [k \in DOMAIN h |-> h[k].to]
    <3>1. Len(h) \in Nat \ {0} /\ DOMAIN h = 1 .. Len(h) /\ Len(h) \in DOMAIN h
      BY <2>2
    <3>2. tos \in Seq(Agents) /\ Len(tos) = Len(h) /\ tos[Len(h)] = h[Len(h)].to
      BY <2>2, <3>1
    <3>3. a \in Agents
      BY <2>2, <3>1
    <3>4. summary.journey = <<a>> \o tos
      BY <2>5
    <3> HIDE DEF a, tos
    <3>5. Len(<<a>> \o tos) = Len(h) + 1 /\ (<<a>> \o tos)[Len(h) + 1] = tos[Len(h)]
      BY <3>1, <3>2, <3>3
    <3> QED BY <3>2, <3>4, <3>5 DEF Last
  <2>10. "greeter" \in Agents /\ Nothing \notin Agents
    BY AgentSet DEF Nothing
  <2>11. summary.agentsUsed \subseteq chain
    BY <2>2, <2>5
  <2>12. visited \subseteq chain
    BY <2>2, <2>10
  <2>13. live => active = current
    OBVIOUS
  <2>14. ofCall # {} => current = agent /\ active = agent
    <3> SUFFICES ASSUME ofCall # {} PROVE current = agent /\ active = agent
      OBVIOUS
    <3>1. PICK m \in Moves : (\A i \in Moves : i <= m) /\ Len(h) \in DOMAIN h /\ h[Len(h)] = events[m]
      BY <2>2
    <3>2. m > since
      <4>1. PICK i \in Moves : i > since
        OBVIOUS
      <4>2. i <= m /\ i \in Nat /\ m \in Nat /\ since \in Nat
        BY <2>1, <3>1 DEF Typed, LogTypeOK, Moves, Indices
      <4> QED BY <4>1, <4>2
    <3>3. events[m].to = agent
      BY <2>1, <3>1, <3>2 DEF Moved
    <3> QED BY <2>2, <3>1, <3>3
  <2>15. live /\ h = <<>> /\ ~cleared => current = agent
    BY <2>1, <2>2 DEF Moved
  <2>16. ASSUME NEW i \in ofCall PROVE events[i].from \in visited /\ events[i].to \in visited
    <3>1. active \in visited /\ active = agent
      BY <2>1, <2>10, <2>14, <2>16
    <3>2. \A j \in Moves : events[j].from \in visited
      BY <2>2
    <3>3. events[i].to = agent \/ \E j \in Moves : events[j].from = events[i].to
      BY <2>1, <2>16 DEF Moved
    <3> QED BY <2>16, <3>1, <3>2, <3>3
  <2> HIDE DEF visited, active, current, chain, ofCall
  <2>17. ASSUME NEW a \in visited, NEW b \in visited, <<a, b>> \in drawn
         PROVE  <<a, b>> \in LitEdges(diagram)
    BY <2>7, <2>17
  <2> HIDE DEF drawn
  <2>18. \A i \in ofCall : <<events[i].from, events[i].to>> \in drawn
           => <<events[i].from, events[i].to>> \in LitEdges(diagram)
    BY <2>16, <2>17
  <2> QED BY <2>3, <2>4, <2>6, <2>8, <2>9, <2>11, <2>12, <2>13, <2>14, <2>15, <2>16, <2>18
<1> QED BY <1>1, LogInvHolds, PTL

(***************************************************************************)
(* The tools: what the switches and the pairings say of the log.           *)
(***************************************************************************)
LEMMA TableIs ==
    ASSUME NEW cases, NEW a, NEW b, <<a, b>> \in cases, \A c \in cases : c[1] = a => c = <<a, b>>
    PROVE  a \in DOMAIN Table(cases) /\ Table(cases)[a] = b
<1>1. (CHOOSE c \in cases : c[1] = a) = <<a, b>>
  OBVIOUS
<1>2. a \in {c[1] : c \in cases}
  OBVIOUS
<1> QED BY <1>1, <1>2 DEF Table

\* A switch has no case for what no case is about.
LEMMA TableHas ==
    ASSUME NEW cases, NEW a, \A c \in cases : c[1] # a
    PROVE  a \notin DOMAIN Table(cases)
BY DEF Table

\* Only one type gives a value that one case has.
LEMMA TableOnly ==
    ASSUME NEW cases, NEW a, NEW b, \A c \in cases : c[2] = b => c[1] = a,
           NEW t \in DOMAIN Table(cases), Table(cases)[t] = b
    PROVE  t = a
<1>1. \E c \in cases : c[1] = t
  BY DEF Table
<1>2. Table(cases)[t] = (CHOOSE c \in cases : c[1] = t)[2]
  BY DEF Table
<1>3. (CHOOSE c \in cases : c[1] = t) \in cases /\ (CHOOSE c \in cases : c[1] = t)[1] = t
  BY <1>1
<1> QED BY <1>2, <1>3

\* What the switches make of a call, of an error, and of a step that pulses.
LEMMA CallCases ==
    /\ "tool.called" \in DOMAIN ChatPhases /\ ChatPhases["tool.called"] = "calling"
    /\ "tool.called" \in DOMAIN ActiveNodes /\ ActiveNodes["tool.called"] = "tools"
    /\ "tool.called" \in DOMAIN HandoffPhases /\ HandoffPhases["tool.called"] = "calling"
    /\ "tool.called" \in DOMAIN StepKinds /\ "tool.result" \in DOMAIN StepKinds
    /\ "error" \notin DOMAIN ChatPhases /\ "error" \notin DOMAIN ActiveNodes
    /\ "error" \notin DOMAIN HandoffPhases
    /\ \A t \in DOMAIN StepKinds : StepKinds[t] = "tool-call" => t = "tool.called"
<1>1. "tool.called" \in DOMAIN ChatPhases /\ ChatPhases["tool.called"] = "calling" /\ "error" \notin DOMAIN ChatPhases
  <2> DEFINE cases == {<<"audio.started", "speaking">>, <<"audio.stopped", "processing">>,
         <<"response.created", "generating">>, <<"tool.called", "calling">>,
         <<"supervisor.exchange", "consulting">>, <<"response.done", "responded">>}
  <2>1. /\ <<"tool.called", "calling">> \in cases
        /\ \A c \in cases : c[1] = "tool.called" => c = <<"tool.called", "calling">>
        /\ \A c \in cases : c[1] # "error"
    OBVIOUS
  <2>2. ChatPhases = Table(cases)
    BY DEF ChatPhases
  <2> HIDE DEF cases
  <2> QED BY <2>1, <2>2, TableIs, TableHas
<1>2. "tool.called" \in DOMAIN ActiveNodes /\ ActiveNodes["tool.called"] = "tools" /\ "error" \notin DOMAIN ActiveNodes
  <2> DEFINE cases == {<<"audio.started", "user">>, <<"response.created", "voice">>,
         <<"tool.called", "tools">>, <<"tool.result", "voice">>,
         <<"supervisor.exchange", "supervisor">>, <<"response.done", "voice">>}
  <2>1. /\ <<"tool.called", "tools">> \in cases
        /\ \A c \in cases : c[1] = "tool.called" => c = <<"tool.called", "tools">>
        /\ \A c \in cases : c[1] # "error"
    OBVIOUS
  <2>2. ActiveNodes = Table(cases)
    BY DEF ActiveNodes
  <2> HIDE DEF cases
  <2> QED BY <2>1, <2>2, TableIs, TableHas
<1>3. "tool.called" \in DOMAIN HandoffPhases /\ HandoffPhases["tool.called"] = "calling" /\ "error" \notin DOMAIN HandoffPhases
  <2> DEFINE cases == {<<"agent.handoff", "active">>, <<"tool.called", "calling">>,
         <<"audio.started", "speaking">>, <<"response.created", "thinking">>,
         <<"response.done", "responded">>}
  <2>1. /\ <<"tool.called", "calling">> \in cases
        /\ \A c \in cases : c[1] = "tool.called" => c = <<"tool.called", "calling">>
        /\ \A c \in cases : c[1] # "error"
    OBVIOUS
  <2>2. HandoffPhases = Table(cases)
    BY DEF HandoffPhases
  <2> HIDE DEF cases
  <2> QED BY <2>1, <2>2, TableIs, TableHas
<1>4. /\ "tool.called" \in DOMAIN StepKinds /\ "tool.result" \in DOMAIN StepKinds
      /\ \A t \in DOMAIN StepKinds : StepKinds[t] = "tool-call" => t = "tool.called"
  <2> DEFINE cases == {<<"audio.started", "user-audio">>, <<"response.created", "thinking">>,
         <<"tool.called", "tool-call">>, <<"tool.result", "tool-result">>,
         <<"supervisor.exchange", "supervisor">>, <<"response.done", "response">>,
         <<"error", "error">>}
  <2>1. /\ <<"tool.called", "tool-call">> \in cases
        /\ \A c \in cases : c[1] = "tool.called" => c = <<"tool.called", "tool-call">>
        /\ <<"tool.result", "tool-result">> \in cases
        /\ \A c \in cases : c[1] = "tool.result" => c = <<"tool.result", "tool-result">>
        /\ \A c \in cases : c[2] = "tool-call" => c[1] = "tool.called"
    OBVIOUS
  <2>2. StepKinds = Table(cases)
    BY DEF StepKinds
  <2> HIDE DEF cases
  <2>3. \A t \in DOMAIN StepKinds : StepKinds[t] = "tool-call" => t = "tool.called"
    BY <2>1, <2>2, TableOnly
  <2> QED BY <2>1, <2>2, <2>3, TableIs
<1> QED BY <1>1, <1>2, <1>3, <1>4

\* The last event of some types is the one that none of them follows.
LEMMA LastOfIs ==
    ASSUME NEW es \in Seq(Event), NEW types, NEW i \in DOMAIN es, es[i].type \in types,
           \A j \in DOMAIN es : j > i => es[j].type \notin types
    PROVE  LastOf(es, types) = i /\ i # 0
<1> DEFINE all == {0} \cup {j \in DOMAIN es : es[j].type \in types}
<1>1. Len(es) \in Nat /\ DOMAIN es = 1 .. Len(es)
  OBVIOUS
<1>2. all \in SUBSET (0 .. Len(es)) /\ i \in all /\ \A j \in all : j \in Nat /\ ~(j > i)
  BY <1>1
<1>3. LastOf(es, types) = Max(all)
  BY DEF LastOf
<1> HIDE DEF all
<1>4. Max(all) \in all /\ i <= Max(all)
  BY <1>1, <1>2, MaxIs
<1>5. \A m : m \in all /\ i <= m => m = i
  BY <1>2
<1>6. Max(all) = i
  BY <1>4, <1>5
<1> QED BY <1>1, <1>3, <1>6

\* ToolViewsAgree, for any number of tool calls, wherever a call ended or the log was cleared
\* between a call and its result: the panels give each result to its own call.
THEOREM ToolsAgree == Spec => []ToolViewsAgree
<1>1. ASSUME LogInv PROVE ToolViewsAgree
  <2> DEFINE calls == ExtractApiCalls(events)
             chat == BuildSteps(events, live)
             diagram == HandoffDiagram(events, live)
             api == Pair(events, FALSE, FALSE)
             shown == OfTypes(events, DOMAIN StepKinds)
             node == LastOf(events, DOMAIN ActiveNodes)
             phase == LastOf(events, DOMAIN ChatPhases)
             last == LastOf(events, DOMAIN HandoffPhases)
             invalid == {j \in Results(events) : events[j].result = "invalid" /\ CalledFor(j) # {}}
             failed == {i \in {p[2] : p \in calls.pairs} :
                          events[i].tool = "validate_answer" /\ events[i].result = "invalid"}
  <2>1. Typed /\ Told /\ Listed /\ Numbered /\ Current /\ Paired /\ events \in Seq(Event)
    BY <1>1 DEF LogInv, Typed, LogTypeOK
  <2>2. calls.pairs = {p \in api.pairs : events[p[1]].tool \in QuestionServiceTools}
    BY DEF ExtractApiCalls
  <2>3. /\ chat.phase = IF phase # 0 THEN ChatPhases[events[phase].type]
                        ELSE IF live THEN "listening" ELSE "idle"
        /\ chat.activeNode = IF node # 0 THEN ActiveNodes[events[node].type]
                             ELSE IF live THEN "voice" ELSE Nothing
        /\ chat.steps = [k \in DOMAIN shown |-> StepKinds[shown[k].type]]
    BY DEF BuildSteps
  <2>4. diagram.phase = IF last # 0 THEN HandoffPhases[events[last].type]
                        ELSE IF live THEN "greeting" ELSE "idle"
    BY DEF HandoffDiagram
  <2>5. ApiStats(events)["validate_answer"].failures = Cardinality(failed)
    <3>1. "validate_answer" \in QuestionServiceTools
      BY DEF QuestionServiceTools
    <3>2. failed = {i \in {j \in {p[2] : p \in calls.pairs} : events[j].tool = "validate_answer"} :
                      events[i].result = "invalid"}
      OBVIOUS
    <3> QED BY <3>1, <3>2 DEF ApiStats
  <2>6. /\ ComputeSpans(events).pairs = OwnPairs /\ ComputeToolSpans(events).pairs = OwnPairs
        /\ \A p \in api.pairs : p[1] \in Called(events) /\ events[p[1]].tool = events[p[2]].tool
        /\ {p[2] : p \in api.pairs} = Expected
        /\ Lost = {} => api.pairs = OwnPairs
    BY <2>1 DEF Paired
  <2>7. ToolViewsAgree <=>
          /\ ComputeSpans(events).pairs = OwnPairs
          /\ ComputeToolSpans(events).pairs = OwnPairs
          /\ Lost = {} => calls.pairs = {p \in OwnPairs : events[p[1]].tool \in QuestionServiceTools}
          /\ ApiStats(events)["validate_answer"].failures = Cardinality(invalid)
          /\ RunningCall # {} => chat.phase = "calling" /\ chat.activeNode = "tools" /\ diagram.phase = "calling"
          /\ Pulsing(chat.steps) = "tool-call" => Running \/ Lost # {}
    BY DEF ToolViewsAgree
  <2> HIDE DEF calls, chat, diagram, api
  <2>8. failed = invalid
    <3>1. invalid = {j \in Expected : events[j].result = "invalid"}
      BY DEF Expected
    <3>2. \A j \in Expected : events[j].result = "invalid" => events[j].tool = "validate_answer"
      BY <2>1 DEF Expected, Told
    <3>3. \A j \in Expected : events[j].tool = "validate_answer" => \E p \in calls.pairs : p[2] = j
      BY <2>2, <2>6 DEF QuestionServiceTools
    <3>4. \A p \in calls.pairs : p[2] \in Expected
      BY <2>2, <2>6
    <3> HIDE DEF invalid
    <3> QED BY <3>1, <3>2, <3>3, <3>4
  <2> HIDE DEF failed, invalid, node, phase, last
  <2>9. ASSUME RunningCall # {}
        PROVE  chat.phase = "calling" /\ chat.activeNode = "tools" /\ diagram.phase = "calling"
    <3>1. PICK i \in RunningCall : \A j \in DOMAIN events : j > i => events[j].type = "error"
      BY <2>1, <2>9 DEF Current, RunningCall
    <3>2. i \in DOMAIN events /\ events[i].type = "tool.called"
      BY <3>1 DEF RunningCall, Called, Indices
    <3>3. phase = i /\ node = i /\ last = i /\ i # 0
      BY <2>1, <3>1, <3>2, CallCases, LastOfIs DEF phase, node, last
    <3> QED BY <2>3, <2>4, <3>2, <3>3, CallCases
  <2>10. ASSUME Pulsing(chat.steps) = "tool-call" PROVE Running \/ Lost # {}
    <3>1. Lists(shown, events, DOMAIN StepKinds)
      BY <2>1 DEF Listed
    <3> HIDE DEF shown
    <3> DEFINE I == {i \in DOMAIN events : events[i].type \in DOMAIN StepKinds}
    <3>2. /\ shown \in Seq(Event)
          /\ {shown[k] : k \in DOMAIN shown} = {events[i] : i \in I}
          /\ \A i \in I : (\A j \in I : j <= i) => shown[Len(shown)] = events[i]
      BY <3>1 DEF Lists
    <3>3. chat.steps # <<>> /\ chat.steps[Len(chat.steps)] = "tool-call"
      BY <2>10 DEF Pulsing, Last, Nothing
    <3>4. shown # <<>> /\ Len(chat.steps) = Len(shown) /\ Len(shown) \in DOMAIN shown
      BY <2>3, <3>2, <3>3
    <3>5. StepKinds[shown[Len(shown)].type] = "tool-call"
      BY <2>3, <3>3, <3>4
    <3>6. I # {} /\ I \in SUBSET (0 .. Len(events)) /\ Len(events) \in Nat
      BY <2>1, <3>2, <3>4
    <3>7. PICK m \in I : \A i \in I : i <= m
      BY <3>6, MaxIs
    <3>8. shown[Len(shown)] = events[m] /\ events[m].type \in DOMAIN StepKinds
      BY <3>2, <3>7
    <3>9. m \in Called(events)
      BY <3>5, <3>7, <3>8, CallCases DEF Called, Indices
    <3>10. \A j \in Results(events) : j \in I
      BY CallCases DEF Results, Indices
    <3>11. \A j \in Results(events) : j <= m /\ j \in Int /\ m \in Int
      BY <3>6, <3>7, <3>10
    <3> HIDE DEF I
    <3>12. ResultFor(m) = {}
      BY <2>1, <3>9, <3>11 DEF ResultFor, Numbered
    <3>13. ~Running => m \in Lost
      BY <3>9, <3>12 DEF Lost, RunningCall
    <3> QED BY <3>13
  <2>11. Lost = {} => calls.pairs = {p \in OwnPairs : events[p[1]].tool \in QuestionServiceTools}
    BY <2>2, <2>6
  <2> QED BY <2>5, <2>6, <2>7, <2>8, <2>9, <2>10, <2>11
<1> QED BY <1>1, LogInvHolds, PTL

(***************************************************************************)
(* The fields: what they add up to and where they are shown.               *)
(***************************************************************************)
LEMMA Rounded ==
    ASSUME NEW f \in Nat, NEW v \in Nat, f > 0, v <= f, f < 200
    PROVE  (200 * v + f) \div (2 * f) = 100 <=> v = f
OBVIOUS

\* The divisor of progress.
LEMMA MaxOfOne == Max({1, 0}) = 1 /\ \A f \in Nat : f > 0 => Max({1, f}) = f
<1>1. ASSUME NEW f \in Nat PROVE Max({1, f}) \in {1, f} /\ 1 <= Max({1, f}) /\ f <= Max({1, f})
  <2> DEFINE both == {1, f}
  <2>1. f + 1 \in Nat /\ both \in SUBSET (0 .. f + 1) /\ both # {} /\ 1 \in both /\ f \in both
    OBVIOUS
  <2> HIDE DEF both
  <2>2. Max(both) \in both /\ \A i \in both : i <= Max(both)
    BY <2>1, MaxIs
  <2>3. Max(both) \in both /\ 1 <= Max(both) /\ f <= Max(both)
    BY <2>1, <2>2
  <2> QED BY <2>3 DEF both
<1>2. \A f \in Nat : \A m : m \in {1, f} /\ 1 <= m /\ f <= m => m = IF f = 0 THEN 1 ELSE f
  OBVIOUS
<1> QED BY <1>1, <1>2

\* Progress is full when all fields are.
LEMMA ProgressFull ==
    ASSUME NEW data \in CollectedData, Fields(data) \subseteq Questions, Fields(data) # {}
    PROVE  Progress(data) = 100 <=> Validated(data) = Fields(data)
<1> DEFINE f == Cardinality(Fields(data))
           v == Cardinality(Validated(data))
<1>1. Validated(data) \subseteq Fields(data)
  BY DEF Validated, Fields
<1>2. IsFiniteSet(Questions) /\ Cardinality(Questions) < 200 /\ Cardinality(Questions) \in Nat
  BY CatalogueAssumption, FS_CardinalityType
<1>3. IsFiniteSet(Fields(data)) /\ f <= Cardinality(Questions)
  BY <1>2, FS_Subset
<1>4. IsFiniteSet(Validated(data)) /\ v <= f /\ (v = f => Validated(data) = Fields(data))
  BY <1>1, <1>3, FS_Subset
<1>5. f \in Nat /\ v \in Nat
  BY <1>3, <1>4, FS_CardinalityType
<1>6. f # 0
  BY <1>3, FS_EmptySet
<1>7. Validated(data) = Fields(data) => v = f
  OBVIOUS
<1>8. Progress(data) = (200 * v + Max({1, f})) \div (2 * Max({1, f}))
  BY DEF Progress
<1> HIDE DEF f, v
<1>9. Max({1, f}) = f
  BY <1>5, <1>6, MaxOfOne
<1>10. Progress(data) = (200 * v + f) \div (2 * f)
  BY <1>8, <1>9
<1>11. Progress(data) = 100 <=> v = f
  BY <1>2, <1>3, <1>4, <1>5, <1>6, <1>10, Rounded
<1> QED BY <1>4, <1>7, <1>11

\* The cells of the grid.
Categories == {"date", "contact", "vehicle", "location", "policy", "description"}

\* Every field has one.
LEMMA CategoryIs == \A q : Category(q) \in Categories
<1> SUFFICES ASSUME NEW q PROVE Category(q) \in Categories
  OBVIOUS
<1> DEFINE hits == {k \in DOMAIN WordLists : Words[q] \cap WordLists[k][2] # {}}
<1>1. DOMAIN WordLists = 1 .. 5 /\ \A k \in 1 .. 5 : WordLists[k][1] \in Categories
  BY DEF WordLists, Categories
<1>2. Category(q) = IF hits = {} THEN "description" ELSE WordLists[Min(hits)][1]
  BY DEF Category
<1>3. hits \in SUBSET (0 .. 5) /\ hits \subseteq 1 .. 5
  BY <1>1
<1> HIDE DEF hits
<1>4. hits # {} => Min(hits) \in hits
  BY <1>3, MinIs
<1> QED BY <1>1, <1>2, <1>3, <1>4 DEF Categories

\* A field with an answer is in a cell of the grid; so is a place.
LEMMA ShownInCell ==
    ASSUME NEW data \in CollectedData, NEW q \in Questions, q \in Fields(data),
           data.fields[q].value # Nothing,
           Words[q] \cap LocationWords # {} => data.location # Nothing
    PROVE  /\ AppModeView(data).progress = Progress(data)
           /\ q \in UNION {AppModeView(data).cells[c] : c \in DOMAIN AppModeView(data).cells}
<1> DEFINE fields == CategorizeFields(data)
           shown(c) == CASE c = "policy"   -> fields[c] # {} \/ data.claimType # Nothing
                         [] c = "location" -> fields[c] # {} /\ data.location # Nothing
                         [] OTHER          -> fields[c] # {}
           grid == DataGrid(data)
           c0 == Category(q)
<1>1. AppModeView(data).progress = Progress(data) /\ AppModeView(data).cells = grid
  BY DEF AppModeView
<1>2. DOMAIN fields = Categories /\ c0 \in Categories /\ q \in fields[c0]
  BY CategoryIs DEF CategorizeFields, Categories
<1>3. c0 = "location" => data.location # Nothing
  BY CatalogueAssumption
<1>4. grid = [c \in {k \in DOMAIN fields : shown(k)} |-> fields[c]]
  BY DEF DataGrid
<1> HIDE DEF fields, grid, c0
<1>5. shown(c0)
  BY <1>2, <1>3
<1> HIDE DEF shown
<1>6. c0 \in DOMAIN grid /\ grid[c0] = fields[c0]
  BY <1>2, <1>4, <1>5
<1> QED BY <1>1, <1>2, <1>6

\* The last answer to a question.
LEMMA LatestMax ==
    ASSUME NEW es \in Seq(Event), NEW q, Replies(es, q) # {}
    PROVE  Max(Replies(es, q)) \in Replies(es, q) /\ Latest(es, q) = {Max(Replies(es, q))}
<1>1. Len(es) \in Nat /\ Replies(es, q) \in SUBSET (0 .. Len(es))
  BY DEF Replies, Called, Indices
<1>2. PICK i \in Replies(es, q) : Latest(es, q) = {i}
  BY LatestIs
<1>3. Max(Replies(es, q)) \in Replies(es, q) /\ \A k \in Replies(es, q) : k <= Max(Replies(es, q))
  BY <1>1, MaxIs
<1>4. Max(Replies(es, q)) \in Latest(es, q)
  BY <1>3 DEF Latest
<1> QED BY <1>2, <1>3, <1>4

\* When all is smooth and no tool runs, every answer was accepted.
LEMMA SmoothAccepted ==
    ASSUME Typed, Told, Numbered, ~Running, Smooth, NEW q \in Questions, NEW i \in Replies(events, q)
    PROVE  i \in Accepted
<1>1. i \in Called(events) /\ events[i].question = q /\ Nothing \notin Questions
  BY CallLogAssumption DEF Replies
<1>2. events[i].tool = "validate_answer"
  BY <1>1 DEF Told
<1>3. RunningCall = {}
  BY DEF RunningCall
<1>4. ResultFor(i) # {}
  BY <1>1, <1>3 DEF Smooth, Lost
<1>5. PICK j \in Results(events) : Own(i, j)
  BY <1>4 DEF ResultFor
<1>6. j \in Checks
  BY <1>1, <1>2, <1>5 DEF Numbered, Checks
<1>7. events[j].result = "valid" /\ j \in ResultFor(i)
  BY <1>5, <1>6 DEF Smooth, ResultFor
<1> QED BY <1>1, <1>7 DEF Accepted

\* FieldsSound, for any questions CatalogueAssumption allows: a field is validated when its
\* last answer was, progress is full when all are, and no answer is missing from the grid.
THEOREM FieldsTruthful == Spec => []FieldsSound
<1>1. ASSUME LogInv PROVE FieldsSound
  <2> DEFINE data == ExtractCollectedData(events)
             app == AppModeView(data)
             panel == CollectedFields(events)
             smooth == /\ Lost = {} /\ ~Running
                       /\ \A j \in Checks : events[j].result = "valid" /\ CalledFor(j) # {}
                       /\ \A q \in Answered : Cardinality(Replies(events, q)) = 1
             accepted(i) == \/ \E j \in ResultFor(i) : events[j].result = "valid"
                            \/ \E j \in Results(events) : j > i /\ events[j].tool = "submit_claim_data"
  <2>1. Typed /\ Told /\ Numbered /\ Filled /\ Marked /\ events \in Seq(Event)
    BY <1>1 DEF LogInv, Typed, LogTypeOK
  <2>2. /\ data \in CollectedData /\ Fields(data) \subseteq Questions
        /\ \A q \in Questions \ Answered :
             data.fields[q].status \in {"none", "asked"} /\ data.fields[q].value = Nothing
        /\ \A q \in Answered :
             /\ data.fields[q].value # Nothing
             /\ \A i \in Latest(events, q) :
                  data.fields[q].status = IF i \in Accepted THEN "validated" ELSE "answered"
             /\ Words[q] \cap LocationWords # {} => data.location # Nothing
    BY <2>1 DEF Filled, FilledBy
  <2>3. Answered \subseteq Questions /\ Answered \subseteq Fields(data) /\ Questions \subseteq DOMAIN Words
    BY <2>1, AnsweredFields, CallLogAssumption
  <2>4. FieldsSound <=>
          /\ Validated(data) = {q \in Answered : accepted(Max(Replies(events, q)))}
          /\ \A q \in Fields(data) : data.fields[q].status = "asked" <=> q \notin Answered
          /\ app.progress = 100 <=> (Answered # {} /\ Validated(data) = Fields(data))
          /\ Answered \subseteq UNION {app.cells[c] : c \in DOMAIN app.cells}
          /\ smooth => {panel[k].questionId : k \in {x \in DOMAIN panel : panel[x].valid}} = Validated(data)
    BY DEF FieldsSound, Replies, Answered, Checks
  <2> HIDE DEF data, panel, smooth
  <2>5. \A q \in Answered : /\ Max(Replies(events, q)) \in Called(events)
                            /\ Latest(events, q) = {Max(Replies(events, q))}
    BY <2>1, LatestMax DEF Answered, Replies
  <2>6. \A i \in Called(events) : accepted(i) <=> i \in Accepted
    BY DEF Accepted
  <2> HIDE DEF accepted
  <2>7. \A q \in Answered :
          data.fields[q].status = IF accepted(Max(Replies(events, q))) THEN "validated" ELSE "answered"
    BY <2>2, <2>5, <2>6
  <2>8. \A q \in Validated(data) : q \in Answered
    BY <2>2 DEF Validated, Fields
  <2>9. Validated(data) = {q \in Answered : accepted(Max(Replies(events, q)))}
    BY <2>3, <2>7, <2>8 DEF Validated
  <2>10. \A q \in Fields(data) : data.fields[q].status = "asked" <=> q \notin Answered
    BY <2>2, <2>7 DEF Fields
  <2>11. app.progress = 100 <=> (Answered # {} /\ Validated(data) = Fields(data))
    <3>1. CASE Answered = {}
      <4>1. \A q \in Fields(data) : data.fields[q].value = Nothing
        BY <2>2, <3>1
      <4>2. app.progress = 0
        BY <4>1 DEF AppModeView
      <4> QED BY <3>1, <4>2
    <3>2. CASE Answered # {}
      <4>1. PICK q \in Answered : TRUE
        BY <3>2
      <4>2. app.progress = Progress(data)
        BY <2>2, <2>3, <4>1, ShownInCell
      <4>3. Progress(data) = 100 <=> Validated(data) = Fields(data)
        BY <2>2, <2>3, <4>1, ProgressFull
      <4> QED BY <3>2, <4>2, <4>3
    <3> QED BY <3>1, <3>2
  <2>12. Answered \subseteq UNION {app.cells[c] : c \in DOMAIN app.cells}
    BY <2>2, <2>3, ShownInCell
  <2>13. ASSUME smooth PROVE {panel[k].questionId : k \in {x \in DOMAIN panel : panel[x].valid}} = Validated(data)
    <3>1. Smooth /\ ~Running
      <4>1. \A q \in Answered : \A i, k \in Replies(events, q) : i = k
        <5> SUFFICES ASSUME NEW q \in Answered, NEW i \in Replies(events, q), NEW k \in Replies(events, q)
                     PROVE  i = k
          OBVIOUS
        <5>1. Replies(events, q) \in SUBSET Nat /\ Len(events) \in Nat /\ \A s \in Replies(events, q) : s <= Len(events)
          BY <2>1 DEF Replies, Called, Indices
        <5>2. IsFiniteSet(Replies(events, q)) /\ Cardinality(Replies(events, q)) = 1
          BY <2>13, <5>1, FS_BoundedSetOfNaturals DEF smooth
        <5>3. \E x : Replies(events, q) = {x}
          BY <5>2, FS_Singleton
        <5> QED BY <5>3
      <4>2. \A i \in Called(events) : events[i].question # Nothing =>
              events[i].question \in Answered /\ i \in Replies(events, events[i].question)
        BY <2>1 DEF Told, Answered, Replies
      <4>3. \A i, k \in Called(events) :
              events[i].question = events[k].question /\ events[i].question # Nothing => i = k
        BY <4>1, <4>2
      <4>4. \A j \in Checks : events[j].result = "valid" /\ j \in Expected
        BY <2>13 DEF smooth, Checks, Expected
      <4> QED BY <2>13, <4>3, <4>4 DEF smooth, Smooth
    <3>2. RunningQuestion = {}
      BY <3>1 DEF RunningQuestion, RunningCall
    <3>3. MarkedBy(panel, Answered, {})
      BY <2>1, <3>1, <3>2 DEF Marked, panel
    <3>4. {panel[k].questionId : k \in {x \in DOMAIN panel : panel[x].valid}} = Answered
      BY <3>3 DEF MarkedBy
    <3>5. \A q \in Answered : q \in Validated(data)
      <4> SUFFICES ASSUME NEW q \in Answered PROVE q \in Validated(data)
        OBVIOUS
      <4>1. Max(Replies(events, q)) \in Replies(events, q) /\ q \in Questions
        BY <2>1, <2>3, LatestMax DEF Answered
      <4>2. Max(Replies(events, q)) \in Accepted
        BY <2>1, <3>1, <4>1, SmoothAccepted
      <4>3. data.fields[q].status = "validated"
        BY <2>5, <2>6, <2>7, <4>2
      <4> QED BY <2>3, <4>1, <4>3 DEF Validated
    <3> QED BY <2>8, <3>4, <3>5
  <2> QED BY <2>4, <2>9, <2>10, <2>11, <2>12, <2>13
<1> QED BY <1>1, LogInvHolds, PTL
====
