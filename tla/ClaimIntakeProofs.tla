-------------------------- MODULE ClaimIntakeProofs --------------------------
(***************************************************************************)
(* Proofs about ClaimIntake, for any catalogue, any ids and answers a model *)
(* gives and any number of tool calls.  The log only grows, so that what is *)
(* said of its results stays true; each step adds at most one of them.      *)
(***************************************************************************)
EXTENDS ClaimIntake, TLAPS

\* The log of the next state is this one and more.
Grows ==
  /\ Len(log) \in Nat /\ Len(log') \in Nat /\ Len(log) <= Len(log')
  /\ DOMAIN log = 1 .. Len(log) /\ DOMAIN log' = 1 .. Len(log')
  /\ \A i \in DOMAIN log : log'[i] = log[i]

\* A sequence is one over its own elements.
LEMMA OverItsElements == ASSUME NEW S, NEW s \in Seq(S) PROVE IsSeq(s)
<1> DEFINE R == {s[i] : i \in DOMAIN s}
<1>1. Len(s) \in Nat /\ DOMAIN s = 1 .. Len(s) /\ s = [i \in 1 .. Len(s) |-> s[i]]
  OBVIOUS
<1>2. \A i \in 1 .. Len(s) : s[i] \in R
  BY <1>1
<1> HIDE DEF R
<1>3. s \in [1 .. Len(s) -> R]
  BY <1>1, <1>2
<1>4. s \in Seq(R)
  BY <1>1, <1>3
<1> QED BY <1>4 DEF R, IsSeq

\* What a concatenation and an Append are made of.
LEMMA Extended ==
  ASSUME NEW s, NEW t, IsSeq(s), IsSeq(t)
  PROVE  /\ IsSeq(s \o t)
         /\ Len(s) \in Nat /\ Len(t) \in Nat /\ Len(s \o t) = Len(s) + Len(t)
         /\ DOMAIN s = 1 .. Len(s) /\ DOMAIN (s \o t) = 1 .. Len(s) + Len(t)
         /\ \A i \in 1 .. Len(s) : (s \o t)[i] = s[i]
         /\ \A i \in 1 .. Len(t) : (s \o t)[Len(s) + i] = t[i]
<1> DEFINE S == {s[i] : i \in DOMAIN s} \cup {t[i] : i \in DOMAIN t}
<1>1. s \in Seq(S) /\ t \in Seq(S)
  BY DEF IsSeq
<1> HIDE DEF S
<1>2. /\ Len(s) \in Nat /\ Len(t) \in Nat /\ Len(s \o t) = Len(s) + Len(t)
      /\ DOMAIN s = 1 .. Len(s) /\ DOMAIN (s \o t) = 1 .. Len(s) + Len(t)
      /\ \A i \in 1 .. Len(s) : (s \o t)[i] = s[i]
      /\ \A i \in 1 .. Len(t) : (s \o t)[Len(s) + i] = t[i]
      /\ s \o t \in Seq(S)
  BY <1>1
<1>3. IsSeq(s \o t)
  BY <1>2, OverItsElements
<1> QED BY <1>2, <1>3

LEMMA Appended ==
  ASSUME NEW s, NEW e, IsSeq(s)
  PROVE  /\ IsSeq(Append(s, e))
         /\ Len(s) \in Nat /\ Len(Append(s, e)) = Len(s) + 1
         /\ DOMAIN s = 1 .. Len(s) /\ DOMAIN Append(s, e) = 1 .. Len(s) + 1
         /\ \A i \in 1 .. Len(s) : Append(s, e)[i] = s[i]
         /\ Append(s, e)[Len(s) + 1] = e
<1> DEFINE S == {s[i] : i \in DOMAIN s} \cup {e}
<1>1. s \in Seq(S) /\ e \in S
  BY DEF IsSeq
<1> HIDE DEF S
<1>2. /\ Len(s) \in Nat /\ Len(Append(s, e)) = Len(s) + 1
      /\ DOMAIN s = 1 .. Len(s) /\ DOMAIN Append(s, e) = 1 .. Len(s) + 1
      /\ \A i \in 1 .. Len(s) : Append(s, e)[i] = s[i]
      /\ Append(s, e)[Len(s) + 1] = e
      /\ Append(s, e) \in Seq(S)
  BY <1>1
<1>3. IsSeq(Append(s, e))
  BY <1>2, OverItsElements
<1> QED BY <1>2, <1>3

\* What results the log had, it has.
LEMMA PastStays ==
  ASSUME Grows
  PROVE  /\ \A i \in DOMAIN log : Accepts(i)' = Accepts(i)
         /\ \A n \in 1 .. Len(log) + 1 : AcceptedBefore(n)' = AcceptedBefore(n)
<1>1. \A i \in DOMAIN log : Accepts(i)' = Accepts(i)
  BY DEF Grows, Accepts
<1>2. ASSUME NEW n \in 1 .. Len(log) + 1
      PROVE  AcceptedBefore(n)' = AcceptedBefore(n)
  <2>1. \A i \in 1 .. n - 1 : i \in DOMAIN log
    BY DEF Grows
  <2>2. \A i \in 1 .. n - 1 : log'[i] = log[i] /\ (Accepts(i)' <=> Accepts(i))
    BY <1>1, <2>1 DEF Grows
  <2> QED BY <2>2 DEF AcceptedBefore
<1> QED BY <1>1, <1>2

\* What a tool puts out, and what the log was before.
LEMMA ResultAdded ==
  ASSUME LogInv, pc \in {"service", "supervisor", "submit"}, NEW body, Return(body)
  PROVE  /\ Grows /\ Len(log') = Len(log) + 1 /\ IsSeq(log') /\ pending = <<>>
         /\ log'[Len(log) + 1] = Entry("tool.result", body)
         /\ pattern' = pattern /\ call' = call /\ pc' = "send"
<1>1. log' = Append(log, Entry("tool.result", body)) /\ IsSeq(log)
  BY DEF Return, LogInv
<1>2. pending = <<>>
  BY DEF LogInv
<1> HIDE DEF Entry
<1> QED BY <1>1, <1>2, Appended DEF Return, Grows

\* The new results of a step that accepts nothing leave what is collected.
LEMMA CollectedStays ==
  ASSUME CollectedAsShown, Grows, collected' = collected,
         \A i \in DOMAIN log' : i > Len(log) => ~Accepts(i)'
  PROVE  CollectedAsShown'
<1>1. AcceptedBefore(Len(log) + 1)' = AcceptedBefore(Len(log) + 1)
  <2>1. \A i \in 1 .. Len(log') : i \in DOMAIN log \/ ~Accepts(i)'
    BY DEF Grows
  <2>2. \A i \in 1 .. Len(log) : log'[i] = log[i] /\ (Accepts(i)' <=> Accepts(i))
    BY PastStays DEF Grows
  <2>3. \A id : id \in AcceptedBefore(Len(log) + 1)' <=>
                  \E i \in 1 .. Len(log') : Accepts(i)' /\ log'[i].args.id = id
    BY DEF AcceptedBefore, Grows
  <2>4. \A id : id \in AcceptedBefore(Len(log) + 1) <=>
                  \E i \in 1 .. Len(log) : Accepts(i) /\ log[i].args.id = id
    BY DEF AcceptedBefore, Grows
  <2>5. \A id : id \in AcceptedBefore(Len(log) + 1)' <=> id \in AcceptedBefore(Len(log) + 1)
    BY <2>1, <2>2, <2>3, <2>4 DEF Grows
  <2> QED BY <2>5
<1>3. ASSUME NEW id \in DOMAIN collected
      PROVE  \E i \in DOMAIN log' :
               /\ Accepts(i)' /\ log'[i].args.id = id /\ log'[i].args.answer = collected[id]
               /\ \A j \in DOMAIN log' : j > i /\ Accepts(j)' => log'[j].args.id # id
  <2>1. PICK i \in DOMAIN log :
               /\ Accepts(i) /\ log[i].args.id = id /\ log[i].args.answer = collected[id]
               /\ \A j \in DOMAIN log : j > i /\ Accepts(j) => log[j].args.id # id
    BY <1>3 DEF CollectedAsShown
  <2> QED BY <2>1, PastStays DEF Grows
<1> QED BY <1>1, <1>3 DEF CollectedAsShown

\* A step that accepts an answer records it.
LEMMA CollectedGrows ==
  ASSUME CollectedAsShown, Grows, Len(log') = Len(log) + 1,
         Accepts(Len(log))', log'[Len(log')].args = call.args, RecordAnswer
  PROVE  CollectedAsShown'
<1>0. PICK n \in Nat :
        /\ n = Len(log') /\ DOMAIN log' = 1 .. n /\ n \in DOMAIN log'
        /\ DOMAIN log = 1 .. n - 1 /\ \A i \in DOMAIN log' : i = n \/ i \in DOMAIN log
  BY DEF Grows
<1>a. \A i \in DOMAIN log : log'[i] = log[i] /\ (Accepts(i)' <=> Accepts(i))
  BY PastStays DEF Grows
<1>b. Accepts(n)' /\ log'[n].args = call.args
  BY <1>0 DEF Accepts
<1>c. /\ DOMAIN collected' = DOMAIN collected \cup {call.args.id}
      /\ collected'[call.args.id] = call.args.answer
      /\ \A id \in DOMAIN collected : id # call.args.id => collected'[id] = collected[id]
  BY DEF RecordAnswer
<1>1. DOMAIN collected' = AcceptedBefore(Len(log) + 1)'
  <2>1. \A id : id \in AcceptedBefore(Len(log) + 1)' <=>
                  \E i \in DOMAIN log' : Accepts(i)' /\ log'[i].args.id = id
    BY <1>0 DEF AcceptedBefore
  <2>2. \A id : id \in AcceptedBefore(Len(log) + 1) <=>
                  \E i \in DOMAIN log : Accepts(i) /\ log[i].args.id = id
    BY DEF AcceptedBefore, Grows
  <2>3. \A id : (\E i \in DOMAIN log' : Accepts(i)' /\ log'[i].args.id = id)
                  <=> (\E i \in DOMAIN log : Accepts(i) /\ log[i].args.id = id) \/ id = call.args.id
    <3>1. \A i \in DOMAIN log : i \in DOMAIN log'
      BY <1>0
    <3> QED BY <3>1, <1>0, <1>a, <1>b
  <2>4. DOMAIN collected = AcceptedBefore(Len(log) + 1)
    BY DEF CollectedAsShown
  <2>5. \A id : id \in DOMAIN collected' <=> id \in AcceptedBefore(Len(log) + 1)'
    BY <2>1, <2>2, <2>3, <2>4, <1>c
  <2> QED BY <2>5, <1>c
<1>2. ASSUME NEW id \in DOMAIN collected'
      PROVE  \E i \in DOMAIN log' :
               /\ Accepts(i)' /\ log'[i].args.id = id /\ log'[i].args.answer = collected'[id]
               /\ \A j \in DOMAIN log' : j > i /\ Accepts(j)' => log'[j].args.id # id
  <2>1. CASE id = call.args.id
    <3>1. \A j \in DOMAIN log' : ~(j > n)
      BY <1>0
    <3> QED BY <2>1, <3>1, <1>0, <1>b, <1>c
  <2>2. CASE id # call.args.id
    <3>1. PICK i \in DOMAIN log :
               /\ Accepts(i) /\ log[i].args.id = id /\ log[i].args.answer = collected[id]
               /\ \A j \in DOMAIN log : j > i /\ Accepts(j) => log[j].args.id # id
      BY <1>2, <1>c, <2>2 DEF CollectedAsShown
    <3> QED BY <1>0, <1>a, <1>b, <1>c, <2>2, <3>1
  <2> QED BY <2>1, <2>2
<1> QED BY <1>1, <1>2 DEF CollectedAsShown

\* The offers made are still what they were when the log grows.
LEMMA OffersStay ==
  ASSUME OffersTheMissing, Grows, pattern' = pattern,
         \A i \in DOMAIN log' :
           i > Len(log) /\ log'[i].body.kind = "questions" =>
             log'[i].body = Offer(Missing(BranchQuestions(log'[i].args.claimType),
                                          AcceptedBefore(i)'), Slice)
  PROVE  OffersTheMissing'
<1>1. Slice' = Slice
  BY DEF Slice, Supervised
<1>2. ASSUME NEW i \in DOMAIN log', log'[i].body.kind = "questions"
      PROVE  log'[i].body = Offer(Missing(BranchQuestions(log'[i].args.claimType),
                                          AcceptedBefore(i)'), Slice)
  <2>1. CASE i \in DOMAIN log
    <3>1. log'[i] = log[i] /\ AcceptedBefore(i)' = AcceptedBefore(i)
      BY <2>1, PastStays DEF Grows
    <3>2. log[i].body = Offer(Missing(BranchQuestions(log[i].args.claimType),
                                      AcceptedBefore(i)), Slice)
      BY <1>2, <2>1, <3>1 DEF OffersTheMissing
    <3> QED BY <3>1, <3>2
  <2>2. CASE i \notin DOMAIN log
    BY <1>2, <2>2 DEF Grows
  <2> QED BY <2>1, <2>2
<1>3. ASSUME NEW i \in DOMAIN log', log'[i].body.kind = "questions"
      PROVE  log'[i].body = Offer(Missing(BranchQuestions(log[i].args.claimType),
                                          AcceptedBefore(i)), Slice)'
  BY <1>1, <1>2, <1>3
<1> QED BY <1>3 DEF OffersTheMissing

\* A step that puts nothing out changes nothing of what was said.
LEMMA Silent ==
  ASSUME IntakeInv, UNCHANGED <<pattern, collected, pending, log>>,
         pending # <<>> => pc' \in {"send", "done"}
  PROVE  LogInv' /\ AsksWhatIsMissing' /\ VerdictsExplained'
<1> USE DEF IntakeInv
<1>1. LogInv'
  BY DEF LogInv, IsSeq
<1>2. CollectedAsShown'
  BY DEF AsksWhatIsMissing, CollectedAsShown, AcceptedBefore, Accepts
<1>3. Grows
  <2>1. IsSeq(log)
    BY DEF LogInv
  <2> QED BY <2>1, Appended DEF Grows
<1>4. OffersTheMissing'
  BY <1>3, OffersStay DEF AsksWhatIsMissing, Grows
<1>5. VerdictsExplained'
  BY DEF VerdictsExplained, Accepts, Consulted
<1> QED BY <1>1, <1>2, <1>4, <1>5 DEF AsksWhatIsMissing

\* A result is put out: what is said of the results before it stays, and what
\* is said of it is up to the step.
LEMMA ResultExplained ==
  ASSUME LogInv, VerdictsExplained, pc \in {"service", "supervisor", "submit"},
         NEW body, Return(body),
         body.kind = "accepted" =>
           OnMerit(call.args) \/ (pending' # <<>> /\ pending'[1].nr = Returned + 1),
         body.kind = "refused" => Named(call.args.id) = {} \/ ~OnMerit(call.args)
  PROVE  VerdictsExplained'
<1> DEFINE e == Entry("tool.result", body)
<1>1. PICK n \in Nat :
        /\ Len(log) = n /\ Len(log') = n + 1 /\ DOMAIN log = 1 .. n /\ DOMAIN log' = 1 .. n + 1
        /\ \A i \in 1 .. n : log'[i] = log[i]
        /\ log'[n + 1] = e /\ pending = <<>>
  BY ResultAdded DEF Grows
<1>2. e.type = "tool.result" /\ e.args = call.args /\ e.body = body /\ e.nr = Returned + 1
  BY DEF Entry
<1> HIDE DEF e
<1>3. \A i \in 1 .. n : /\ Accepts(i)' <=> Accepts(i)
                        /\ Consulted(i) => Consulted(i)'
  <2> SUFFICES ASSUME NEW i \in 1 .. n
               PROVE  (Accepts(i)' <=> Accepts(i)) /\ (Consulted(i) => Consulted(i)')
    OBVIOUS
  <2>1. Accepts(i)' <=> Accepts(i)
    BY <1>1 DEF Accepts
  <2>2. Consulted(i) => \E j \in 1 .. n : log[j].type = "supervisor.exchange" /\ log[j].nr = log[i].nr
    BY <1>1 DEF Consulted
  <2> QED BY <1>1, <2>1, <2>2 DEF Consulted
<1>4. Accepts(n + 1)' => OnMerit(log'[n + 1].args) \/ Consulted(n + 1)'
  BY <1>1, <1>2 DEF Accepts, Consulted
<1>5. ASSUME NEW i \in DOMAIN log'
      PROVE  /\ Accepts(i)' => OnMerit(log'[i].args) \/ Consulted(i)'
             /\ log'[i].body.kind = "refused" =>
                  Named(log'[i].args.id) = {} \/ ~OnMerit(log'[i].args)
             /\ log'[i].type = "supervisor.exchange" =>
                  \E j \in DOMAIN log' : /\ log'[j].type = "tool.result" /\ log'[j].nr = log'[i].nr
                                        /\ log'[j].tool = log'[i].tool
  <2>1. CASE i = n + 1
    BY <1>1, <1>2, <1>4, <2>1
  <2>2. CASE i \in 1 .. n
    BY <1>1, <1>3, <2>2 DEF VerdictsExplained
  <2> QED BY <1>1, <2>1, <2>2
<1> QED BY <1>5 DEF VerdictsExplained

\* Events that waited for the output to be sent are put out behind the result.
LEMMA SendKeeps == ASSUME IntakeInv, SendOutput PROVE IntakeInv'
<1> USE DEF IntakeInv
<1>1. PICK n \in Nat, m \in Nat :
        /\ Len(log) = n /\ Len(pending) = m /\ m <= 1 /\ Len(log') = n + m
        /\ DOMAIN log = 1 .. n /\ DOMAIN log' = 1 .. n + m
        /\ \A i \in 1 .. n : log'[i] = log[i]
        /\ m = 1 => log'[n + 1] = pending[1]
        /\ IsSeq(log') /\ (m = 1 => pending # <<>>)
  <2>1. IsSeq(log) /\ IsSeq(pending) /\ log' = log \o pending /\ Len(pending) <= 1
    BY DEF SendOutput, LogInv
  <2>2. pending = <<>> => Len(pending) = 0
    OBVIOUS
  <2> QED BY <2>1, <2>2, Extended
<1>2. Grows
  BY <1>1 DEF Grows
<1>3. m = 1 => /\ n > 0 /\ log[n].type = "tool.result" /\ log[n].tool = pending[1].tool
               /\ pending[1].type = "supervisor.exchange" /\ pending[1].body.kind = None
               /\ log[n].nr = pending[1].nr
  BY <1>1 DEF LogInv
<1>4. \A i \in DOMAIN log' : i > n =>
        log'[i].type = "supervisor.exchange" /\ log'[i].body.kind = None
  BY <1>1, <1>3
<1>5. LogInv' /\ WaitInv'
  <2>1. pending' = <<>> /\ pc' = "idle"
    BY DEF SendOutput
  <2>2. IsSeq(pending') /\ Len(pending') = 0
    <3>1. <<>> \in Seq({})
      OBVIOUS
    <3>2. IsSeq(<<>>)
      BY <3>1, OverItsElements
    <3> QED BY <2>1, <3>2
  <2> QED BY <1>1, <2>1, <2>2 DEF LogInv, WaitInv
<1>6. CollectedAsShown'
  BY <1>1, <1>2, <1>4, CollectedStays DEF SendOutput, sessionVars, AsksWhatIsMissing, Accepts
<1>7. OffersTheMissing'
  BY <1>1, <1>2, <1>4, OffersStay DEF SendOutput, AsksWhatIsMissing, None
<1>8. VerdictsExplained'
  <2> SUFFICES ASSUME NEW i \in DOMAIN log'
               PROVE  /\ Accepts(i)' => OnMerit(log'[i].args) \/ Consulted(i)'
                      /\ log'[i].body.kind = "refused" =>
                           Named(log'[i].args.id) = {} \/ ~OnMerit(log'[i].args)
                      /\ log'[i].type = "supervisor.exchange" =>
                           \E j \in DOMAIN log' :
                             /\ log'[j].type = "tool.result" /\ log'[j].nr = log'[i].nr
                             /\ log'[j].tool = log'[i].tool
    BY DEF VerdictsExplained
  <2>1. CASE i \in 1 .. n
    <3>1. Consulted(i) => Consulted(i)'
      <4>1. ASSUME NEW j \in 1 .. n, log[j].type = "supervisor.exchange", log[j].nr = log[i].nr
            PROVE  Consulted(i)'
        BY <1>1, <2>1, <4>1 DEF Consulted
      <4>2. CASE pending # <<>> /\ pending[1].nr = log[i].nr
        <5>1. m = 1 /\ n + 1 \in DOMAIN log'
          BY <1>1, <4>2
        <5> QED BY <1>1, <1>3, <2>1, <4>2, <5>1 DEF Consulted
      <4> QED BY <1>1, <4>1, <4>2 DEF Consulted
    <3>2. \A j \in 1 .. n : j \in DOMAIN log'
      BY <1>1
    <3>3. log'[i] = log[i] /\ i \in DOMAIN log /\ (Accepts(i)' <=> Accepts(i))
      BY <1>1, <2>1 DEF Accepts
    <3>4. log[i].type = "supervisor.exchange" =>
            \E j \in 1 .. n : /\ log'[j].type = "tool.result" /\ log'[j].nr = log[i].nr
                             /\ log'[j].tool = log[i].tool
      BY <1>1, <3>3 DEF VerdictsExplained
    <3>5. /\ Accepts(i) => OnMerit(log[i].args) \/ Consulted(i)
          /\ log[i].body.kind = "refused" => Named(log[i].args.id) = {} \/ ~OnMerit(log[i].args)
      BY <3>3 DEF VerdictsExplained
    <3> QED BY <3>1, <3>2, <3>3, <3>4, <3>5
  <2>2. CASE i > n
    <3>1. i = n + 1 /\ m = 1 /\ i \in Nat /\ (n > 0 => n \in DOMAIN log' /\ log'[n] = log[n])
      BY <1>1, <2>2
    <3>2. /\ log'[i].type = "supervisor.exchange" /\ log'[i].body.kind = None
          /\ log'[i] = pending[1] /\ n > 0
      BY <1>1, <1>3, <3>1
    <3>3. ~Accepts(i)' /\ log'[i].body.kind # "refused"
      BY <3>2 DEF Accepts, None
    <3>4. /\ n \in DOMAIN log' /\ log'[n].type = "tool.result" /\ log'[n].nr = log'[i].nr
          /\ log'[n].tool = log'[i].tool
      BY <1>3, <3>1, <3>2
    <3> QED BY <3>3, <3>4
  <2> QED BY <1>1, <2>1, <2>2
<1> QED BY <1>5, <1>6, <1>7, <1>8 DEF AsksWhatIsMissing

\* A result that is what the step makes of it keeps the invariant.
LEMMA ReturnKeeps ==
  ASSUME IntakeInv, pc \in {"service", "supervisor", "submit"}, NEW body, Return(body),
         pending' = pending \/ \E x : /\ pending' = Append(pending, x)
                                      /\ x.type = "supervisor.exchange"
                                      /\ x.tool = call.tool /\ x.body.kind = None
                                      /\ x.nr = Returned + 1,
         body.kind = "accepted" => RecordAnswer /\ (OnMerit(call.args) \/ pending' # <<>>),
         body.kind # "accepted" => collected' = collected,
         body.kind = "refused" => Named(call.args.id) = {} \/ ~OnMerit(call.args),
         body.kind = "questions" =>
           body = Offer(Missing(BranchQuestions(call.args.claimType), DOMAIN collected), Slice)
  PROVE  IntakeInv'
<1> USE DEF IntakeInv
<1> DEFINE e == Entry("tool.result", body)
<1>1. PICK n \in Nat :
        /\ Len(log) = n /\ Len(log') = n + 1 /\ DOMAIN log = 1 .. n /\ DOMAIN log' = 1 .. n + 1
        /\ log'[n + 1] = e /\ pending = <<>> /\ IsSeq(log') /\ pattern' = pattern
        /\ call' = call /\ pc' = "send"
  BY ResultAdded DEF Grows
<1>2. Grows
  BY ResultAdded
<1>3. /\ e.type = "tool.result" /\ e.tool = call.tool /\ e.args = call.args /\ e.body = body
      /\ e.nr = Returned + 1
  BY DEF Entry
<1> HIDE DEF e
<1>4. LogInv'
  <2>1. CASE pending' = pending
    BY <1>1, <2>1 DEF LogInv, IsSeq
  <2>2. ASSUME NEW x, pending' = Append(pending, x), x.type = "supervisor.exchange",
               x.tool = call.tool, x.body.kind = None, x.nr = Returned + 1
        PROVE  LogInv'
    <3>1. IsSeq(pending) /\ Len(pending) = 0
      BY <1>1 DEF LogInv
    <3>2. IsSeq(pending') /\ Len(pending') = 1 /\ pending'[1] = x
      <4>1. /\ IsSeq(Append(pending, x)) /\ Len(Append(pending, x)) = 0 + 1
            /\ Append(pending, x)[0 + 1] = x
        BY <3>1, Appended
      <4>2. IsSeq(Append(pending, x)) /\ Len(Append(pending, x)) = 1 /\ Append(pending, x)[1] = x
        BY <4>1
      <4> QED BY <2>2, <4>2
    <3> QED BY <1>1, <1>3, <2>2, <3>2 DEF LogInv
  <2> QED BY <2>1, <2>2
<1>5. CollectedAsShown'
  <2>1. CASE body.kind = "accepted"
    <3>1. Accepts(Len(log))' /\ log'[Len(log')].args = call.args
      BY <1>1, <1>3, <2>1 DEF Accepts
    <3> QED BY <1>1, <1>2, <2>1, <3>1, CollectedGrows DEF AsksWhatIsMissing
  <2>2. CASE body.kind # "accepted"
    <3>1. \A i \in DOMAIN log' : i > Len(log) => ~Accepts(i)'
      BY <1>1, <1>3, <2>2 DEF Accepts
    <3> QED BY <1>2, <2>2, <3>1, CollectedStays DEF AsksWhatIsMissing
  <2> QED BY <2>1, <2>2
<1>6. OffersTheMissing'
  <2>1. AcceptedBefore(n + 1)' = DOMAIN collected
    BY <1>1, <1>2, PastStays DEF AsksWhatIsMissing, CollectedAsShown
  <2>2. ASSUME NEW i \in DOMAIN log', i > Len(log), log'[i].body.kind = "questions"
        PROVE  log'[i].body = Offer(Missing(BranchQuestions(log'[i].args.claimType),
                                            AcceptedBefore(i)'), Slice)
    <3>1. i = n + 1
      BY <1>1, <2>2
    <3>2. body = Offer(Missing(BranchQuestions(call.args.claimType), DOMAIN collected), Slice)
      BY <1>1, <1>3, <2>2, <3>1
    <3>3. log'[i].body = body /\ log'[i].args = call.args /\ AcceptedBefore(i)' = DOMAIN collected
      BY <1>1, <1>3, <2>1, <3>1
    <3> QED BY <3>2, <3>3
  <2> QED BY <1>1, <1>2, <2>2, OffersStay DEF AsksWhatIsMissing
<1>7. VerdictsExplained'
  <2>1. pending' # <<>> => pending'[1].nr = Returned + 1
    <3>1. ASSUME NEW x, pending' = Append(pending, x), x.nr = Returned + 1
          PROVE  pending'[1].nr = Returned + 1
      <4>1. Append(<<>>, x)[1] = x
        OBVIOUS
      <4> QED BY <1>1, <3>1, <4>1
    <3> QED BY <1>1, <3>1
  <2> QED BY <2>1, ResultExplained
<1>8. WaitInv'
  BY <1>1 DEF WaitInv
<1> QED BY <1>4, <1>5, <1>6, <1>7, <1>8 DEF AsksWhatIsMissing

\* What the service accepts has merit; what it refuses has none, if it is named.
LEMMA ServiceIsFair ==
  ASSUME NEW args
  PROVE  /\ Valid(args) => OnMerit(args)
         /\ ~Valid(args) => Named(args.id) = {} \/ ~OnMerit(args)
<1>1. \A i \in Named(args.id) : Named(args.id) = {i}
  BY IntakeAssumption DEF Named
<1>2. \A i \in DOMAIN Catalogue : i <= i
  BY IntakeAssumption
<1>3. \A i \in Named(args.id) : First(Named(args.id)) = {i}
  BY <1>1, <1>2 DEF First, Named
<1>4. First(Alike(args.id)) \subseteq Alike(args.id)
  BY DEF First
<1>5. CASE Named(args.id) = {}
  BY <1>4, <1>5 DEF Valid, OnMerit, FindCriteria
<1>6. CASE Named(args.id) # {}
  BY <1>1, <1>3, <1>6 DEF Valid, OnMerit, FindCriteria
<1> QED BY <1>5, <1>6

\* The inductive invariant of an intake.
LEMMA IntakeInvariant == Spec => []IntakeInv
<1>1. Init => IntakeInv
  <2> SUFFICES ASSUME Init PROVE IntakeInv
    OBVIOUS
  <2>1. log = <<>> /\ pending = <<>> /\ collected = <<>> /\ pc = "idle"
    BY DEF Init
  <2>2. IsSeq(<<>>) /\ Len(<<>>) = 0 /\ \A i : i \notin DOMAIN <<>>
    <3>1. <<>> \in Seq({})
      OBVIOUS
    <3>2. IsSeq(<<>>)
      BY <3>1, OverItsElements
    <3>3. Len(<<>>) = 0
      OBVIOUS
    <3>4. \A i : i \notin DOMAIN <<>>
      OBVIOUS
    <3> QED BY <3>2, <3>3, <3>4
  <2>3. LogInv /\ WaitInv
    BY <2>1, <2>2 DEF LogInv, WaitInv
  <2>4. CollectedAsShown
    <3>1. AcceptedBefore(Len(log) + 1) = {}
      BY <2>1, <2>2 DEF AcceptedBefore
    <3> QED BY <2>1, <2>2, <3>1 DEF CollectedAsShown
  <2>5. OffersTheMissing /\ VerdictsExplained
    BY <2>1, <2>2 DEF OffersTheMissing, VerdictsExplained
  <2> QED BY <2>3, <2>4, <2>5 DEF IntakeInv, AsksWhatIsMissing
<1>2. IntakeInv /\ [Next]_vars => IntakeInv'
  <2> SUFFICES ASSUME IntakeInv, [Next]_vars PROVE IntakeInv'
    OBVIOUS
  <2> USE DEF sessionVars
  <2>0. pending # <<>> => pc \in {"send", "done"}
    BY DEF IntakeInv, LogInv
  <2>1. ASSUME NEW tool \in Tools, NEW args \in ArgumentsOf(tool), CallTool(tool, args)
        PROVE  IntakeInv'
    <3>1. LogInv' /\ AsksWhatIsMissing' /\ VerdictsExplained'
      BY <2>0, <2>1, Silent DEF CallTool
    <3>2. WaitInv'
      BY <2>1 DEF CallTool, WaitInv, Supervised
    <3> QED BY <3>1, <3>2 DEF IntakeInv
  <2>2. ASSUME NEW questions \in {<<>>, BranchQuestions(claimType)}, QuestionsFetched(questions)
        PROVE  IntakeInv'
    <3>1. CASE questions # <<>>
      <4>1. /\ Return(Offer(Missing(BranchQuestions(call.args.claimType), DOMAIN collected), Slice))
            /\ pc = "service" /\ pending' = pending /\ collected' = collected
        BY <2>2, <3>1 DEF QuestionsFetched, IntakeInv, WaitInv, Unanswered
      <4>2. Offer(Missing(BranchQuestions(call.args.claimType), DOMAIN collected), Slice).kind
              = "questions"
        BY DEF Offer
      <4> QED BY <4>1, <4>2, ReturnKeeps
    <3>2. CASE questions = <<>> /\ Supervised /\ Wait("supervisor")
      <4>1. LogInv' /\ AsksWhatIsMissing' /\ VerdictsExplained'
        BY <2>0, <2>2, <3>2, Silent DEF QuestionsFetched, Wait
      <4>2. WaitInv'
        BY <2>2, <3>2 DEF QuestionsFetched, Wait, WaitInv, Supervised, IntakeInv
      <4> QED BY <4>1, <4>2 DEF IntakeInv
    <3>3. CASE questions = <<>> /\ ~Supervised
      <4>1. Return(Body("no questions")) /\ pc = "service" /\ pending' = pending /\ collected' = collected
        BY <2>2, <3>3 DEF QuestionsFetched
      <4>2. Body("no questions").kind = "no questions"
        BY DEF Body
      <4> QED BY <4>1, <4>2, ReturnKeeps
    <3> QED BY <2>2, <3>1, <3>2, <3>3 DEF QuestionsFetched
  <2>3. CASE AnswerAccepted
    <3>1. /\ Return(Body("accepted")) /\ pc = "service" /\ pending' = pending /\ RecordAnswer
          /\ OnMerit(call.args)
      BY <2>3, ServiceIsFair DEF AnswerAccepted
    <3>2. Body("accepted").kind = "accepted"
      BY DEF Body
    <3> QED BY <3>1, <3>2, ReturnKeeps
  <2>4. ASSUME NEW verdict \in {"refused", "unreachable"}, AnswerRefused(verdict)
        PROVE  IntakeInv'
    <3>1. CASE Supervised /\ Wait("supervisor")
      <4>1. LogInv' /\ AsksWhatIsMissing' /\ VerdictsExplained'
        BY <2>0, <2>4, <3>1, Silent DEF AnswerRefused, Wait
      <4>2. WaitInv'
        BY <2>4, <3>1 DEF AnswerRefused, Wait, WaitInv, Supervised, IntakeInv
      <4> QED BY <4>1, <4>2 DEF IntakeInv
    <3>2. CASE ~Supervised
      <4>1. /\ Return(Body(verdict)) /\ pc = "service" /\ pending' = pending /\ collected' = collected
            /\ verdict = "refused" => Named(call.args.id) = {} \/ ~OnMerit(call.args)
        BY <2>4, <3>2, ServiceIsFair DEF AnswerRefused
      <4>2. Body(verdict).kind = verdict
        BY DEF Body
      <4> QED BY <4>1, <4>2, ReturnKeeps
    <3> QED BY <2>4, <3>1, <3>2 DEF AnswerRefused
  <2>5. CASE Submit
    <3>1. Return(Body("submitted")) /\ pc = "submit" /\ pending' = pending /\ collected' = collected
      BY <2>5 DEF Submit
    <3>2. Body("submitted").kind = "submitted"
      BY DEF Body
    <3> QED BY <3>1, <3>2, ReturnKeeps
  <2>6. ASSUME NEW yes \in BOOLEAN, SupervisorAnswers(yes)
        PROVE  IntakeInv'
    <3> DEFINE x == [Entry("supervisor.exchange", Body(None)) EXCEPT !.tool = toolContext]
    <3>1. /\ x.type = "supervisor.exchange" /\ x.tool = call.tool /\ x.body.kind = None
          /\ x.nr = Returned + 1
      BY <2>6 DEF SupervisorAnswers, Entry, Body, IntakeInv, WaitInv
    <3>2. Return(Body(Ruling(yes))) /\ pc = "supervisor" /\ pending' = Append(pending, x)
      BY <2>6 DEF SupervisorAnswers
    <3>3. Body(Ruling(yes)).kind = Ruling(yes)
      BY DEF Body
    <3>4. /\ Ruling(yes) = "accepted" => yes /\ call.tool = "validate_answer"
          /\ Ruling(yes) # "accepted" => ~(yes /\ call.tool = "validate_answer")
          /\ Ruling(yes) \notin {"refused", "questions"}
      BY DEF Ruling
    <3>5. pending' # <<>>
      <4>1. Len(pending') = 0 + 1
        BY <2>0, <3>2, Appended DEF IntakeInv, LogInv
      <4> QED BY <4>1
    <3>6. /\ Ruling(yes) = "accepted" => RecordAnswer
          /\ Ruling(yes) # "accepted" => collected' = collected
      BY <2>6, <3>4 DEF SupervisorAnswers
    <3> HIDE DEF x
    <3> QED BY <3>1, <3>2, <3>3, <3>4, <3>5, <3>6, ReturnKeeps
  <2>7. CASE SupervisorFails
    <3> DEFINE kind == IF call.tool = "get_next_questions" THEN "error" ELSE Ruling(FALSE)
    <3>1. Return(Body(kind)) /\ pc = "supervisor" /\ pending' = pending /\ collected' = collected
      BY <2>7 DEF SupervisorFails
    <3>2. Body(kind).kind \notin {"accepted", "refused", "questions"}
      BY DEF Body, Ruling
    <3> HIDE DEF kind
    <3> QED BY <3>1, <3>2, ReturnKeeps
  <2>8. CASE SendOutput
    BY <2>8, SendKeeps
  <2>9. CASE ReaderEnds
    <3>1. LogInv' /\ AsksWhatIsMissing' /\ VerdictsExplained'
      BY <2>9, Silent DEF ReaderEnds
    <3>2. WaitInv'
      BY <2>9 DEF ReaderEnds, WaitInv
    <3> QED BY <3>1, <3>2 DEF IntakeInv
  <2>10. CASE UNCHANGED vars
    <3>1. LogInv' /\ AsksWhatIsMissing' /\ VerdictsExplained'
      BY <2>0, <2>10, Silent DEF vars
    <3>2. WaitInv'
      BY <2>10 DEF vars, IntakeInv, WaitInv, Supervised
    <3> QED BY <3>1, <3>2 DEF IntakeInv
  <2> QED BY <2>1, <2>2, <2>3, <2>4, <2>5, <2>6, <2>7, <2>8, <2>9, <2>10 DEF Next
<1> QED BY <1>1, <1>2, PTL DEF Spec

\* For any catalogue and any tool calls, offers follow from the verdicts shown.
THEOREM OffersFollowVerdicts == Spec => []AsksWhatIsMissing
<1>1. IntakeInv => AsksWhatIsMissing
  BY DEF IntakeInv
<1> QED BY <1>1, IntakeInvariant, PTL

\* For any catalogue and any tool calls, verdicts have a reason that is shown.
THEOREM VerdictsHaveReasons == Spec => []VerdictsExplained
<1>1. IntakeInv => VerdictsExplained
  BY DEF IntakeInv
<1> QED BY <1>1, IntakeInvariant, PTL
==============================================================================
