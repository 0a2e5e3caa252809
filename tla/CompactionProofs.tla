--------------------------- MODULE CompactionProofs ---------------------------
(***************************************************************************)
(* Proofs about Compaction, for every strategy, window, budget and token   *)
(* count, and any number of items and responses: its types, that the       *)
(* oldest messages go first, that the last ones stay, and that the list    *)
(* accounts for Azure's conversation.                                      *)
(***************************************************************************)
EXTENDS Compaction, SequenceTheorems, TLAPS

\* Each strategy returns at most what there is; one that returns something
\* keeps what it promises to keep.
LEMMA SelectBound ==
    ASSUME strategy \in Strategies, NEW len \in Nat, NEW total \in Nat
    PROVE  /\ SelectCount(len, total) \in 0..len
           /\ SelectCount(len, total) > 0 =>
                 strategy # "off" /\ len - SelectCount(len, total) >= Kept
<1>1. RollingCount(len) \in 0..len /\ (RollingCount(len) > 0 => len - RollingCount(len) = MaxItems)
  BY CompactionAssumption DEF RollingCount
<1>2. BudgetCount(len, total) \in 0..len /\ (BudgetCount(len, total) > 0 => len - BudgetCount(len, total) >= 2)
  BY CompactionAssumption DEF BudgetCount
<1>3. CASE strategy = "rolling"
  BY <1>1, <1>3, CompactionAssumption DEF SelectCount, Kept
<1>4. CASE strategy = "token_budget"
  BY <1>2, <1>4 DEF SelectCount, Kept
<1>5. CASE strategy = "off"
  BY <1>5 DEF SelectCount
<1> QED BY <1>3, <1>4, <1>5, CompactionAssumption

\* The prefix and the rest of a sequence of items.
LEMMA PopLengths ==
    ASSUME NEW s \in Seq(Nat), NEW n \in 0..Len(s)
    PROVE  /\ SubSeq(s, 1, n) \in Seq(Nat)
           /\ Len(SubSeq(s, 1, n)) = n
           /\ \A i \in 1..n : SubSeq(s, 1, n)[i] = s[i]
           /\ SubSeq(s, n + 1, Len(s)) \in Seq(Nat)
           /\ Len(SubSeq(s, n + 1, Len(s))) = Len(s) - n
           /\ \A i \in 1..(Len(s) - n) : SubSeq(s, n + 1, Len(s))[i] = s[n + i]
<1>1. \A i \in 1..Len(s) : s[i] \in Nat
  BY ElementOfSeq
<1>2. /\ SubSeq(s, 1, n) \in Seq(Nat)
      /\ Len(SubSeq(s, 1, n)) = IF 1 <= n THEN n - 1 + 1 ELSE 0
      /\ \A i \in 1..(n - 1 + 1) : SubSeq(s, 1, n)[i] = s[1 + i - 1]
  <2>1. \A i \in 1..n : s[i] \in Nat
    BY <1>1
  <2> QED BY <2>1, SubSeqProperties
<1>3. /\ SubSeq(s, n + 1, Len(s)) \in Seq(Nat)
      /\ Len(SubSeq(s, n + 1, Len(s))) =
            IF n + 1 <= Len(s) THEN Len(s) - (n + 1) + 1 ELSE 0
      /\ \A i \in 1..(Len(s) - (n + 1) + 1) :
            SubSeq(s, n + 1, Len(s))[i] = s[n + 1 + i - 1]
  <2>1. \A i \in (n + 1)..Len(s) : s[i] \in Nat
    BY <1>1
  <2>2. n + 1 \in Int /\ Len(s) \in Int
    OBVIOUS
  <2> HIDE <1>1
  <2> QED BY <2>1, <2>2, SubSeqProperties
<1>4. \A i \in 1..n : SubSeq(s, 1, n)[i] = s[i]
  BY <1>2
<1>5. \A i \in 1..(Len(s) - n) : SubSeq(s, n + 1, Len(s))[i] = s[n + i]
  <2> SUFFICES ASSUME NEW i \in 1..(Len(s) - n)
               PROVE  SubSeq(s, n + 1, Len(s))[i] = s[n + i]
    OBVIOUS
  <2>1. n + 1 + i - 1 = n + i /\ i \in 1..(Len(s) - (n + 1) + 1)
    OBVIOUS
  <2> QED BY <1>3, <2>1
<1>6. Len(SubSeq(s, 1, n)) = n /\ Len(SubSeq(s, n + 1, Len(s))) = Len(s) - n
  BY <1>2, <1>3
<1> QED BY <1>2, <1>3, <1>4, <1>5, <1>6

\* Every variable keeps its type.
THEOREM TypeCorrect == Spec => []CompactionTypeOK
<1>1. Init => CompactionTypeOK
  BY CompactionAssumption DEF Init, CompactionTypeOK
<1>2. CompactionTypeOK /\ [Next]_vars => CompactionTypeOK'
  <2> SUFFICES ASSUME CompactionTypeOK, [Next]_vars PROVE CompactionTypeOK'
    OBVIOUS
  <2> USE CompactionAssumption DEF CompactionTypeOK, azureVars, backendVars
  <2>9. UNCHANGED strategy
    BY DEF Next, Over, vars
  <2>0. /\ items \in Seq(Nat) /\ tracked \in Seq(Nat)
        /\ Len(items) \in Nat /\ cumulative \in Nat /\ strategy \in Strategies
    OBVIOUS
  <2>1. CASE CreateItem
    <3>1. created' \in 1..MaxCreated /\ created' = created + 1
      BY <2>1 DEF CreateItem
    <3>2. ItemCreated(created') \in Event
      BY <3>1 DEF ItemCreated, Event
    <3>3. wire' \in Seq(Event)
      BY <2>1, <3>2 DEF CreateItem
    <3>4. messages' \subseteq 1..created' /\ azure' \subseteq 1..created'
      BY <2>1, <3>1 DEF CreateItem
    <3> QED BY <2>9, <2>1, <3>1, <3>3, <3>4 DEF CreateItem
  <2>2. CASE FinishResponse
    <3>1. PICK t \in Tokens : wire' = Append(wire, ResponseDone(t))
      BY <2>2 DEF FinishResponse
    <3>2. ResponseDone(t) \in Event
      BY <3>1 DEF ResponseDone, Event
    <3>3. wire' \in Seq(Event)
      BY <3>1, <3>2
    <3> QED BY <2>9, <2>2, <3>3 DEF FinishResponse
  <2>3. CASE AzureCloses \/ ReceiveFails
    BY <2>9, <2>3 DEF AzureCloses, ReceiveFails
  <2>4. CASE HandleCreated
    <3>1. Head(wire).item \in Nat /\ wire' \in Seq(Event)
      <4>1. Head(wire) \in Event /\ wire' \in Seq(Event)
        BY <2>4, HeadTailProperties DEF HandleCreated
      <4> QED BY <4>1 DEF Event
    <3>2. \/ UNCHANGED <<items, tracked>>
          \/ /\ items' = Append(items, Head(wire).item)
             /\ tracked' = Append(tracked, Head(wire).item)
      BY <2>4 DEF HandleCreated
    <3>3. items' \in Seq(Nat) /\ tracked' \in Seq(Nat)
      <4> DEFINE e == Head(wire).item
      <4> HIDE DEF e
      <4>1. e \in Nat
        BY <3>1 DEF e
      <4>2. UNCHANGED <<items, tracked>> \/ (items' = Append(items, e) /\ tracked' = Append(tracked, e))
        BY <3>2 DEF e
      <4>3. Append(items, e) \in Seq(Nat) /\ Append(tracked, e) \in Seq(Nat)
        <5> HIDE DEF CompactionTypeOK
        <5> QED BY <2>0, <4>1
      <4> QED BY <2>0, <4>2, <4>3
    <3> QED BY <2>9, <2>4, <3>1, <3>3 DEF HandleCreated
  <2>5. CASE HandleDone
    <3> DEFINE t == Head(wire).tokens
               total == cumulative + t
               n == SelectCount(Len(items), total)
    <3>1. t \in Nat /\ wire' \in Seq(Event)
      <4>1. Head(wire) \in Event /\ wire' \in Seq(Event)
        BY <2>5, HeadTailProperties DEF HandleDone
      <4> QED BY <4>1 DEF Event
    <3>2. /\ turn' = t
          /\ Pop(n)
          /\ cumulative' = IF strategy = "token_budget"
                           THEN Remaining(total, t, n) ELSE cumulative
      BY <2>5 DEF HandleDone
    <3>3. total \in Nat
      <4> HIDE DEF t, CompactionTypeOK
      <4> QED BY <2>0, <3>1
    <3>4. n \in 0..Len(items)
      <4> HIDE DEF total
      <4> QED BY <2>0, <3>3, SelectBound
    <3>5. items' \in Seq(Nat) /\ deleting' \in Seq(Nat)
      BY <3>2, <3>4, PopLengths DEF Pop
    <3>6. cumulative' \in Nat
      <4>1. Remaining(total, t, n) \in Nat
        <5> HIDE DEF n, total, t, CompactionTypeOK
        <5> QED BY <3>1, <3>3 DEF Remaining
      <4> QED BY <2>0, <3>2, <4>1
    <3>7. UNCHANGED <<azureVars, deleted, tracked>> /\ receiver' \in {"wait", "delete"}
      BY <2>5 DEF HandleDone
    <3> QED BY <2>9, <3>1, <3>2, <3>5, <3>6, <3>7
  <2>6. CASE SendDelete
    <3>1. Head(deleting) \in Nat /\ deleting' \in Seq(Nat)
      BY <2>6, HeadTailProperties DEF SendDelete
    <3>2. deleted' \in Seq(Nat)
      BY <2>6, <3>1 DEF SendDelete
    <3> QED BY <2>9, <2>6, <3>1, <3>2 DEF SendDelete
  <2>7. CASE UNCHANGED vars
    BY <2>7 DEF vars
  <2> QED BY <2>1, <2>2, <2>3, <2>4, <2>5, <2>6, <2>7 DEF Next, AzureStep, BackendStep, Over
<1> QED BY <1>1, <1>2, PTL DEF Spec
------------------------------------------------------------------------------
(* Oldest first *)

\* What select returns is moved from the front of items to deleting, and from
\* there, one at a time, to deleted.
LEMMA StretchesInvariant ==
    CompactionTypeOK /\ Stretches /\ Present /\ [Next]_vars => Stretches'
<1> SUFFICES ASSUME CompactionTypeOK, Stretches, Present, [Next]_vars
             PROVE  Stretches'
  OBVIOUS
<1> USE DEF azureVars, backendVars
<1>0. /\ items \in Seq(Nat) /\ tracked \in Seq(Nat) /\ deleting \in Seq(Nat)
      /\ deleted \in Seq(Nat) /\ cumulative \in Nat /\ strategy \in Strategies
      /\ Len(items) \in Nat /\ Len(tracked) \in Nat
      /\ Len(deleting) \in Nat /\ Len(deleted) \in Nat
  BY DEF CompactionTypeOK
<1>1. CASE AzureStep \/ ReceiveFails \/ UNCHANGED vars
  BY <1>1 DEF AzureStep, CreateItem, FinishResponse, AzureCloses, ReceiveFails,
              vars, Stretches
<1>2. CASE HandleCreated
  <2>1. UNCHANGED <<deleted, deleting>>
    BY <1>2 DEF HandleCreated
  <2>2. CASE UNCHANGED <<items, tracked>>
    BY <2>1, <2>2 DEF Stretches
  <2>3. CASE ~UNCHANGED <<items, tracked>>
    <3> DEFINE e == Head(wire).item
    <3>1. /\ items' = Append(items, e)
          /\ tracked' = Append(tracked, e)
      BY <1>2, <2>3 DEF HandleCreated
    <3> HIDE DEF e
    <3>2. Len(items') = Len(items) + 1 /\ Len(tracked') = Len(tracked) + 1
      BY <1>0, <3>1
    <3>3. ASSUME NEW i \in 1..Len(items')
          PROVE  items'[i] = tracked'[Len(deleted) + Len(deleting) + i]
      <4>1. CASE i \in 1..Len(items)
        <5>1. /\ Len(deleted) + Len(deleting) + i \in 1..Len(tracked)
              /\ items[i] = tracked[Len(deleted) + Len(deleting) + i]
          <6>1. Len(tracked) = Len(deleted) + Len(deleting) + Len(items)
            BY DEF Stretches
          <6>2. Len(deleted) + Len(deleting) + i \in 1..Len(tracked)
            BY <1>0, <4>1, <6>1
          <6>3. items[i] = tracked[Len(deleted) + Len(deleting) + i]
            BY <4>1 DEF Stretches
          <6> QED BY <6>2, <6>3
        <5>2. \A j \in 1..Len(tracked) : tracked'[j] = tracked[j]
          BY <1>0, <3>1
        <5>3. items'[i] = items[i]
          BY <1>0, <3>1, <4>1
        <5> QED BY <5>1, <5>2, <5>3
      <4>2. CASE i = Len(items) + 1
        <5>1. Len(deleted) + Len(deleting) + i = Len(tracked) + 1
          BY <1>0, <4>2 DEF Stretches
        <5>2. items'[i] = e /\ tracked'[Len(tracked) + 1] = e
          BY <1>0, <3>1, <4>2
        <5> QED BY <5>1, <5>2
      <4>3. i \in 1..(Len(items) + 1)
        BY <3>2
      <4>4. i \in 1..Len(items) \/ i = Len(items) + 1
        BY <1>0, <4>3
      <4> QED BY <4>1, <4>2, <4>4
    <3>4. \A i \in 1..Len(tracked) : tracked'[i] = tracked[i]
      BY <1>0, <3>1
    <3>5. Len(tracked) = Len(deleted) + Len(deleting) + Len(items)
      BY DEF Stretches
    <3>6. ASSUME NEW i \in 1..Len(deleted) PROVE deleted[i] = tracked'[i]
      <4>1. i \in 1..Len(tracked)
        BY <1>0, <3>5
      <4> QED BY <3>4, <4>1 DEF Stretches
    <3>7. ASSUME NEW i \in 1..Len(deleting)
          PROVE  deleting[i] = tracked'[Len(deleted) + i]
      <4>1. Len(deleted) + i \in 1..Len(tracked)
        BY <1>0, <3>5
      <4> QED BY <3>4, <4>1 DEF Stretches
    <3>8. Len(tracked') = Len(deleted) + Len(deleting) + Len(items')
      BY <1>0, <3>2, <3>5
    <3> QED BY <2>1, <3>3, <3>6, <3>7, <3>8 DEF Stretches
  <2> QED BY <2>2, <2>3
<1>3. CASE HandleDone
  <2>1. PICK n \in 0..Len(items) : Pop(n)
    <3> DEFINE t == Head(wire).tokens
               total == cumulative + t
               n == SelectCount(Len(items), total)
    <3>1. Pop(n)
      BY <1>3 DEF HandleDone
    <3>2. t \in Nat
      <4>1. Head(wire) \in Event
        BY <1>3, HeadTailProperties DEF HandleDone, CompactionTypeOK
      <4> QED BY <4>1 DEF Event
    <3>3. total \in Nat
      <4> HIDE DEF t
      <4> QED BY <1>0, <3>2
    <3>4. n \in 0..Len(items)
      <4>1. Len(items) \in Nat
        BY <1>0
      <4> HIDE DEF total
      <4> QED BY <1>0, <3>3, <4>1, SelectBound
    <3> HIDE DEF n
    <3> QED BY <3>1, <3>4
  <2>2. deleting = <<>> /\ UNCHANGED <<deleted, tracked>>
    BY <1>3 DEF HandleDone, Present
  <2>3. /\ Len(deleting') = n
        /\ \A i \in 1..n : deleting'[i] = items[i]
        /\ Len(items') = Len(items) - n
        /\ \A i \in 1..(Len(items) - n) : items'[i] = items[n + i]
    BY <1>0, <2>1, PopLengths DEF Pop
  <2>4. /\ Len(tracked) = Len(deleted) + Len(items)
        /\ \A i \in 1..Len(items) : items[i] = tracked[Len(deleted) + i]
    BY <1>0, <2>2 DEF Stretches
  <2>5. ASSUME NEW i \in 1..Len(items')
        PROVE  items'[i] = tracked[Len(deleted) + n + i]
    <3>1. n + i \in 1..Len(items) /\ Len(deleted) + (n + i) = Len(deleted) + n + i
      BY <1>0, <2>3
    <3> QED BY <2>3, <2>4, <3>1
  <2>6. Len(deleting) = 0 /\ Len(tracked) = Len(deleted) + Len(deleting') + Len(items')
    BY <1>0, <2>2, <2>3, <2>4
  <2>7. ASSUME NEW i \in 1..Len(deleting')
        PROVE  deleting'[i] = tracked[Len(deleted) + i]
    <3>1. i \in 1..n /\ i \in 1..Len(items)
      BY <1>0, <2>3
    <3> QED BY <2>3, <2>4, <3>1
  <2>8. \A i \in 1..Len(deleted) : deleted[i] = tracked[i]
    BY DEF Stretches
  <2> QED BY <2>2, <2>3, <2>5, <2>6, <2>7, <2>8 DEF Stretches
<1>4. CASE SendDelete
  <2>1. /\ deleting # <<>> /\ deleting' = Tail(deleting)
        /\ deleted' = Append(deleted, Head(deleting))
        /\ UNCHANGED <<items, tracked>>
    BY <1>4 DEF SendDelete
  <2>2. /\ Len(deleting') = Len(deleting) - 1
        /\ \A i \in 1..Len(deleting') : deleting'[i] = deleting[i + 1]
        /\ Len(deleting) \in Nat \ {0}
    BY <1>0, <2>1, HeadTailProperties, EmptySeq
  <2>3. Head(deleting) = tracked[Len(deleted) + 1] /\ Head(deleting) \in Nat
    BY <1>0, <2>1, <2>2 DEF Stretches
  <2>4. /\ Len(deleted') = Len(deleted) + 1
        /\ \A i \in 1..Len(deleted) : deleted'[i] = deleted[i]
        /\ deleted'[Len(deleted) + 1] = Head(deleting)
    BY <1>0, <2>1, <2>3
  <2>5. ASSUME NEW i \in 1..Len(deleting')
        PROVE  deleting'[i] = tracked[Len(deleted') + i]
    <3>1. i + 1 \in 1..Len(deleting) /\ Len(deleted) + (i + 1) = Len(deleted') + i
      BY <1>0, <2>2, <2>4
    <3> QED BY <2>2, <3>1 DEF Stretches
  <2>6. ASSUME NEW i \in 1..Len(deleted') PROVE deleted'[i] = tracked[i]
    <3>1. i \in 1..(Len(deleted) + 1)
      BY <2>4
    <3>2. i \in 1..Len(deleted) \/ i = Len(deleted) + 1
      BY <1>0, <3>1
    <3> QED BY <2>3, <2>4, <3>2 DEF Stretches
  <2>7. Len(deleted') + Len(deleting') = Len(deleted) + Len(deleting)
    BY <1>0, <2>2, <2>4
  <2> QED BY <2>1, <2>5, <2>6, <2>7 DEF Stretches
<1> QED BY <1>1, <1>2, <1>3, <1>4 DEF Next, BackendStep, Over

\* The event at the front of the wire is taken.
LEMMA TailOfWire ==
    ASSUME CompactionTypeOK, wire # <<>>, wire' = Tail(wire)
    PROVE  /\ Len(wire) \in Nat /\ 1 \in 1..Len(wire) /\ Head(wire) = wire[1]
           /\ Len(wire') = Len(wire) - 1
           /\ \A i \in 1..Len(wire') : wire'[i] = wire[i + 1] /\ i + 1 \in 1..Len(wire)
<1>1. wire \in Seq(Event)
  BY DEF CompactionTypeOK
<1>2. Len(wire') = Len(wire) - 1 /\ \A i \in 1..Len(wire') : wire'[i] = wire[i + 1]
  BY <1>1, HeadTailProperties
<1>3. Len(wire) \in Nat \ {0}
  BY <1>1, EmptySeq
<1> QED BY <1>1, <1>2, <1>3

\* Azure announces items in the order it created them, so what is tracked is
\* ascending, and below what is still on the wire.
LEMMA AscendingInvariant ==
    CompactionTypeOK /\ Ascending /\ [Next]_vars => Ascending'
<1> SUFFICES ASSUME CompactionTypeOK, Ascending, [Next]_vars PROVE Ascending'
  OBVIOUS
<1> USE DEF azureVars, backendVars
<1>0. /\ tracked \in Seq(Nat) /\ Len(tracked) \in Nat
      /\ wire \in Seq(Event) /\ Len(wire) \in Nat /\ created \in Nat
      /\ \A i \in 1..Len(wire) : wire[i].item \in Nat
      /\ \A i \in 1..Len(tracked) : tracked[i] \in Nat
  <2>1. \A i \in 1..Len(wire) : wire[i] \in Event
    BY ElementOfSeq DEF CompactionTypeOK
  <2>2. \A i \in 1..Len(tracked) : tracked[i] \in Nat
    BY ElementOfSeq DEF CompactionTypeOK
  <2>3. created \in Nat
    BY CompactionAssumption DEF CompactionTypeOK
  <2>4. \A i \in 1..Len(wire) : wire[i].item \in Nat
    BY <2>1 DEF Event
  <2>5. tracked \in Seq(Nat) /\ wire \in Seq(Event)
    BY DEF CompactionTypeOK
  <2> QED BY <2>2, <2>3, <2>4, <2>5
<1>1. CASE CreateItem \/ FinishResponse
  <2>1. PICK e \in Event :
           /\ wire' = Append(wire, e)
           /\ \/ e.item = 0 /\ created' = created
              \/ e.item = created + 1 /\ created' = created + 1
           /\ tracked' = tracked
    <3>1. CASE CreateItem
      <4>1. ItemCreated(created') \in Event /\ ItemCreated(created').item = created'
        BY <1>0, <3>1 DEF CreateItem, ItemCreated, Event
      <4>2. /\ wire' = Append(wire, ItemCreated(created')) /\ created' = created + 1
            /\ tracked' = tracked
        BY <3>1 DEF CreateItem
      <4> DEFINE e == ItemCreated(created')
      <4>3. e \in Event /\ e.item = created + 1 /\ wire' = Append(wire, e)
        BY <4>1, <4>2
      <4> HIDE DEF e
      <4> QED BY <4>2, <4>3
    <3>2. CASE FinishResponse
      <4>1. PICK t \in Tokens : wire' = Append(wire, ResponseDone(t))
        BY <3>2 DEF FinishResponse
      <4>2. ResponseDone(t) \in Event /\ ResponseDone(t).item = 0
        BY <4>1, CompactionAssumption DEF ResponseDone, Event
      <4>3. created' = created /\ tracked' = tracked
        BY <3>2 DEF FinishResponse
      <4> DEFINE e == ResponseDone(t)
      <4>4. e \in Event /\ e.item = 0 /\ wire' = Append(wire, e)
        BY <4>1, <4>2
      <4> HIDE DEF e
      <4>5. \/ e.item = 0 /\ created' = created
            \/ e.item = created + 1 /\ created' = created + 1
        BY <4>3, <4>4
      <4> QED BY <4>3, <4>4, <4>5
    <3> QED BY <1>1, <3>1, <3>2
  <2>2. /\ Len(wire') = Len(wire) + 1
        /\ \A i \in 1..Len(wire) : wire'[i] = wire[i]
        /\ wire'[Len(wire) + 1] = e
    BY <1>0, <2>1
  <2>3. ASSUME NEW j \in 1..Len(wire') PROVE j \in 1..Len(wire) \/ j = Len(wire) + 1
    BY <1>0, <2>2
  <2>4. created' \in Nat /\ created <= created' /\ e.item <= created' /\ e.item \in Nat
    BY <1>0, <2>1
  <2>5. ASSUME NEW i \in 1..Len(wire'), NEW j \in 1..Len(wire'), i < j,
               IsCreated(wire'[i]), IsCreated(wire'[j])
        PROVE  wire'[i].item < wire'[j].item
    <3>1. i \in 1..Len(wire)
      BY <1>0, <2>2, <2>5
    <3>2. CASE j \in 1..Len(wire)
      BY <2>2, <2>5, <3>1, <3>2 DEF Ascending
    <3>3. CASE j = Len(wire) + 1
      <4>1. e.item = created + 1
        BY <2>1, <2>2, <2>5, <3>3 DEF IsCreated
      <4>2. wire[i].item <= created
        BY <3>1 DEF Ascending
      <4> QED BY <1>0, <2>2, <3>1, <3>3, <4>1, <4>2
    <3> QED BY <2>3, <3>2, <3>3
  <2>6. ASSUME NEW i \in 1..Len(tracked), NEW j \in 1..Len(wire'), IsCreated(wire'[j])
        PROVE  tracked[i] < wire'[j].item
    <3>1. CASE j \in 1..Len(wire)
      BY <2>2, <2>6, <3>1 DEF Ascending
    <3>2. CASE j = Len(wire) + 1
      <4>1. e.item = created + 1
        BY <2>1, <2>2, <2>6, <3>2 DEF IsCreated
      <4>2. tracked[i] <= created
        BY DEF Ascending
      <4> QED BY <1>0, <2>2, <3>2, <4>1, <4>2
    <3> QED BY <2>3, <3>1, <3>2
  <2>7. ASSUME NEW j \in 1..Len(wire') PROVE wire'[j].item <= created'
    <3>1. CASE j \in 1..Len(wire)
      <4>1. wire[j].item <= created /\ wire[j].item \in Nat
        BY <1>0, <3>1 DEF Ascending
      <4> QED BY <1>0, <2>2, <2>4, <3>1, <4>1
    <3>2. CASE j = Len(wire) + 1
      BY <2>2, <2>4, <3>2
    <3> QED BY <2>3, <3>1, <3>2
  <2>8. ASSUME NEW i \in 1..Len(tracked) PROVE tracked[i] <= created'
    <3>1. tracked[i] <= created /\ tracked[i] \in Nat
      BY <1>0 DEF Ascending
    <3> QED BY <1>0, <2>4, <3>1
  <2> QED BY <2>1, <2>5, <2>6, <2>7, <2>8 DEF Ascending
<1>2. CASE HandleCreated \/ HandleDone
  <2>1. wire # <<>> /\ wire' = Tail(wire) /\ created' = created
    BY <1>2 DEF HandleCreated, HandleDone
  <2>2. /\ 1 \in 1..Len(wire) /\ Head(wire) = wire[1]
        /\ Len(wire') = Len(wire) - 1
        /\ \A i \in 1..Len(wire') : wire'[i] = wire[i + 1] /\ i + 1 \in 1..Len(wire)
    BY <2>1, TailOfWire
  <2>3. ASSUME NEW i \in 1..Len(wire'), NEW j \in 1..Len(wire'), i < j,
               IsCreated(wire'[i]), IsCreated(wire'[j])
        PROVE  wire'[i].item < wire'[j].item
    <3>1. i + 1 < j + 1 /\ i + 1 \in 1..Len(wire) /\ j + 1 \in 1..Len(wire)
      BY <2>2, <2>3
    <3> QED BY <2>2, <2>3, <3>1 DEF Ascending
  <2>4. ASSUME NEW j \in 1..Len(wire') PROVE wire'[j].item <= created
    BY <2>2 DEF Ascending
  <2>5. ASSUME NEW i \in 1..Len(tracked), NEW j \in 1..Len(wire'), IsCreated(wire'[j])
        PROVE  tracked[i] < wire'[j].item
    BY <2>2, <2>5 DEF Ascending
  <2>6. CASE tracked' = tracked
    BY <2>1, <2>3, <2>4, <2>5, <2>6 DEF Ascending
  <2>7. CASE tracked' # tracked
    <3> DEFINE e == Head(wire).item
    <3>1. tracked' = Append(tracked, e) /\ IsCreated(wire[1]) /\ e = wire[1].item
      BY <1>2, <2>2, <2>7 DEF HandleCreated, HandleDone
    <3>2. e \in Nat /\ e <= created /\ \A i \in 1..Len(tracked) : tracked[i] < e
      BY <1>0, <2>2, <3>1 DEF Ascending
    <3>3. ASSUME NEW j \in 1..Len(wire'), IsCreated(wire'[j]) PROVE e < wire'[j].item
      <4>1. wire'[j] = wire[j + 1] /\ j + 1 \in 1..Len(wire) /\ 1 < j + 1
        BY <2>2
      <4> QED BY <2>2, <3>1, <3>3, <4>1 DEF Ascending
    <3> HIDE DEF e
    <3>4. /\ Len(tracked') = Len(tracked) + 1
          /\ \A i \in 1..Len(tracked) : tracked'[i] = tracked[i]
          /\ tracked'[Len(tracked) + 1] = e
      BY <1>0, <3>1, <3>2
    <3>5. ASSUME NEW i \in 1..Len(tracked') PROVE i \in 1..Len(tracked) \/ i = Len(tracked) + 1
      BY <1>0, <3>4
    <3>6. ASSUME NEW i \in 1..Len(tracked'), NEW j \in 1..Len(tracked'), i < j
          PROVE  tracked'[i] < tracked'[j]
      <4>1. i \in 1..Len(tracked)
        BY <1>0, <3>4, <3>6
      <4>2. CASE j \in 1..Len(tracked)
        BY <3>4, <3>6, <4>1, <4>2 DEF Ascending
      <4>3. CASE j = Len(tracked) + 1
        BY <3>2, <3>4, <4>1, <4>3
      <4> QED BY <3>5, <4>2, <4>3
    <3>7. ASSUME NEW i \in 1..Len(tracked'), NEW j \in 1..Len(wire'), IsCreated(wire'[j])
          PROVE  tracked'[i] < wire'[j].item
      BY <2>5, <3>3, <3>4, <3>5, <3>7
    <3>8. ASSUME NEW i \in 1..Len(tracked') PROVE tracked'[i] <= created
      <4>1. CASE i \in 1..Len(tracked)
        BY <3>4, <4>1 DEF Ascending
      <4>2. CASE i = Len(tracked) + 1
        BY <3>2, <3>4, <4>2
      <4> QED BY <3>5, <4>1, <4>2
    <3> QED BY <2>1, <2>3, <2>4, <3>6, <3>7, <3>8 DEF Ascending
  <2> QED BY <2>6, <2>7
<1>3. CASE AzureCloses \/ SendDelete \/ ReceiveFails \/ UNCHANGED vars
  BY <1>3 DEF AzureCloses, SendDelete, ReceiveFails, vars, Ascending
<1> QED BY <1>1, <1>2, <1>3 DEF Next, AzureStep, BackendStep, Over
------------------------------------------------------------------------------
(* What stays *)

LEMMA PresentInvariant ==
    CompactionTypeOK /\ Stretches /\ Ascending /\ Present /\ [Next]_vars => Present'
<1> SUFFICES ASSUME CompactionTypeOK, Stretches, Ascending, Present, [Next]_vars
             PROVE  Present'
  OBVIOUS
<1> USE DEF azureVars, backendVars
<1>0. /\ tracked \in Seq(Nat) /\ Len(tracked) \in Nat
      /\ items \in Seq(Nat) /\ Len(items) \in Nat
      /\ deleted \in Seq(Nat) /\ Len(deleted) \in Nat
      /\ deleting \in Seq(Nat) /\ Len(deleting) \in Nat
      /\ wire \in Seq(Event) /\ Len(wire) \in Nat
      /\ cumulative \in Nat /\ strategy \in Strategies
  BY DEF CompactionTypeOK
<1>9. strategy' = strategy /\ Kept' = IF strategy = "off" THEN Len(tracked') ELSE Kept
  <2>1. strategy' = strategy
    BY DEF Next, Over, vars
  <2> QED BY <1>0, <2>1, CompactionAssumption DEF Kept
<1>1. CASE CreateItem \/ FinishResponse
  <2>1. PICK e \in Event :
           /\ wire' = Append(wire, e)
           /\ IsCreated(e) => e.item \in azure'
           /\ azure \subseteq azure'
    <3>1. CASE CreateItem
      <4>1. ItemCreated(created') \in Event /\ ItemCreated(created').item = created'
        <5>1. created' \in Nat
          BY <3>1, CompactionAssumption DEF CreateItem, CompactionTypeOK
        <5> QED BY <5>1 DEF ItemCreated, Event
      <4>2. wire' = Append(wire, ItemCreated(created')) /\ azure' = azure \cup {created'}
        BY <3>1 DEF CreateItem
      <4> QED BY <4>1, <4>2
    <3>2. CASE FinishResponse
      <4>1. PICK t \in Tokens : wire' = Append(wire, ResponseDone(t))
        BY <3>2 DEF FinishResponse
      <4>2. ResponseDone(t) \in Event /\ ~IsCreated(ResponseDone(t))
        BY <4>1, CompactionAssumption DEF ResponseDone, Event, IsCreated
      <4>3. azure' = azure
        BY <3>2 DEF FinishResponse
      <4> QED BY <4>1, <4>2, <4>3
    <3> QED BY <1>1, <3>1, <3>2
  <2>2. UNCHANGED <<backendVars>>
    BY <1>1 DEF CreateItem, FinishResponse
  <2>3. ASSUME NEW j \in 1..Len(wire'), IsCreated(wire'[j]) PROVE wire'[j].item \in azure'
    <3>1. CASE j \in 1..Len(wire)
      BY <1>0, <2>1, <2>3, <3>1 DEF Present
    <3>2. CASE j = Len(wire) + 1
      BY <1>0, <2>1, <2>3, <3>2
    <3> QED BY <1>0, <2>1, <3>1, <3>2
  <2> QED BY <1>9, <2>1, <2>2, <2>3 DEF Present
<1>2. CASE HandleCreated
  <2>1. wire # <<>> /\ wire' = Tail(wire) /\ IsCreated(Head(wire))
    BY <1>2 DEF HandleCreated
  <2>2. /\ 1 \in 1..Len(wire) /\ Head(wire) = wire[1]
        /\ \A i \in 1..Len(wire') : wire'[i] = wire[i + 1] /\ i + 1 \in 1..Len(wire)
    BY <2>1, TailOfWire
  <2>3. UNCHANGED <<azure, deleted, deleting, receiver>>
    BY <1>2 DEF HandleCreated
  <2>4. \A j \in 1..Len(wire') : IsCreated(wire'[j]) => wire'[j].item \in azure
    BY <2>2 DEF Present
  <2>5. CASE UNCHANGED <<items, tracked>>
    BY <1>9, <2>3, <2>4, <2>5 DEF Present
  <2>6. CASE ~UNCHANGED <<items, tracked>>
    <3> DEFINE e == Head(wire).item
    <3>1. items' = Append(items, e) /\ tracked' = Append(tracked, e)
      BY <1>2, <2>6 DEF HandleCreated
    <3>2. e \in azure
      BY <2>1, <2>2 DEF Present
    <3> HIDE DEF e
    <3>3. /\ Len(items') = Len(items) + 1 /\ Len(tracked') = Len(tracked) + 1
          /\ \A i \in 1..Len(tracked) : tracked'[i] = tracked[i]
          /\ tracked'[Len(tracked) + 1] = e
      BY <1>0, <3>1
    <3>4. ASSUME NEW i \in 1..Len(tracked'), i > Len(deleted) PROVE tracked'[i] \in azure
      <4>1. CASE i \in 1..Len(tracked)
        BY <3>3, <3>4, <4>1 DEF Present
      <4>2. CASE i = Len(tracked) + 1
        BY <3>2, <3>3, <4>2
      <4>3. i \in 1..(Len(tracked) + 1)
        BY <3>3
      <4> QED BY <1>0, <4>1, <4>2, <4>3
    <3>5. Len(deleted) + Len(deleting) > 0 => strategy # "off" /\ Len(items') >= Kept'
      <4>1. strategy # "off" => Kept' = Kept /\ Kept \in Nat
        BY <1>0, <1>9, CompactionAssumption DEF Kept
      <4> QED BY <1>0, <3>3, <4>1 DEF Present
    <3> QED BY <1>9, <2>3, <2>4, <3>4, <3>5 DEF Present
  <2> QED BY <2>5, <2>6
<1>3. CASE HandleDone
  <2> DEFINE t == Head(wire).tokens
             total == cumulative + t
             n == SelectCount(Len(items), total)
  <2>1. wire # <<>> /\ wire' = Tail(wire)
    BY <1>3 DEF HandleDone
  <2>2. \A i \in 1..Len(wire') : wire'[i] = wire[i + 1] /\ i + 1 \in 1..Len(wire)
    BY <2>1, TailOfWire
  <2>3. /\ UNCHANGED <<azure, deleted, tracked>>
        /\ deleting = <<>>
        /\ Pop(n)
        /\ receiver' = IF n = 0 THEN "wait" ELSE "delete"
    BY <1>3 DEF HandleDone, Present
  <2>4. total \in Nat
    <3>1. Head(wire) \in Event
      BY <1>0, <2>1, HeadTailProperties
    <3>2. t \in Nat
      BY <3>1 DEF Event
    <3> HIDE DEF t
    <3> QED BY <1>0, <3>2
  <2>5. n \in 0..Len(items) /\ (n > 0 => strategy # "off" /\ Len(items) - n >= Kept)
    <3> HIDE DEF total
    <3> QED BY <1>0, <2>4, SelectBound
  <2> HIDE DEF n
  <2>6. deleting' \in Seq(Nat) /\ Len(deleting') = n /\ Len(items') = Len(items) - n
    BY <1>0, <2>3, <2>5, PopLengths DEF Pop
  <2>7. receiver' = "delete" <=> deleting' # <<>>
    BY <2>3, <2>5, <2>6, EmptySeq
  <2>8. Kept' = Kept
    BY <1>9, <2>3 DEF Kept
  <2>9. Len(deleted) + Len(deleting') > 0 => strategy # "off" /\ Len(items') >= Kept
    <3>1. CASE n = 0
      BY <1>0, <2>3, <2>6, <3>1 DEF Present
    <3>2. CASE n # 0
      BY <1>0, <2>5, <2>6, <3>2
    <3> QED BY <3>1, <3>2
  <2>10. \A j \in 1..Len(wire') : IsCreated(wire'[j]) => wire'[j].item \in azure
    BY <2>2 DEF Present
  <2> QED BY <1>9, <2>3, <2>7, <2>8, <2>9, <2>10 DEF Present
<1>4. CASE SendDelete
  <2>1. /\ deleting # <<>> /\ deleting' = Tail(deleting)
        /\ deleted' = Append(deleted, Head(deleting))
        /\ UNCHANGED <<items, tracked, wire>>
        /\ azure \ {Head(deleting)} \subseteq azure'
        /\ receiver' = IF deleting' = <<>> THEN "wait" ELSE "delete"
    BY <1>4 DEF SendDelete
  <2>2. /\ Len(deleting') = Len(deleting) - 1
        /\ 1 \in 1..Len(deleting) /\ Head(deleting) = deleting[1]
        /\ Head(deleting) \in Nat
    <3>1. Len(deleting) \in Nat \ {0}
      BY <1>0, <2>1, EmptySeq
    <3>2. Len(deleting') = Len(deleting) - 1 /\ Head(deleting) \in Nat
      BY <1>0, <2>1, HeadTailProperties
    <3> QED BY <3>1, <3>2
  <2>3. Len(deleted') = Len(deleted) + 1
    BY <1>0, <2>1, <2>2
  <2>4. Head(deleting) = tracked[Len(deleted) + 1] /\ Len(deleted) + 1 \in 1..Len(tracked)
    BY <1>0, <2>2 DEF Stretches
  <2>5. ASSUME NEW i \in 1..Len(tracked), i > Len(deleted') PROVE tracked[i] \in azure'
    <3>1. Len(deleted) + 1 < i
      BY <2>3, <2>5
    <3>2. tracked[Len(deleted) + 1] < tracked[i]
      BY <2>4, <3>1 DEF Ascending
    <3>3. tracked[i] \in azure /\ tracked[i] # Head(deleting)
      <4>1. tracked[i] \in Nat
        BY <1>0, ElementOfSeq
      <4>2. i > Len(deleted)
        BY <1>0, <3>1
      <4>3. tracked[i] \in azure
        BY <4>2 DEF Present
      <4> QED BY <2>2, <2>4, <3>2, <4>1, <4>3
    <3> QED BY <2>1, <3>3
  <2>6. ASSUME NEW j \in 1..Len(wire), IsCreated(wire[j]) PROVE wire[j].item \in azure'
    <3>1. Head(deleting) < wire[j].item
      BY <2>4, <2>6 DEF Ascending
    <3>2. wire[j].item \in azure /\ wire[j].item # Head(deleting)
      BY <2>2, <2>6, <3>1 DEF Present
    <3> QED BY <2>1, <3>2
  <2>7. Len(deleted') + Len(deleting') = Len(deleted) + Len(deleting)
    BY <1>0, <2>2, <2>3
  <2>8. Kept' = Kept
    BY <1>9, <2>1 DEF Kept
  <2> QED BY <1>9, <2>1, <2>5, <2>6, <2>7, <2>8 DEF Present
<1>5. CASE AzureCloses \/ UNCHANGED vars
  BY <1>9, <1>5 DEF AzureCloses, vars, Present
<1>6. CASE ReceiveFails
  BY <1>9, <1>6 DEF ReceiveFails, Present
<1> QED BY <1>1, <1>2, <1>3, <1>4, <1>5, <1>6 DEF Next, AzureStep, BackendStep, Over

LEMMA CompactionInvariant == Spec => []CompactionInv
<1>1. Init => CompactionInv
  BY DEF Init, CompactionInv, Stretches, Ascending, Present
<1>2. CompactionTypeOK /\ CompactionInv /\ [Next]_vars => CompactionInv'
  BY StretchesInvariant, AscendingInvariant, PresentInvariant DEF CompactionInv
<1> QED BY <1>1, <1>2, TypeCorrect, PTL DEF Spec

\* What is deleted is always the oldest of what was tracked, each item once,
\* and nothing that was tracked is forgotten.
THEOREM DeletesOldestFirst == Spec => []OldestFirst
<1>1. CompactionTypeOK /\ Stretches => OldestFirst
  <2> SUFFICES ASSUME CompactionTypeOK, Stretches PROVE OldestFirst
    OBVIOUS
  <2>0. /\ tracked \in Seq(Nat) /\ items \in Seq(Nat)
        /\ deleted \in Seq(Nat) /\ deleting \in Seq(Nat)
        /\ Len(items) \in Nat /\ Len(deleted) \in Nat /\ Len(deleting) \in Nat
    BY DEF CompactionTypeOK
  <2> DEFINE gone == deleted \o deleting
  <2>1. /\ gone \in Seq(Nat)
        /\ Len(gone) = Len(deleted) + Len(deleting)
        /\ \A i \in 1..Len(deleted) + Len(deleting) :
              gone[i] = IF i <= Len(deleted) THEN deleted[i] ELSE deleting[i - Len(deleted)]
    BY <2>0, ConcatProperties
  <2>2. ASSUME NEW i \in 1..Len(gone) PROVE gone[i] = tracked[i]
    <3>1. CASE i <= Len(deleted)
      <4>1. i \in 1..Len(deleted) /\ i \in 1..Len(deleted) + Len(deleting)
        BY <2>0, <2>1, <3>1
      <4> HIDE DEF gone
      <4>2. gone[i] = deleted[i]
        BY <2>1, <3>1, <4>1
      <4> QED BY <4>1, <4>2 DEF Stretches
    <3>2. CASE i > Len(deleted)
      <4>1. i - Len(deleted) \in 1..Len(deleting) /\ Len(deleted) + (i - Len(deleted)) = i
        BY <2>0, <2>1, <3>2
      <4> HIDE DEF gone
      <4>2. gone[i] = deleting[i - Len(deleted)]
        BY <2>0, <2>1, <3>2
      <4>3. deleting[i - Len(deleted)] = tracked[Len(deleted) + (i - Len(deleted))]
        BY <4>1 DEF Stretches
      <4> QED BY <4>1, <4>2, <4>3
    <3> QED BY <2>0, <2>1, <3>1, <3>2
  <2> HIDE DEF gone
  <2> DEFINE all == gone \o items
  <2>3. /\ all \in Seq(Nat)
        /\ Len(all) = Len(gone) + Len(items)
        /\ \A i \in 1..Len(gone) + Len(items) :
              all[i] = IF i <= Len(gone) THEN gone[i] ELSE items[i - Len(gone)]
    <3>1. gone \in Seq(Nat) /\ items \in Seq(Nat)
      BY <2>0, <2>1
    <3> QED BY ONLY <3>1, ConcatProperties, Zenon
  <2> HIDE DEF all
  <2>4. Len(all) = Len(tracked)
    BY <2>1, <2>3 DEF Stretches
  <2>5. ASSUME NEW i \in 1..Len(all) PROVE all[i] = tracked[i]
    <3>1. CASE i <= Len(gone)
      BY <2>0, <2>1, <2>2, <2>3, <3>1
    <3>2. CASE i > Len(gone)
      <4>1. i - Len(gone) \in 1..Len(items) /\ Len(gone) + (i - Len(gone)) = i
        BY <2>0, <2>1, <2>3, <3>2
      <4>2. all[i] = items[i - Len(gone)]
        BY <2>0, <2>1, <2>3, <3>2
      <4>3. items[i - Len(gone)] = tracked[Len(gone) + (i - Len(gone))]
        BY <2>1, <4>1 DEF Stretches
      <4> QED BY <4>1, <4>2, <4>3
    <3> QED BY <2>0, <2>1, <2>3, <3>1, <3>2
  <2>6. all = tracked
    BY <2>0, <2>3, <2>4, <2>5, SeqEqual
  <2> QED BY <2>6 DEF OldestFirst, all, gone
<1> QED BY <1>1, TypeCorrect, CompactionInvariant, PTL DEF CompactionInv

\* The last messages the backend saw stay in Azure's conversation, however
\* often the strategy acts and however late the deletes are sent.
THEOREM RecentMessagesStay == Spec => []RecentKept
<1>1. CompactionTypeOK /\ CompactionInv => RecentKept
  <2> SUFFICES ASSUME CompactionTypeOK, CompactionInv,
                      NEW i \in 1..Len(tracked), i > Len(tracked) - Kept
               PROVE  tracked[i] \in azure
    BY DEF RecentKept
  <2>0. /\ Len(tracked) \in Nat /\ Len(items) \in Nat /\ Len(deleted) \in Nat
        /\ Len(deleting) \in Nat /\ Kept \in Nat
    BY CompactionAssumption DEF CompactionTypeOK, Kept
  <2>1. i > Len(deleted)
    BY <2>0 DEF CompactionInv, Stretches, Present
  <2> QED BY <2>1 DEF CompactionInv, Present
<1> QED BY <1>1, TypeCorrect, CompactionInvariant, PTL

\* What a sequence holds.
Elements(s) == {s[i] : i \in DOMAIN s}

LEMMA ElementsAppend ==
    ASSUME NEW S, NEW s \in Seq(S), NEW e \in S
    PROVE  Elements(Append(s, e)) = Elements(s) \cup {e}
<1>1. /\ Len(s) \in Nat /\ DOMAIN s = 1..Len(s) /\ DOMAIN Append(s, e) = 1..(Len(s) + 1)
      /\ \A i \in 1..Len(s) : Append(s, e)[i] = s[i]
      /\ Append(s, e)[Len(s) + 1] = e
  BY AppendProperties
<1>2. 1..(Len(s) + 1) = (1..Len(s)) \cup {Len(s) + 1}
  BY <1>1
<1> QED BY <1>1, <1>2 DEF Elements

LEMMA ElementsTail ==
    ASSUME NEW S, NEW s \in Seq(S), s # <<>>
    PROVE  Elements(s) = {Head(s)} \cup Elements(Tail(s))
<1>1. /\ Len(s) \in Nat \ {0} /\ DOMAIN s = 1..Len(s) /\ Head(s) = s[1]
      /\ DOMAIN Tail(s) = 1..(Len(s) - 1)
      /\ \A i \in 1..(Len(s) - 1) : Tail(s)[i] = s[i + 1]
  BY HeadTailProperties, EmptySeq
<1>2. ASSUME NEW i \in 1..Len(s) PROVE i = 1 \/ (i - 1 \in 1..(Len(s) - 1) /\ i = (i - 1) + 1)
  BY <1>1
<1>3. ASSUME NEW i \in 1..(Len(s) - 1) PROVE i + 1 \in 1..Len(s)
  BY <1>1
<1>4. 1 \in 1..Len(s)
  BY <1>1
<1>5. Elements(s) \subseteq {Head(s)} \cup Elements(Tail(s))
  <2> SUFFICES ASSUME NEW i \in 1..Len(s) PROVE s[i] \in {Head(s)} \cup Elements(Tail(s))
    BY <1>1 DEF Elements
  <2>1. CASE i = 1
    BY <1>1, <2>1
  <2>2. CASE i - 1 \in 1..(Len(s) - 1)
    <3>1. s[i] = Tail(s)[i - 1]
      BY <1>1, <1>2, <2>2
    <3> QED BY <1>1, <2>2, <3>1 DEF Elements
  <2> QED BY <1>2, <2>1, <2>2
<1>6. {Head(s)} \cup Elements(Tail(s)) \subseteq Elements(s)
  BY <1>1, <1>3, <1>4 DEF Elements
<1> QED BY <1>5, <1>6

\* Splitting a list in two loses no element.
LEMMA ElementsPop ==
    ASSUME NEW s \in Seq(Nat), NEW n \in 0..Len(s)
    PROVE  Elements(s) = Elements(SubSeq(s, 1, n)) \cup Elements(SubSeq(s, n + 1, Len(s)))
<1> DEFINE a == SubSeq(s, 1, n)
           b == SubSeq(s, n + 1, Len(s))
<1>1. /\ Len(s) \in Nat /\ n \in Nat
      /\ DOMAIN s = 1..Len(s) /\ DOMAIN a = 1..n /\ DOMAIN b = 1..(Len(s) - n)
      /\ \A i \in 1..n : a[i] = s[i]
      /\ \A i \in 1..(Len(s) - n) : b[i] = s[n + i]
  BY PopLengths
<1> HIDE DEF a, b
<1>2. ASSUME NEW i \in 1..Len(s) PROVE i \in 1..n \/ (i - n \in 1..(Len(s) - n) /\ i = n + (i - n))
  BY <1>1
<1>3. ASSUME NEW i \in 1..n PROVE i \in 1..Len(s)
  BY <1>1
<1>4. ASSUME NEW i \in 1..(Len(s) - n) PROVE n + i \in 1..Len(s)
  BY <1>1
<1>5. Elements(s) \subseteq Elements(a) \cup Elements(b)
  <2> SUFFICES ASSUME NEW i \in 1..Len(s) PROVE s[i] \in Elements(a) \cup Elements(b)
    BY <1>1 DEF Elements
  <2>1. CASE i \in 1..n
    BY <1>1, <2>1 DEF Elements
  <2>2. CASE i - n \in 1..(Len(s) - n) /\ i = n + (i - n)
    <3>1. s[i] = b[i - n]
      BY <1>1, <2>2
    <3> QED BY <1>1, <2>2, <3>1 DEF Elements
  <2> QED BY <1>2, <2>1, <2>2
<1>6. Elements(a) \cup Elements(b) \subseteq Elements(s)
  BY <1>1, <1>3, <1>4 DEF Elements
<1> QED BY <1>5, <1>6 DEF a, b

\* The list accounts for the conversation, said with Elements.
Announced == {e.item : e \in Elements(wire)} \ {0}

LEMMA ListAsElements ==
    /\ Pending = Announced
    /\ ListMatchesConversation <=>
         (strategy # "off" /\ conn = "open" =>
            azure \cap messages = Elements(items) \cup Elements(deleting) \cup (Announced \cap messages))
<1>1. Pending = Announced
  BY DEF Pending, Announced, Elements
<1> QED BY <1>1 DEF ListMatchesConversation, Elements

\* The item that a delete names is nowhere else in the list, nor announced later.
LEMMA DeletedOnce ==
    ASSUME CompactionTypeOK, CompactionInv, deleting # <<>>
    PROVE  /\ Head(deleting) \notin Elements(Tail(deleting))
           /\ Head(deleting) \notin Elements(items)
           /\ Head(deleting) \notin Announced
<1>1. /\ tracked \in Seq(Nat) /\ items \in Seq(Nat) /\ deleting \in Seq(Nat) /\ deleted \in Seq(Nat)
      /\ wire \in Seq(Event)
  BY DEF CompactionTypeOK
<1>2. /\ Len(deleted) \in Nat /\ Len(items) \in Nat /\ Len(deleting) \in Nat \ {0}
      /\ Len(tracked) \in Nat
      /\ Len(tracked) = Len(deleted) + Len(deleting) + Len(items)
  BY <1>1, EmptySeq DEF CompactionInv, Stretches
<1> DEFINE k == Len(deleted) + 1
<1>3. k \in 1..Len(tracked) /\ Head(deleting) = tracked[k] /\ tracked[k] \in Nat
  <2>1. 1 \in 1..Len(deleting) /\ Head(deleting) = deleting[1]
    BY <1>1, <1>2, HeadTailProperties
  <2>2. k \in 1..Len(tracked)
    BY <1>2
  <2>3. tracked[k] \in Nat
    BY <1>1, <2>2, ElementOfSeq
  <2> QED BY <2>1, <2>2, <2>3 DEF CompactionInv, Stretches
<1>4. ASSUME NEW j \in 1..Len(tracked), k < j PROVE Head(deleting) # tracked[j]
  <2>1. tracked[k] < tracked[j] /\ tracked[j] \in Nat
    BY <1>1, <1>3, <1>4, ElementOfSeq DEF CompactionInv, Ascending
  <2> QED BY <1>3, <2>1
<1>5. Head(deleting) \notin Elements(Tail(deleting))
  <2> SUFFICES ASSUME NEW i \in DOMAIN Tail(deleting) PROVE Head(deleting) # Tail(deleting)[i]
    BY DEF Elements
  <2>1. i \in 1..(Len(deleting) - 1) /\ Tail(deleting)[i] = deleting[i + 1]
    <3>1. /\ Len(Tail(deleting)) = Len(deleting) - 1 /\ DOMAIN Tail(deleting) = 1..Len(Tail(deleting))
          /\ \A j \in 1..Len(Tail(deleting)) : Tail(deleting)[j] = deleting[j + 1]
      BY <1>1, HeadTailProperties
    <3> QED BY <3>1
  <2>2. i + 1 \in 1..Len(deleting) /\ Len(deleted) + (i + 1) \in 1..Len(tracked)
        /\ k < Len(deleted) + (i + 1)
    BY <1>2, <2>1
  <2>3. deleting[i + 1] = tracked[Len(deleted) + (i + 1)]
    BY <2>2 DEF CompactionInv, Stretches
  <2> HIDE DEF k
  <2> QED BY <1>4, <2>1, <2>2, <2>3
<1>6. Head(deleting) \notin Elements(items)
  <2> SUFFICES ASSUME NEW i \in DOMAIN items PROVE Head(deleting) # items[i]
    BY DEF Elements
  <2>0. i \in 1..Len(items)
    BY <1>1
  <2>1. Len(deleted) + Len(deleting) + i \in 1..Len(tracked)
        /\ k < Len(deleted) + Len(deleting) + i
    BY <1>2, <2>0
  <2>2. items[i] = tracked[Len(deleted) + Len(deleting) + i]
    BY <2>0 DEF CompactionInv, Stretches
  <2> HIDE DEF k
  <2> QED BY <1>4, <2>1, <2>2
<1>7. Head(deleting) \notin Announced
  <2> SUFFICES ASSUME NEW j \in DOMAIN wire, wire[j].item # 0 PROVE Head(deleting) # wire[j].item
    BY DEF Announced, Elements
  <2>1. j \in 1..Len(wire) /\ wire[j] \in Event
    BY <1>1, ElementOfSeq
  <2>2. wire[j].item \in Nat
    BY <2>1 DEF Event
  <2>3. tracked[k] < wire[j].item
    BY <1>3, <2>1 DEF CompactionInv, Ascending, IsCreated
  <2> HIDE DEF k
  <2> QED BY <1>3, <2>2, <2>3
<1> QED BY <1>5, <1>6, <1>7

\* A step keeps the conversation accounted for: each action moves one item, or the
\* first few of the list, between the sets the invariant compares.
LEMMA ListInvariant ==
    CompactionTypeOK /\ CompactionInv /\ ListMatchesConversation /\ [Next]_vars
      => ListMatchesConversation'
<1> SUFFICES ASSUME CompactionTypeOK, CompactionInv, ListMatchesConversation, [Next]_vars,
                    strategy' # "off", conn' = "open"
             PROVE  (azure \cap messages)'
                       = (Elements(items) \cup Elements(deleting) \cup (Announced \cap messages))'
  <2>1. /\ Pending' = Announced'
        /\ ListMatchesConversation' <=>
             (strategy' # "off" /\ conn' = "open" =>
                (azure \cap messages)'
                   = (Elements(items) \cup Elements(deleting) \cup (Announced \cap messages))')
    <3>1. Pending' = Announced'
      BY DEF Pending, Announced, Elements
    <3> QED BY <3>1 DEF ListMatchesConversation, Elements
  <2> QED BY <2>1
<1> USE DEF azureVars, backendVars
<1>0. /\ items \in Seq(Nat) /\ deleting \in Seq(Nat) /\ deleted \in Seq(Nat) /\ wire \in Seq(Event)
      /\ created \in Nat /\ messages \subseteq 1..created /\ azure \subseteq 1..created
      /\ strategy \in Strategies
  BY CompactionAssumption DEF CompactionTypeOK
<1>9. wire # <<>> => Head(wire) \in Event /\ Head(wire).item \in Nat
  <2> SUFFICES ASSUME wire # <<>> PROVE Head(wire) \in Event /\ Head(wire).item \in Nat
    OBVIOUS
  <2>1. Len(wire) \in Nat \ {0} /\ Head(wire) = wire[1]
    BY <1>0, EmptySeq, HeadTailProperties
  <2>2. 1 \in 1..Len(wire)
    BY <2>1
  <2>3. Head(wire) \in Event
    BY <1>0, <2>1, <2>2, ElementOfSeq
  <2> QED BY <2>3 DEF Event
<1>1. strategy' = strategy /\ conn = "open"
  BY DEF Next, AzureStep, CreateItem, FinishResponse, AzureCloses, BackendStep, HandleCreated,
         HandleDone, SendDelete, ReceiveFails, Over, vars
<1>2. azure \cap messages = Elements(items) \cup Elements(deleting) \cup (Announced \cap messages)
  BY <1>1, ListAsElements
<1>3. CASE CreateItem
  <2> DEFINE e == ItemCreated(created')
  <2>1. /\ created' = created + 1 /\ azure' = azure \cup {created'}
        /\ messages' \in {messages, messages \cup {created'}}
        /\ wire' = Append(wire, e) /\ items' = items /\ deleting' = deleting
    BY <1>3 DEF CreateItem
  <2>2. e \in Event /\ e.item = created' /\ created' # 0
    BY <1>0, <2>1 DEF ItemCreated, Event
  <2> HIDE DEF e
  <2>3. Elements(wire') = Elements(wire) \cup {e}
    BY <1>0, <2>1, <2>2, ElementsAppend
  <2>4. Announced' = Announced \cup {created'}
    BY <2>2, <2>3 DEF Announced
  <2>5. created' \notin azure /\ created' \notin messages
    BY <1>0, <2>1
  <2>6. created' \notin Announced
    <3>1. \A j \in DOMAIN wire : wire[j].item <= created /\ wire[j].item \in Nat
      <4> SUFFICES ASSUME NEW j \in DOMAIN wire PROVE wire[j].item <= created /\ wire[j].item \in Nat
        OBVIOUS
      <4>1. j \in 1..Len(wire) /\ wire[j] \in Event
        BY <1>0, ElementOfSeq
      <4>2. wire[j].item \in Nat
        BY <4>1 DEF Event
      <4> QED BY <4>1, <4>2 DEF CompactionInv, Ascending
    <3>2. \A j \in DOMAIN wire : wire[j].item # created + 1
      BY <1>0, <3>1
    <3> QED BY <2>1, <3>2 DEF Announced, Elements
  <2>7. CASE messages' = messages
    BY <1>2, <2>1, <2>4, <2>5, <2>7
  <2>8. CASE messages' = messages \cup {created'}
    BY <1>2, <2>1, <2>4, <2>5, <2>6, <2>8
  <2> QED BY <2>1, <2>7, <2>8
<1>4. CASE FinishResponse
  <2>1. PICK t \in Tokens : wire' = Append(wire, ResponseDone(t))
    BY <1>4 DEF FinishResponse
  <2> DEFINE e == ResponseDone(t)
  <2>2. e \in Event /\ e.item = 0 /\ wire' = Append(wire, e)
    BY <2>1, CompactionAssumption DEF ResponseDone, Event
  <2> HIDE DEF e
  <2>3. Elements(wire') = Elements(wire) \cup {e}
    BY <1>0, <2>2, ElementsAppend
  <2>4. Announced' = Announced
    BY <2>2, <2>3 DEF Announced
  <2>5. azure' = azure /\ messages' = messages /\ items' = items /\ deleting' = deleting
    BY <1>4 DEF FinishResponse
  <2> QED BY <1>2, <2>4, <2>5
<1>5. CASE HandleCreated
  <2>1. /\ wire # <<>> /\ wire' = Tail(wire) /\ Head(wire).item # 0
        /\ azure' = azure /\ messages' = messages /\ deleting' = deleting
    BY <1>5 DEF HandleCreated, IsCreated
  <2>2. Elements(wire) = {Head(wire)} \cup Elements(wire')
    BY <1>0, <2>1, ElementsTail
  <2>3. Announced = {Head(wire).item} \cup Announced'
    BY <2>1, <2>2 DEF Announced
  <2>4. CASE Head(wire).item \in messages
    <3>1. items' = Append(items, Head(wire).item)
      <4>1. strategy # "off"
        BY <1>1, <1>5 DEF HandleCreated
      <4> QED BY <1>5, <2>4, <4>1 DEF HandleCreated
    <3>3. Head(wire).item \in Nat
      BY <1>9, <2>1 DEF Event
    <3>2. Elements(items') = Elements(items) \cup {Head(wire).item}
      <4> DEFINE h == Head(wire).item
      <4>1. items' = Append(items, h) /\ h \in Nat
        BY <3>1, <3>3
      <4> HIDE DEF h
      <4>2. Elements(Append(items, h)) = Elements(items) \cup {h}
        <5>1. items \in Seq(Nat) /\ h \in Nat
          BY <1>0, <4>1
        <5> QED BY <5>1, ElementsAppend
      <4>3. Elements(items') = Elements(items) \cup {h}
        BY <4>1, <4>2
      <4> QED BY <4>3 DEF h
    <3> QED BY <1>2, <2>1, <2>3, <2>4, <3>2
  <2>5. CASE Head(wire).item \notin messages
    <3>1. items' = items
      BY <1>5, <2>5 DEF HandleCreated
    <3> QED BY <1>2, <2>1, <2>3, <2>5, <3>1
  <2> QED BY <2>4, <2>5
<1>6. CASE HandleDone
  <2>1. /\ wire # <<>> /\ wire' = Tail(wire) /\ Head(wire).item = 0
        /\ azure' = azure /\ messages' = messages /\ receiver = "wait"
    BY <1>6 DEF HandleDone, IsCreated
  <2>2. Elements(wire) = {Head(wire)} \cup Elements(wire')
    BY <1>0, <2>1, ElementsTail
  <2>3. Announced' = Announced
    BY <2>1, <2>2 DEF Announced
  <2>4. deleting = <<>>
    BY <2>1 DEF CompactionInv, Present
  <2>5. Elements(deleting) = {}
    BY <2>4 DEF Elements
  <2>6. Elements(items) = Elements(deleting') \cup Elements(items')
    <3> DEFINE n == SelectCount(Len(items), cumulative + turn')
    <3>1. deleting' = SubSeq(items, 1, n) /\ items' = SubSeq(items, n + 1, Len(items))
      BY <1>6 DEF HandleDone, Pop
    <3>2. Len(items) \in Nat /\ cumulative + turn' \in Nat
      <4>1. Head(wire) \in Event
        BY <1>9, <2>1
      <4>2. turn' \in Nat
        BY <1>6, <4>1 DEF HandleDone, Event
      <4>3. cumulative \in Nat
        BY DEF CompactionTypeOK
      <4>4. cumulative + turn' \in Nat
        <5>1. \A x, y \in Nat : x + y \in Nat
          OBVIOUS
        <5> QED BY <4>2, <4>3, <5>1
      <4>5. Len(items) \in Nat
        BY <1>0
      <4> QED BY <4>4, <4>5
    <3>3. n \in 0..Len(items)
      BY <1>0, <3>2, SelectBound
    <3> HIDE DEF n
    <3> QED BY <1>0, <3>1, <3>3, ElementsPop
  <2> QED BY <1>2, <2>1, <2>3, <2>5, <2>6
<1>7. CASE SendDelete
  <2>1. /\ deleting # <<>> /\ azure' = azure \ {Head(deleting)} /\ deleting' = Tail(deleting)
        /\ items' = items /\ messages' = messages /\ wire' = wire
    BY <1>1, <1>7 DEF SendDelete
  <2>2. Elements(deleting) = {Head(deleting)} \cup Elements(deleting')
    BY <1>0, <2>1, ElementsTail
  <2>3. /\ Head(deleting) \notin Elements(deleting')
        /\ Head(deleting) \notin Elements(items) /\ Head(deleting) \notin Announced
    BY <2>1, DeletedOnce
  <2>4. Announced' = Announced
    BY <2>1 DEF Announced
  <2> QED BY <1>2, <2>1, <2>2, <2>3, <2>4
<1>8. CASE AzureCloses \/ ReceiveFails \/ Over \/ UNCHANGED vars
  <2>1. UNCHANGED <<azure, messages, items, deleting, wire>>
    BY <1>8 DEF AzureCloses, ReceiveFails, Over, vars
  <2>2. Announced' = Announced
    BY <2>1 DEF Announced
  <2> QED BY <1>2, <2>1, <2>2
<1> QED BY <1>3, <1>4, <1>5, <1>6, <1>7, <1>8 DEF Next, AzureStep, BackendStep

\* While the connection is open, the backend's list, the deletes under way and the
\* announcements account for every message of Azure's conversation.
THEOREM ListAccountsForConversation == Spec => []ListMatchesConversation
<1>1. Init => ListMatchesConversation
  BY DEF Init, ListMatchesConversation
<1> QED BY <1>1, ListInvariant, TypeCorrect, CompactionInvariant, PTL DEF Spec
==============================================================================
