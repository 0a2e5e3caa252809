------------------------------ MODULE Compaction ------------------------------
(***************************************************************************)
(* Compaction of a conversation: the items Azure holds, the messages among *)
(* them _read_from_azure has been told of, and the deletes it sends after  *)
(* a response.  An item is its position in the order Azure created it.     *)
(***************************************************************************)
EXTENDS Naturals, Sequences

CONSTANTS
    Strategies,   \* those a session may be configured with
    MaxItems,     \* max_items of RollingWindow
    Budget,       \* budget of TokenBudget
    Tokens,       \* the input_tokens a response.done may carry
    MaxCreated,   \* bound: items in one call
    MaxTurns      \* bound: responses in one call

ASSUME CompactionAssumption ==
    /\ Strategies \subseteq {"off", "rolling", "token_budget"}
    /\ MaxItems \in Nat /\ Budget \in Nat /\ MaxCreated \in Nat /\ MaxTurns \in Nat
    /\ Tokens \subseteq Nat

VARIABLES
    strategy,     \* what make_strategy returned for the call
    messages,     \* the items created as messages; the others are tool calls
    created,      \* how many items Azure created
    azure,        \* the items of Azure's conversation
    wire,         \* the events on their way to the backend
    turnsLeft,    \* responses Azure may still finish
    conn,         \* open, closed
    items,        \* conversation_item_ids
    cumulative,   \* _cumulative of TokenBudget
    turn,         \* input_tokens of the last response.done
    deleting,     \* what select returned and is not sent yet
    deleted,      \* what was sent, or failed to be
    tracked,      \* every item that was ever appended to items
    receiver      \* wait, delete, done

azureVars == <<messages, created, azure, turnsLeft, conn>>
backendVars == <<items, cumulative, turn, deleting, deleted, tracked, receiver>>
vars == <<strategy, azureVars, wire, backendVars>>

\* conversation.item.created and response.done.
ItemCreated(n) == [item |-> n, tokens |-> 0]
ResponseDone(t) == [item |-> 0, tokens |-> t]
IsCreated(e) == e.item # 0

Event == [item : Nat, tokens : Nat]

Init ==
    /\ strategy \in Strategies
    /\ messages = {}
    /\ created = 0
    /\ azure = {}
    /\ wire = <<>>
    /\ turnsLeft = MaxTurns
    /\ conn = "open"
    /\ items = <<>>
    /\ cumulative = 0
    /\ turn = 0
    /\ deleting = <<>>
    /\ deleted = <<>>
    /\ tracked = <<>>
    /\ receiver = "wait"
------------------------------------------------------------------------------
(* Azure *)

\* A turn of the caller or of the model, or a tool call and its output.
CreateItem ==
    /\ conn = "open"
    /\ created < MaxCreated
    /\ created' = created + 1
    /\ azure' = azure \cup {created'}
    /\ messages' \in {messages, messages \cup {created'}}
    /\ wire' = Append(wire, ItemCreated(created'))
    /\ UNCHANGED <<turnsLeft, conn, backendVars>>

FinishResponse ==
    /\ conn = "open"
    /\ turnsLeft > 0
    /\ turnsLeft' = turnsLeft - 1
    /\ \E t \in Tokens : wire' = Append(wire, ResponseDone(t))
    /\ UNCHANGED <<messages, created, azure, conn, backendVars>>

AzureCloses ==
    /\ conn = "open"
    /\ conn' = "closed"
    /\ UNCHANGED <<messages, created, azure, wire, turnsLeft, backendVars>>

AzureStep == CreateItem \/ FinishResponse \/ AzureCloses
------------------------------------------------------------------------------
(* The strategies: how many of the oldest items select returns *)

\* RollingWindow: pop while there are more than max_items.
RollingCount(len) == IF len > MaxItems THEN len - MaxItems ELSE 0

\* Fault: short conversations are not exempt.
BudgetCountNoFloor(len, total) ==
    IF total <= Budget \/ len = 0 THEN 0
    ELSE IF len < 4 THEN 1 ELSE len \div 4

\* TokenBudget: a quarter, at least one, once the sum of the turns crosses.
BudgetCount(len, total) ==
    IF total <= Budget \/ len <= 2 THEN 0
    ELSE IF len < 4 THEN 1 ELSE len \div 4

SelectCount(len, total) ==
    IF strategy = "rolling" THEN RollingCount(len)
    ELSE IF strategy = "token_budget" THEN BudgetCount(len, total)
    ELSE 0

\* Fault: the turn is taken off twice.
RemainingTwice(total, t, n) == IF n = 0 THEN total ELSE (total - t) - t

\* The sum is put back, not below zero, when a turn deleted something.
Remaining(total, t, n) == IF n = 0 THEN total ELSE IF total > t THEN total - t ELSE 0
------------------------------------------------------------------------------
(* _read_from_azure *)

\* _track_conversation_item: messages only, and none when compaction is off.
HandleCreated ==
    /\ receiver = "wait"
    /\ wire # <<>>
    /\ IsCreated(Head(wire))
    /\ wire' = Tail(wire)
    /\ IF strategy # "off" /\ Head(wire).item \in messages
       THEN /\ items' = Append(items, Head(wire).item)
            /\ tracked' = Append(tracked, Head(wire).item)
       ELSE UNCHANGED <<items, tracked>>
    /\ UNCHANGED <<azureVars, cumulative, turn, deleting, deleted, receiver>>

\* Fault: pop() instead of pop(0).
PopNewest(n) == /\ deleting' = SubSeq(items, Len(items) - n + 1, Len(items))
                /\ items' = SubSeq(items, 1, Len(items) - n)

\* strategy.select pops the oldest items, then _apply_compaction sends.
Pop(n) == /\ deleting' = SubSeq(items, 1, n)
          /\ items' = SubSeq(items, n + 1, Len(items))

HandleDone ==
    /\ receiver = "wait"
    /\ wire # <<>>
    /\ ~IsCreated(Head(wire))
    /\ wire' = Tail(wire)
    /\ turn' = Head(wire).tokens
    /\ LET total == cumulative + turn'
           n == SelectCount(Len(items), total)
       IN  /\ Pop(n)
           /\ cumulative' = IF strategy = "token_budget"
                            THEN Remaining(total, turn', n) ELSE cumulative
           /\ receiver' = IF n = 0 THEN "wait" ELSE "delete"
    /\ UNCHANGED <<azureVars, deleted, tracked>>

\* Fault: the request names the first item that is kept.
SendDeleteNext ==
    /\ receiver = "delete"
    /\ deleting # <<>>
    /\ azure' = IF conn = "open" /\ items # <<>> THEN azure \ {Head(items)} ELSE azure
    /\ deleted' = Append(deleted, Head(deleting))
    /\ deleting' = Tail(deleting)
    /\ receiver' = IF deleting' = <<>> THEN "wait" ELSE "delete"
    /\ UNCHANGED <<messages, created, turnsLeft, conn, wire,
                   items, cumulative, turn, tracked>>

\* One conversation.item.delete; one that fails is logged and passed over.
SendDelete ==
    /\ receiver = "delete"
    /\ deleting # <<>>
    /\ azure' = IF conn = "open" THEN azure \ {Head(deleting)} ELSE azure
    /\ deleted' = Append(deleted, Head(deleting))
    /\ deleting' = Tail(deleting)
    /\ receiver' = IF deleting' = <<>> THEN "wait" ELSE "delete"
    /\ UNCHANGED <<messages, created, turnsLeft, conn, wire,
                   items, cumulative, turn, tracked>>

ReceiveFails ==
    /\ receiver = "wait"
    /\ conn = "closed"
    /\ receiver' = "done"
    /\ UNCHANGED <<azureVars, wire, items, cumulative, turn, deleting, deleted, tracked>>

\* The call is over.
Over == receiver = "done" /\ UNCHANGED vars

BackendStep == HandleCreated \/ HandleDone \/ SendDelete \/ ReceiveFails

Next == \/ (AzureStep \/ BackendStep) /\ UNCHANGED strategy
        \/ Over

Spec == Init /\ [][Next]_vars
------------------------------------------------------------------------------
(* What holds in every state *)

\* Every variable stays within its type.
CompactionTypeOK ==
    /\ strategy \in Strategies
    /\ created \in 0..MaxCreated
    /\ messages \subseteq 1..created /\ azure \subseteq 1..created
    /\ wire \in Seq(Event)
    /\ turnsLeft \in 0..MaxTurns
    /\ conn \in {"open", "closed"}
    /\ items \in Seq(Nat) /\ deleting \in Seq(Nat)
    /\ deleted \in Seq(Nat) /\ tracked \in Seq(Nat)
    /\ cumulative \in Nat /\ turn \in Nat
    /\ receiver \in {"wait", "delete", "done"}

\* What is deleted is always the oldest of what was tracked, each item once,
\* and nothing that was tracked is forgotten.
OldestFirst == deleted \o deleting \o items = tracked

\* However often the strategy acts, and however late the deletes are sent,
\* the last messages the backend saw stay in the conversation: max_items of
\* them under RollingWindow, two under TokenBudget, all when it is off.
Kept == IF strategy = "rolling" THEN MaxItems
        ELSE IF strategy = "token_budget" THEN 2
        ELSE Len(tracked)

RecentKept ==
    \A i \in 1..Len(tracked) : i > Len(tracked) - Kept => tracked[i] \in azure

\* While the connection is open the backend's list accounts for Azure's
\* conversation: a message of it is tracked, selected and about to be
\* deleted, or announced by an event still to be handled.
Pending == {wire[i].item : i \in DOMAIN wire} \ {0}

ListMatchesConversation ==
    (strategy # "off" /\ conn = "open") =>
        azure \cap messages =
            {items[i] : i \in DOMAIN items} \cup {deleting[i] : i \in DOMAIN deleting}
            \cup (Pending \cap messages)
------------------------------------------------------------------------------
(* The invariant behind OldestFirst and RecentKept *)

\* deleted, deleting and items are three stretches of tracked, in this order.
Stretches ==
    /\ Len(tracked) = Len(deleted) + Len(deleting) + Len(items)
    /\ \A i \in 1..Len(deleted) : deleted[i] = tracked[i]
    /\ \A i \in 1..Len(deleting) : deleting[i] = tracked[Len(deleted) + i]
    /\ \A i \in 1..Len(items) : items[i] = tracked[Len(deleted) + Len(deleting) + i]

\* Items are announced in the order they were created, each once.
Ascending ==
    /\ \A i, j \in 1..Len(tracked) : i < j => tracked[i] < tracked[j]
    /\ \A i, j \in 1..Len(wire) :
          i < j /\ IsCreated(wire[i]) /\ IsCreated(wire[j]) => wire[i].item < wire[j].item
    /\ \A i \in 1..Len(tracked), j \in 1..Len(wire) :
          IsCreated(wire[j]) => tracked[i] < wire[j].item
    /\ \A j \in 1..Len(wire) : wire[j].item <= created
    /\ \A i \in 1..Len(tracked) : tracked[i] <= created

\* Only deleted items have left the conversation, and enough are left to stay.
Present ==
    /\ \A i \in 1..Len(tracked) : i > Len(deleted) => tracked[i] \in azure
    /\ \A j \in 1..Len(wire) : IsCreated(wire[j]) => wire[j].item \in azure
    /\ receiver = "delete" <=> deleting # <<>>
    /\ Len(deleted) + Len(deleting) > 0 =>
          strategy # "off" /\ Len(items) >= Kept

CompactionInv == Stretches /\ Ascending /\ Present
==============================================================================
