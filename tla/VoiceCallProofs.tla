--------------------------- MODULE VoiceCallProofs ---------------------------
(***************************************************************************)
(* Proofs about VoiceCall, for any number and any kinds of frames and      *)
(* server events: its types, that it implements EventStream, and that a    *)
(* session which ends by itself loses no event.                            *)
(***************************************************************************)
EXTENDS VoiceCall, TLAPS

------------------------------------------------------------------------------
(* What a step can do to the way from the session to the browser.          *)

\* Someone who may put an event: the session before it ends, or the watcher
\* when it sees the result.
MayPut == \/ session \in {"setup", "prompt"}
          \/ reader \notin {"none", "done"}
          \/ receiver \notin {"none", "done"}
          \/ watcher = "result"

\* One event is put, and nothing is sent.
Puts == /\ MayPut
        /\ \E e \in EventType :
              /\ Put(e)
              /\ watcher' # watcher /\ fut = "error" => e = "session.error"
        /\ watcher' # watcher => watcher = "result"
        /\ UNCHANGED <<delivered, browser, told, fut, handler, why>>

\* The stop sentinel is put.
Stops == /\ watcher = "putStop"
         /\ watcher' = "exited"
         /\ PutStop
         /\ UNCHANGED <<delivered, browser, told, fut, handler, why>>

\* The handler takes the next entry and sends its event, if it carries one.
Drains ==
    /\ handler \in {"drain", "finalDrain"}
    /\ outbound # <<>>
    /\ outbound' = Tail(outbound)
    /\ delivered' = IF Head(outbound) # StopMark /\ browser = "open"
                    THEN Append(delivered, Head(outbound))
                    ELSE delivered
    /\ handler' # handler =>
          /\ Head(outbound) = StopMark
          /\ handler' = IF handler = "drain" THEN "receive" ELSE "emitClosed"
    /\ UNCHANGED <<log, browser, told, fut, watcher, why>>

\* The queue is left alone; the browser may go, and be told more; a future
\* resolves once; a bridge ends its last drain only on an empty queue.
Quiet ==
    /\ UNCHANGED <<outbound, log, delivered>>
    /\ browser' \in {browser, "closed"}
    /\ told \subseteq told'
    /\ fut' # fut => fut = "pending"
    /\ watcher = "exited" => watcher' = "exited"
    /\ watcher = "result" /\ watcher' # "result" => fut = "ok" /\ fut' = fut
    /\ why' # why => handler \in {"waitReady", "checkError", "test", "receive"}
    /\ \/ handler' \notin {"emitClosed", "cancel", "join", "returned"}
       \/ handler \in {"emitClosed", "cancel", "join", "returned"}
       \/ why' # "done"
       \/ handler = "finalDrain" /\ outbound = <<>>
    /\ "session.closed" \in told' =>
          SawClosed \/ (handler = "emitClosed" /\ browser = "open" /\ why' = why)

\* Every step of a call is one of the four.
LEMMA StepEffect == [Next]_vars => Puts \/ Stops \/ Drains \/ Quiet
<1> SUFFICES ASSUME [Next]_vars PROVE Puts \/ Stops \/ Drains \/ Quiet
  OBVIOUS
<1> USE DEF bridgeVars, sessionVars, handlerVars, EventType, MayPut, SawClosed
<1>1. ASSUME SessionStep, UNCHANGED handlerVars PROVE Puts \/ Quiet
  <2>1. CASE SendSetup \/ StartReaders
    BY <1>1, <2>1 DEF Puts, SendSetup, StartReaders
  <2>2. CASE ~(SendSetup \/ StartReaders)
    BY <1>1, <2>2 DEF Quiet, SessionStep, SetupFails, Gathered, CloseConnection,
              DeliverCancel, Resolve
  <2> QED BY <2>1, <2>2
<1>2. ASSUME ReaderStep, UNCHANGED handlerVars PROVE Puts \/ Quiet
  BY <1>2 DEF Puts, Quiet, ReaderStep, TakeStop, TakeFrame, SendAudio, SendText
<1>3. ASSUME ReceiverStep, UNCHANGED handlerVars PROVE Puts \/ Quiet
  BY <1>3 DEF Puts, Quiet, ReceiverStep, ReceiveFails, SeeShutdown, HandleEvent,
              Compact, ToolReturns, SendOutput, SendUpdate, SendResponse
<1>4. ASSUME AzureStep, UNCHANGED handlerVars PROVE Quiet
  BY <1>4 DEF Quiet, AzureStep, Connect, ConnectFails, AzureCloses, Receive, Resolve
<1>5. ASSUME HandlerStep PROVE Drains \/ Quiet
  <2>1. CASE DrainOutbound \/ FinalDrain
    BY <2>1 DEF DrainOutbound, FinalDrain, DrainOne, Drains, Quiet
  <2>2. CASE SeeReady \/ TimeOut \/ CheckError \/ TestDone
    BY <2>2 DEF Quiet, SeeReady, TimeOut, CheckError, TestDone, Emit
  <2>3. CASE ReceiveFrame \/ ReceiveNothing \/ PutStopInbound
    BY <2>3 DEF Quiet, ReceiveFrame, ReceiveNothing, PutStopInbound
  <2>4. CASE EmitClosed \/ CancelFuture \/ Return
    BY <2>4 DEF Quiet, EmitClosed, CancelFuture, Return, Emit
  <2> QED BY <1>5, <2>1, <2>2, <2>3, <2>4 DEF HandlerStep
<1>6. ASSUME WatcherStep PROVE Puts \/ Stops \/ Quiet
  BY <1>6 DEF Puts, Stops, Quiet, WatcherStep, SeeResult, SetDone, PutStopEvent
<1>7. ASSUME BrowserCloses PROVE Quiet
  BY <1>7 DEF Quiet, BrowserCloses
<1>8. ASSUME UNCHANGED vars PROVE Quiet
  BY <1>8 DEF Quiet, vars
<1> QED BY <1>1, <1>2, <1>3, <1>4, <1>5, <1>6, <1>7, <1>8
        DEF Next, SessionNext, HandlerNext
------------------------------------------------------------------------------
(* Types *)

\* The Boolean variables, apart from the others: Zenon proves of them what
\* the SMT backend cannot.
Flags == BridgeFlags /\ SessionFlags /\ HandlerFlags

LEMMA FlagsCorrect == Spec => []Flags
<1> USE DEF Flags, BridgeFlags, SessionFlags, HandlerFlags
<1>1. Init => Flags
  BY DEF Init, BridgeInit, SessionInit, HandlerInit
<1>2. Flags /\ [Next]_vars => Flags'
  <2> SUFFICES ASSUME Flags, [Next]_vars PROVE Flags'
    OBVIOUS
  <2> USE DEF bridgeVars, sessionVars, handlerVars
  <2>1. ASSUME SessionStep, UNCHANGED handlerVars PROVE Flags'
    BY <2>1, Zenon DEF SessionStep, SendSetup, SetupFails, StartReaders, Gathered,
              CloseConnection, DeliverCancel
  <2>2. ASSUME ReaderStep, UNCHANGED handlerVars PROVE Flags'
    BY <2>2, Zenon DEF ReaderStep, TakeStop, TakeFrame, SendAudio, SendText
  <2>3. ASSUME ReceiverStep, UNCHANGED handlerVars PROVE Flags'
    <3>1. ASSUME SendResponse PROVE Flags'
      BY <2>3, <3>1, Zenon DEF SendResponse
    <3> QED
      BY <2>3, <3>1, Zenon DEF ReceiverStep, ReceiveFails, SeeShutdown, HandleEvent,
              Compact, ToolReturns, SendOutput, SendUpdate
  <2>4. ASSUME AzureStep, UNCHANGED handlerVars PROVE Flags'
    BY <2>4, Zenon DEF AzureStep, Connect, ConnectFails, AzureCloses, Receive
  <2>5. ASSUME HandlerStep, UNCHANGED sessionVars PROVE Flags'
    BY <2>5, Zenon DEF HandlerStep, SeeReady, TimeOut, CheckError, TestDone,
              DrainOutbound, FinalDrain, DrainOne, ReceiveFrame, ReceiveNothing,
              PutStopInbound, EmitClosed, CancelFuture, Return
  <2>6. ASSUME WatcherStep, UNCHANGED sessionVars PROVE Flags'
    BY <2>6, Zenon DEF WatcherStep, SeeResult, SetDone, PutStopEvent
  <2>7. ASSUME BrowserCloses, UNCHANGED sessionVars PROVE Flags'
    BY <2>7, Zenon DEF BrowserCloses
  <2>8. ASSUME UNCHANGED vars PROVE Flags'
    BY <2>8, Zenon DEF vars
  <2> QED
    BY <2>1, <2>2, <2>3, <2>4, <2>5, <2>6, <2>7, <2>8
    DEF Next, SessionNext, HandlerNext
<1> QED BY <1>1, <1>2, PTL DEF Spec

\* The queue and what was sent from it.
Queues == QueueTypeOK /\ delivered \in Seq(Nat)

LEMMA QueuesCorrect == Spec => []Queues
<1>1. Init => Queues
  BY DEF Init, BridgeInit, HandlerInit, Queues, QueueTypeOK
<1>2. Queues /\ [Next]_vars => Queues'
  <2> SUFFICES ASSUME Queues, [Next]_vars PROVE Queues'
    OBVIOUS
  <2> USE DEF Queues, QueueTypeOK
  <2>1. CASE Puts
    BY <2>1 DEF Puts, Put
  <2>2. CASE Stops
    BY <2>2 DEF Stops, PutStop, StopMark
  <2>3. CASE Drains
    BY <2>3 DEF Drains
  <2>4. CASE Quiet
    BY <2>4 DEF Quiet
  <2> QED BY <2>1, <2>2, <2>3, <2>4, StepEffect
<1> QED BY <1>1, <1>2, PTL DEF Spec

\* A step of the session keeps every type.
LEMMA SessionTypes ==
    ASSUME TypeOK, Flags', Queues', SessionNext, UNCHANGED handlerVars
    PROVE  TypeOK'
<1> USE AzureAssumption
    DEF TypeOK, BridgeTypeOK, SessionTypeOK, HandlerTypeOK, Flags, Queues,
        bridgeVars, handlerVars, Resolve, NextRead, NextWait, ServerEvent
<1>1. CASE SessionStep
  BY <1>1 DEF SessionStep, SendSetup, SetupFails, StartReaders, Gathered,
              CloseConnection, DeliverCancel
<1>2. CASE ReaderStep
  <2>1. CASE TakeStop
    BY <2>1 DEF TakeStop
  <2>2. CASE TakeFrame
    BY <2>2 DEF TakeFrame
  <2>3. CASE SendAudio
    BY <2>3 DEF SendAudio
  <2>4. CASE SendText
    BY <2>4 DEF SendText
  <2> QED BY <1>2, <2>1, <2>2, <2>3, <2>4 DEF ReaderStep
<1>3. CASE ReceiverStep
  <2>1. CASE ReceiveFails \/ SeeShutdown \/ HandleEvent \/ Compact
    BY <2>1 DEF ReceiveFails, SeeShutdown, HandleEvent, Compact
  <2>2. CASE ToolReturns \/ SendOutput \/ SendUpdate
    BY <2>2 DEF ToolReturns, SendOutput, SendUpdate
  <2>3. CASE SendResponse
    BY <2>3 DEF SendResponse
  <2> QED BY <1>3, <2>1, <2>2, <2>3 DEF ReceiverStep
<1>4. CASE AzureStep
  BY <1>4 DEF AzureStep, Connect, ConnectFails, AzureCloses, Receive
<1> QED BY <1>1, <1>2, <1>3, <1>4 DEF SessionNext

\* A step of the handler, the watcher or the browser keeps every type.
LEMMA HandlerTypes ==
    ASSUME TypeOK, Flags', Queues', HandlerNext, UNCHANGED sessionVars
    PROVE  TypeOK'
<1>1. SessionTypeOK'
  BY DEF TypeOK, SessionTypeOK, Flags, sessionVars, ServerEvent
<1>2. BridgeTypeOK'
  <2> USE ClientAssumption DEF TypeOK, BridgeTypeOK, Flags, Queues, bridgeVars
  <2>1. CASE TimeOut \/ ReceiveFrame \/ PutStopInbound
    BY <2>1 DEF TimeOut, ReceiveFrame, PutStopInbound
  <2>2. CASE CancelFuture
    BY <2>2 DEF CancelFuture
  <2>3. CASE DrainOutbound \/ FinalDrain
    BY <2>3 DEF DrainOutbound, FinalDrain, DrainOne
  <2>4. CASE SeeReady \/ CheckError \/ TestDone \/ ReceiveNothing \/ EmitClosed \/ Return
    BY <2>4 DEF SeeReady, CheckError, TestDone, ReceiveNothing, EmitClosed, Return
  <2>5. CASE WatcherStep
    BY <2>5 DEF WatcherStep, SeeResult, SetDone, PutStopEvent
  <2>6. CASE BrowserCloses
    BY <2>6 DEF BrowserCloses
  <2> QED BY <2>1, <2>2, <2>3, <2>4, <2>5, <2>6 DEF HandlerNext, HandlerStep
<1>3. HandlerTypeOK'
  <2> USE ClientAssumption DEF TypeOK, HandlerTypeOK, Flags, Queues, Emit
  <2>1. CASE SeeReady \/ TimeOut
    BY <2>1 DEF SeeReady, TimeOut
  <2>2. CASE CheckError
    BY <2>2 DEF CheckError
  <2>3. CASE TestDone
    BY <2>3 DEF TestDone
  <2>4. CASE DrainOutbound \/ FinalDrain
    BY <2>4 DEF DrainOutbound, FinalDrain, DrainOne
  <2>5. CASE ReceiveFrame
    BY <2>5 DEF ReceiveFrame
  <2>6. CASE ReceiveNothing
    BY <2>6 DEF ReceiveNothing
  <2>7. CASE PutStopInbound \/ EmitClosed \/ CancelFuture \/ Return
    BY <2>7 DEF PutStopInbound, EmitClosed, CancelFuture, Return
  <2>8. CASE WatcherStep
    BY <2>8 DEF WatcherStep, SeeResult, SetDone, PutStopEvent
  <2>9. CASE BrowserCloses
    BY <2>9 DEF BrowserCloses
  <2> QED BY <2>1, <2>2, <2>3, <2>4, <2>5, <2>6, <2>7, <2>8, <2>9
         DEF HandlerNext, HandlerStep
<1> QED BY <1>1, <1>2, <1>3 DEF TypeOK

\* Every variable of a call keeps its type, whatever the call does.
THEOREM TypeCorrect == Spec => []TypeOK
<1>1. Init /\ Flags /\ Queues => TypeOK
  BY AzureAssumption, ClientAssumption
     DEF Init, BridgeInit, SessionInit, HandlerInit, Flags, Queues,
         TypeOK, BridgeTypeOK, SessionTypeOK, HandlerTypeOK
<1>2. TypeOK /\ Flags' /\ Queues' /\ [Next]_vars => TypeOK'
  <2> SUFFICES ASSUME TypeOK, Flags', Queues', [Next]_vars PROVE TypeOK'
    OBVIOUS
  <2>1. CASE UNCHANGED vars
    BY <2>1 DEF vars, bridgeVars, sessionVars, handlerVars, Flags, Queues,
                TypeOK, BridgeTypeOK, SessionTypeOK, HandlerTypeOK
  <2> QED BY <2>1, SessionTypes, HandlerTypes DEF Next
<1> QED BY <1>1, <1>2, FlagsCorrect, QueuesCorrect, PTL DEF Spec
------------------------------------------------------------------------------
(* Positions travel in order *)

LEMMA InitQueueInv == Init => QueueInv
BY DEF Init, BridgeInit, HandlerInit, QueueInv

\* An entry joins the queue: the stop sentinel, or the position that the log
\* has just grown to.
LEMMA EnqueueKeepsQueueInv ==
    ASSUME Queues, QueueInv, NEW v \in Nat,
           outbound' = Append(outbound, v),
           UNCHANGED <<delivered, browser>>,
           \/ v = StopMark /\ Len(log') = Len(log)
           \/ v = Len(log) + 1 /\ Len(log') = Len(log) + 1
    PROVE  QueueInv'
<1> USE DEF StopMark
<1>1. /\ Len(log) \in Nat /\ Len(outbound) \in Nat /\ Len(delivered) \in Nat
      /\ \A i \in 1..Len(outbound) : outbound[i] \in Nat
      /\ Len(outbound') = Len(outbound) + 1
      /\ outbound'[Len(outbound) + 1] = v
      /\ \A i \in 1..Len(outbound) : outbound'[i] = outbound[i]
  BY DEF Queues, QueueTypeOK
<1>2. \A i \in 1..Len(outbound) : outbound[i] <= Len(log)
  BY DEF QueueInv
<1>3. ASSUME NEW i \in 1..Len(outbound') PROVE outbound'[i] <= Len(log')
  BY <1>1, <1>2
<1>4. ASSUME NEW i \in 1..Len(outbound'), NEW j \in 1..Len(outbound'),
             i < j, outbound'[i] # StopMark, outbound'[j] # StopMark
      PROVE  outbound'[i] < outbound'[j]
  <2>1. i \in 1..Len(outbound) /\ outbound'[i] = outbound[i]
    BY <1>1, <1>4
  <2>2. CASE j \in 1..Len(outbound)
    <3>1. outbound'[j] = outbound[j]
      BY <1>1, <2>2
    <3> QED BY <1>4, <2>1, <2>2, <3>1 DEF QueueInv
  <2>3. CASE j = Len(outbound) + 1
    BY <1>1, <1>2, <1>4, <2>1, <2>3
  <2> QED BY <1>1, <2>2, <2>3
<1>5. ASSUME browser = "open", NEW i \in 1..Len(outbound'), outbound'[i] # StopMark
      PROVE  Len(delivered) < outbound'[i]
  <2>1. CASE i \in 1..Len(outbound)
    <3>1. outbound'[i] = outbound[i]
      BY <1>1, <2>1
    <3> QED BY <1>5, <2>1, <3>1 DEF QueueInv
  <2>2. CASE i = Len(outbound) + 1
    <3>1. Len(delivered) <= Len(log)
      BY DEF QueueInv
    <3> QED BY <1>1, <1>5, <2>2, <3>1
  <2> QED BY <1>1, <2>1, <2>2
<1>6. ASSUME browser = "open", NEW p \in (Len(delivered) + 1)..Len(log')
      PROVE  \E i \in 1..Len(outbound') : outbound'[i] = p
  <2>1. CASE p <= Len(log)
    <3>1. PICK i \in 1..Len(outbound) : outbound[i] = p
      BY <1>1, <1>6, <2>1 DEF QueueInv
    <3> QED BY <1>1, <3>1
  <2>2. CASE p > Len(log)
    BY <1>1, <2>2
  <2> QED BY <1>1, <2>1, <2>2
<1>7. /\ \A i \in 1..Len(delivered') : delivered'[i] = i
      /\ Len(delivered') <= Len(log')
  BY <1>1 DEF QueueInv
<1> QED BY <1>3, <1>4, <1>5, <1>6, <1>7 DEF QueueInv

LEMMA PutKeepsQueueInv ==
    ASSUME Queues, QueueInv, Puts
    PROVE  QueueInv'
<1>1. outbound' = Append(outbound, Len(log) + 1) /\ UNCHANGED <<delivered, browser>>
  BY DEF Puts, Put
<1>2. Len(log) + 1 \in Nat /\ Len(log') = Len(log) + 1
  BY DEF Puts, Put, Queues, QueueTypeOK
<1> QED BY <1>1, <1>2, EnqueueKeepsQueueInv

LEMMA StopKeepsQueueInv ==
    ASSUME Queues, QueueInv, Stops
    PROVE  QueueInv'
BY EnqueueKeepsQueueInv DEF Stops, PutStop, StopMark

\* The next entry, if it is an event for a browser that is there, is the
\* one after the last that was sent.
LEMMA HeadIsNext ==
    ASSUME Queues, QueueInv, outbound # <<>>,
           Head(outbound) # StopMark, browser = "open"
    PROVE  Head(outbound) = Len(delivered) + 1
<1> DEFINE next == Len(delivered) + 1
<1>1. /\ Len(outbound) \in Nat \ {0}
      /\ Len(delivered) \in Nat /\ Len(log) \in Nat
      /\ Head(outbound) = outbound[1]
      /\ \A i \in 1..Len(outbound) : outbound[i] \in Nat
  BY DEF Queues, QueueTypeOK
<1>2. next <= outbound[1] /\ outbound[1] <= Len(log)
  BY <1>1 DEF QueueInv
<1>3. PICK i \in 1..Len(outbound) : outbound[i] = next
  BY <1>1, <1>2 DEF QueueInv
<1>4. i # 1 => outbound[1] < outbound[i]
  BY <1>1, <1>3 DEF QueueInv, StopMark
<1> QED BY <1>1, <1>2, <1>3, <1>4

LEMMA DrainKeepsQueueInv ==
    ASSUME Queues, QueueInv, Drains
    PROVE  QueueInv'
<1>1. /\ outbound # <<>>
      /\ outbound' = Tail(outbound)
      /\ UNCHANGED <<log, browser>>
      /\ delivered' = IF Head(outbound) # StopMark /\ browser = "open"
                      THEN Append(delivered, Head(outbound))
                      ELSE delivered
  BY DEF Drains
<1>2. /\ Len(outbound) \in Nat \ {0}
      /\ Len(delivered) \in Nat /\ Len(log) \in Nat
      /\ Head(outbound) = outbound[1]
      /\ Len(outbound') = Len(outbound) - 1
      /\ \A i \in 1..Len(outbound) : outbound[i] \in Nat
      /\ \A i \in 1..Len(outbound') : outbound'[i] = outbound[i + 1]
  BY <1>1 DEF Queues, QueueTypeOK
<1>3. /\ \A i \in 1..Len(outbound') : outbound'[i] <= Len(log)
      /\ \A i, j \in 1..Len(outbound') :
            i < j /\ outbound'[i] # StopMark /\ outbound'[j] # StopMark
               => outbound'[i] < outbound'[j]
  <2>1. \A i \in 1..Len(outbound') : i + 1 \in 1..Len(outbound)
    BY <1>2
  <2>2. \A i \in 1..Len(outbound') : outbound'[i] <= Len(log)
    BY <1>2, <2>1 DEF QueueInv
  <2>3. ASSUME NEW i \in 1..Len(outbound'), NEW j \in 1..Len(outbound'),
               i < j, outbound'[i] # StopMark, outbound'[j] # StopMark
        PROVE  outbound'[i] < outbound'[j]
    <3>1. i + 1 < j + 1
      BY <2>3
    <3>2. /\ i + 1 \in 1..Len(outbound) /\ j + 1 \in 1..Len(outbound)
          /\ outbound'[i] = outbound[i + 1] /\ outbound'[j] = outbound[j + 1]
      BY <1>2, <2>1
    <3> QED BY <2>3, <3>1, <3>2 DEF QueueInv
  <2> QED BY <2>2, <2>3
<1>4. CASE Head(outbound) # StopMark /\ browser = "open"
  <2>1. outbound[1] = Len(delivered) + 1
    BY <1>1, <1>2, <1>4, HeadIsNext
  <2>2. /\ Len(delivered') = Len(delivered) + 1
        /\ \A i \in 1..Len(delivered') : delivered'[i] = i
    BY <1>1, <1>2, <1>4, <2>1 DEF Queues, QueueInv
  <2>3. Len(delivered') <= Len(log)
    BY <1>2, <2>1, <2>2 DEF QueueInv
  <2>4. \A i \in 1..Len(outbound') :
           outbound'[i] # StopMark => Len(delivered') < outbound'[i]
    BY <1>2, <1>4, <2>1, <2>2 DEF QueueInv
  <2>5. \A p \in (Len(delivered') + 1)..Len(log) :
           \E i \in 1..Len(outbound') : outbound'[i] = p
    <3> SUFFICES ASSUME NEW p \in (Len(delivered') + 1)..Len(log)
                 PROVE  \E i \in 1..Len(outbound') : outbound'[i] = p
      OBVIOUS
    <3>1. PICK i \in 1..Len(outbound) : outbound[i] = p
      BY <1>2, <1>4, <2>2 DEF QueueInv
    <3>2. i # 1
      BY <1>2, <2>1, <2>2, <3>1
    <3>3. i - 1 \in 1..Len(outbound') /\ outbound'[i - 1] = p
      BY <1>2, <3>1, <3>2
    <3> QED BY <3>3
  <2> QED BY <1>1, <1>3, <2>2, <2>3, <2>4, <2>5 DEF QueueInv
<1>5. CASE ~(Head(outbound) # StopMark /\ browser = "open")
  <2>1. delivered' = delivered
    BY <1>1, <1>5
  <2>2. browser = "open" => \A p \in (Len(delivered) + 1)..Len(log) :
           \E i \in 1..Len(outbound') : outbound'[i] = p
    <3> SUFFICES ASSUME browser = "open", NEW p \in (Len(delivered) + 1)..Len(log)
                 PROVE  \E i \in 1..Len(outbound') : outbound'[i] = p
      OBVIOUS
    <3>1. PICK i \in 1..Len(outbound) : outbound[i] = p
      BY <1>2 DEF QueueInv
    <3>2. i # 1
      BY <1>2, <1>5, <3>1 DEF StopMark
    <3>3. i - 1 \in 1..Len(outbound') /\ outbound'[i - 1] = p
      BY <1>2, <3>1, <3>2
    <3> QED BY <3>3
  <2>3. ASSUME browser = "open", NEW i \in 1..Len(outbound'), outbound'[i] # StopMark
        PROVE  Len(delivered) < outbound'[i]
    <3>1. i + 1 \in 1..Len(outbound) /\ outbound'[i] = outbound[i + 1]
      BY <1>2
    <3> QED BY <2>3, <3>1 DEF QueueInv
  <2> QED BY <1>1, <1>3, <2>1, <2>2, <2>3 DEF QueueInv
<1> QED BY <1>4, <1>5

LEMMA QueueInvariant == Spec => []QueueInv
<1>1. Queues /\ QueueInv /\ [Next]_vars => QueueInv'
  <2> SUFFICES ASSUME Queues, QueueInv, [Next]_vars PROVE QueueInv'
    OBVIOUS
  <2>1. CASE Quiet
    BY <2>1 DEF Quiet, QueueInv
  <2> QED BY <2>1, StepEffect, PutKeepsQueueInv, StopKeepsQueueInv, DrainKeepsQueueInv
<1> QED BY <1>1, InitQueueInv, QueuesCorrect, PTL DEF Spec
------------------------------------------------------------------------------
(* VoiceCall implements EventStream *)

LEMMA StreamClosedCorrect == Spec => []StreamClosed
<1>1. Init => StreamClosed
  BY DEF Init, HandlerInit, StreamClosed, SawClosed
<1>2. StreamClosed /\ [Next]_vars => StreamClosed'
  <2> SUFFICES ASSUME StreamClosed, [Next]_vars PROVE StreamClosed'
    OBVIOUS
  <2> USE DEF StreamClosed, SawClosed
  <2>1. CASE HandlerStep
    BY <2>1 DEF HandlerStep, SeeReady, TimeOut, CheckError, TestDone,
              DrainOutbound, FinalDrain, DrainOne, ReceiveFrame, ReceiveNothing,
              PutStopInbound, EmitClosed, CancelFuture, Return, Emit
  <2>2. CASE UNCHANGED <<handler, told>>
    BY <2>2
  <2> QED BY <2>1, <2>2 DEF Next, HandlerNext, WatcherStep, SeeResult, SetDone,
              PutStopEvent, BrowserCloses, vars, handlerVars
<1> QED BY <1>1, <1>2, PTL DEF Spec

Shown == [i \in DOMAIN delivered |-> log[delivered[i]]]

\* A sequence that counts 1, 2, 3, ... shows a prefix of the log.
LEMMA ShownIsPrefix ==
    ASSUME Queues, QueueInv
    PROVE  /\ Shown \in Seq(EventType)
           /\ Len(Shown) = Len(delivered)
           /\ Len(delivered) <= Len(log)
           /\ \A i \in 1..Len(delivered) : Shown[i] = log[i]
<1>1. /\ DOMAIN delivered = 1..Len(delivered)
      /\ Len(delivered) \in Nat /\ Len(log) \in Nat
      /\ \A i \in 1..Len(log) : log[i] \in EventType
  BY DEF Queues, QueueTypeOK
<1>2. Len(delivered) <= Len(log) /\ \A i \in 1..Len(delivered) : delivered[i] = i
  BY DEF QueueInv
<1>3. \A i \in 1..Len(delivered) : Shown[i] = log[i] /\ log[i] \in EventType
  BY <1>1, <1>2 DEF Shown
<1>4. Shown \in [1..Len(delivered) -> EventType]
  BY <1>1, <1>2, <1>3 DEF Shown
<1>5. Shown \in Seq(EventType)
  BY <1>1, <1>4
<1>6. Len(Shown) = Len(delivered)
  BY <1>1, <1>4, <1>5
<1> QED BY <1>2, <1>3, <1>5, <1>6

\* Each of the four effects is a step of the stream, or none.
LEMMA StreamStep ==
    ASSUME Queues, QueueInv, Queues', QueueInv', StreamClosed,
           Puts \/ Stops \/ Drains \/ Quiet
    PROVE  [Stream!Next]_(Stream!vars)
<1> USE DEF Stream!vars, Stream!Next
<1>1. CASE Puts
  <2>1. UNCHANGED <<delivered, browser, told>> /\ \E e \in EventType : log' = Append(log, e)
    BY <1>1 DEF Puts, Put
  <2>2. Shown' = Shown
    BY <2>1, ShownIsPrefix DEF Shown, Queues, QueueTypeOK, QueueInv
  <2> QED BY <2>1, <2>2 DEF Stream!Produce, Shown, SawClosed
<1>2. CASE Stops
  BY <1>2 DEF Stops, PutStop, SawClosed
<1>3. CASE Drains
  <2>1. outbound # <<>> /\ UNCHANGED <<log, browser, told>> /\ ~SawClosed
    BY <1>3 DEF Drains, StreamClosed
  <2>2. CASE Head(outbound) # StopMark /\ browser = "open"
    <3>1. delivered' = Append(delivered, Len(delivered) + 1)
      BY <1>3, <2>1, <2>2, HeadIsNext DEF Drains
    <3>2. Len(delivered') = Len(delivered) + 1 /\ Len(delivered) \in Nat
      BY <3>1 DEF Queues
    <3>3. Len(delivered) < Len(log)
      BY <2>1, <3>2 DEF QueueInv, Queues, QueueTypeOK
    <3>4. /\ Shown' \in Seq(EventType)
          /\ Len(Shown') = Len(delivered')
          /\ \A i \in 1..Len(delivered') : Shown'[i] = log'[i]
      <4>1. (/\ Shown \in Seq(EventType)
             /\ Len(Shown) = Len(delivered)
             /\ Len(delivered) <= Len(log)
             /\ \A i \in 1..Len(delivered) : Shown[i] = log[i])'
        BY ShownIsPrefix, PTL
      <4> QED BY <4>1
    <3>5. Shown' = Append(Shown, log[Len(Shown) + 1])
      <4> DEFINE e == log[Len(delivered) + 1]
                 more == Append(Shown, e)
      <4>1. e \in EventType
        BY <3>2, <3>3 DEF Queues, QueueTypeOK
      <4>2. more \in Seq(EventType) /\ Len(more) = Len(delivered) + 1
        BY <3>2, <4>1, ShownIsPrefix
      <4>3. \A i \in 1..Len(delivered) + 1 : more[i] = log[i]
        BY <3>2, <4>1, ShownIsPrefix
      <4>4. \A i \in 1..Len(delivered) + 1 : Shown'[i] = log[i]
        BY <2>1, <3>2, <3>4
      <4>5. Len(Shown') = Len(more)
        BY <3>2, <3>4, <4>2
      <4> HIDE DEF more
      <4>6. Shown' = more
        BY <3>4, <4>2, <4>3, <4>4, <4>5
      <4> QED BY <4>6, ShownIsPrefix DEF more
    <3> QED BY <2>1, <2>2, <3>3, <3>5, ShownIsPrefix DEF Stream!Deliver, Shown, SawClosed
  <2>3. CASE ~(Head(outbound) # StopMark /\ browser = "open")
    BY <1>3, <2>1, <2>3 DEF Drains, SawClosed
  <2> QED BY <2>2, <2>3
<1>4. CASE Quiet
  BY <1>4 DEF Quiet, Stream!Close, SawClosed
<1> QED BY <1>1, <1>2, <1>3, <1>4

\* The events of a call reach the browser once each and in the order they
\* were produced, and none after session.closed, whatever the threads, the
\* loop, Azure and the browser do (safe_ws_send, _drain_outbound and the
\* finally clause of handle_websocket).
THEOREM ImplementsEventStream == Spec => RefinesEventStream
<1>1. Init => Stream!Init
  BY DEF Init, BridgeInit, HandlerInit, Stream!Init, SawClosed
<1>2. /\ Queues /\ QueueInv /\ Queues' /\ QueueInv' /\ StreamClosed
      /\ [Next]_vars
      => [Stream!Next]_(Stream!vars)
  BY StreamStep, StepEffect
<1> QED BY <1>1, <1>2, QueuesCorrect, QueueInvariant, StreamClosedCorrect, PTL
        DEF Spec, RefinesEventStream, Stream!Spec
------------------------------------------------------------------------------
(* A session that ends by itself loses nothing *)

LEMMA SessionKeepsPhase ==
    ASSUME TypeOK, PhaseInv, SessionNext, UNCHANGED handlerVars
    PROVE  PhaseInv'
<1> USE DEF PhaseInv, Ending, handlerVars, bridgeVars, NextRead, NextWait, Resolve
<1>0. session \in {"connect", "setup", "prompt", "gather", "exit", "done"}
      /\ fut \in {"pending", "ok", "error", "cancelled"}
  BY DEF TypeOK, SessionTypeOK, BridgeTypeOK
<1>1. CASE SessionStep
  <2>1. CASE SendSetup \/ SetupFails \/ StartReaders
    BY <1>0, <2>1 DEF SendSetup, SetupFails, StartReaders
  <2>2. CASE Gathered \/ CloseConnection
    BY <1>0, <2>2 DEF Gathered, CloseConnection
  <2>3. CASE DeliverCancel
    BY <1>0, <2>3 DEF DeliverCancel
  <2> QED BY <1>1, <2>1, <2>2, <2>3 DEF SessionStep
<1>2. CASE ReaderStep
  BY <1>0, <1>2 DEF ReaderStep, TakeStop, TakeFrame, SendAudio, SendText
<1>3. CASE ReceiverStep
  BY <1>0, <1>3 DEF ReceiverStep, ReceiveFails, SeeShutdown, HandleEvent, Compact,
              ToolReturns, SendOutput, SendUpdate, SendResponse
<1>4. CASE AzureStep
  BY <1>0, <1>4 DEF AzureStep, Connect, ConnectFails, AzureCloses, Receive
<1> QED BY <1>1, <1>2, <1>3, <1>4 DEF SessionNext

LEMMA HandlerKeepsPhase ==
    ASSUME TypeOK, PhaseInv, HandlerNext, UNCHANGED sessionVars
    PROVE  PhaseInv'
<1> USE DEF PhaseInv, Ending, sessionVars, bridgeVars
<1>0. /\ watcher \in {"result", "setDone", "putStop", "exited"}
      /\ fut \in {"pending", "ok", "error", "cancelled"}
      /\ browser \in {"open", "closed"}
  BY DEF TypeOK, HandlerTypeOK, BridgeTypeOK
<1>1. CASE HandlerStep
  <2>1. CASE SeeReady \/ TimeOut
    BY <1>0, <2>1 DEF SeeReady, TimeOut, Emit
  <2>2. CASE CheckError
    BY <1>0, <2>2 DEF CheckError, Emit
  <2>3. CASE TestDone
    BY <1>0, <2>3 DEF TestDone
  <2>4. CASE DrainOutbound \/ FinalDrain
    BY <1>0, <2>4 DEF DrainOutbound, FinalDrain, DrainOne
  <2>5. CASE ReceiveFrame \/ ReceiveNothing
    BY <1>0, <2>5 DEF ReceiveFrame, ReceiveNothing
  <2>6. CASE PutStopInbound \/ EmitClosed \/ CancelFuture \/ Return
    BY <1>0, <2>6 DEF PutStopInbound, EmitClosed, CancelFuture, Return, Emit
  <2> QED BY <1>1, <2>1, <2>2, <2>3, <2>4, <2>5, <2>6 DEF HandlerStep
<1>2. CASE WatcherStep
  BY <1>0, <1>2 DEF WatcherStep, SeeResult, SetDone, PutStopEvent
<1>3. CASE BrowserCloses
  BY <1>0, <1>3 DEF BrowserCloses
<1> QED BY <1>1, <1>2, <1>3 DEF HandlerNext

LEMMA PhaseInvariant == Spec => []PhaseInv
<1>1. Init => PhaseInv
  BY DEF Init, BridgeInit, SessionInit, HandlerInit, PhaseInv, Ending
<1>2. TypeOK /\ PhaseInv /\ [Next]_vars => PhaseInv'
  <2> SUFFICES ASSUME TypeOK, PhaseInv, [Next]_vars PROVE PhaseInv'
    OBVIOUS
  <2>1. CASE UNCHANGED vars
    BY <2>1 DEF vars, bridgeVars, sessionVars, handlerVars, PhaseInv, Ending
  <2> QED BY <2>1, SessionKeepsPhase, HandlerKeepsPhase DEF Next
<1> QED BY <1>1, <1>2, TypeCorrect, PTL DEF Spec

\* Whoever puts an event does so before the watcher has put the stop
\* sentinel, or after the call was cancelled.
LEMMA PutsBeforeStop ==
    ASSUME TypeOK, PhaseInv, Puts
    PROVE  watcher = "result" \/ fut = "cancelled"
BY DEF TypeOK, BridgeTypeOK, SessionTypeOK, PhaseInv, Puts, MayPut

LEMMA StopInvariant == Spec => []StopInv
<1>1. Init => StopInv
  BY DEF Init, BridgeInit, StopInv
<1>2. Queues /\ TypeOK /\ PhaseInv /\ StopInv /\ [Next]_vars => StopInv'
  <2> SUFFICES ASSUME Queues, TypeOK, PhaseInv, StopInv, [Next]_vars,
                      fut' # "cancelled",
                      NEW i \in 1..Len(outbound'), outbound'[i] = StopMark
               PROVE  i = Len(outbound') /\ watcher' = "exited"
    BY DEF StopInv
  <2> USE DEF Queues, QueueTypeOK, StopMark
  <2>1. CASE Puts
    <3>1. watcher = "result" /\ fut # "cancelled"
      BY <2>1, PutsBeforeStop DEF Puts
    <3>2. \A j \in 1..Len(outbound) : outbound[j] # StopMark
      BY <3>1 DEF StopInv
    <3>3. outbound' = Append(outbound, Len(log) + 1)
      BY <2>1 DEF Puts, Put
    <3> QED BY <3>2, <3>3
  <2>2. CASE Stops
    <3>1. \A j \in 1..Len(outbound) : outbound[j] # StopMark
      BY <2>2 DEF Stops, StopInv
    <3> QED BY <2>2, <3>1 DEF Stops, PutStop
  <2>3. CASE Drains
    <3>1. /\ outbound # <<>> /\ outbound' = Tail(outbound)
          /\ UNCHANGED <<fut, watcher>>
      BY <2>3 DEF Drains
    <3>2. /\ i + 1 \in 1..Len(outbound) /\ outbound[i + 1] = StopMark
          /\ Len(outbound') = Len(outbound) - 1
      BY <3>1
    <3>3. i + 1 = Len(outbound) /\ watcher = "exited"
      BY <3>1, <3>2 DEF StopInv
    <3>4. i \in Nat /\ Len(outbound) \in Nat
      BY <3>1, <3>2
    <3>5. i = Len(outbound')
      BY <3>2, <3>3, <3>4
    <3> QED BY <3>1, <3>3, <3>5
  <2>4. CASE Quiet
    <3>1. fut = "cancelled" => fut' = "cancelled"
      BY <2>4 DEF Quiet
    <3> QED BY <2>4, <3>1 DEF Quiet, StopInv
  <2> QED BY <2>1, <2>2, <2>3, <2>4, StepEffect
<1> QED BY <1>1, <1>2, QueuesCorrect, TypeCorrect, PhaseInvariant, PTL DEF Spec

\* A queue that is empty, or that has only the sentinel left, has given up
\* every event.
LEMMA DrainedIsAll ==
    ASSUME Queues, QueueInv, StopInv, browser = "open",
           \/ outbound = <<>>
           \/ outbound # <<>> /\ Head(outbound) = StopMark /\ fut # "cancelled"
    PROVE  Len(delivered) = Len(log)
<1>1. Len(delivered) \in Nat /\ Len(log) \in Nat /\ Len(delivered) <= Len(log)
  BY DEF Queues, QueueTypeOK, QueueInv
<1>2. SUFFICES ASSUME Len(delivered) < Len(log) PROVE FALSE
  BY <1>1
<1>3. PICK i \in 1..Len(outbound) : outbound[i] = Len(log)
  BY <1>1, <1>2 DEF QueueInv
<1>4. CASE outbound = <<>>
  BY <1>3, <1>4
<1>5. CASE outbound # <<>> /\ Head(outbound) = StopMark /\ fut # "cancelled"
  <2>1. 1 \in 1..Len(outbound) /\ outbound[1] = StopMark
    BY <1>5 DEF Queues, QueueTypeOK
  <2>2. Len(outbound) = 1
    BY <1>5, <2>1 DEF StopInv
  <2> QED BY <1>1, <1>2, <1>3, <2>1, <2>2 DEF StopMark
<1> QED BY <1>4, <1>5

\* A bridge that left on azure_done is in step with the log for ever after.
LEMMA AllSentInvariant == Spec => []AllSent
<1>1. Init => AllSent
  BY DEF Init, HandlerInit, AllSent
<1>2. /\ Queues /\ QueueInv /\ TypeOK /\ PhaseInv /\ StopInv /\ StreamClosed /\ AllSent
      /\ StreamClosed' /\ [Next]_vars
      => AllSent'
  <2> SUFFICES ASSUME Queues, QueueInv, TypeOK, PhaseInv, StopInv, StreamClosed, AllSent,
                      StreamClosed', [Next]_vars,
                      why' = "done", Finished', browser' = "open" \/ SawClosed'
               PROVE  Len(delivered') = Len(log')
    BY DEF AllSent
  <2> USE DEF Finished, SawClosed
  <2>1. CASE Puts
    <3>1. watcher # "result" /\ fut # "cancelled"
      BY <2>1 DEF Puts, PhaseInv
    <3> QED BY <2>1, <3>1, PutsBeforeStop
  <2>2. CASE Stops
    BY <2>2 DEF Stops, PutStop, AllSent
  <2>3. CASE Drains
    <3>1. /\ handler = "finalDrain" /\ outbound # <<>> /\ Head(outbound) = StopMark
          /\ UNCHANGED <<log, delivered, browser, told, why>>
      BY <2>3 DEF Drains
    <3>2. browser = "open" /\ fut # "cancelled"
      BY <3>1 DEF StreamClosed, PhaseInv
    <3> QED BY <3>1, <3>2, DrainedIsAll
  <2>4. CASE Quiet
    <3>1. UNCHANGED <<log, delivered>>
      BY <2>4 DEF Quiet
    <3>2. CASE handler = "finalDrain" /\ outbound = <<>>
      <4>1. browser = "open"
        BY <2>4, <3>2 DEF Quiet, StreamClosed
      <4> QED BY <3>1, <3>2, <4>1, DrainedIsAll
    <3>3. CASE Finished
      <4>1. why = "done"
        BY <2>4, <3>3 DEF Quiet
      <4>2. browser = "open" \/ SawClosed
        BY <2>4, <3>3 DEF Quiet, TypeOK, HandlerTypeOK
      <4> QED BY <3>1, <3>3, <4>1, <4>2 DEF AllSent
    <3> QED BY <2>4, <3>2, <3>3 DEF Quiet
  <2> QED BY <2>1, <2>2, <2>3, <2>4, StepEffect
<1> QED BY <1>1, <1>2, QueuesCorrect, QueueInvariant, TypeCorrect, PhaseInvariant,
           StopInvariant, StreamClosedCorrect, PTL DEF Spec

\* When the Azure session ends by itself (watch_future sets azure_done), a
\* browser that is there has received every event before session.closed.
THEOREM SelfEndLosesNothing == Spec => []NoLossOnSelfEnd
<1>1. AllSent /\ StreamClosed /\ PhaseInv => NoLossOnSelfEnd
  BY DEF AllSent, StreamClosed, NoLossOnSelfEnd, Finished
<1> QED BY <1>1, AllSentInvariant, StreamClosedCorrect, PhaseInvariant, PTL

\* The error of a failed session enters the log with the watcher's put.
LEMMA ErrorLoggedInvariant == Spec => []ErrorLogged
<1>1. Init => ErrorLogged
  BY DEF Init, HandlerInit, ErrorLogged
<1>2. Queues /\ PhaseInv /\ ErrorLogged /\ [Next]_vars => ErrorLogged'
  <2> SUFFICES ASSUME Queues, PhaseInv, ErrorLogged, [Next]_vars,
                      watcher' # "result", fut' = "error"
               PROVE  \E i \in 1..Len(log') : log'[i] = "session.error"
    BY DEF ErrorLogged
  <2> USE DEF Queues, QueueTypeOK
  <2>1. CASE Puts
    <3>1. PICK e \in EventType :
             /\ log' = Append(log, e)
             /\ watcher' # watcher /\ fut = "error" => e = "session.error"
      BY <2>1 DEF Puts, Put
    <3>2. fut = "error"
      BY <2>1 DEF Puts
    <3>3. CASE watcher = "result"
      <4>1. e = "session.error"
        BY <3>1, <3>2, <3>3
      <4> QED BY <3>1, <4>1
    <3>4. CASE watcher # "result"
      <4>1. PICK i \in 1..Len(log) : log[i] = "session.error"
        BY <3>2, <3>4 DEF ErrorLogged
      <4> QED BY <3>1, <4>1
    <3> QED BY <3>3, <3>4
  <2>2. CASE Stops
    BY <2>2 DEF Stops, PutStop, ErrorLogged
  <2>3. CASE Drains
    BY <2>3 DEF Drains, ErrorLogged
  <2>4. CASE Quiet
    BY <2>4 DEF Quiet, PhaseInv, ErrorLogged
  <2> QED BY <2>1, <2>2, <2>3, <2>4, StepEffect
<1> QED BY <1>1, <1>2, QueuesCorrect, PhaseInvariant, PTL DEF Spec

\* A session that failed has told a browser that stayed by the time the
\* handler returns: directly before the bridge starts, and through the queue
\* afterwards.
THEOREM FailuresAreReported == Spec => []FailureReported
<1>1. Queues /\ QueueInv /\ PhaseInv /\ AllSent /\ ErrorLogged /\ TypeOK => FailureReported
  <2> SUFFICES ASSUME Queues, QueueInv, PhaseInv, AllSent, ErrorLogged, TypeOK,
                      fut = "error", handler = "returned", browser = "open",
                      why # "exception"
               PROVE  SawError
    BY DEF FailureReported
  <2>1. why \in {"timeout", "error", "done"}
    BY DEF PhaseInv, Ending, TypeOK, HandlerTypeOK
  <2>2. CASE why \in {"timeout", "error"}
    BY <2>2 DEF PhaseInv, SawError
  <2>3. CASE why = "done"
    <3>1. Len(delivered) = Len(log) /\ watcher # "result"
      BY <2>3 DEF AllSent, Finished, PhaseInv
    <3>2. PICK i \in 1..Len(log) : log[i] = "session.error"
      BY <3>1 DEF ErrorLogged
    <3>3. i \in DOMAIN delivered /\ delivered[i] = i
      BY <3>1, <3>2 DEF Queues, QueueInv
    <3> QED BY <3>2, <3>3 DEF SawError
  <2> QED BY <2>1, <2>2, <2>3
<1> QED BY <1>1, QueuesCorrect, QueueInvariant, PhaseInvariant, AllSentInvariant,
           ErrorLoggedInvariant, TypeCorrect, PTL
==============================================================================
