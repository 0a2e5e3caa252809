------------------------------ MODULE Playback ------------------------------
(***************************************************************************)
(* useAudioPlayback: the chunks of the agent's voice are decoded as they   *)
(* come and each is scheduled on the audio context's own clock, behind the *)
(* one before.  The user's voice flushes what is scheduled (onAudioStarted *)
(* in messageHandlers.ts), the end of a call flushes it and closes the     *)
(* context; a change of pattern ends a call and does neither.              *)
(*                                                                         *)
(* The playback knows no calls: whatever socket is open is heard.  Which   *)
(* sockets an end closes is useWebSocket's and useSession's matter         *)
(* (RealtimeClient): the one referred to, or none if a late close of an    *)
(* older socket cleared the reference, so a socket may outlive the end.    *)
(*                                                                         *)
(* Time is what AudioContext.currentTime shows; it starts at 0 in every    *)
(* context and may stand still (a suspended context).  What a chunk sounds *)
(* like is left out, its length is not.                                    *)
(***************************************************************************)
EXTENDS Naturals, Sequences

CONSTANTS
    Lengths,      \* how long a chunk may be
    MaxChunks,    \* bound: chunks received
    MaxTime,      \* bound: the time of a context
    MaxCalls      \* bound: calls

\* A buffer without samples cannot be made: an empty chunk is dropped.
ASSUME PlaybackAssumption ==
  Lengths \subseteq Nat \ {0} /\ {MaxChunks, MaxTime, MaxCalls} \subseteq Nat

VARIABLES
    contexts,     \* audio contexts made so far
    open,         \* audioCtxRef has the last of them
    now,          \* its currentTime
    nextStart,    \* nextStartRef
    sources,      \* the sources made so far, oldest first
    active,       \* activeSourcesRef
    calls,        \* calls whose socket has opened so far
    sockets,      \* those whose socket is open
    silenced,     \* history: calls whose socket was closed when the user ended one
    cut           \* history: how many sources there were at the last flush

contextVars == <<contexts, open>>
callVars == <<calls, sockets, silenced>>
vars == <<contexts, open, now, nextStart, sources, active, calls, sockets, silenced, cut>>

Source == [context : Nat, call : Nat, start : Nat, end : Nat, stopped : BOOLEAN]

Init ==
  /\ contexts = 0 /\ open = FALSE /\ now = 0
  /\ nextStart = 0
  /\ sources = <<>>
  /\ active = {}
  /\ calls = 0 /\ sockets = {} /\ silenced = {}
  /\ cut = 0

Later(a, b) == IF a > b THEN a ELSE b

\* The first chunk after a start makes the context.
EnsureContext ==
  /\ open' = TRUE
  /\ contexts' = IF open THEN contexts ELSE contexts + 1
  /\ now' = IF open THEN now ELSE 0

\* A message of any socket that is open.
PlayChunk(call, length) ==
  /\ call \in sockets
  /\ Len(sources) < MaxChunks
  /\ EnsureContext
  /\ LET start == IF open THEN Later(now, nextStart) ELSE 0
     IN  /\ sources' = Append(sources, [context |-> contexts', call |-> call, start |-> start,
                                        end |-> start + length, stopped |-> FALSE])
         /\ nextStart' = start + length
  /\ active' = active \cup {Len(sources) + 1}
  /\ UNCHANGED <<callVars, cut>>

\* stop() on each source that is tracked.
FlushAudio ==
  /\ sources' = [i \in DOMAIN sources |->
                   [sources[i] EXCEPT !.stopped = @ \/ i \in active]]
  /\ active' = {}
  /\ nextStart' = 0
  /\ cut' = Len(sources)

\* stop(): the context is closed too.
Stop ==
  /\ FlushAudio
  /\ open' = FALSE

AudioStarted ==
  /\ sockets # {}
  /\ FlushAudio
  /\ UNCHANGED <<contextVars, now, callVars>>

\* Fault: the list is emptied.
OnEndedAll(i) ==
  /\ i \in active
  /\ sources[i].end <= now
  /\ active' = {}
  /\ UNCHANGED <<contextVars, now, nextStart, sources, callVars, cut>>

\* onended: the source is no longer tracked, some time after its end.
OnEnded(i) ==
  /\ i \in active
  /\ sources[i].end <= now
  /\ active' = active \ {i}
  /\ UNCHANGED <<contextVars, now, nextStart, sources, callVars, cut>>

Tick ==
  /\ open
  /\ now < MaxTime
  /\ now' = now + 1
  /\ UNCHANGED <<contextVars, nextStart, sources, active, callVars, cut>>

\* The socket of the next call opens, whatever is left of the ones before.
Opened ==
  /\ calls < MaxCalls
  /\ calls' = calls + 1
  /\ sockets' = sockets \cup {calls + 1}
  /\ UNCHANGED <<contextVars, now, nextStart, sources, active, silenced, cut>>

\* A socket closes by itself, or setPattern's endSession closes it: nobody tells
\* the playback.
Closed(call) ==
  /\ call \in sockets
  /\ sockets' = sockets \ {call}
  /\ UNCHANGED <<contextVars, now, nextStart, sources, active, calls, silenced, cut>>

\* handleEnd: endSession closes the socket referred to, if there is one, and
\* stopPlayback follows.  It may be repeated.
End ==
  /\ \E referred \in SUBSET sockets :
       /\ \A j, k \in referred : j = k
       /\ sockets' = sockets \ referred
  /\ silenced' = silenced \cup ((1 .. calls) \ sockets')
  /\ Stop
  /\ UNCHANGED <<contexts, now, calls>>

Next ==
  \/ \E call \in sockets, length \in Lengths : PlayChunk(call, length)
  \/ AudioStarted
  \/ \E i \in active : OnEnded(i)
  \/ Tick
  \/ Opened \/ End
  \/ \E call \in sockets : Closed(call)

Spec == Init /\ [][Next]_vars

Scheduled(i) == open /\ sources[i].context = contexts /\ ~sources[i].stopped

\* The source is heard, or will be.
Sounding(i) == Scheduled(i) /\ now < sources[i].end

\* The chunks of a context are heard one at a time and in the order they came.
InOrder ==
  \A i, j \in DOMAIN sources :
    i < j /\ Scheduled(i) /\ Scheduled(j) => sources[i].end <= sources[j].start

\* Nothing of before the last flush is heard.
CutOff == \A i \in DOMAIN sources : Sounding(i) => i > cut

\* Nothing is heard of a call whose socket was closed when the user ended a call.
EndedCallsSilent == \A i \in DOMAIN sources : Sounding(i) => sources[i].call \notin silenced

(***************************************************************************)
(* Safety: the agent never speaks over itself or out of order, is silent   *)
(* on what it said before the user spoke, however late the end of a source *)
(* is reported, and when the user ends a call, no call whose socket is     *)
(* closed then is heard again, that of an earlier change of pattern        *)
(* included (flushAudio, playChunk and stop of useAudioPlayback.ts).       *)
(* Nothing more holds of calls: a socket that outlives the end, as a late  *)
(* close of an older one cleared the reference to it, is heard until it    *)
(* closes, into the next call; and what a call ended by a change of        *)
(* pattern has queued is heard until the next flush.                       *)
(***************************************************************************)
PlaysInOrder == InOrder /\ CutOff /\ EndedCallsSilent
------------------------------------------------------------------------------
(* The inductive invariant *)

TypesInv ==
  /\ {contexts, now, nextStart, calls, cut} \subseteq Nat
  /\ open \in BOOLEAN
  /\ sockets \subseteq 1 .. calls /\ silenced \subseteq (1 .. calls) \ sockets
  /\ sources \in Seq(Source)
  /\ active \subseteq DOMAIN sources
  /\ cut <= Len(sources)
  /\ \A i \in DOMAIN sources : sources[i].context <= contexts

\* What sounds is tracked, and what is tracked may sound.
TrackedInv ==
  /\ \A i \in DOMAIN sources : Sounding(i) => i \in active
  /\ \A i \in active : Scheduled(i) /\ i > cut /\ sources[i].call \notin silenced

\* The next chunk starts behind every one that still sounds.
QueuedInv ==
  \A i \in DOMAIN sources :
    Scheduled(i) => sources[i].end <= now \/ sources[i].end <= nextStart

PlaybackInv == TypesInv /\ TrackedInv /\ QueuedInv /\ InOrder
=============================================================================
