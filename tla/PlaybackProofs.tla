---------------------------- MODULE PlaybackProofs ----------------------------
(***************************************************************************)
(* Proofs about Playback, for any lengths of chunks, any number of chunks  *)
(* and calls and any time: what sounds is what the code still tracks, so   *)
(* that a flush silences all of it.                                        *)
(***************************************************************************)
EXTENDS Playback, TLAPS

\* A source that was made has the fields of one.
LEMMA SourceTyped ==
  ASSUME TypesInv, NEW i \in DOMAIN sources
  PROVE  /\ sources[i] \in Source
         /\ sources[i].context \in Nat /\ sources[i].call \in Nat
         /\ sources[i].start \in Nat /\ sources[i].end \in Nat
         /\ sources[i].stopped \in BOOLEAN
         /\ sources[i].context <= contexts
<1>1. sources[i] \in Source /\ sources[i].context <= contexts
  <2>1. sources \in Seq(Source)
    BY DEF TypesInv
  <2> QED BY <2>1 DEF TypesInv
<1> QED BY <1>1 DEF Source

\* A chunk starts behind the clock and behind what is queued, or at 0 in a
\* context of its own.
LEMMA ChunkTyped ==
  ASSUME TypesInv, NEW call \in sockets, NEW length \in Lengths, PlayChunk(call, length)
  PROVE  \E e \in Source :
           /\ sources' = Append(sources, e)
           /\ e.context = contexts' /\ e.call = call /\ e.end = nextStart' /\ ~e.stopped
           /\ open => now <= e.start /\ nextStart <= e.start
           /\ e.start <= e.end
<1> DEFINE start == IF open THEN Later(now, nextStart) ELSE 0
           e == [context |-> contexts', call |-> call, start |-> start,
                 end |-> start + length, stopped |-> FALSE]
<1>1. length \in Nat
  BY PlaybackAssumption
<1>2. start \in Nat /\ (open => now <= start /\ nextStart <= start)
  BY DEF TypesInv, Later
<1>3. contexts' \in Nat
  BY DEF TypesInv, PlayChunk, EnsureContext
<1>4. e \in Source
  <2>1. call \in Nat
    BY DEF TypesInv
  <2> QED BY <1>1, <1>2, <1>3, <2>1 DEF Source
<1>5. sources' = Append(sources, e) /\ nextStart' = start + length
  BY DEF PlayChunk
<1>6. /\ e.context = contexts' /\ e.call = call /\ e.end = nextStart' /\ ~e.stopped
      /\ e.start = start /\ e.start <= e.end
  BY <1>1, <1>2, <1>5
<1>7. \E f \in Source : f = e
  BY <1>4
<1> HIDE DEF e, start
<1> QED BY <1>2, <1>5, <1>6, <1>7

\* A chunk joins the end of what is scheduled.
LEMMA PlayChunkKeeps ==
  ASSUME PlaybackInv, NEW call \in sockets, NEW length \in Lengths, PlayChunk(call, length)
  PROVE  PlaybackInv'
<1> USE DEF PlaybackInv, TypesInv
<1>1. PICK e \in Source :
           /\ sources' = Append(sources, e)
           /\ e.context = contexts' /\ e.call = call /\ e.end = nextStart' /\ ~e.stopped
           /\ open => now <= e.start /\ nextStart <= e.start
           /\ e.start <= e.end
  BY ChunkTyped
<1>2. /\ open' /\ calls' = calls /\ sockets' = sockets /\ silenced' = silenced /\ cut' = cut
      /\ contexts' = IF open THEN contexts ELSE contexts + 1
      /\ now' = IF open THEN now ELSE 0
      /\ active' = active \cup {Len(sources) + 1}
  BY DEF PlayChunk, EnsureContext, callVars
<1>3. /\ sources' \in Seq(Source)
      /\ DOMAIN sources' = DOMAIN sources \cup {Len(sources) + 1}
      /\ \A i \in DOMAIN sources : sources'[i] = sources[i]
      /\ sources'[Len(sources) + 1] = e
      /\ Len(sources') = Len(sources) + 1
      /\ DOMAIN sources = 1..Len(sources) /\ Len(sources) \in Nat
  BY <1>1
<1>4. /\ contexts' \in Nat /\ now' \in Nat /\ nextStart' \in Nat
      /\ e.context \in Nat /\ e.start \in Nat /\ e.end \in Nat
  BY <1>1, <1>2 DEF Source
<1>5. TypesInv'
  <2>1. active' \subseteq DOMAIN sources'
    BY <1>2, <1>3
  <2>2. \A i \in DOMAIN sources' : sources'[i].context <= contexts'
    <3>1. ASSUME NEW i \in DOMAIN sources PROVE sources[i].context <= contexts'
      BY <1>2, SourceTyped
    <3>2. e.context <= contexts'
      BY <1>1, <1>4
    <3> QED BY <1>3, <3>1, <3>2
  <2>3. cut' <= Len(sources')
    BY <1>2, <1>3
  <2> QED BY <1>2, <1>3, <1>4, <2>1, <2>2, <2>3
<1>6. ASSUME NEW i \in DOMAIN sources, Scheduled(i)'
      PROVE  Scheduled(i) /\ open /\ now' = now
  <2>1. sources[i].context <= contexts /\ sources[i].context \in Nat
    BY SourceTyped
  <2>2. open
    BY <1>2, <1>3, <1>6, <2>1 DEF Scheduled
  <2> QED BY <1>2, <1>3, <1>6, <2>2 DEF Scheduled
<1>7. TrackedInv'
  <2> USE DEF TrackedInv
  <2>1. ASSUME NEW i \in DOMAIN sources', Sounding(i)' PROVE i \in active'
    <3>1. CASE i \in DOMAIN sources
      BY <1>2, <1>3, <1>6, <2>1, <3>1 DEF Sounding
    <3> QED BY <1>2, <1>3, <2>1, <3>1
  <2>2. ASSUME NEW i \in active'
        PROVE  Scheduled(i)' /\ i > cut' /\ sources'[i].call \notin silenced'
    <3>1. CASE i \in active
      BY <1>2, <1>3, <3>1 DEF Scheduled
    <3>2. CASE i = Len(sources) + 1
      BY <1>1, <1>2, <1>3, <3>2 DEF Scheduled
    <3> QED BY <1>2, <2>2, <3>1, <3>2
  <2> QED BY <2>1, <2>2
<1>8. ASSUME NEW i \in DOMAIN sources, Scheduled(i)'
      PROVE  sources[i].end <= e.start /\ sources[i].end <= nextStart'
  <2>1. sources[i].end <= now \/ sources[i].end <= nextStart
    BY <1>6, <1>8 DEF QueuedInv
  <2>2. open /\ sources[i].end \in Nat
    BY <1>6, <1>8, SourceTyped
  <2> QED BY <1>1, <1>4, <2>1, <2>2
<1>9. QueuedInv'
  BY <1>1, <1>3, <1>4, <1>8 DEF QueuedInv
<1>10. InOrder'
  <2> SUFFICES ASSUME NEW i \in DOMAIN sources', NEW j \in DOMAIN sources',
                      i < j, Scheduled(i)', Scheduled(j)'
               PROVE  sources'[i].end <= sources'[j].start
    BY DEF InOrder
  <2>1. i \in DOMAIN sources
    BY <1>3
  <2>2. CASE j \in DOMAIN sources
    BY <1>3, <1>6, <2>1, <2>2 DEF InOrder
  <2>3. CASE j = Len(sources) + 1
    BY <1>3, <1>8, <2>1, <2>3
  <2> QED BY <1>3, <2>2, <2>3
<1> QED BY <1>5, <1>7, <1>9, <1>10

\* A flush silences what is tracked, and so all that sounds.
LEMMA FlushKeeps ==
  ASSUME PlaybackInv, FlushAudio,
         contexts' = contexts, now' = now, calls' = calls, sockets' \subseteq sockets,
         silenced' \subseteq (1 .. calls) \ sockets', open' \in {open, FALSE}
  PROVE  PlaybackInv'
<1> USE DEF PlaybackInv, TypesInv
<1>1. /\ DOMAIN sources' = DOMAIN sources
      /\ Len(sources') = Len(sources)
      /\ \A i \in DOMAIN sources :
           sources'[i] = [sources[i] EXCEPT !.stopped = @ \/ i \in active]
      /\ active' = {} /\ nextStart' = 0 /\ cut' = Len(sources)
  BY DEF FlushAudio
<1>2. ASSUME NEW i \in DOMAIN sources
      PROVE  /\ sources'[i] \in Source
             /\ sources'[i].context = sources[i].context /\ sources'[i].call = sources[i].call
             /\ sources'[i].start = sources[i].start /\ sources'[i].end = sources[i].end
             /\ ~sources'[i].stopped => ~sources[i].stopped /\ i \notin active
  BY <1>1, SourceTyped DEF Source
<1>3. TypesInv'
  <2>1. sources' \in Seq(Source)
    <3>1. DOMAIN sources = 1..Len(sources) /\ Len(sources) \in Nat
      OBVIOUS
    <3>2. sources' \in [1..Len(sources) -> Source]
      BY <1>2, <3>1 DEF FlushAudio
    <3> QED BY <3>1, <3>2
  <2>2. \A i \in DOMAIN sources' : sources'[i].context <= contexts'
    BY <1>1, <1>2, SourceTyped
  <2>3. Len(sources') \in Nat /\ cut' <= Len(sources') /\ cut' \in Nat
    BY <1>1
  <2>4. open' \in BOOLEAN
    OBVIOUS
  <2> QED BY <1>1, <2>1, <2>2, <2>3, <2>4
<1>4. ASSUME NEW i \in DOMAIN sources, Scheduled(i)'
      PROVE  Scheduled(i) /\ sources[i].end <= now
  <2>1. Scheduled(i) /\ i \notin active
    BY <1>2, <1>4 DEF Scheduled
  <2>2. sources[i].end \in Nat
    BY SourceTyped
  <2> QED BY <2>1, <2>2 DEF TrackedInv, Sounding
<1>5. TrackedInv'
  <2>1. ASSUME NEW i \in DOMAIN sources PROVE ~Sounding(i)'
    <3>1. sources[i].end \in Nat
      BY SourceTyped
    <3> QED BY <1>1, <1>2, <1>4, <3>1 DEF Sounding
  <2> QED BY <1>1, <2>1 DEF TrackedInv
<1>6. QueuedInv'
  BY <1>1, <1>2, <1>4 DEF QueuedInv
<1>7. InOrder'
  BY <1>1, <1>2, <1>4 DEF InOrder
<1> QED BY <1>3, <1>5, <1>6, <1>7

\* A source that is no longer tracked, or a tick, ends what sounds.
LEMMA TimePasses ==
  ASSUME PlaybackInv, UNCHANGED <<contextVars, nextStart, sources, callVars, cut>>,
         now' \in Nat, now <= now',
         active' \subseteq active,
         \A i \in active \ active' : sources[i].end <= now'
  PROVE  PlaybackInv'
<1> USE DEF PlaybackInv, TypesInv, contextVars, callVars
<1>1. \A i \in DOMAIN sources : sources[i].end \in Nat
  BY SourceTyped
<1>2. \A i \in DOMAIN sources : Scheduled(i)' <=> Scheduled(i)
  BY DEF Scheduled
<1>3. TypesInv'
  OBVIOUS
<1>4. \A i \in DOMAIN sources : Sounding(i)' => Sounding(i)
  BY <1>1, <1>2 DEF Sounding
<1>5. TrackedInv'
  <2>1. ASSUME NEW i \in DOMAIN sources, Sounding(i)' PROVE i \in active'
    BY <1>1, <1>4, <2>1 DEF TrackedInv, Sounding
  <2> QED BY <1>2, <2>1 DEF TrackedInv
<1>6. QueuedInv'
  BY <1>1, <1>2 DEF QueuedInv
<1>7. InOrder'
  BY <1>2 DEF InOrder
<1> QED BY <1>3, <1>5, <1>6, <1>7

\* What sounds is tracked, not cut and of no silenced call: the invariant holds.
LEMMA PlaybackInvariant == Spec => []PlaybackInv
<1>1. Init => PlaybackInv
  <2> SUFFICES ASSUME Init PROVE PlaybackInv
    OBVIOUS
  <2>1. sources \in Seq(Source) /\ DOMAIN sources = {} /\ Len(sources) = 0
    BY DEF Init
  <2>2. TypesInv
    <3>1. active \subseteq DOMAIN sources /\ cut <= Len(sources)
      BY <2>1 DEF Init
    <3>2. \A i \in DOMAIN sources : sources[i].context <= contexts
      BY <2>1
    <3>3. {contexts, now, nextStart, calls, cut} \subseteq Nat
      BY DEF Init
    <3>4. open \in BOOLEAN /\ sockets = {} /\ silenced = {}
      BY DEF Init
    <3> QED BY <2>1, <3>1, <3>2, <3>3, <3>4 DEF TypesInv
  <2>3. TrackedInv /\ QueuedInv /\ InOrder
    BY <2>1 DEF Init, TrackedInv, QueuedInv, InOrder
  <2> QED BY <2>2, <2>3 DEF PlaybackInv
<1>2. PlaybackInv /\ [Next]_vars => PlaybackInv'
  <2> SUFFICES ASSUME PlaybackInv, [Next]_vars PROVE PlaybackInv'
    OBVIOUS
  <2> USE DEF contextVars, callVars
  <2>1. ASSUME NEW call \in sockets, NEW length \in Lengths, PlayChunk(call, length) PROVE PlaybackInv'
    BY <2>1, PlayChunkKeeps
  <2>2. CASE AudioStarted
    BY <2>2, FlushKeeps DEF AudioStarted, PlaybackInv, TypesInv
  <2>3. ASSUME NEW i \in active, OnEnded(i) PROVE PlaybackInv'
    BY <2>3, TimePasses DEF OnEnded, PlaybackInv, TypesInv
  <2>4. CASE Tick
    <3>1. now \in Nat /\ now' \in Nat /\ now <= now'
      BY <2>4 DEF Tick, PlaybackInv, TypesInv
    <3> QED BY <2>4, <3>1, TimePasses DEF Tick
  <2>5. CASE Opened
    <3> USE DEF Opened, PlaybackInv
    <3>1. TypesInv'
      <4>1. /\ calls' = calls + 1 /\ sockets' = sockets \cup {calls + 1}
            /\ silenced' = silenced /\ calls \in Nat
            /\ sockets \subseteq 1 .. calls /\ silenced \subseteq (1 .. calls) \ sockets
        BY <2>5 DEF TypesInv
      <4>2. sockets' \subseteq 1 .. calls'
        BY <4>1
      <4>3. silenced' \subseteq (1 .. calls') \ sockets'
        BY <4>1
      <4> QED BY <2>5, <4>1, <4>2, <4>3 DEF TypesInv
    <3>2. QueuedInv' /\ InOrder'
      BY <2>5 DEF QueuedInv, InOrder, Scheduled
    <3>3. TrackedInv'
      BY <2>5 DEF TrackedInv, Scheduled, Sounding
    <3> QED BY <3>1, <3>2, <3>3
  <2>6. CASE End
    <3>1. sockets' \subseteq sockets /\ silenced' \subseteq (1 .. calls) \ sockets'
      BY <2>6 DEF End, PlaybackInv, TypesInv
    <3>2. open' \in {open, FALSE}
      BY <2>6 DEF End, Stop
    <3> QED BY <2>6, <3>1, <3>2, FlushKeeps DEF End, Stop
  <2>7. ASSUME NEW call \in sockets, Closed(call) PROVE PlaybackInv'
    <3> USE DEF Closed, PlaybackInv
    <3>1. TypesInv'
      BY <2>7 DEF TypesInv
    <3>2. QueuedInv' /\ InOrder'
      BY <2>7 DEF QueuedInv, InOrder, Scheduled
    <3>3. TrackedInv'
      BY <2>7 DEF TrackedInv, Scheduled, Sounding
    <3> QED BY <3>1, <3>2, <3>3
  <2>8. CASE UNCHANGED vars
    BY <2>8 DEF vars, PlaybackInv, TypesInv, TrackedInv, QueuedInv, InOrder, Scheduled, Sounding
  <2> QED BY <2>1, <2>2, <2>3, <2>4, <2>5, <2>6, <2>7, <2>8 DEF Next
<1> QED BY <1>1, <1>2, PTL DEF Spec

\* The chunks sound in order and one at a time, none of before the last flush, and
\* none of a call whose socket was closed when the user ended one (flushAudio,
\* playChunk, stop), whatever sockets stay open beyond an end.
THEOREM AudioPlaysInOrder == Spec => []PlaysInOrder
<1>1. PlaybackInv => PlaysInOrder
  BY DEF PlaybackInv, PlaysInOrder, TrackedInv, CutOff, EndedCallsSilent
<1> QED BY <1>1, PlaybackInvariant, PTL
===============================================================================
