------------------------------ MODULE EventLoop ------------------------------
(***************************************************************************)
(* get_shared_loop: the server threads of a worker that want the shared    *)
(* asyncio loop, the lock they start it under and the native threads that  *)
(* run a loop.  A thread, and the loop it creates, are named after the     *)
(* caller that started it.  The global _shared_loop is read and written    *)
(* without the lock too, so every read of it is a step, and what is done   *)
(* with the loop that was read is another.  Every caller calls once.       *)
(***************************************************************************)
CONSTANTS
    Callers,
    WaitExpires    \* whether a thread may take longer than the wait for it

ASSUME CallersAssumption == "none" \notin Callers /\ WaitExpires \in BOOLEAN

VARIABLES
    caller,    \* check, ask, lock, recheck, reask, start, wait, return,
               \* returned, raised: what a caller does next
    seen,      \* the loop a caller has read and asks whether it runs
    got,       \* the loop a caller was given
    lock,      \* who holds _loop_lock
    shared,    \* _shared_loop
    thread,    \* none, started, assigned, ready, loaded, running, dead
    loaded,    \* the loop a thread has read and is about to run
    running    \* the loops that run

loopVars == <<caller, seen, got, lock, shared, thread, loaded, running>>

LoopInit ==
    /\ caller = [c \in Callers |-> "check"]
    /\ seen = [c \in Callers |-> "none"]
    /\ got = [c \in Callers |-> "none"]
    /\ lock = "none"
    /\ shared = "none"
    /\ thread = [c \in Callers |-> "none"]
    /\ loaded = [c \in Callers |-> "none"]
    /\ running = {}

SharedRuns == shared \in running

Goes(c, pc) == caller' = [caller EXCEPT ![c] = pc]
------------------------------------------------------------------------------
(* A caller *)

\* Caller c reads the global: without a loop there is nothing to ask.
Reads(c, ask, missing) ==
    /\ seen' = [seen EXCEPT ![c] = shared]
    /\ Goes(c, IF shared = "none" THEN missing ELSE ask)
    /\ UNCHANGED <<got, lock, shared, thread, loaded, running>>

\* is_running() of the loop it has read.
Asks(c, missing) ==
    /\ Goes(c, IF seen[c] \in running THEN "return" ELSE missing)
    /\ UNCHANGED <<seen, got, lock, shared, thread, loaded, running>>

Check(c) == caller[c] = "check" /\ Reads(c, "ask", "lock")

IsRunning(c) == caller[c] = "ask" /\ Asks(c, "lock")

TakeLock(c) ==
    /\ caller[c] = "lock"
    /\ lock = "none"
    /\ lock' = c
    /\ Goes(c, "recheck")
    /\ UNCHANGED <<seen, got, shared, thread, loaded, running>>

\* Fault: what was found before the lock was taken is relied on.
RecheckNot(c) ==
    /\ caller[c] = "recheck"
    /\ Goes(c, "start")
    /\ UNCHANGED <<seen, got, lock, shared, thread, loaded, running>>

Recheck(c) == caller[c] = "recheck" /\ Reads(c, "reask", "start")

StillNotRunning(c) == caller[c] = "reask" /\ Asks(c, "start")

StartThread(c) ==
    /\ caller[c] = "start"
    /\ thread' = [thread EXCEPT ![c] = "started"]
    /\ Goes(c, "wait")
    /\ UNCHANGED <<seen, got, lock, shared, loaded, running>>

\* ready is set, or the five seconds are over.
WaitOver(c) == WaitExpires \/ thread[c] \notin {"started", "assigned"}

\* Fault: there is no assertion.
WaitedUnchecked(c) ==
    /\ caller[c] = "wait"
    /\ WaitOver(c)
    /\ Goes(c, "return")
    /\ UNCHANGED <<seen, got, lock, shared, thread, loaded, running>>

\* Fault: the lock stays taken when the assertion fails.
WaitedLocked(c) ==
    /\ caller[c] = "wait"
    /\ WaitOver(c)
    /\ Goes(c, IF shared = "none" THEN "raised" ELSE "return")
    /\ UNCHANGED <<seen, got, lock, shared, thread, loaded, running>>

\* After the wait the global is asserted to be there; a caller that raises
\* gives the lock back.
Waited(c) ==
    /\ caller[c] = "wait"
    /\ WaitOver(c)
    /\ Goes(c, IF shared = "none" THEN "raised" ELSE "return")
    /\ lock' = IF shared = "none" THEN "none" ELSE lock
    /\ UNCHANGED <<seen, got, shared, thread, loaded, running>>

\* The three returns: the global is read again, and whoever holds the lock
\* gives it back.
ReturnShared(c) ==
    /\ caller[c] = "return"
    /\ got' = [got EXCEPT ![c] = shared]
    /\ lock' = IF lock = c THEN "none" ELSE lock
    /\ Goes(c, "returned")
    /\ UNCHANGED <<seen, shared, thread, loaded, running>>

CallerStep(c) ==
    \/ Check(c) \/ IsRunning(c)
    \/ TakeLock(c) \/ Recheck(c) \/ StillNotRunning(c)
    \/ StartThread(c) \/ Waited(c)
    \/ ReturnShared(c)
------------------------------------------------------------------------------
(* The thread a caller started: _run_loop *)

Assign(c) ==
    /\ thread[c] = "started"
    /\ thread' = [thread EXCEPT ![c] = "assigned"]
    /\ shared' = c
    /\ UNCHANGED <<caller, seen, got, lock, loaded, running>>

SetReady(c) ==
    /\ thread[c] = "assigned"
    /\ thread' = [thread EXCEPT ![c] = "ready"]
    /\ UNCHANGED <<caller, seen, got, lock, shared, loaded, running>>

\* _shared_loop.run_forever(): the global is read again, and by now may be
\* the loop of another thread ...
Load(c) ==
    /\ thread[c] = "ready"
    /\ thread' = [thread EXCEPT ![c] = "loaded"]
    /\ loaded' = [loaded EXCEPT ![c] = shared]
    /\ UNCHANGED <<caller, seen, got, lock, shared, running>>

\* Fault: a thread gives up when another one runs a loop.
RunForeverFirst(c) ==
    /\ thread[c] = "loaded"
    /\ thread' = [thread EXCEPT ![c] = IF running = {} THEN "running" ELSE "dead"]
    /\ running' = IF running = {} THEN {loaded[c]} ELSE running
    /\ UNCHANGED <<caller, seen, got, lock, shared, loaded>>

\* ... and a loop that runs already raises.
RunForever(c) ==
    /\ thread[c] = "loaded"
    /\ thread' = [thread EXCEPT ![c] = IF loaded[c] \in running THEN "dead" ELSE "running"]
    /\ running' = running \cup {loaded[c]}
    /\ UNCHANGED <<caller, seen, got, lock, shared, loaded>>

ThreadStep(c) == Assign(c) \/ SetReady(c) \/ Load(c) \/ RunForever(c)

\* Every caller has its answer and every thread its loop.
Over == /\ \A c \in Callers : /\ caller[c] \in {"returned", "raised"}
                              /\ thread[c] \in {"none", "running", "dead"}
        /\ UNCHANGED loopVars

LoopNext == (\E c \in Callers : CallerStep(c) \/ ThreadStep(c)) \/ Over

LoopSpec == LoopInit /\ [][LoopNext]_loopVars

\* The system runs every thread; wait(timeout=5) ends by itself.
FairLoopSpec ==
    LoopSpec /\ \A c \in Callers : WF_loopVars(CallerStep(c)) /\ WF_loopVars(ThreadStep(c))

------------------------------------------------------------------------------
(* Properties *)

\* Every variable has its type, and a caller that returned has a loop.
LoopTypeOK ==
    /\ caller \in [Callers -> {"check", "ask", "lock", "recheck", "reask", "start",
                               "wait", "return", "returned", "raised"}]
    /\ seen \in [Callers -> Callers \cup {"none"}]
    /\ got \in [Callers -> Callers \cup {"none"}]
    /\ lock \in Callers \cup {"none"}
    /\ shared \in Callers \cup {"none"}
    /\ thread \in [Callers -> {"none", "started", "assigned", "ready", "loaded",
                               "running", "dead"}]
    /\ loaded \in [Callers -> Callers \cup {"none"}]
    /\ running \subseteq Callers
    /\ \A c \in Callers : caller[c] = "returned" => got[c] # "none"

\* Inductive part: the global is set before anything relies on it.
SharedIsSet ==
    \A c \in Callers :
        /\ caller[c] \in {"ask", "reask", "return"} => shared # "none"
        /\ thread[c] \in {"assigned", "ready", "loaded", "running", "dead"} => shared # "none"
        /\ thread[c] = "loaded" => loaded[c] # "none"

\* A caller that is about to start a thread: it holds the lock and has found
\* no loop that ran, or has read one that does not run yet.
AboutToStart(c) == \/ caller[c] = "start"
                   \/ caller[c] = "reask" /\ seen[c] \notin running

\* The shared loop runs, no thread is on its way to its loop, and nobody is
\* about to start another.
Settled == /\ SharedRuns
           /\ \A c \in Callers : /\ thread[c] \in {"none", "running", "dead"}
                                  /\ ~AboutToStart(c)

\* Once that is so the shared loop is the same one for ever: neither a caller
\* that found it not running before it waited for the lock nor one that is
\* yet to come replaces it.  The one that may replace a loop that runs is the
\* holder of the lock that asked just before the loop began to run: ready is
\* set, and the lock given back, before run_forever.
SettledStays == [][Settled => shared' = shared /\ Settled']_loopVars

\* get_shared_loop returns or raises, whatever the threads it started do.
GetReturns == \A c \in Callers : <>(caller[c] \in {"returned", "raised"})

\* However the first calls race, in the end there is a shared loop that runs.
SharedLoopRuns == <>[]SharedRuns
==============================================================================
