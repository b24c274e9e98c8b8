----------------------------- MODULE AsyncQuery -----------------------------
(***************************************************************************)
(* aexecute / asql: a coroutine steps a PendingResult from an event loop,  *)
(* one executor tick at a time on a pool thread (src/ducky/_aio.py,        *)
(* PendingResult in src/cpp/connection.cpp).                               *)
(*                                                                         *)
(* The threads are the event loop, the pool threads, and DuckDB's own      *)
(* workers, which need the GIL whenever the query calls a Python UDF.  An  *)
(* action is what a thread does between two points where it can block: on  *)
(* the GIL, on mu_, or on the engine.  A Python step that does not give up *)
(* the GIL is one action that finds the GIL free.                          *)
(***************************************************************************)
EXTENDS Naturals, FiniteSets

CONSTANTS
  Drives,     \* coroutines on one event loop, each with its own PendingResult
  Udf,        \* those whose query calls a Python UDF on DuckDB's workers
  Droppable,  \* those that may be dropped without being awaited to the end
  PoolSize,   \* threads of the loop's default executor
  Calls,      \* UDF calls DuckDB's workers make for one query
  Loop,       \* the event loop's thread
  None

ASSUME UdfAreDrives       == Udf \subseteq Drives
ASSUME DroppableAreDrives == Droppable \subseteq Drives
ASSUME PoolIsNotEmpty     == PoolSize \in Nat \ {0}
ASSUME CallsAreCounted    == Calls \in Nat
ASSUME NamesDiffer        == Loop \notin Drives /\ None \notin Drives /\ Loop # None

VARIABLES
  coro,     \* where each coroutine is in _drive, or how it ended
  job,      \* the to_thread call of each coroutine
  state,    \* the PendingState of its last tick
  pending,  \* pending_ and stmt_ of its PendingResult: "none", "live" or "freed"
  mu,       \* owner of mu_: None, Loop, or d for the pool thread of d's job
  gil,      \* the thread that keeps the GIL across actions
  loop,     \* the coroutine whose C++ call the event loop is inside of
  engine,   \* DuckDB's query
  calls,    \* UDF calls it has left
  upcall    \* one of DuckDB's workers is inside a UDF trampoline, wanting the GIL

engineVars == <<engine, calls, upcall>>
vars == <<coro, job, state, pending, mu, gil, loop, engine, calls, upcall>>

Blocking == {"erring", "materialize", "materializing", "materialized",
             "drain", "draining", "drained"}
Ended    == {"returned", "raised", "aborted", "dropped"}
OnPool   == {"entering", "task", "leaving", "reaping"}

Init ==
  /\ coro = [d \in Drives |-> "new"]
  /\ job = [d \in Drives |-> "none"]
  /\ state = [d \in Drives |-> "NOT_READY"]
  /\ pending = [d \in Drives |-> "none"]
  /\ mu = [d \in Drives |-> None]
  /\ gil = None
  /\ loop = None
  /\ engine = [d \in Drives |-> "idle"]
  /\ calls = [d \in Drives |-> IF d \in Udf THEN Calls ELSE 0]
  /\ upcall = [d \in Drives |-> FALSE]

Set(f, d, v) == [f EXCEPT ![d] = v]

\* duckdb_interrupt: a running query stops at its next opportunity.
Interrupted(d) == IF engine[d] = "running" THEN Set(engine, d, "interrupted") ELSE engine

\* duckdb_execute_pending comes back once the query is over and no worker is still
\* inside a task of it.
Settled(d) == engine[d] # "running" /\ ~upcall[d]

-----------------------------------------------------------------------------
(* The coroutine, on the event loop.                                       *)

LoopRuns == loop = None /\ gil = None

Start(d) ==
  /\ LoopRuns
  /\ coro[d] = "new"
  /\ coro' = Set(coro, d, "ticking")
  /\ job' = Set(job, d, "queued")
  /\ pending' = Set(pending, d, "live")
  /\ engine' = Set(engine, d, "running")
  /\ UNCHANGED <<state, mu, gil, loop, calls, upcall>>

\* make_pending throws: prepare, binding or the pending query failed and was freed.
StartFails(d) ==
  /\ LoopRuns
  /\ coro[d] = "new"
  /\ coro' = Set(coro, d, "raised")
  /\ UNCHANGED <<job, state, pending, mu, gil, loop, engineVars>>

\* The tick's future is done and the coroutine looks at the state it returned.
Resume(d, s) ==
  /\ LoopRuns
  /\ coro[d] = "ticking"
  /\ job[d] = "done"
  /\ state[d] = s

TickAgain(d) ==
  /\ Resume(d, "NOT_READY")
  /\ job' = Set(job, d, "queued")
  /\ UNCHANGED <<coro, state, pending, mu, gil, loop, engineVars>>

Sleep(d) ==
  /\ Resume(d, "NO_TASKS")
  /\ coro' = Set(coro, d, "sleeping")
  /\ job' = Set(job, d, "none")
  /\ UNCHANGED <<state, pending, mu, gil, loop, engineVars>>

Wake(d) ==
  /\ LoopRuns
  /\ coro[d] = "sleeping"
  /\ coro' = Set(coro, d, "ticking")
  /\ job' = Set(job, d, "queued")
  /\ UNCHANGED <<state, pending, mu, gil, loop, engineVars>>

\* materialize() gives up the GIL, then wants mu_.
Materialize(d) ==
  /\ Resume(d, "READY")
  /\ coro' = Set(coro, d, "materialize")
  /\ job' = Set(job, d, "none")
  /\ loop' = d
  /\ UNCHANGED <<state, pending, mu, gil, engineVars>>

\* error() wants mu_ and keeps the GIL.
AskError(d) ==
  /\ Resume(d, "ERROR")
  /\ coro' = Set(coro, d, "erring")
  /\ job' = Set(job, d, "none")
  /\ loop' = d
  /\ gil' = Loop
  /\ UNCHANGED <<state, pending, mu, engineVars>>

RaiseError(d) ==
  /\ coro[d] = "erring"
  /\ mu[d] = None
  /\ coro' = Set(coro, d, "raised")
  /\ loop' = None
  /\ gil' = None
  /\ UNCHANGED <<job, state, pending, mu, engineVars>>

\* Inside materialize() and drain(): take mu_ and find pending_ still there.
Locks(d, from, to) ==
  /\ coro[d] = from
  /\ mu[d] = None
  /\ pending[d] = "live"
  /\ coro' = Set(coro, d, to)
  /\ mu' = Set(mu, d, Loop)
  /\ UNCHANGED <<job, state, pending, gil, loop, engineVars>>

\* duckdb_execute_pending, cleanup_locked, and the lock is given back.
Executes(d, from, to) ==
  /\ coro[d] = from
  /\ Settled(d)
  /\ coro' = Set(coro, d, to)
  /\ pending' = Set(pending, d, "freed")
  /\ mu' = Set(mu, d, None)
  /\ UNCHANGED <<job, gil, loop, engineVars>>

\* The GIL is taken back and the call returns to the coroutine, which ends.
Returns(d, from, to) ==
  /\ coro[d] = from
  /\ gil = None
  /\ coro' = Set(coro, d, to)
  /\ loop' = None
  /\ UNCHANGED <<job, state, pending, mu, gil, engineVars>>

MaterializeLocks(d) == Locks(d, "materialize", "materializing")
MaterializeExecutes(d) ==
  /\ Executes(d, "materializing", "materialized")
  /\ \E s \in {"READY", "ERROR"} : state' = Set(state, d, s)
MaterializeReturns(d) ==
  Returns(d, "materialized", IF state[d] = "READY" THEN "returned" ELSE "raised")

\* Faulty variant: the lock comes before the interrupt.
DrainUninterrupted(d) ==
  /\ LoopRuns
  /\ coro[d] = "cancelling"
  /\ coro' = Set(coro, d, "drain")
  /\ loop' = d
  /\ UNCHANGED <<job, state, pending, mu, gil, engineVars>>

\* CancelledError is thrown into the coroutine: drain() interrupts, gives up the
\* GIL, then wants mu_.
Drain(d) ==
  /\ LoopRuns
  /\ coro[d] = "cancelling"
  /\ coro' = Set(coro, d, "drain")
  /\ loop' = d
  /\ engine' = Interrupted(d)
  /\ UNCHANGED <<job, state, pending, mu, gil, calls, upcall>>

DrainLocks(d) == Locks(d, "drain", "draining")

\* Faulty variant: pending_ is not reset and stays for the destructor.
DrainKeepsPending(d) ==
  /\ coro[d] = "draining"
  /\ Settled(d)
  /\ coro' = Set(coro, d, "drained")
  /\ mu' = Set(mu, d, None)
  /\ UNCHANGED <<job, state, pending, gil, loop, engineVars>>

DrainExecutes(d) == Executes(d, "draining", "drained") /\ UNCHANGED state

\* Faulty variants: the loop is not given back; the CancelledError is swallowed and
\* the coroutine ticks on.
DrainKeepsLoop(d) ==
  /\ coro[d] = "drained"
  /\ gil = None
  /\ coro' = Set(coro, d, "aborted")
  /\ UNCHANGED <<job, state, pending, mu, gil, loop, engineVars>>
DrainSwallows(d) == Returns(d, "drained", "sleeping")

DrainReturns(d) == Returns(d, "drained", "aborted")

Coroutine(d) ==
  \/ Start(d) \/ StartFails(d)
  \/ TickAgain(d) \/ Sleep(d) \/ Wake(d) \/ AskError(d) \/ RaiseError(d)
  \/ Materialize(d) \/ MaterializeLocks(d) \/ MaterializeExecutes(d) \/ MaterializeReturns(d)
  \/ Drain(d) \/ DrainLocks(d) \/ DrainExecutes(d) \/ DrainReturns(d)

-----------------------------------------------------------------------------
(* What the program around the coroutine may do to it.                     *)

\* task.cancel(), or Ctrl-C under asyncio.run.  A job no thread has picked up yet is
\* cancelled with its future; any other runs on and nobody looks at its state.
Cancel(d) ==
  /\ LoopRuns
  /\ coro[d] \in {"new", "ticking", "sleeping"}
  /\ coro' = Set(coro, d, IF coro[d] = "new" THEN "aborted" ELSE "cancelling")
  /\ job' = IF job[d] \in {"queued", "done"} THEN Set(job, d, "none") ELSE job
  /\ UNCHANGED <<state, pending, mu, gil, loop, engineVars>>

\* The last reference to a suspended coroutine goes.  Its job, if a pool thread has
\* or will have it, still refers to the PendingResult.
Drop(d) ==
  /\ LoopRuns
  /\ d \in Droppable
  /\ coro[d] \in {"ticking", "sleeping"}
  /\ coro' = Set(coro, d, "dropped")
  /\ job' = IF job[d] = "done" THEN Set(job, d, "none") ELSE job
  /\ UNCHANGED <<state, pending, mu, gil, loop, engineVars>>

\* ~PendingResult, by the thread that drops the last reference: the event loop when
\* no job has one.  The destructor keeps the GIL throughout.
ReapOnLoop(d) ==
  /\ LoopRuns
  /\ coro[d] \in {"dropped", "raised"}
  /\ job[d] = "none"
  /\ pending[d] = "live"
  /\ gil' = Loop
  /\ loop' = d
  /\ engine' = Interrupted(d)
  /\ UNCHANGED <<coro, job, state, pending, mu, calls, upcall>>

ReapedOnLoop(d) ==
  /\ loop = d
  /\ coro[d] \in {"dropped", "raised"}
  /\ Settled(d)
  /\ pending' = Set(pending, d, "freed")
  /\ gil' = None
  /\ loop' = None
  /\ UNCHANGED <<coro, job, state, mu, engineVars>>

-----------------------------------------------------------------------------
(* A pool thread, in PendingResult::execute_task.                          *)

\* The job's future is set running; execute_task gives up the GIL.
PickUp(d) ==
  /\ gil = None
  /\ job[d] = "queued"
  /\ Cardinality({e \in Drives : job[e] \in OnPool}) < PoolSize
  /\ job' = Set(job, d, "entering")
  /\ UNCHANGED <<coro, state, pending, mu, gil, loop, engineVars>>

\* Faulty variant: pending_ is not looked at again under the lock.
EntersUnchecked(d) ==
  /\ job[d] = "entering"
  /\ mu[d] = None
  /\ job' = Set(job, d, "task")
  /\ mu' = Set(mu, d, d)
  /\ UNCHANGED <<coro, state, pending, gil, loop, engineVars>>

Enters(d) ==
  /\ job[d] = "entering"
  /\ mu[d] = None
  /\ pending[d] = "live"
  /\ job' = Set(job, d, "task")
  /\ mu' = Set(mu, d, d)
  /\ UNCHANGED <<coro, state, pending, gil, loop, engineVars>>

\* A drain came first, and the tick throws "pending result already consumed".  Nobody
\* waits for it (ConsumedIsNeverSeen), so no action of the coroutine receives it.
TooLate(d) ==
  /\ job[d] = "entering"
  /\ mu[d] = None
  /\ pending[d] # "live"
  /\ job' = Set(job, d, "leaving")
  /\ state' = Set(state, d, "CONSUMED")
  /\ UNCHANGED <<coro, pending, mu, gil, loop, engineVars>>

\* One executor task was run; mu_ is given back before the GIL is asked for.
Ticked(d, s, e) ==
  /\ job[d] = "task"
  /\ job' = Set(job, d, "leaving")
  /\ state' = Set(state, d, s)
  /\ engine' = Set(engine, d, e)
  /\ mu' = Set(mu, d, None)
  /\ UNCHANGED <<coro, pending, gil, loop, calls, upcall>>

TickContinues(d) ==
  /\ engine[d] = "running"
  /\ \E s \in {"NOT_READY", "NO_TASKS"} : Ticked(d, s, "running")

TickReady(d) ==
  /\ engine[d] = "running" /\ ~upcall[d]
  /\ Ticked(d, "READY", "over")

\* The query failed, or an interrupt reached it.
TickFails(d) ==
  /\ engine[d] \in {"running", "interrupted"} /\ ~upcall[d]
  /\ Ticked(d, "ERROR", "over")

\* Faulty variant: the finished job keeps its reference to the PendingResult.
LeavesHoldingOn(d) ==
  /\ gil = None
  /\ job[d] = "leaving"
  /\ job' = Set(job, d, "done")
  /\ UNCHANGED <<coro, state, pending, mu, gil, loop, engineVars>>

\* Back under the GIL: the future is done if the coroutine still waits for it.
Leaves(d) ==
  /\ gil = None
  /\ job[d] = "leaving"
  /\ ~(coro[d] = "dropped" /\ pending[d] = "live")
  /\ job' = Set(job, d, IF coro[d] = "ticking" THEN "done" ELSE "none")
  /\ UNCHANGED <<coro, state, pending, mu, gil, loop, engineVars>>

\* The job had the last reference: the destructor runs on the pool thread.
ReapOnPool(d) ==
  /\ gil = None
  /\ job[d] = "leaving"
  /\ coro[d] = "dropped" /\ pending[d] = "live"
  /\ job' = Set(job, d, "reaping")
  /\ gil' = d
  /\ engine' = Interrupted(d)
  /\ UNCHANGED <<coro, state, pending, mu, loop, calls, upcall>>

ReapedOnPool(d) ==
  /\ job[d] = "reaping"
  /\ Settled(d)
  /\ job' = Set(job, d, "none")
  /\ pending' = Set(pending, d, "freed")
  /\ gil' = None
  /\ UNCHANGED <<coro, state, mu, loop, engineVars>>

PoolThread(d) ==
  \/ PickUp(d) \/ Enters(d) \/ TooLate(d) \/ Leaves(d)
  \/ TickContinues(d) \/ TickReady(d) \/ TickFails(d)
  \/ ReapOnPool(d) \/ ReapedOnPool(d)

-----------------------------------------------------------------------------
(* DuckDB's workers.                                                       *)

UdfCalled(d) ==
  /\ engine[d] = "running"
  /\ ~upcall[d]
  /\ calls[d] > 0
  /\ upcall' = Set(upcall, d, TRUE)
  /\ calls' = Set(calls, d, calls[d] - 1)
  /\ UNCHANGED <<coro, job, state, pending, mu, gil, loop, engine>>

\* The trampoline gets the GIL, runs the Python function and returns.
UdfReturns(d) ==
  /\ upcall[d]
  /\ gil = None
  /\ upcall' = Set(upcall, d, FALSE)
  /\ UNCHANGED <<coro, job, state, pending, mu, gil, loop, engine, calls>>

\* Every coroutine has ended and nothing of it is left.
Finished ==
  /\ \A d \in Drives :
       coro[d] \in Ended /\ job[d] = "none" /\ pending[d] # "live" /\ ~upcall[d]
  /\ UNCHANGED vars

Next ==
  \/ \E d \in Drives :
       \/ Coroutine(d) \/ Cancel(d) \/ Drop(d) \/ ReapOnLoop(d) \/ ReapedOnLoop(d)
       \/ PoolThread(d) \/ UdfCalled(d) \/ UdfReturns(d)
  \/ Finished

\* A thread that wants the GIL, mu_ or its turn on the event loop gets it if it is free
\* again and again; nobody has to cancel, to drop a coroutine or to call a UDF, and a
\* query may run for ever.
Fairness ==
  \A d \in Drives :
    /\ SF_vars(Coroutine(d) \/ ReapOnLoop(d) \/ ReapedOnLoop(d))
    /\ SF_vars(PoolThread(d))
    /\ SF_vars(UdfReturns(d))

Spec == Init /\ [][Next]_vars /\ Fairness

-----------------------------------------------------------------------------
(* Properties. *)

\* Threads inside the engine with d's pending query.
OnLoop(d)   == coro[d] \in {"materializing", "draining"}
LoopReaps(d) == loop = d /\ coro[d] \in {"dropped", "raised"}
PoolReaps(d) == job[d] = "reaping"

Types ==
  /\ coro \in [Drives -> {"new", "ticking", "sleeping", "cancelling"}
                         \cup Blocking \cup Ended]
  /\ job \in [Drives -> {"none", "queued", "done"} \cup OnPool]
  /\ state \in [Drives -> {"NOT_READY", "NO_TASKS", "READY", "ERROR", "CONSUMED"}]
  /\ pending \in [Drives -> {"none", "live", "freed"}]
  /\ mu \in [Drives -> Drives \cup {Loop, None}]
  /\ gil \in Drives \cup {Loop, None}
  /\ loop \in Drives \cup {None}
  /\ engine \in [Drives -> {"idle", "running", "interrupted", "over"}]
  /\ calls \in [Drives -> Nat]
  /\ upcall \in [Drives -> BOOLEAN]

\* Types; the event loop is inside a C++ call of the coroutine it is inside of.
TypeOK ==
  /\ Types
  /\ \A d \in Drives : coro[d] \in Blocking => loop = d
  /\ loop # None => coro[loop] \in Blocking \cup {"dropped", "raised"}

\* A pending query is used by one thread at a time and never after it was freed: a tick
\* still in flight when the coroutine is cancelled, or when its last reference goes,
\* never meets drain(), materialize() or the destructor, which takes no lock.
OneUserAtATime ==
  \A d \in Drives :
    /\ job[d] = "task" => pending[d] = "live" /\ ~OnLoop(d) /\ ~LoopReaps(d)
    /\ OnLoop(d) => pending[d] = "live" /\ ~PoolReaps(d)
    /\ LoopReaps(d) \/ PoolReaps(d) => pending[d] = "live"
    /\ ~(LoopReaps(d) /\ PoolReaps(d))

\* An await that ends with a result or a CancelledError leaves no query behind in the
\* engine, whatever its pool thread is still doing.
NothingLeftBehind ==
  \A d \in Drives : coro[d] \in {"returned", "aborted"} => pending[d] # "live"

\* The coroutine asks for no tick of a query it has consumed or given up, so "already
\* consumed" is thrown only to a pool thread nobody waits for.
ConsumedIsNeverSeen ==
  \A d \in Drives : coro[d] = "ticking" /\ job[d] \in {"leaving", "done"} => state[d] # "CONSUMED"

\* A cancelled await ends, even while a tick runs, while UDFs want the GIL and though
\* the query by itself would run for ever.
CancelEnds == \A d \in Drives : coro[d] = "cancelling" ~> coro[d] = "aborted"

\* The event loop gets its thread back from every call into PendingResult.
LoopComesBack == loop # None ~> loop = None

\* The query of every coroutine that has ended is freed, by the destructor at the latest.
FreedInTheEnd == \A d \in Drives : coro[d] \in Ended ~> pending[d] # "live"
=============================================================================
