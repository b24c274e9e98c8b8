----------------------------- MODULE EngineCalls -----------------------------
(***************************************************************************)
(* The synchronous calls into DuckDB and the GIL: run_pending, which gives *)
(* the GIL up for every executor tick, and the calls that keep it until    *)
(* the engine is done (executemany, fetching from a streaming result).     *)
(* src/cpp/connection.cpp, src/cpp/result.cpp, the UDF trampolines of      *)
(* src/cpp/function.cpp.                                                   *)
(***************************************************************************)
EXTENDS Naturals

CONSTANTS
  Threads,     \* Python threads, each with a Connection of its own
  MainThread,  \* the one signals are handled on
  Udf,         \* threads whose queries call a Python UDF on DuckDB's workers
  Blockers,    \* threads that also make calls that keep the GIL
  Calls,       \* UDF calls DuckDB's workers make for one query
  Rows,        \* bound on the rows of one executemany after its first
  SIGNAL_CHECK_PERIOD,
  None

ASSUME ThreadNames  == MainThread \in Threads /\ Udf \subseteq Threads /\ None \notin Threads
ASSUME BlockersAreThreads == Blockers \subseteq Threads
ASSUME BoundsAreNat == Calls \in Nat /\ Rows \in Nat
ASSUME PeriodIsLong == SIGNAL_CHECK_PERIOD \in Nat /\ SIGNAL_CHECK_PERIOD > 1

VARIABLES
  pc,      \* where each thread is: "idle" outside of a call
  gil,     \* the thread that keeps the GIL across actions
  state,   \* PendingState of the thread's last tick
  engine,  \* the thread's query
  calls,   \* UDF calls the query has left
  upcall,  \* one of DuckDB's workers is in a trampoline of the query, wanting the GIL
  rows,    \* rows an executemany has left after the one it is at
  since,   \* since_check
  signal   \* Ctrl-C was pressed and no handler has run

many == <<rows, since>>
vars == <<pc, gil, state, engine, calls, upcall, many, signal>>

Init ==
  /\ pc = [t \in Threads |-> "idle"]
  /\ gil = None
  /\ state = [t \in Threads |-> "NOT_READY"]
  /\ engine = [t \in Threads |-> "over"]
  /\ calls = [t \in Threads |-> 0]
  /\ upcall = [t \in Threads |-> FALSE]
  /\ rows = [t \in Threads |-> 0]
  /\ since = [t \in Threads |-> 0]
  /\ signal = FALSE

Set(f, t, v) == [f EXCEPT ![t] = v]

\* duckdb_execute_pending, duckdb_execute_prepared and duckdb_fetch_chunk come back
\* once no worker is inside a task of the query any more.
Settled(t) == engine[t] # "running" /\ ~upcall[t]

QueryStarts(t) ==
  /\ engine' = Set(engine, t, "running")
  /\ calls' = Set(calls, t, IF t \in Udf THEN Calls ELSE 0)

Begins(t, label) ==
  /\ pc[t] = "idle" /\ gil = None
  /\ pc' = Set(pc, t, label)
  /\ QueryStarts(t)
  /\ UNCHANGED <<state, upcall, signal>>

\* Faulty variant: run_pending keeps the GIL for its ticks.
RunsHolding(t) == Begins(t, "tick") /\ gil' = t /\ UNCHANGED many

Runs(t) == Begins(t, "tick") /\ gil' = None /\ UNCHANGED many

\* executemany; a fetch from a streaming result is a call of one row.
Blocks(t) ==
  /\ t \in Blockers
  /\ Begins(t, "blocked")
  /\ gil' = t
  /\ \E n \in 0 .. Rows : rows' = Set(rows, t, n)
  /\ since' = Set(since, t, 0)

\* duckdb_pending_execute_task, without the GIL.  The query may run for ever.
Tick(t) ==
  /\ pc[t] = "tick"
  /\ \E s \in {"NOT_READY"} \cup (IF upcall[t] THEN {} ELSE {"READY", "ERROR"}) :
       /\ state' = Set(state, t, s)
       /\ engine' = Set(engine, t, IF s = "NOT_READY" THEN "running" ELSE "over")
  /\ pc' = Set(pc, t, "ticked")
  /\ UNCHANGED <<gil, calls, upcall, many, signal>>

\* Back under the GIL.  ERROR throws before signals are looked at.
Ticked(t) == pc[t] = "ticked" /\ gil = None
Signalled(t) == signal /\ t = MainThread

Fails(t) ==
  /\ Ticked(t)
  /\ state[t] = "ERROR"
  /\ pc' = Set(pc, t, "idle")
  /\ UNCHANGED <<gil, state, engine, calls, upcall, many, signal>>

\* Faulty variant: signals are looked at only once the query is READY.
ContinuesUnchecked(t) ==
  /\ Ticked(t)
  /\ state[t] = "NOT_READY"
  /\ pc' = Set(pc, t, "tick")
  /\ UNCHANGED <<gil, state, engine, calls, upcall, many, signal>>

Continues(t) ==
  /\ Ticked(t) /\ ~Signalled(t)
  /\ state[t] = "NOT_READY"
  /\ pc' = Set(pc, t, "tick")
  /\ UNCHANGED <<gil, state, engine, calls, upcall, many, signal>>

\* Faulty variant: the exception is raised and the query left to itself.
DiscardsAtOnce(t) ==
  /\ Ticked(t) /\ Signalled(t)
  /\ state[t] # "ERROR"
  /\ pc' = Set(pc, t, "idle")
  /\ signal' = FALSE
  /\ UNCHANGED <<gil, state, engine, calls, upcall, many>>

\* KeyboardInterrupt: interrupt, then drain; the GIL is kept until the engine is done.
Interrupts(t) ==
  /\ Ticked(t) /\ Signalled(t)
  /\ state[t] # "ERROR"
  /\ pc' = Set(pc, t, "draining")
  /\ gil' = t
  /\ engine' = IF engine[t] = "running" THEN Set(engine, t, "interrupted") ELSE engine
  /\ signal' = FALSE
  /\ UNCHANGED <<state, calls, upcall, many>>

\* Faulty variant: the GIL stays with the interrupted thread.
DrainedHolding(t) ==
  /\ pc[t] = "draining"
  /\ Settled(t)
  /\ pc' = Set(pc, t, "idle")
  /\ UNCHANGED <<gil, state, engine, calls, upcall, many, signal>>

Drained(t) ==
  /\ pc[t] = "draining"
  /\ Settled(t)
  /\ pc' = Set(pc, t, "idle")
  /\ gil' = None
  /\ UNCHANGED <<state, engine, calls, upcall, many, signal>>

\* READY: the final duckdb_execute_pending, under the GIL.
Delivers(t) ==
  /\ Ticked(t) /\ ~Signalled(t)
  /\ state[t] = "READY"
  /\ Settled(t)
  /\ pc' = Set(pc, t, "idle")
  /\ UNCHANGED <<gil, state, engine, calls, upcall, many, signal>>

\* A call that keeps the GIL: the engine works on this thread and on its own, for one
\* row of executemany at a time.
Works(t) ==
  /\ pc[t] = "blocked"
  /\ engine[t] = "running" /\ ~upcall[t]
  /\ engine' = Set(engine, t, "over")
  /\ UNCHANGED <<pc, gil, state, calls, upcall, many, signal>>

RowIsDone(t) == pc[t] = "blocked" /\ Settled(t)
ChecksSignals(t) == since[t] + 1 = SIGNAL_CHECK_PERIOD

NextRow(t) ==
  /\ RowIsDone(t) /\ ~(ChecksSignals(t) /\ Signalled(t))
  /\ rows[t] > 0
  /\ rows' = Set(rows, t, rows[t] - 1)
  /\ since' = Set(since, t, IF ChecksSignals(t) THEN 0 ELSE since[t] + 1)
  /\ QueryStarts(t)
  /\ UNCHANGED <<pc, gil, state, upcall, signal>>

\* KeyboardInterrupt between two rows: those run so far stay.
StopsAtRow(t) ==
  /\ RowIsDone(t) /\ ChecksSignals(t) /\ Signalled(t)
  /\ pc' = Set(pc, t, "idle")
  /\ gil' = None
  /\ signal' = FALSE
  /\ UNCHANGED <<state, engine, calls, upcall, many>>

\* After the last row, or with the error of a row.
Unblocks(t) ==
  /\ RowIsDone(t)
  /\ pc' = Set(pc, t, "idle")
  /\ gil' = None
  /\ UNCHANGED <<state, engine, calls, upcall, many, signal>>

PythonThread(t) ==
  \/ Tick(t) \/ Fails(t) \/ Continues(t) \/ Interrupts(t) \/ Drained(t) \/ Delivers(t)
  \/ Works(t) \/ NextRow(t) \/ StopsAtRow(t) \/ Unblocks(t)

UdfCalled(t) ==
  /\ engine[t] = "running"
  /\ calls[t] > 0 /\ ~upcall[t]
  /\ calls' = Set(calls, t, calls[t] - 1)
  /\ upcall' = Set(upcall, t, TRUE)
  /\ UNCHANGED <<pc, gil, state, engine, many, signal>>

UdfReturns(t) ==
  /\ upcall[t] /\ gil = None
  /\ upcall' = Set(upcall, t, FALSE)
  /\ UNCHANGED <<pc, gil, state, engine, calls, many, signal>>

CtrlC ==
  /\ ~signal
  /\ signal' = TRUE
  /\ UNCHANGED <<pc, gil, state, engine, calls, upcall, many>>

\* Outside of a call the interpreter handles the signal itself.
SignalHandled ==
  /\ signal /\ pc[MainThread] = "idle" /\ gil = None
  /\ signal' = FALSE
  /\ UNCHANGED <<pc, gil, state, engine, calls, upcall, many>>

Next ==
  \/ \E t \in Threads :
       \/ Runs(t) \/ Blocks(t)
       \/ PythonThread(t) \/ UdfCalled(t) \/ UdfReturns(t)
  \/ CtrlC \/ SignalHandled

\* A thread that wants the GIL gets it if it is free again and again.  A query driven
\* tick by tick may run for ever; one under a call that keeps the GIL ends (Works), or
\* the whole process would wait for it.
Fairness ==
  \A t \in Threads : SF_vars(PythonThread(t)) /\ SF_vars(UdfReturns(t))

Spec == Init /\ [][Next]_vars /\ Fairness

-----------------------------------------------------------------------------
(* Properties. *)

\* In a call that keeps the GIL, or draining, a thread waits for a worker of its own query
\* that waits for the GIL: nothing in this process runs any more.
Stuck(t) == pc[t] \in {"draining", "blocked"} /\ gil = t /\ upcall[t]
SomebodyIsStuck == \E t \in Threads : Stuck(t)

\* Types; the GIL is kept by a thread exactly while it is in a call that keeps it.
TypeOK ==
  /\ pc \in [Threads -> {"idle", "tick", "ticked", "draining", "blocked"}]
  /\ gil \in Threads \cup {None}
  /\ state \in [Threads -> {"NOT_READY", "READY", "ERROR"}]
  /\ engine \in [Threads -> {"running", "interrupted", "over"}]
  /\ calls \in [Threads -> 0 .. Calls]
  /\ upcall \in [Threads -> BOOLEAN]
  /\ rows \in [Threads -> 0 .. Rows]
  /\ since \in [Threads -> 0 .. SIGNAL_CHECK_PERIOD - 1]
  /\ signal \in BOOLEAN
  /\ \A t \in Threads : pc[t] \in {"draining", "blocked"} <=> gil = t

\* A call returns, and its result or error goes, only after the last of DuckDB's workers
\* has left the query: no trampoline runs for a query nobody has any more.
NoOrphanedUdf == \A t \in Threads : pc[t] = "idle" => ~upcall[t] /\ engine[t] # "running"

\* Ctrl-C ends the main thread's call, however long its query would run.
InterruptLands == signal ~> pc[MainThread] = "idle"

\* Ctrl-C ends the main thread's call, whatever the other threads do, unless some thread
\* gets stuck.
InterruptLandsUnlessStuck == signal ~> pc[MainThread] = "idle" \/ SomebodyIsStuck

\* A UDF that DuckDB calls on a worker gets the GIL while its query's own thread and the
\* others are busy with theirs, unless some thread gets stuck: ticks never keep it out.
UdfGetsGilUnlessStuck ==
  \A t \in Threads : upcall[t] ~> ~upcall[t] \/ SomebodyIsStuck
=============================================================================
