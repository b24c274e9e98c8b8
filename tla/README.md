# TLA+ models of ducky

ducky is a thin nanobind binding of DuckDB's C API: C++ under `src/cpp/`, a little Python under
`src/ducky/`. Its own logic is what this project models: what it caches, what it owns, when it gives
up the GIL, what it does when a call fails half way or a thread comes in between. DuckDB, the Python
interpreter and asyncio are outside: they are modelled from how the code uses them and marked
external in `PROJECT.json`.

(In `PROJECT.json` the repository is the directory `src/`, so its `src/cpp/x.cpp` is listed as
`src/src/cpp/x.cpp`. Paths below are the repository's.)

## Inventory

| Part | State it keeps | Operations | What makes it correct | Modelled |
|---|---|---|---|---|
| `Connection` (`connection.cpp`, `connection.hpp`) | `handle_`, LRU list and map of prepared statements, profile sink and sampling counter, Arrow registry, last result | `run` (behind `execute`, `sql`), `set_profile_sink`, `register_arrow`, `close` | every statement has one owner and is destroyed once; list and map agree; no plan outlives a flush but in a call's hands; no parameter survives a call | `StatementCache` |
| `PendingResult` and `_aio.py` | `pending_`, `stmt_`, `mu_`; the coroutine and its pool-thread job | `make_pending`, `execute_task`, `error`, `materialize`, `drain`, destructor, `_drive` | one user of the pending query at a time; a cancelled await ends and leaves nothing; the loop gets its thread back | `AsyncQuery` |
| Synchronous engine calls (`run_pending`, `executemany`, fetching) | the executor state, pending signals, the GIL | tick, signal check, interrupt and drain, blocking calls, UDF trampolines | Ctrl-C lands; UDF workers get the GIL; nothing of a query runs after its call returned | `EngineCalls` |
| `Result` (`result.cpp`) | current chunk, cursor, rows returned, Arrow stream state | `fetchone/many/all/item`, `fetch_chunk`, `to_numpy`, `__arrow_c_stream__` | every row once, in order; the end is the end | `ResultCursor` |
| `PreparedStatement` (`connection.cpp`, `prepared.hpp`) | `stmt_` and its bindings | `execute`, `executemany`, `close` | a row runs with its own parameters | `PreparedStatement` in `Ingest`; its use of the GIL in `EngineCalls` |
| `DuckDBHandle` and lifetimes (`database.hpp`) | shared ownership of database and connection | every constructor and destructor | nothing is used after the thing it borrows is gone | the shares, in `Ingest`; not the registry's users |
| Arrow scan (`arrow_scan.cpp`) | registry with a mutex, bind data, per-execution windows | bind, init, local init, scan, replacement scan | every row of the registered source once per execution; converted with the schema it has; the registry outlives its users | `ArrowScan`, without the registry's mutex |
| `Appender` (`appender.cpp`) | appender handle, columns | `append_row`, `append_columns`, `append_arrow`, `flush`, `close` | no row made of two calls; a bulk call leaves a prefix; closed once | `Appender` in `Ingest` |
| Aggregate, table, scalar and Arrow UDFs (`aggregate.cpp`, `table.cpp`, `function.cpp`) | Python objects in engine state, generators, per-thread state | trampolines, init, combine, finalize, destroy | states initialised before use and released once; every row counted once | `UdfQuery`, of `ScalarUdf`, `TableUdf`, `AggregateUdf` |
| `Chunk` (`chunk.cpp`) | a chunk shared with its views | column views, conversion | views keep the chunk alive | no |
| `progress_bar`, `profile` (`_progress.py`, `_profile.py`) | saved settings, polling thread | enter, exit | settings restored whatever the body does; the thread ends | `SettingsScope` |
| Datasets, conversions, bindings (`_dataset.py`, `_conversions.py`, `ducky.cpp`, `ducky.hpp`) | none of note, `cached_singleton` | SQL text, array conversion, declarations | data without control | no |

How they interact: a `Connection` hands its `shared_ptr<DuckDBHandle>` to every `Result`,
`PreparedStatement`, `PendingResult`, `Appender` and `Chunk`; all executions go through
`run_pending` (or `PendingResult` when a coroutine drives them); DuckDB's workers call back into
Python through the trampolines, which need the GIL; `register_arrow` and `set_profile_sink` change
what plans mean, and so concern the statement cache.

The hard parts: the GIL is given up inside `run()` so that two threads interleave on one
connection's cache; the event loop, pool threads and DuckDB's workers meet on a mutex and on the
GIL; an interrupt or an error comes between an effect and the bookkeeping for it. `PROJECT.json`
lists each hazard at its line, with the property that watches it or the reason why none does. A bulk call or a
callback of the engine may fail at any of its steps, and what was done before stays done: that is
where ingest, UDFs and the context managers can go wrong.

## Modules

### StatementCache (with PlanningConnection, MCStatementCache, StatementCacheProofs)

`Connection::run` is cut where it can give up the GIL: check-out (`Enter`, `Miss`, `Hit`,
`UnusableHit`), `Prepare`, `Bind`, `Execute`, `Emit` (the profile sink, which is Python), `CheckIn`
or `Flush`, and each failure (`PrepareFails`, `BindFails`, `ExecuteFails`, `Interrupted`). `lru` is
`stmt_lru_`, `index` is `stmt_cache_` (an index maps a query to its node), `prep` records for every
statement handle whether it is alive, what it was planned from and what is bound. A plan is stamped
with the settings and Arrow sources it was made under; a statement of `Flushing` type changes the
settings.

Settings change in four ways that no flush follows: `set_profile_sink` (and a failure half way in
it, `SinkSetupFails`), `RunsElsewhere` for the statements of a `PendingResult` (asql, aexecute) and
of a `PreparedStatement`, which never come near the cache, and `Interrupted` for a Ctrl-C in the
tick in which a SET of `run()` took effect. All are in `statement_cache_shared`.

`PlanningConnection` is the abstract specification: what `run()` promises, with no statement, list
or capacity in it. A call is answered with its own query, its own parameters, and a plan that it
made or that was kept for its query since the last flush. It promises no more than the code keeps:
`Configure` and `Throw` are the settings changes without a flush, and `Return` lets a call that was
under way at a flush leave its plan afterwards. `StatementCache` implements it (`RunsAsPromised` in
`MCStatementCache`), with any number of threads that overlap in any way. That a cached plan is fresh
(`CachedPlansFresh`, the claim of `connection.hpp:139-142`) is not true of the code and is checked
in the violation run only.

When `close()` comes in the middle of a `run()` with a sink installed, `Emit` ends in
`pc = "fault"`: `connection.cpp:463` reads the `handle_` that close() has reset. It is a bug (see below)
and the model keeps it as an end of its own; the other properties hold up to it and in it.

The proofs cover all of it for any threads, queries, handles and capacity, see below.

### AsyncQuery (with AsyncQueryProofs)

One action is what a thread does between two points where it can block. `coro` is the program
counter of `_drive`, `job` that of the `to_thread` call, `mu` the owner of `mu_`, `gil` the thread
that keeps the GIL across actions (most Python steps take and give it in one action and need only
that it is free). `Locks`, `Executes`, `Returns` are the three stretches `materialize` and `drain`
have in common. `UdfCalled`/`UdfReturns` are DuckDB's workers in a trampoline. A query of another
coroutine on the same connection that is interrupted along with this one (duckdb_interrupt is per
connection) is covered by `TickFails`, which may happen at any tick.

### EngineCalls (with EngineCallsProofs)

`run_pending` tick by tick with its three exits, beside the calls that keep the GIL for the whole of
an engine call: `executemany` row by row (`Blocks`, `Works`, `NextRow`, `Unblocks`), with its look
at signals every `SIGNAL_CHECK_PERIOD` rows (`ChecksSignals`, `StopsAtRow`), and a fetch from a
streaming result, which is a call of one row. Two threads with a connection each, both with UDFs in
their queries and both making both kinds of calls, so that one thread's GIL meets its own UDF and
the other's.

`Stuck` is a thread that keeps the GIL, in the drain after Ctrl-C or in a call that keeps it, while
a worker of its own query waits for it: the process hangs. The code allows it (see the
disagreements), so the two liveness properties of `engine_calls` say what holds short of it,
`InterruptLandsUnlessStuck` and `UdfGetsGilUnlessStuck`, and its cfg does not check for deadlock.
`InterruptLands`, with no such excuse, is violated in `engine_ctrl_c_udf`. `NoOrphanedUdf` holds in
every state, for a call that cannot wait its worker out gets stuck and does not return.

### ResultCursor (with ResultCursorProofs)

The read side of one result. `fetchone`, `fetchmany`, `fetchall`, `fetchitem`, `to_numpy` and the
fast `get_next` begin a call (`call`: which loop, and its rounds left); the loop is a step per chunk
that `ensure_row` fetches (`next_chunk`) or that pass 1 pulls (`pull_chunk`) and per row that is
built (`build_row`), and ends in a step that returns or throws (`no_more_rows`, `rounds_done`,
`second_row`, `copy_out`). `fetchall` counts its rounds (`"fetchall"`) or runs until there is no row
(`"fetchrest"`). `fetch_chunk` and the stream's fallback take one step, and `refused` is every check
that throws before anything is read. `built` is the unfinished list of the call; `given` and `lost`
are history: what the caller has got, and what went down with a call that threw. One thread uses a
Result: two are not supported by the code on a GIL build beyond what the GIL gives. There is one
stream at a time. `reach` is where `duckdb_fetch_chunk` first returns nullptr; it is short of the
end only when `EngineFails` lets a streaming query fail on the way.

### ArrowScan (with MCArrowScan, ArrowScanProofs)

One table name. `registered` is the registry's entry; `bound` is the converted schema in each plan's
`ArrowScanBind`; `scan` is the `ArrowScanState` of its execution, with the source its stream was
opened from. `Register` is `register_arrow` with its flush of the plans that lie in the statement
cache. `arrow_scan_init` is cut where it calls into the source and may give up the GIL (`InitOpens`,
one `InitPulls` a batch, `InitEnds`, or `InitFails`), so a registration can come between any two of
them. A worker starts (`LocalInit`), and `arrow_scan_function` is `Claim`, the atomic fetch_add, and
`Emit`, which fills the worker's selection vector when the window does not begin at row 0. The
output is read later (`Consumed`), because it only refers to the chunk and to the selection vector;
the rows downstream finds are what those hold then. A row is a pair <<chunk, offset>>. Outside the
model: that a batch of another schema fails to convert is what `arrow_scan.cpp:214` expects of
`duckdb_data_chunk_from_arrow`.

### Ingest (with Appender, PreparedStatement, MCIngest, IngestProofs)

One table, one appender, one prepared INSERT, one Connection. `Appender` cuts each call where it can
fail: `append_row` cell by cell (`append_one`, `end_row`), `append_columns` chunk by chunk,
`append_arrow` batch by batch. `job` is the call that runs under the GIL from end to end; `arrow`
and `many` are the append_arrow and the executemany under way, between whose batches and rows a
Python source may let any other call in, `close()` included. `exec` is the execute under way:
`run_pending` copies the bound values when it starts (`Starts`) and lets go of the GIL, so other
calls come before `execute_returns` or `execute_raises`. `part` is the row begun and not ended,
`rows` the engine's buffer, `table` what was flushed. `asked` is history: what each call was given,
row by row, and how it ended; a cell is <<call, row, column>>, so a row made of pieces is recognised
wherever it turns up.

`Ingest` adds who holds the `DuckDBHandle`: the Connection, the appender, the statement and the
Results of it, released in any order; the last one closes the database. `ExecuteReturns` reads the
statement's `handle_` after the query (`connection.cpp:818`): when the statement was closed
meanwhile, the Result is `"closed"`, with no share of the handle, a bug listed below.
`InOpenDatabase` speaks of the others.

Engine facts assumed: an appender knows its column and refuses a cell past the last one and an
end_row before it; a flush takes all buffered rows or none, and fails on a row begun; a close that
fails discards the buffer (`Discards`: the rows of its calls are `lost`, though these returned); the
engine refuses to run a statement with a parameter unbound, and a pending query has a copy of the
values it was made with. `RowsAreWhole` says for each cell what it must be: the caller's value;
NULL; `Unwritten` for a row of a column that is not given but masked, where the mask says valid
(`appender.cpp:379` sets what line 370 cleared; the run `masked_column_unwritten` holds it against
`appender.hpp:60`); or, for a parameter that an executemany row or an `execute(None)` leaves out, a
value last bound for that very parameter (`Inherited`; `connection.cpp:830` says why). The cells of
a row are taken to convert without running Python code, and the order in the table of rows of
different calls is not followed.

### UdfQuery (with PythonUdf, ScalarUdf, TableUdf, AggregateUdf, MCUdfQuery, UdfQueryProofs)

SELECT agg(f(x)) FROM source GROUP BY g, executed again and again: `source` is a base table that all
workers scan or a table UDF that one worker reads; `f` an ndarray UDF with an `init=` state for each
worker or an Arrow UDF; `agg` an aggregate class with or without `combine()`. `PythonUdf` has what
the three share. Every callback of `function.cpp`, `table.cpp` and `aggregate.cpp` is an action with
a second one for its failure. A callback holds the GIL and touches its own worker's objects only, so
it is one step, except for the Arrow trampoline, whose hand-overs of the two arrays are steps
(`frame`: what it holds). `objects` are the Python objects and arrays that the engine or a frame
refers to by bare pointers, each a bag of the rows it was shown; `local` and `global` are the slots
of `duckdb_aggregate_state`; `wild` is the set of pointers that were released and hold no live
object.

`agg_init` that raises leaves its slot as the engine's memory was, which is a free choice between
null and garbage. The garbage is released by `agg_destroy`: a bug, see below. `ReleasedOnce` says
that after an `agg_init` that raised `wild` may hold such garbage, and that it never holds anything
else: no other pointer is released after its object has gone, in any query; `TypeOK` excepts the
same slots. Without a `combine()` the source's attributes replace the target's, as the comment at
`aggregate.cpp:117` warns; `EveryRowCounted` demands of such a class what that comment promises, a
correct answer for a group that one worker met.

Abstracted: values and masks (a row is its number; the integer casts of `table.cpp:74` and
`aggregate.cpp:176` truncate silently), NULL inputs, an ungrouped aggregate over no rows, and the
registration of functions, the fate of its extra_info when it fails included.

### SettingsScope (with SettingsScopeProofs)

`progress_bar` and `profile` as blocks on a stack, entered in any order in one thread, around bodies
that may change the same settings. A block is cut at every statement it runs, and any of them may
fail before or after it took effect (`Fails`), because nothing protects one step of a block from the
failure of another: the statements before the `try`, and those of the `finally`. A
`KeyboardInterrupt` anywhere is such a failure. The polling thread of each progress bar is `Poll`.
`settings` are the values that `current_setting()` shows. Those of profiling are coupled, as
`tests/test_profile.py:26-34` has it: both are null while profiling is off, and a statement on one
may turn profiling on or off and so make the other come or go (`Executes`). What DuckDB remembers of
the mode while profiling is off is not followed: the mode may come back as anything, and a block
does not put it back. Two threads whose blocks overlap on one Connection are outside: each puts back
what it found, and the later one puts back the other's.

## Runs

| Run | Instance | Shows |
|---|---|---|
| `statement_cache_shared` | 2 threads, one of them the main thread, 3 queries (one a SET), capacity 1, 3 handles, an Arrow source, a detailed profiling sink, SETs past `run()` | types, list and map agree, capacity, single ownership, no parameter leak, all handles destroyed in the end; `PlanningConnection` is implemented |
| `sink_leaves_stale_plans` (violation) | 1 thread | `set_profile_sink` does not flush |
| `async_query` | 2 coroutines (one with a UDF, the other may be dropped), 1 pool thread | seven properties of the driver, three of them liveness |
| `engine_calls` | 2 threads, one the main thread, each with run_pending and executemany of up to 3 rows, 2 UDF calls a query, a look at signals every 2 rows | nothing runs on after a call; unless a thread is stuck, Ctrl-C lands and UDFs get the GIL |
| `engine_ctrl_c_udf` (violation) | main thread with a UDF query | Ctrl-C deadlocks with the UDF worker |
| `result_cursor` | up to 3 chunks of 0..2 rows, fetchmany of up to 2, streaming or not, 1 column or more, with and without Arrow's layout | every row once, in order, the end is the end, fetchall leaves nothing |
| `stream_fails_silently` (violation) | up to 2 chunks of 0..1 rows | a failed stream looks like its end |
| `arrow_scan` | 2 plans (one cached), 3 workers, sources with batches of 3, 0, 1 rows, of 2 rows, and none, vectors of 2 rows | windows fit, no row twice, none missed, one source of the plan's schema per execution |
| `ingest` | 2 columns, vectors of 2 rows, 3 calls; columns of 3 rows under three kinds of masks; an Arrow stream of 2 batches; executemany of a full row, and of 2 rows that give one parameter each | every row is what its call gave, bulk calls leave prefixes, closed once, the database outlives its users |
| `masked_column_unwritten` (violation) | the same | a missing column is not always NULL |
| `udf_query` | 2 workers, chunks of 2 rows, sources of 0, 3 and 4 rows, 2 groups, 2 queries | every object released once, every row counted once, a generator's rows in order |
| `settings_scope` | 2 blocks, nested or one after the other, any settings to begin with | settings restored, the polling thread ends |

Bounds, and why they are enough. Capacity 1 with two cacheable queries already evicts on every
second check-in; two threads suffice for a statement checked out twice, three handles for each
thread to hold one beside the cached one; handles, and the two queries, are interchangeable
(symmetry), threads are not, for one is the main thread. One pool thread makes coroutines queue
behind each other's ticks, which two would not; two coroutines suffice because a coroutine meets
only its own tick on its mutex, and others only on the loop, the pool and the GIL. Two UDF calls
show the GIL given back in between; three rows of an executemany with a look at signals every 2
(1024 in the code) are one before the look, one with it and one after it. Three chunks of at most
two rows give an empty chunk first, in the middle and last, and a cursor inside, at the end of, and
past a chunk. For the Arrow scan, batches of 3, 0 and 1 rows under vectors of 2 give a full window,
a short one past row 0, an empty batch and a single row; three workers are one for each window, and
fewer for the two plans at once. For ingest, three calls are one that fails half way, one that
follows it, and one under way around them; three rows under vectors of two give a full and a cut
chunk. For UDFs, two workers meet the same groups, share one or meet different ones; a first chunk
of one group takes the path for a single state and the second one gathers; sources of 4 and 0 rows
end with a full chunk and at once; a second query finds the plan's arguments as the first left them.
Two blocks are one in the other's body. The engine's queries run any number of ticks and may never
end, so no bound hides a long query.

## Fairness, and why the code justifies it

`StatementCache`, `ResultCursor`, `ArrowScan`, `Ingest` and `UdfQuery` have safety properties only.
`SettingsScope` assumes weak fairness of the statements that a block runs on its way out (Python
does not stop between them) and of each polling thread (daemon or not, it runs while its process
does, its wait has a timeout and `progress()` does not block); the body may go on for ever.
`AsyncQuery` and `EngineCalls` assume strong fairness for each thread that waits for the GIL, for
`mu_` or for its turn on the event loop: it gets it if it is free again and again (the interpreter's
GIL hands over to a waiter, `run_pending` and `execute_task` give it up at every tick, and asyncio
runs ready callbacks in turn). Nothing is assumed of the user (nobody has to cancel, drop or call)
and a query driven tick by tick may run for ever. An interrupted query stops at its next
opportunity, by DuckDB's contract; one under a call that keeps the GIL is assumed to end.

Other assumptions on the engine: `duckdb_execute_pending`, `duckdb_execute_prepared` and
`duckdb_fetch_chunk` come back only when none of DuckDB's workers is still inside a task of the
query, so not while a UDF upcall is in flight, and READY or ERROR is reported only then. The builds
are GIL builds; `nb::lock_self` does nothing there.

## What is proved

Eight modules of proofs, checked by TLAPS, each for every value of the constants under the named
ASSUMEs of its model. These say what the sizes are (positive vectors and capacities, natural bounds,
finitely many workers), that the inputs are of the table or the plan they are for, that signals are
not looked at every row (`PeriodIsLong`; 1024 in the code), and that the marks (`None`, `Null`,
`Garbage`, `Before`) are none of the values they stand beside; they hold in every run. The table
gives the theorems that state a property of a run.

| Module | Theorem | Property |
|---|---|---|
| `StatementCacheProofs` | `TypeTheorem`, `IndexTheorem`, `CapacityTheorem`, `SingleOwnerTheorem` | `TypeOK`, `IndexMatchesList`, `WithinCapacity`, `SingleOwner` |
| `StatementCacheProofs` (second part) | `NoParameterLeakTheorem`, `AllDestroyedTheorem`, `RunsAsPromisedTheorem` | `NoParameterLeak`, `AllDestroyed`, `RunsAsPromised` (the refinement) |
| `AsyncQueryProofs` | `TypeTheorem`, `OneUserTheorem`, `NothingLeftTheorem`, `ConsumedTheorem` | `TypeOK`, `OneUserAtATime`, `NothingLeftBehind`, `ConsumedIsNeverSeen` |
| `EngineCallsProofs` | `TypeCorrect`, `CallsOutliveUdfs` | `TypeOK`, `NoOrphanedUdf` |
| `ArrowScanProofs` | `TypeTheorem`, `WindowsFitTheorem`, `NoRowTwiceTheorem`, `NoRowMissedTheorem`, `DrainedAsBoundTheorem` | `TypeOK`, `WindowsFit`, `NoRowTwice`, `NoRowMissed`, `DrainedAsBound` |
| `IngestProofs` | `TypeCorrect`, `NoTornRow`, `BulkIsAPrefix`, `ClosedForGood`, `DatabaseOutlivesItsUsers` | `TypeOK`, `RowsAreWhole`, `BatchIsAPrefix`, `CloseIsFinal`, `InOpenDatabase` |
| `UdfQueryProofs` | `TypeCorrect`, `EveryObjectReleasedOnce`, `EveryRowCountedTheorem`, `TableRowsComeInOrder` | `TypeOK`, `ReleasedOnce`, `EveryRowCounted`, `TableRowsInOrder` |
| `SettingsScopeProofs` | `SettingsAreRestored` | `SettingsRestored` (an action property) |
| `ResultCursorProofs` | `TypeTheorem`, `EveryRowOnceTheorem`, `InOrderTheorem`, `EndIsTheEndTheorem`, `FetchAllTheorem` | `TypeOK`, `EveryRowOnce`, `InOrder`, `EndIsTheEnd`, `FetchAllTakesAll` (an action property) |

The arguments, and why each invariant needs to be stronger than what it is for:

- **StatementCache, ownership** (`OwnershipTheorem`). None of the four properties is inductive
  alone: a call that holds a statement could hold one that is cached, and check-in drops an older
  entry under the same query before it adds one. The invariant says that no handle occurs twice in
  the list, that the entry of a query is the node the map has for it, that what a call holds is
  alive and in nobody else's hands, and that what is alive is held. Three lemmas say that check-out,
  check-in (with its replacement and eviction) and clear keep list and map in step; the ownership
  part then needs only which handles the list gains and loses.
- **run()** (second part of `StatementCacheProofs`) rests on ownership: because a held statement is
  nobody else's, a step of one thread changes no binding and no plan of another's (`OtherCalls`) and
  the cache can only lose entries or gain the one that is checked in (`CacheEntries`). `AnswerInv`
  then says that a cached statement is for its query, and that what a call holds is unbound until
  its `bind()` and bound to the call's own parameters after it. The refinement follows step by step
  with no hypothesis on the settings: each step of `run()` is one of `PlanningConnection` or leaves
  it as it is (`RunRefines`), and so is each of the other methods (`MethodsRefine`). The kept plans
  are the cache by query (`KeptByQuery`, where no two entries have one query), check-in adds the
  plan of the call at most and eviction and a flush take away (`KeptShrinks`).
- **AsyncQuery** (`Invariant`). The invariant is stated for one coroutine (who holds its mutex,
  whether the event loop is inside its call, when its query is there, which job it can still have),
  and a step for one coroutine leaves every other's part alone (`OthersKept`), takes the event loop
  only when it is free and gives back only its own turn. The safety properties are not inductive:
  that the destructor needs no lock rests on a suspended or failed coroutine having no job that
  could be inside the engine.
- **EngineCalls** (`InvHolds`). What is known of the engine where a thread stands: between calls its
  query is over and no trampoline runs; after a tick, the state that was read says whether it is
  over. `NoOrphanedUdf` needs this for the draining loop, which ends on that state alone.
- **ArrowScan** (`Invariant`). An arithmetic half (`DivProperties`, `Multiples`, `WindowsTile`,
  `PulledSchedule`): the windows of a chunk are disjoint and make up the chunk, and one more batch
  keeps this true of the schedule. A concurrent half: the rows emitted are those of the windows the
  cursor has passed and no worker has, no two workers have the same window, and a worker's selection
  vector holds the window it claimed; a claim moves a window from ahead of the cursor to a worker, a
  read output from the worker to the rows emitted. `DrainInv`, on top of these, says that the
  batches pulled so far are the chunks, by their rank among those that have rows (`FilledRanks`,
  `PulledDrains`), and that the plan still has the schema they were converted with: while it is
  executed neither a registration nor an eviction touches it.
- **Ingest** (`InvHolds`). Of what is stored, table and buffer together: it is sorted by row within
  each call, every row is whole (`Whole`: each cell is what the call was given, and for a parameter
  left out one it may find bound), and a call's rows have no gap. Of the calls under way: one that
  has come to row n has stored the rows up to it, unless the appender lost them; the last cells of
  the row begun are those that `append_row` has written so far, behind whatever an earlier call that
  failed has left there. Of the handles: an appender that is not open is empty, whoever is open has
  a share, and so has a Result whose statement was open. Of the statement: what is bound was given
  by a row of some call, and is what the next row of the executemany under way may find
  (`BoundInv`); an execute under way has a whole row in its hands (`ExecInv`). `RowsAreWhole` alone
  is not inductive, since a row that is ended could begin with cells of a call that failed; with the
  place of the call known, a row of at most `NCols` cells that ends in `NCols` cells of one call is
  that call's.
- **UdfQuery** (`InvHolds`, in parts). `Owned`, `Framed`, `Rested`: a slot holds the object of its
  own role or nothing, an Arrow array is in one of the trampoline's two slots only, and between
  queries only the plan's arguments are left; `ReleasedOnce` follows because what is live is what
  some slot holds. `Progress`: workers end only when the source has, and what was put out of a table
  UDF is what its generator gave, in order. `RowsInv`: a row that was claimed is in one worker's
  chunk or was shown once to one instance, of its group. `MergeInv`: the query's instance of a group
  has the rows of the instances combined into it, or without a `combine()` those of one of them.
  `ResultInv`: what was written is what those instances had. `EveryRowCounted` is the end of these
  three: when all workers have finished, the chunks are empty and every instance is combined
  (`AllCounted`). That the groups of a chunk can be updated in any order needs no induction over the
  chunk: the instance is left with the bag of the rows it had and those of its group in the chunk
  (`UpdatedIs`).
- **SettingsScope** (`InvHolds`). A block that is not innermost is in its body; so between its entry
  and its snapshot, and between the two statements that put settings back, nobody else touches the
  Connection. That a block noted the settings of profiling both null or neither (`NotedAsEntered`)
  is what makes the order of its restores right: the second one then leaves the first alone.
  `SettingsRestored`, a property of steps, follows from the invariant at the step's start, for any
  nesting and number of blocks.
- **ResultCursor** (`CursorTheorem`). The actions are seven moves (`Moves`) by what they do to
  `Ahead`, the rows past the cursor and the chunks fetched: `ensure_row` passes no row, also when it
  drops an empty chunk or gives its last one back (`NextChunkPassesNone`), `build_row` takes the one
  after the cursor (`BuildTakesOne`), a chunk call the rows of the next chunk (`FetchTakesChunk`).
  `Parted` shares the rows out between the list of the call under way, the caller's, the lost ones
  and those ahead; `EveryRowOnce` is this part. `InOrder` is not inductive: `Order` adds that a row
  call builds no row past the cursor's chunk, and that what the caller got comes before what is
  being built as long as only one kind of call gave rows. `Counts` is for `fetchall`: the rows
  returned are at most the rows that have left `Ahead` (chunk calls take rows that are not counted),
  and a counted `fetchall` has a round left for each row not returned; when the rounds are used up
  all rows have left. `EndIsTheEndTheorem` and `FetchAllTheorem` have the hypothesis `~EngineFails`,
  under which `result_cursor` runs; `stream_fails_silently` shows what happens without. They are the
  only listed theorems with a hypothesis.

Only model-checked: the liveness properties of `AsyncQuery` (`CancelEnds`, `LoopComesBack`,
`FreedInTheEnd`), `EngineCalls` (`InterruptLandsUnlessStuck`, `UdfGetsGilUnlessStuck`) and
`SettingsScope` (`PollerEnds`), with the absence of deadlock, which are beyond the prover. Every
safety property of a passing run is a theorem.

## Disagreements found

Four are violation runs and findings in `PROJECT.json`:

- `set_profile_sink` changes settings past the flush of the cache (`connection.cpp:449`).
- Ctrl-C drains a query under the GIL that its UDF worker waits for (`connection.cpp:294`).
- A stream that fails is taken for its end (`result.cpp:630`).
- `appender.hpp:60` says "any missing column is filled with NULL"; rows that a mask for such a
  column marks as valid show memory that nothing has written (`appender.cpp:379`).

These are as real and have no run of their own. The models contain all but the last; where a
property would contradict one, it says what it excepts.

- Settings also change past the flush by a SET through asql or aexecute (`connection.cpp:730`) or
  through a PreparedStatement (808, 821), and by one of `run()` that took effect and is interrupted
  in its last tick, which throws past the flush (290). `run()` then answers from plans made under
  the old settings, against `connection.hpp:139-142`. And a plan that a call holds at a flush goes
  back to the cache after it (631). `PlanningConnection` has a step for each, and by
  `RunsAsPromised` no plan outlives a flush in another way.
- `maybe_emit_profile` reads `handle_` (`connection.cpp:463`) after a query that let go of the GIL:
  a `close()` in between has reset it, and the process crashes (`pc = "fault"`).
- `prepared.hpp:80-82` says that the database stays open for as long as any Result of the statement
  is alive. `execute` gives the Result its share after the query (`connection.cpp:818`), which let
  go of the GIL; when the statement was closed meanwhile the share is null (the Results `"closed"`
  of `Ingest`).
- An Appender that is dropped without `close()`, with rows its table refuses, aborts the process:
  its destructor calls `close()`, which throws (`appender.cpp:140`, 201-205), where
  `appender.hpp:38-39` says that "Letting an Appender be garbage-collected with unflushed rows is
  best-effort" (`aborted` of `Appender`).
- An aggregate class that raises in its constructor leaves the state's pointer as it was
  (`aggregate.cpp:30`), and `agg_destroy` decrements it (42) (`wild` of `UdfQuery`).
- `executemany` and fetching from a streaming result keep the GIL (`connection.cpp:836`,
  `result.cpp:629`): a UDF of their own query, called on a worker, waits for ever, and the process
  with it (`Stuck` of `EngineCalls`).
- The statements of `progress_bar` and `profile` before their `try` are not undone when a later one
  fails, and a Ctrl-C after `thread.start()` (`_progress.py:153`) leaves a polling thread that
  nobody stops (both in `Fails` of `SettingsScope`).
- `~PendingResult` drains an abandoned query under the GIL (`connection.cpp:680`), where `drain()`
  gives it up. The coroutine dropped in `AsyncQuery.cfg` has no UDF (`Droppable`); one that has ends
  in a deadlock.

## Not modelled, and why

Opening a database and its configuration, `interrupt`/`progress` as calls of their own (single
engine calls); the replacement scan, which only looks a name up; `Chunk` and its views (one shared
reference, no control); the casts of values, array buffers, rendering, SQL text and bindings (data
without control); the fold ranges of `_dataset.py`, which share their bounds and so tile whatever
the rounding; free-threaded builds; the registration of UDFs. `cached_singleton` (`ducky.hpp:29`) is
a race between threads that import lazily, and small enough to read.

## Plan

1. `Lifetimes`: the registry that the Connection owns and plans point to, with results, chunks and
   streams that outlive it; a violation run for `arrow_scan.cpp:316`.
2. `RegistryLocks`: the registry's mutex, taken by `register_arrow`, the replacement scan and
   `open_stream`, against the GIL and the finalizer of a source that is replaced
   (`connection.cpp:506`).
3. The two threads that share one Result on a free-threaded build, where `nb::lock_self` has to keep
   a call's steps together.
