--------------------------- MODULE StatementCache ---------------------------
(***************************************************************************)
(* Connection::run and the prepared-statement cache behind it             *)
(* (src/cpp/connection.cpp, src/cpp/connection.hpp).                       *)
(*                                                                         *)
(* A call of run() is cut into the steps between which another Python      *)
(* thread can be scheduled: parameter binding and the profile sink run     *)
(* Python code, planning may call an Arrow source, and every executor tick *)
(* releases the GIL.  Everything inside one action happens under the GIL.  *)
(*                                                                         *)
(* DuckDB's prepared statements are handles drawn from Stmts.  A plan folds *)
(* in what it was planned against: the settings and the Arrow source that  *)
(* is registered under the one table name the model has.                   *)
(***************************************************************************)
EXTENDS Naturals, Sequences, SequencesExt

CONSTANTS
  Threads,     \* Python threads that use this Connection
  MainThread,  \* the thread Ctrl-C is delivered to (None: not one of Threads)
  Queries,     \* query texts
  Flushing,    \* those whose statement type keeps_stmt_cache() does not keep
  Params,      \* parameter sets a caller may pass
  Stmts,       \* handles duckdb_prepare can return
  Options,     \* DuckDB settings that are tracked; a set holds those off their default
  Elsewhere,   \* those of them that statements outside of run() set
  Sources,     \* Arrow objects that can be registered
  Modes,       \* modes set_profile_sink may be called with
  Samples,     \* sampling periods set_profile_sink may be called with
  Capacity,    \* kStmtCacheCapacity
  None         \* nullptr, nb::none(), an absent entry

World    == [settings : SUBSET Options, source : Sources \cup {None}]
Bindings == Params \cup {None}
Prepared == [sql : Queries, plan : World, bound : Bindings]
Call     == [query : Queries, params : Bindings, streaming : BOOLEAN,
             stmt : Stmts \cup {None}]

\* Those of Options that the SETs of set_profile_sink turn on.
ProfilingOptions(mode) ==
  Options \cap ({"enable_profiling"} \cup IF mode = "detailed" THEN {"profiling_mode"} ELSE {})

ASSUME CapacityIsPositive == Capacity \in Nat \ {0}
ASSUME FlushingAreQueries == Flushing \subseteq Queries
ASSUME ElsewhereAreOptions == Elsewhere \subseteq Options
ASSUME SamplesArePositive == Samples \subseteq Nat \ {0}
ASSUME NoneIsNoValue ==
  /\ None \notin Stmts \cup Params \cup Prepared \cup Call
  /\ None \notin World /\ None \notin Queries \X Bindings

VARIABLES
  status,    \* "open": handle_ is set; "closed": reset; "gone": destructed
  lru,       \* stmt_lru_, the front is the most recently used
  index,     \* stmt_cache_: query -> the handle in its list node
  prep,      \* prepared statement behind each handle, None when destroyed
  pc,        \* where each thread is in run()
  call,      \* locals of run() on each thread
  result,    \* what DuckDB ran for the call: its duckdb_result
  settings,  \* DuckDB's settings
  source,    \* arrow_registry_->sources[name]
  profile    \* profile_sink_, profile_sample_, profile_counter_ % profile_sample_

cacheVars  == <<lru, index>>
worldVars  == <<settings, source>>
threadVars == <<pc, call, result>>
vars == <<status, lru, index, prep, pc, call, result, settings, source, profile>>

Now    == [settings |-> settings, source |-> source]
NoSink == [sink |-> FALSE, sample |-> 1, count |-> 0]

Init ==
  /\ status = "open"
  /\ lru = <<>>
  /\ index = [q \in Queries |-> None]
  /\ prep = [h \in Stmts |-> None]
  /\ pc = [t \in Threads |-> "idle"]
  /\ call = [t \in Threads |-> None]
  /\ result = [t \in Threads |-> None]
  /\ settings = {}
  /\ source = None
  /\ profile = NoSink

-----------------------------------------------------------------------------
(* The cache operations. *)

\* Position of the list node the iterator index[q] points at.
NodeOf(q) == CHOOSE i \in DOMAIN lru : lru[i].stmt = index[q]

\* prep after duckdb_destroy_prepare on each handle of S.
Destroyed(S) == [h \in Stmts |-> IF h \in S THEN None ELSE prep[h]]

StmtsOf(list) == {list[i].stmt : i \in DOMAIN list}
CachedStmts   == StmtsOf(lru)

\* Faulty variant: the map entry stays behind.
CheckoutKeepsIndex(q) ==
  /\ lru' = RemoveAt(lru, NodeOf(q))
  /\ index' = index

stmt_cache_checkout(q) ==
  /\ lru' = RemoveAt(lru, NodeOf(q))
  /\ index' = [index EXCEPT ![q] = None]

\* Faulty variants: eviction starts one entry late; the copy another thread checked
\* in meanwhile is unlinked and not destroyed.
CheckinEvictsLate(q, h) ==
  LET others == IF index[q] = None THEN lru ELSE RemoveAt(lru, NodeOf(q))
      pushed == <<[query |-> q, stmt |-> h]>> \o others
      over   == Len(pushed) > Capacity + 1
      victim == pushed[Len(pushed)]
  IN  /\ lru' = IF over THEN Front(pushed) ELSE pushed
      /\ index' = IF over THEN [index EXCEPT ![q] = h, ![victim.query] = None]
                          ELSE [index EXCEPT ![q] = h]
      /\ prep' = Destroyed({index[q]} \cup (IF over THEN {victim.stmt} ELSE {}))
CheckinLeaksCopy(q, h) ==
  LET others == IF index[q] = None THEN lru ELSE RemoveAt(lru, NodeOf(q))
      pushed == <<[query |-> q, stmt |-> h]>> \o others
      over   == Len(pushed) > Capacity
      victim == pushed[Len(pushed)]
  IN  /\ lru' = IF over THEN Front(pushed) ELSE pushed
      /\ index' = IF over THEN [index EXCEPT ![q] = h, ![victim.query] = None]
                          ELSE [index EXCEPT ![q] = h]
      /\ prep' = Destroyed(IF over THEN {victim.stmt} ELSE {})

stmt_cache_checkin(q, h) ==
  LET others == IF index[q] = None THEN lru ELSE RemoveAt(lru, NodeOf(q))
      pushed == <<[query |-> q, stmt |-> h]>> \o others
      over   == Len(pushed) > Capacity
      victim == pushed[Len(pushed)]
  IN  /\ lru' = IF over THEN Front(pushed) ELSE pushed
      /\ index' = IF over THEN [index EXCEPT ![q] = h, ![victim.query] = None]
                          ELSE [index EXCEPT ![q] = h]
      /\ prep' = Destroyed({index[q]} \cup (IF over THEN {victim.stmt} ELSE {}))

\* stmt_cache_clear() together with the destruction of the handles in S.
stmt_cache_clear(S) ==
  /\ lru' = <<>>
  /\ index' = [q \in Queries |-> None]
  /\ prep' = Destroyed(CachedStmts \cup S)

-----------------------------------------------------------------------------
(* Connection::run, on thread t. *)

\* run() throws after destroying its statement, which is in no cache.
Throw(t) ==
  /\ prep' = Destroyed({call[t].stmt})
  /\ pc' = [pc EXCEPT ![t] = "idle"]
  /\ call' = [call EXCEPT ![t] = None]
  /\ result' = [result EXCEPT ![t] = None]
  /\ UNCHANGED <<status, cacheVars, worldVars, profile>>

\* ensure_open() passed; run() continues at label l holding statement h.
Enter(t, q, p, s, h, l) ==
  /\ status = "open"
  /\ pc[t] = "idle"
  /\ call' = [call EXCEPT ![t] = [query |-> q, params |-> p, streaming |-> s, stmt |-> h]]
  /\ pc' = [pc EXCEPT ![t] = l]
  /\ UNCHANGED <<status, result, worldVars, profile>>

Miss(t, q, p, s) ==
  /\ index[q] = None
  /\ Enter(t, q, p, s, None, "prepare")
  /\ UNCHANGED <<cacheVars, prep>>

\* Faulty variant: duckdb_clear_bindings is not called.
HitStillBound(t, q, p, s) ==
  /\ index[q] # None
  /\ Enter(t, q, p, s, index[q], "bind")
  /\ stmt_cache_checkout(q)
  /\ prep' = prep

\* A cached statement starts unbound, exactly like a fresh prepare.
Hit(t, q, p, s) ==
  /\ index[q] # None
  /\ Enter(t, q, p, s, index[q], "bind")
  /\ stmt_cache_checkout(q)
  /\ prep' = [prep EXCEPT ![index[q]].bound = None]

\* duckdb_clear_bindings failed: drop the statement and prepare another.
UnusableHit(t, q, p, s) ==
  /\ index[q] # None
  /\ Enter(t, q, p, s, None, "prepare")
  /\ stmt_cache_checkout(q)
  /\ prep' = Destroyed({index[q]})

Prepare(t) ==
  /\ pc[t] = "prepare"
  /\ \E h \in {g \in Stmts : prep[g] = None} :
       /\ prep' = [prep EXCEPT ![h] = [sql |-> call[t].query, plan |-> Now, bound |-> None]]
       /\ call' = [call EXCEPT ![t].stmt = h]
  /\ pc' = [pc EXCEPT ![t] = "bind"]
  /\ UNCHANGED <<status, cacheVars, result, worldVars, profile>>

PrepareFails(t) ==
  /\ pc[t] = "prepare"
  /\ Throw(t)

Bind(t) ==
  /\ pc[t] = "bind"
  /\ prep' = IF call[t].params = None THEN prep
             ELSE [prep EXCEPT ![call[t].stmt].bound = call[t].params]
  /\ pc' = [pc EXCEPT ![t] = "run"]
  /\ UNCHANGED <<status, cacheVars, call, result, worldVars, profile>>

\* Faulty variant: the exception leaves run() past the statement.
BindFailureLeaks(t) ==
  /\ pc[t] = "bind"
  /\ call[t].params # None
  /\ pc' = [pc EXCEPT ![t] = "idle"]
  /\ call' = [call EXCEPT ![t] = None]
  /\ UNCHANGED <<status, cacheVars, prep, result, worldVars, profile>>

BindFails(t) ==
  /\ pc[t] = "bind"
  /\ call[t].params # None
  /\ Throw(t)

\* run_pending: the ticks up to RESULT_READY.  The statement takes effect here;
\* a statement that flushes may change the settings.
Execute(t) ==
  /\ pc[t] = "run"
  /\ result' = [result EXCEPT ![t] = prep[call[t].stmt]]
  /\ settings' \in IF call[t].query \in Flushing THEN SUBSET Options ELSE {settings}
  /\ pc' = [pc EXCEPT ![t] = "ran"]
  /\ UNCHANGED <<status, cacheVars, prep, call, source, profile>>

\* run_pending throws: the engine reports an error, or a signal is pending.
ExecuteFails(t) ==
  /\ pc[t] = "run"
  /\ Throw(t)

\* PyErr_CheckSignals comes before the test for RESULT_READY, so a Ctrl-C during
\* the last tick abandons a statement that has already taken effect.
Interrupted(t) ==
  /\ pc[t] = "ran"
  /\ t = MainThread
  /\ Throw(t)

\* maybe_emit_profile for a materialized query, and the return of run().  The sink
\* is a Python call; reading handle_->connection after close() is a null dereference.
Emit(t) ==
  LET counts == profile.sink /\ ~call[t].streaming
      fires  == counts /\ profile.count = 0
      next   == IF ~fires THEN "idle" ELSE IF status = "open" THEN "sink" ELSE "fault"
  IN  /\ profile' = IF counts
                    THEN [profile EXCEPT !.count = (@ + 1) % profile.sample]
                    ELSE profile
      /\ pc' = [pc EXCEPT ![t] = next]
      /\ call' = [call EXCEPT ![t] = IF fires THEN [@ EXCEPT !.stmt = None] ELSE None]
      /\ result' = IF fires THEN result ELSE [result EXCEPT ![t] = None]

\* The statement's type keeps the cache: its statement goes back as most recent.
CheckIn(t) ==
  /\ pc[t] = "ran"
  /\ call[t].query \notin Flushing
  /\ stmt_cache_checkin(call[t].query, call[t].stmt)
  /\ Emit(t)
  /\ UNCHANGED <<status, worldVars>>

\* Faulty variant: a statement that is not kept drops its own plan only.
FlushOwnPlanOnly(t) ==
  /\ pc[t] = "ran"
  /\ call[t].query \in Flushing
  /\ prep' = Destroyed({call[t].stmt})
  /\ Emit(t)
  /\ UNCHANGED <<status, cacheVars, worldVars>>

\* Any other type drops every cached plan, and its own.
Flush(t) ==
  /\ pc[t] = "ran"
  /\ call[t].query \in Flushing
  /\ stmt_cache_clear({call[t].stmt})
  /\ Emit(t)
  /\ UNCHANGED <<status, worldVars>>

SinkReturns(t) ==
  /\ pc[t] = "sink"
  /\ pc' = [pc EXCEPT ![t] = "idle"]
  /\ call' = [call EXCEPT ![t] = None]
  /\ result' = [result EXCEPT ![t] = None]
  /\ UNCHANGED <<status, cacheVars, prep, worldVars, profile>>

Run(t) ==
  \/ \E q \in Queries, p \in Bindings, s \in BOOLEAN :
       Miss(t, q, p, s) \/ Hit(t, q, p, s) \/ UnusableHit(t, q, p, s)
  \/ Prepare(t) \/ PrepareFails(t)
  \/ Bind(t) \/ BindFails(t)
  \/ Execute(t) \/ ExecuteFails(t) \/ Interrupted(t)
  \/ CheckIn(t) \/ Flush(t) \/ SinkReturns(t)

-----------------------------------------------------------------------------
(* The other methods, called by a thread that is not inside run(), or from *)
(* a profile sink.                                                         *)

Callable == \E t \in Threads : pc[t] \in {"idle", "sink"}

\* The flush comes first: cached plans bound the schema of the previous source.
register_arrow(obj) ==
  /\ Callable
  /\ status = "open"
  /\ stmt_cache_clear({})
  /\ source' = obj
  /\ UNCHANGED <<status, threadVars, settings, profile>>

set_profile_sink(mode, n) ==
  /\ Callable
  /\ status = "open"
  /\ settings' = settings \cup ProfilingOptions(mode)
  /\ profile' = [sink |-> TRUE, sample |-> n, count |-> 0]
  /\ UNCHANGED <<status, cacheVars, prep, threadVars, source>>

\* The second SET throws: profiling is on and no sink is installed.
SinkSetupFails(mode) ==
  /\ Callable
  /\ status = "open"
  /\ mode = "detailed"
  /\ settings' = settings \cup ProfilingOptions("standard")
  /\ UNCHANGED <<status, cacheVars, prep, threadVars, source, profile>>

\* Faulty variant: the sampling period is zeroed with the counter.
DetachZeroesSample ==
  /\ Callable
  /\ status = "open"
  /\ profile.sink
  /\ profile' = [NoSink EXCEPT !.sample = 0]
  /\ UNCHANGED <<status, cacheVars, prep, threadVars, worldVars>>

DetachSink ==
  /\ Callable
  /\ status = "open"
  /\ profile.sink
  /\ profile' = NoSink
  /\ UNCHANGED <<status, cacheVars, prep, threadVars, worldVars>>

\* Statements that go past run(), those of a PendingResult (asql, aexecute) and of a
\* PreparedStatement.  They may change the settings, and nothing flushes the cache; they
\* share the handle, and so run after close() too.
RunsElsewhere ==
  /\ \E set \in SUBSET Elsewhere : settings' = (settings \ Elsewhere) \cup set
  /\ UNCHANGED <<status, cacheVars, prep, threadVars, source, profile>>

\* close() has no guard: it may be called again, and while another thread runs.
close ==
  /\ Callable
  /\ status # "gone"
  /\ stmt_cache_clear({})
  /\ status' = "closed"
  /\ UNCHANGED <<threadVars, worldVars, profile>>

\* ~Connection: the last reference is gone, so no thread is inside a method.
Destruct ==
  /\ \A t \in Threads : pc[t] = "idle"
  /\ status # "gone"
  /\ stmt_cache_clear({})
  /\ status' = "gone"
  /\ UNCHANGED <<threadVars, worldVars, profile>>

\* Nothing is left to do, or the process died of a null dereference.
Stopped ==
  /\ status = "gone" \/ \E t \in Threads : pc[t] = "fault"
  /\ UNCHANGED vars

Next ==
  \/ \E t \in Threads : Run(t)
  \/ \E obj \in Sources : register_arrow(obj)
  \/ \E mode \in Modes, n \in Samples : set_profile_sink(mode, n)
  \/ \E mode \in Modes : SinkSetupFails(mode)
  \/ DetachSink \/ RunsElsewhere \/ close \/ Destruct
  \/ Stopped

Spec == Init /\ [][Next]_vars

-----------------------------------------------------------------------------
(* Properties. *)

Holding == {"bind", "run", "ran"}

\* Types of the variables of run() and of the cache.
TypeOK ==
  /\ status \in {"open", "closed", "gone"}
  /\ lru \in Seq([query : Queries, stmt : Stmts])
  /\ index \in [Queries -> Stmts \cup {None}]
  /\ prep \in [Stmts -> Prepared \cup {None}]
  /\ pc \in [Threads -> {"idle", "prepare", "sink", "fault"} \cup Holding]
  /\ call \in [Threads -> Call \cup {None}]
  /\ \A t \in Threads : pc[t] # "idle" => call[t] \in Call
  /\ result \in [Threads -> Prepared \cup {None}]
  /\ settings \in SUBSET Options
  /\ source \in Sources \cup {None}
  /\ profile \in [sink : BOOLEAN, sample : Nat \ {0}, count : Nat]

\* An iterator map and a list describe the same entries: every node is the one its
\* query's iterator points at, every iterator points at a node, no statement is twice
\* in the list.
Matches(list, map) ==
  /\ \A i, j \in DOMAIN list : list[i].query = list[j].query => i = j
  /\ \A i, j \in DOMAIN list : list[i].stmt = list[j].stmt => i = j
  /\ \A i \in DOMAIN list : map[list[i].query] = list[i].stmt
  /\ \A q \in Queries : map[q] # None => \E i \in DOMAIN list : list[i].query = q

\* stmt_cache_ always indexes stmt_lru_: no dangling iterator, no unreachable entry.
IndexMatchesList == Matches(lru, index)

\* The list never exceeds kStmtCacheCapacity.
WithinCapacity == Len(lru) <= Capacity

\* A statement handle has one owner, a list node or one call of run(): no two threads
\* bind or execute one statement, none is used or destroyed after its destruction,
\* and one that is alive is always somebody's to destroy.
SingleOwner ==
  /\ \A t \in Threads : pc[t] \in Holding =>
       call[t].stmt \in Stmts \ CachedStmts /\ prep[call[t].stmt] # None
  /\ \A t, u \in Threads :
       pc[t] \in Holding /\ pc[u] \in Holding /\ call[t].stmt = call[u].stmt => t = u
  /\ \A h \in CachedStmts : prep[h] # None
  /\ \A h \in Stmts : prep[h] # None =>
       h \in CachedStmts \/ \E t \in Threads : pc[t] \in Holding /\ call[t].stmt = h

\* No parameter leaks from one call to another: what DuckDB runs for a call is that
\* call's query under exactly that call's parameters, none left from before.
NoParameterLeak ==
  \A t \in Threads : result[t] # None =>
    result[t].sql = call[t].query /\ result[t].bound = call[t].params

\* Once the Connection is destructed DuckDB holds no statement of it.
AllDestroyed == status = "gone" => \A h \in Stmts : prep[h] = None

\* A statement that changes the settings has run and its flush has not happened yet.
FlushPending == \E t \in Threads : pc[t] = "ran" /\ call[t].query \in Flushing

\* What the comment on the cache promises: a cached plan was made against the settings and
\* sources of now, except between a settings change and the flush the same call of run()
\* ends with.
CachedPlansFresh ==
  ~FlushPending => \A i \in DOMAIN lru : prep[lru[i].stmt].plan = Now

=============================================================================
