-------------------------- MODULE PreparedStatement --------------------------
(***************************************************************************)
(* A PreparedStatement (src/cpp/prepared.hpp, src/cpp/connection.cpp) that *)
(* inserts a row of its parameters.  The bindings are the statement's and  *)
(* outlive the call that made them.                                        *)
(*                                                                         *)
(* executemany keeps the GIL while a row runs, but what it iterates over    *)
(* may be Python code, so other calls come between two rows.  execute lets *)
(* go of the GIL while its query runs, so other calls, close() included,   *)
(* come between its start and its end; its driving loop is module          *)
(* EngineCalls.  A query that starts on the same connection may end it     *)
(* early: then it raises.                                                  *)
(***************************************************************************)
EXTENDS Naturals, Sequences

CONSTANTS
  NCols,    \* parameters of the statement, and columns of the table
  MaxCalls, \* bound on the calls of a behaviour
  Before,   \* what a row leaves to what is bound before it
  Unbound, Idle

VARIABLES
  stmt,     \* stmt_ and its bindings
  table,    \* the rows in the table, each with the call and row it stands for
  asked,    \* of every call: the rows it was given and how it ended
  job,      \* the call that runs under the GIL
  many,     \* the executemany under way (one at a time)
  exec      \* the execute under way (one at a time) and the values it was started with

Params  == 1 .. NCols
Cleared == [k \in Params |-> Unbound]
Init    == stmt = [open |-> FALSE, bound |-> Cleared] /\ many = Idle /\ exec = Idle

CanCall == job = Idle /\ Len(asked) < MaxCalls
Call    == Len(asked) + 1

Asks(rows, result) == asked' = Append(asked, [rows |-> rows, result |-> result])
Ends(c, result)    == asked' = [asked EXCEPT ![c].result = result]

\* bind_positional and bind_named: the parameters S of row i of call c.
Bind(b, c, i, S) == [k \in Params |-> IF k \in S THEN <<c, i, k>> ELSE b[k]]

\* The engine refuses to run with a parameter unbound.
Complete(b) == \A k \in Params : b[k] # Unbound

Row(c, i, b) == [by |-> <<c, i>>, cells |-> b]

\* What a row that gives the parameters S is to be run with.
Expected(c, i, S, other) == [k \in Params |-> IF k \in S THEN <<c, i, k>> ELSE other]

-----------------------------------------------------------------------------

prepare ==
  /\ job = Idle /\ many = Idle /\ exec = Idle /\ ~stmt.open
  /\ stmt' = [open |-> TRUE, bound |-> Cleared]
  /\ UNCHANGED <<table, asked, job, many, exec>>

\* run_pending makes the pending query, which copies the values that are bound.
Starts(b) ==
  /\ exec = Idle /\ Complete(b)
  /\ exec' = [call |-> Call, bound |-> b]

execute(S) ==
  /\ CanCall /\ stmt.open
  /\ stmt' = [stmt EXCEPT !.bound = Bind(Cleared, Call, 1, S)]
  /\ Starts(stmt'.bound)
  /\ Asks(<<Expected(Call, 1, S, Unbound)>>, "running")
  /\ UNCHANGED <<table, job, many>>

\* execute(None) runs with whatever is bound.
execute_again ==
  /\ CanCall /\ stmt.open
  /\ Starts(stmt.bound)
  /\ Asks(<<[k \in Params |-> Before]>>, "running")
  /\ UNCHANGED <<stmt, table, job, many>>

\* A parameter cannot be bound, after those in S, or the engine refuses to start.
execute_fails(S) ==
  /\ CanCall /\ stmt.open
  /\ stmt' = [stmt EXCEPT !.bound = Bind(Cleared, Call, 1, S)]
  /\ Asks(<<Expected(Call, 1, S, Unbound)>>, "raised")
  /\ UNCHANGED <<table, job, many, exec>>

execute_returns ==
  /\ job = Idle /\ exec # Idle
  /\ table' = Append(table, Row(exec.call, 1, exec.bound))
  /\ Ends(exec.call, "ok")
  /\ exec' = Idle
  /\ UNCHANGED <<stmt, job, many>>

\* The query fails, or a signal is pending: then it may have run to its end all the same.
execute_raises ==
  /\ job = Idle /\ exec # Idle
  /\ table' \in {table, Append(table, Row(exec.call, 1, exec.bound))}
  /\ Ends(exec.call, "raised")
  /\ exec' = Idle
  /\ UNCHANGED <<stmt, job, many>>

-----------------------------------------------------------------------------
(* executemany: the bindings of the row before are overwritten, not        *)
(* cleared; a row that gives fewer leaves the others to what is bound.     *)

executemany(sets) ==
  /\ CanCall /\ stmt.open /\ many = Idle
  /\ Asks([i \in DOMAIN sets |-> Expected(Call, i, sets[i], Before)], "running")
  /\ many' = [call |-> Call, at |-> 0, sets |-> sets]
  /\ UNCHANGED <<stmt, table, job, exec>>

InMany == job = Idle /\ many # Idle
Next1  == many.at + 1

many_row ==
  /\ InMany /\ stmt.open /\ many.at < Len(many.sets)
  /\ stmt' = [stmt EXCEPT !.bound = Bind(@, many.call, Next1, many.sets[Next1])]
  /\ Complete(stmt'.bound)
  /\ table' = Append(table, Row(many.call, Next1, stmt'.bound))
  /\ many' = [many EXCEPT !.at = Next1]
  /\ UNCHANGED <<asked, job, exec>>

\* After binding S of the next row: a value cannot be bound, the engine refuses to
\* run, or (S empty) a signal arrived, the iterator raised or the statement was closed.
\* Rows that ran stay.
many_fails(S) ==
  /\ InMany
  /\ S = {} \/ (stmt.open /\ many.at < Len(many.sets) /\ S \subseteq many.sets[Next1])
  /\ stmt' = [stmt EXCEPT !.bound = Bind(@, many.call, Next1, S)]
  /\ Ends(many.call, "raised")
  /\ many' = Idle
  /\ UNCHANGED <<table, job, exec>>

many_returns ==
  /\ InMany /\ many.at = Len(many.sets)
  /\ Ends(many.call, "ok")
  /\ many' = Idle
  /\ UNCHANGED <<stmt, table, job, exec>>

\* close() and the destructor: the statement goes before the handle does.
close ==
  /\ job = Idle /\ stmt.open
  /\ stmt' = [open |-> FALSE, bound |-> Cleared]
  /\ UNCHANGED <<table, asked, job, many, exec>>
=============================================================================
