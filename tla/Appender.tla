------------------------------ MODULE Appender ------------------------------
(***************************************************************************)
(* An Appender (src/cpp/appender.cpp): rows go cell by cell, as columns cut *)
(* into chunks, or as the batches of an Arrow source, into the buffer of a *)
(* DuckDB appender, and from there to the table on flush() and close().     *)
(*                                                                         *)
(* A call is a loop that can fail anywhere.  append_row and append_columns *)
(* keep the GIL from end to end; append_arrow pulls batches from a source  *)
(* that may be Python code, so other threads call in between, close()      *)
(* included.  A cell is <<call, row, column>>: where the caller gave it.   *)
(* The order of rows of different calls is the engine's and not modelled.  *)
(***************************************************************************)
EXTENDS Naturals, Sequences, FiniteSets

CONSTANTS
  NCols,    \* columns of the table
  VecSize,  \* duckdb_vector_size()
  MaxCalls, \* bound on the appending calls of a behaviour
  Lengths,  \* lengths of the columns given
  Streams,  \* lengths of the Arrow streams given
  Masks,    \* what append_columns is given: [present, masked: sets of columns,
            \* null: the row that the masks mark as NULL]
  Null, Unwritten, Idle

Cols == 1 .. NCols

VARIABLES
  appender, \* handle_: is it open, cells of the row begun, complete rows not flushed;
            \* was close() called, is the object gone, did its destructor abort
  table,    \* the rows in the table, each with the call and row it stands for
  asked,    \* of every call: the rows it was given and how it ended
  job,      \* the call that runs under the GIL
  arrow     \* the append_arrow under way

appenderVars == <<appender, table, asked, job, arrow>>

NewAppender ==
  [open |-> TRUE, part |-> <<>>, rows |-> <<>>, closed |-> FALSE, gone |-> FALSE, aborted |-> FALSE]

Init ==
  /\ appender = [NewAppender EXCEPT !.open = FALSE, !.gone = TRUE]
  /\ table = <<>>
  /\ asked = <<>>
  /\ job = Idle
  /\ arrow = Idle

-----------------------------------------------------------------------------
(* Calls.                                                                  *)

Given(c, i) == [k \in Cols |-> <<c, i, k>>]

Running(kind) == job # Idle /\ job.kind = kind
CanCall       == job = Idle /\ ~appender.aborted /\ Len(asked) < MaxCalls
Call          == Len(asked) + 1

Asks(rows, result) == asked' = Append(asked, [rows |-> rows, result |-> result])
Ends(c, result)    ==
  asked' = [asked EXCEPT ![c].result = IF @ = "lost" THEN @ ELSE result]

Row(c, i, cells) == [by |-> <<c, i>>, cells |-> cells]
Buffers(rows)    == appender' = [appender EXCEPT !.rows = @ \o rows]

\* Appender::Appender, when the table exists; otherwise it leaves nothing.
create ==
  /\ job = Idle /\ ~appender.aborted
  /\ appender.gone
  /\ appender' = NewAppender
  /\ UNCHANGED <<table, asked, job, arrow>>

-----------------------------------------------------------------------------
(* append_row: a cell at a time.                                           *)

append_row ==
  /\ CanCall /\ appender.open
  /\ Asks(<<Given(Call, 1)>>, "running")
  /\ job' = [kind |-> "row", call |-> Call, at |-> 0]
  /\ UNCHANGED <<appender, table, arrow>>

\* Faulty variant: the state duckdb_append_* returns is not looked at, so a cell past
\* the last column is dropped.
append_one_unchecked ==
  /\ Running("row") /\ job.at < NCols
  /\ appender' = IF Len(appender.part) < NCols
                 THEN [appender EXCEPT !.part = Append(@, <<job.call, 1, job.at + 1>>)]
                 ELSE appender
  /\ job' = [job EXCEPT !.at = @ + 1]
  /\ UNCHANGED <<table, asked, arrow>>

\* The engine has its own column, and refuses a cell past the last one.
append_one ==
  /\ Running("row") /\ job.at < NCols
  /\ Len(appender.part) < NCols
  /\ appender' = [appender EXCEPT !.part = Append(@, <<job.call, 1, job.at + 1>>)]
  /\ job' = [job EXCEPT !.at = @ + 1]
  /\ UNCHANGED <<table, asked, arrow>>

\* The value cannot be cast, or the engine refuses it: what was written stays.
append_one_fails ==
  /\ Running("row") /\ job.at < NCols
  /\ Ends(job.call, "raised")
  /\ job' = Idle
  /\ UNCHANGED <<appender, table, arrow>>

end_row ==
  /\ Running("row") /\ job.at = NCols
  /\ Len(appender.part) = NCols
  /\ appender' = [appender EXCEPT !.rows = Append(@, Row(job.call, 1, appender.part)),
                                  !.part = <<>>]
  /\ Ends(job.call, "ok")
  /\ job' = Idle
  /\ UNCHANGED <<table, arrow>>

-----------------------------------------------------------------------------
(* append_columns: a chunk at a time.                                      *)

\* What row i of the call is to be stored as: a column that is not given is NULL, but where
\* it has a mask that declares it valid: then it is whatever the chunk's memory holds.
Expected(m, c, i) ==
  [k \in Cols |->
     IF k \in m.present THEN IF k \in m.masked /\ i = m.null THEN Null ELSE <<c, i, k>>
     ELSE IF k \in m.masked /\ i # m.null THEN Unwritten ELSE Null]

append_columns(m, n) ==
  /\ CanCall /\ appender.open
  /\ Asks([i \in 1 .. n |-> Expected(m, Call, i)], "running")
  /\ job' = [kind |-> "columns", call |-> Call, at |-> 0, n |-> n, given |-> m]
  /\ UNCHANGED <<appender, table, arrow>>

\* Cell k of row i of the source: its validity bit is cleared for a column that is
\* not given, then set from the column's mask.
Copied(i, k) ==
  LET m     == job.given
      valid == IF k \in m.masked THEN i # m.null ELSE k \in m.present
  IN  IF ~valid THEN Null ELSE IF k \in m.present THEN <<job.call, i, k>> ELSE Unwritten

\* Faulty variant: the last chunk is not cut.
ThisN_uncut == VecSize

ThisN == IF job.n - job.at < VecSize THEN job.n - job.at ELSE VecSize
Chunk == [r \in 1 .. ThisN |->
            Row(job.call, job.at + r, [k \in Cols |-> Copied(job.at + r, k)])]

\* Faulty variant: the offset advances by one row too few.
append_chunk_overlapping ==
  /\ Running("columns") /\ job.at < job.n
  /\ Buffers(Chunk)
  /\ job' = [job EXCEPT !.at = @ + (IF VecSize > 1 THEN VecSize - 1 ELSE 1)]
  /\ UNCHANGED <<table, asked, arrow>>

append_chunk ==
  /\ Running("columns") /\ job.at < job.n
  /\ Buffers(Chunk)
  /\ job' = [job EXCEPT !.at = @ + VecSize]
  /\ UNCHANGED <<table, asked, arrow>>

\* Also the checks of the arrays before the first chunk.
append_chunk_fails ==
  /\ Running("columns") /\ job.at < job.n
  /\ Ends(job.call, "raised")
  /\ job' = Idle
  /\ UNCHANGED <<appender, table, arrow>>

append_columns_returns ==
  /\ Running("columns") /\ job.at >= job.n
  /\ Ends(job.call, "ok")
  /\ job' = Idle
  /\ UNCHANGED <<appender, table, arrow>>

-----------------------------------------------------------------------------
(* append_arrow: a batch (here, of one row) at a time.  An Arrow array that *)
(* is not a stream is a stream of one batch.                                *)

append_arrow(n) ==
  /\ CanCall /\ appender.open /\ arrow = Idle
  /\ Asks([i \in 1 .. n |-> Given(Call, i)], "running")
  /\ arrow' = [call |-> Call, at |-> 0, n |-> n]
  /\ UNCHANGED <<appender, table, job>>

append_batch ==
  /\ job = Idle /\ arrow # Idle /\ arrow.at < arrow.n
  /\ appender.open
  /\ Buffers(<<Row(arrow.call, arrow.at + 1, Given(arrow.call, arrow.at + 1))>>)
  /\ arrow' = [arrow EXCEPT !.at = @ + 1]
  /\ UNCHANGED <<table, asked, job>>

\* The source fails, a batch cannot be converted or appended, or the appender was
\* closed in the meantime and its handle is null.
append_arrow_fails ==
  /\ job = Idle /\ arrow # Idle
  /\ Ends(arrow.call, "raised")
  /\ arrow' = Idle
  /\ UNCHANGED <<appender, table, job>>

append_arrow_returns ==
  /\ job = Idle /\ arrow # Idle /\ arrow.at = arrow.n
  /\ Ends(arrow.call, "ok")
  /\ arrow' = Idle
  /\ UNCHANGED <<appender, table, job>>

-----------------------------------------------------------------------------
(* flush, close and the destructor.  The engine flushes all its rows or    *)
(* none (a row may violate a constraint), and refuses to with a row begun;  *)
(* a flush that fails changes nothing and is no step.                       *)

Flushed == table' = table \o appender.rows

flush ==
  /\ job = Idle /\ appender.open /\ appender.part = <<>>
  /\ Flushed
  /\ appender' = [appender EXCEPT !.rows = <<>>]
  /\ UNCHANGED <<asked, job, arrow>>

\* The rows in the buffer go with it: their calls returned, and they are nowhere.
Discards ==
  /\ appender.part # <<>> \/ appender.rows # <<>>
  /\ table' = table
  /\ asked' = [c \in DOMAIN asked |->
                 IF \E j \in DOMAIN appender.rows : appender.rows[j].by[1] = c
                 THEN [asked[c] EXCEPT !.result = "lost"] ELSE asked[c]]

\* close() destroys the handle in any case, and then raises when the flush failed.
Closed == [appender EXCEPT !.open = FALSE, !.part = <<>>, !.rows = <<>>, !.closed = TRUE]

\* Faulty variant: the error is raised before the handle is destroyed.
close_raising_early ==
  /\ job = Idle /\ appender.open
  /\ \/ /\ appender.part = <<>> /\ Flushed /\ asked' = asked
        /\ appender' = Closed
     \/ /\ appender.part # <<>> \/ appender.rows # <<>>
        /\ UNCHANGED <<table, asked>>
        /\ appender' = [appender EXCEPT !.closed = TRUE]
  /\ UNCHANGED <<job, arrow>>

close ==
  /\ job = Idle /\ appender.open
  /\ appender' = Closed
  /\ \/ appender.part = <<>> /\ Flushed /\ asked' = asked
     \/ Discards
  /\ UNCHANGED <<job, arrow>>

\* ~Appender calls close(), which throws out of a destructor when the flush fails.  A
\* call under way keeps the object.
drop ==
  /\ job = Idle /\ arrow = Idle /\ ~appender.gone /\ ~appender.aborted
  /\ \/ /\ ~appender.open
        /\ appender' = [appender EXCEPT !.gone = TRUE]
        /\ UNCHANGED <<table, asked>>
     \/ /\ appender.open /\ appender.part = <<>>
        /\ Flushed /\ asked' = asked
        /\ appender' = [appender EXCEPT !.open = FALSE, !.rows = <<>>, !.gone = TRUE]
     \/ /\ appender.open
        /\ Discards
        /\ appender' = [appender EXCEPT !.open = FALSE, !.part = <<>>, !.rows = <<>>,
                                        !.aborted = TRUE]
  /\ UNCHANGED <<job, arrow>>
=============================================================================
