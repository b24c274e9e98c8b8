---------------------------- MODULE ResultCursor ----------------------------
(***************************************************************************)
(* The read side of a Result (src/cpp/result.cpp): the row cursor behind   *)
(* fetchone, fetchmany, fetchall and fetchitem, and the calls that pull    *)
(* whole chunks past it: fetch_chunk, to_numpy and the Arrow stream.       *)
(*                                                                         *)
(* A row is <<i, j>>, row j of the i-th chunk DuckDB returns.  A call that *)
(* loops takes a step per chunk it fetches and per row it builds, and may  *)
(* throw at any of them.  One thread uses the Result.                      *)
(***************************************************************************)
EXTENDS Naturals, Sequences, FiniteSets, Functions

CONSTANTS
  MaxChunks,  \* chunks of the result
  MaxRows,    \* rows of a chunk
  MaxSize,    \* rows asked of one fetchmany
  EngineFails \* a streaming query may fail while its chunks are fetched

ASSUME BoundsAreNat == MaxChunks \in Nat /\ MaxRows \in Nat /\ MaxSize \in Nat
ASSUME EngineFailsIsBoolean == EngineFails \in BOOLEAN

VARIABLES
  chunks,     \* sizes of the chunks of the result, empty ones included
  reach,      \* how many of them duckdb_fetch_chunk returns before it returns nullptr
  streaming,  \* duckdb_result_is_streaming: the row count is not known
  single,     \* the result has exactly one column
  fast,       \* every column has Arrow's layout: a stream of it gives one batch
  cur,        \* chunk_ (0: nullptr), cursor_, chunks fetched so far, rows_returned_
  stream,     \* an Arrow stream of this Result: "none", "open" or "done"
  call,       \* the loop under way and the rounds it has left, if it counts them
  built,      \* rows of the call under way, not yet the caller's
  given,      \* rows the caller got, in order
  lost,       \* rows that went down with a call that threw
  used,       \* kinds of calls that gave rows: "rows", "chunks"
  end         \* the last call told the caller that the result is exhausted

fixedVars == <<chunks, reach, streaming, single, fast>>
vars == <<fixedVars, cur, stream, call, built, given, lost, used, end>>

Rows  == {r \in (1 .. Len(chunks)) \X (1 .. MaxRows) : r[2] <= chunks[r[1]]}
Ahead == {r \in Rows : r[1] > cur.fetched \/ (r[1] = cur.chunk /\ r[2] > cur.cursor)}
Before(a, b) == a[1] < b[1] \/ (a[1] = b[1] /\ a[2] < b[2])
RowsOf(i) == [j \in 1 .. chunks[i] |-> <<i, j>>]

Counted  == {"fetchone", "fetchmany", "fetchall"}
RowCalls == Counted \cup {"fetchrest", "fetchitem"}
Draining == {"to_numpy", "get_next"}
NoCall   == [kind |-> "none", left |-> 0]
Idle     == call = NoCall

Init ==
  /\ chunks \in UNION {[1 .. n -> 0 .. MaxRows] : n \in 0 .. MaxChunks}
  /\ streaming \in BOOLEAN
  /\ reach \in IF EngineFails /\ streaming THEN 0 .. Len(chunks) ELSE {Len(chunks)}
  /\ single \in BOOLEAN /\ fast \in BOOLEAN
  /\ cur = [chunk |-> 0, cursor |-> 0, fetched |-> 0, returned |-> 0]
  /\ stream = "none"
  /\ call = NoCall
  /\ built = <<>> /\ given = <<>>
  /\ lost = {} /\ used = {}
  /\ end = FALSE

Begins(kind, n) ==
  /\ Idle
  /\ call' = [kind |-> kind, left |-> n]
  /\ end' = FALSE
  /\ UNCHANGED <<fixedVars, cur, built, given, lost, used>>

Returns(kind, rows, exhausted) ==
  /\ given' = given \o rows
  /\ used' = IF rows = <<>> THEN used ELSE used \cup {kind}
  /\ end' = exhausted
  /\ call' = NoCall
  /\ built' = <<>>
  /\ UNCHANGED <<fixedVars, stream, lost>>

\* The rows S and those already in the caller's unfinished list are gone.
Throws(S) ==
  /\ lost' = lost \cup Range(built) \cup S
  /\ end' = FALSE
  /\ call' = NoCall
  /\ built' = <<>>
  /\ UNCHANGED <<fixedVars, stream, given, used>>

-----------------------------------------------------------------------------
(* Row by row.                                                             *)

\* The loop of the call asks ensure_row for a row; fetchitem asks again after its row.
Asks ==
  \/ call.kind \in Counted /\ call.left > 0
  \/ call.kind \in {"fetchrest", "fetchitem"}

\* Faulty variant: the bound of the chunk is off by one.
HasRowOffByOne == cur.chunk # 0 /\ cur.cursor <= chunks[cur.chunk]

HasRow == cur.chunk # 0 /\ cur.cursor < chunks[cur.chunk]

\* ensure_row releases the spent chunk and fetches the next; an empty one is dropped, and
\* the loop goes on.
next_chunk ==
  /\ Asks /\ ~HasRow
  /\ cur.fetched < reach
  /\ cur' = [cur EXCEPT !.chunk = IF chunks[cur.fetched + 1] > 0 THEN cur.fetched + 1 ELSE 0,
                        !.cursor = 0, !.fetched = @ + 1]
  /\ UNCHANGED <<fixedVars, stream, call, built, given, lost, used, end>>

\* cursor_ and rows_returned_ move before the cells are converted, which may throw.
build_row ==
  LET row == <<cur.chunk, cur.cursor + 1>> IN
  /\ Asks /\ HasRow
  /\ call.kind = "fetchitem" => call.left = 1
  /\ cur' = [cur EXCEPT !.cursor = @ + 1, !.returned = @ + 1]
  /\ \/ /\ built' = Append(built, row)
        /\ call' = [call EXCEPT !.left = IF @ > 0 THEN @ - 1 ELSE 0]
        /\ UNCHANGED <<fixedVars, stream, given, lost, used, end>>
     \/ Throws({row})

\* Faulty variants: an empty chunk is taken for the end; the cursor is reset and the
\* chunk is kept.
no_more_rows_at_empty ==
  /\ Asks /\ ~HasRow
  /\ cur.fetched < reach => chunks[cur.fetched + 1] = 0
  /\ cur' = [cur EXCEPT !.chunk = 0, !.cursor = 0]
  /\ Returns("rows", built, TRUE)
no_more_rows_kept ==
  /\ Asks /\ ~HasRow
  /\ cur.fetched = reach
  /\ cur' = [cur EXCEPT !.cursor = 0]
  /\ Returns("rows", built, TRUE)

\* ensure_row finds no chunk: None, a short list, or fetchitem's error when there was no
\* row at all.
no_more_rows ==
  /\ Asks /\ ~HasRow
  /\ cur.fetched = reach
  /\ cur' = [cur EXCEPT !.chunk = 0, !.cursor = 0]
  /\ IF call.kind = "fetchitem" /\ call.left = 1 THEN Throws({})
     ELSE Returns("rows", built, TRUE)

rounds_done ==
  /\ call.kind \in Counted /\ call.left = 0
  /\ cur' = cur
  /\ Returns("rows", built, FALSE)

\* fetchitem finds a second row, which stays under the cursor.
second_row ==
  /\ call.kind = "fetchitem" /\ call.left = 0
  /\ HasRow
  /\ cur' = cur
  /\ Throws({})

fetchone == Begins("fetchone", 1) /\ UNCHANGED stream

fetchmany(n) == Begins("fetchmany", n) /\ UNCHANGED stream

\* A materialized result sizes the list by its row count, less the rows returned;
\* otherwise, and when nothing is left of the count, fetchall runs until there is no row.
Total == IF streaming THEN 0 ELSE Cardinality(Rows)

\* Faulty variant: the rows returned are taken off the row count twice.
fetchall_short ==
  /\ IF Total > 2 * cur.returned THEN Begins("fetchall", Total - 2 * cur.returned)
     ELSE Begins("fetchrest", 0)
  /\ UNCHANGED stream

fetchall ==
  /\ IF Total > cur.returned THEN Begins("fetchall", Total - cur.returned)
     ELSE Begins("fetchrest", 0)
  /\ UNCHANGED stream

fetchitem ==
  /\ single
  /\ Begins("fetchitem", 1)
  /\ UNCHANGED stream

\* One column, a known name, a type with a flat layout: checked before anything is read.
refused ==
  /\ Idle
  /\ cur' = cur
  /\ Throws({})

-----------------------------------------------------------------------------
(* Chunk by chunk: duckdb_fetch_chunk, past chunk_ and cursor_.            *)

Fetch1 ==
  /\ cur.fetched < reach
  /\ cur' = [cur EXCEPT !.fetched = @ + 1]

fetch_chunk ==
  /\ Idle
  /\ \/ Fetch1 /\ Returns("chunks", RowsOf(cur.fetched + 1), FALSE)
     \/ cur.fetched = reach /\ cur' = cur /\ Returns("chunks", <<>>, FALSE)

to_numpy == Begins("to_numpy", 0) /\ UNCHANGED stream

ExportStream ==
  /\ Idle /\ stream = "none"
  /\ stream' = "open"
  /\ end' = FALSE
  /\ UNCHANGED <<fixedVars, cur, call, built, given, lost, used>>

ReleaseStream ==
  /\ Idle /\ stream # "none"
  /\ stream' = "none"
  /\ end' = FALSE
  /\ UNCHANGED <<fixedVars, cur, call, built, given, lost, used>>

\* Fast path: the first get_next drains the result into one batch, or fails for good.
get_next_fast ==
  /\ stream = "open" /\ fast
  /\ Begins("get_next", 0)
  /\ stream' = "done"

\* Fallback: one chunk per get_next, destroyed whether or not it could be converted.
get_next_chunk ==
  /\ stream = "open" /\ ~fast
  /\ \/ fetch_chunk
     \/ Idle /\ Fetch1 /\ Throws(Range(RowsOf(cur.fetched + 1)))

\* Pass 1 of to_numpy and build_fast_batch: pull every chunk.
pull_chunk ==
  /\ call.kind \in Draining
  /\ Fetch1
  /\ built' = built \o RowsOf(cur.fetched + 1)
  /\ UNCHANGED <<fixedVars, stream, call, given, lost, used, end>>

\* Pass 2 copies the chunks out, or an allocation fails.
copy_out ==
  /\ call.kind \in Draining
  /\ cur.fetched = reach
  /\ cur' = cur
  /\ Returns("chunks", built, FALSE) \/ Throws({})

ByRows ==
  \/ fetchone \/ (\E n \in 0 .. MaxSize : fetchmany(n)) \/ fetchall \/ fetchitem \/ refused
  \/ next_chunk \/ build_row \/ no_more_rows \/ rounds_done \/ second_row

ByChunks ==
  \/ fetch_chunk \/ to_numpy \/ ExportStream \/ ReleaseStream
  \/ get_next_fast \/ get_next_chunk
  \/ pull_chunk \/ copy_out

Next == ByRows \/ ByChunks
Spec == Init /\ [][Next]_vars

-----------------------------------------------------------------------------
(* Properties. *)

TypeOK ==
  /\ chunks \in Seq(0 .. MaxRows)
  /\ streaming \in BOOLEAN /\ single \in BOOLEAN /\ fast \in BOOLEAN /\ end \in BOOLEAN
  /\ reach \in 0 .. Len(chunks)
  /\ cur \in [chunk : Nat, cursor : Nat, fetched : 0 .. reach, returned : 0 .. Cardinality(Rows)]
  /\ cur.chunk <= cur.fetched
  /\ cur.chunk # 0 => cur.cursor <= chunks[cur.chunk]
  /\ stream \in {"none", "open", "done"}
  /\ call \in [kind : RowCalls \cup Draining \cup {"none"}, left : Nat]
  /\ built \in Seq(Rows) /\ given \in Seq(Rows)
  /\ lost \subseteq Rows /\ used \subseteq {"rows", "chunks"}

\* Every row of the result is given to the caller once, is in the list of the call under
\* way, was lost once with a call that threw, or can still be fetched, and only one of
\* these, however row and chunk calls are mixed.
EveryRowOnce ==
  LET taken == given \o built IN
  /\ Range(taken) \cup lost \cup Ahead = Rows
  /\ \A i, j \in DOMAIN taken : i # j => taken[i] # taken[j]
  /\ Range(taken) \cap lost = {}
  /\ (Range(taken) \cup lost) \cap Ahead = {}

\* A caller that keeps to one kind of call gets the rows in the result's order.
InOrder ==
  used # {"rows", "chunks"} =>
    \A i, j \in DOMAIN given : i < j => Before(given[i], given[j])

\* When a row call reports the end (None, a short list, the list of fetchall on a
\* stream) the result has no row left.
EndIsTheEnd == end => Ahead = {}

\* fetchall leaves nothing: the list it sized by the row count is never too short.
FetchAllTakesAll ==
  [][call.kind \in {"fetchall", "fetchrest"} /\ (rounds_done \/ no_more_rows)
       => Ahead' = {}]_vars
=============================================================================
