------------------------------- MODULE Ingest -------------------------------
(***************************************************************************)
(* Writing to a table by an Appender and a PreparedStatement of one        *)
(* Connection, which may be closed first: each holds a share of the        *)
(* DuckDBHandle (src/cpp/database.hpp), and the last one to let go closes   *)
(* the database.                                                           *)
(***************************************************************************)
EXTENDS Appender

CONSTANTS
  Unbound, Before,
  Rows      \* what executemany is given: the parameters each row has

ASSUME SizesArePositive == NCols \in Nat \ {0} /\ VecSize \in Nat \ {0} /\ MaxCalls \in Nat
ASSUME MasksAreOfTheTable ==
  Masks \subseteq [present : (SUBSET Cols) \ {{}}, masked : SUBSET Cols, null : Nat]
ASSUME RowsAreOfTheTable == Rows \subseteq Seq(SUBSET Cols) /\ Lengths \cup Streams \subseteq Nat
ASSUME BeforeIsNoValue == Before \notin Nat \X Nat \X Nat /\ Before \notin {Null, Unwritten, Unbound}

VARIABLES
  stmt,     \* the PreparedStatement
  many,     \* its executemany under way
  exec,     \* its execute under way
  results,  \* the Results of execute: of a statement that was "open" at the end, or "closed"
  holders,  \* owners of the DuckDBHandle
  database  \* it is open

stmtVars == <<stmt, many, exec>>
vars == <<appenderVars, stmtVars, results, holders, database>>

Stmt == INSTANCE PreparedStatement

IngestInit ==
  /\ Init /\ Stmt!Init
  /\ results = {}
  /\ holders = {"connection"}
  /\ database = TRUE

Holds(h) == holders' = holders \cup {h} /\ database' = database

\* ~DuckDBHandle runs with the last share.
LetsGo(h) ==
  /\ holders' = holders \ {h}
  /\ database' = (database /\ holders' # {})

Keeps == UNCHANGED <<holders, database>>

\* Faulty variant: the appender is made without its share of the handle.
CreateAppenderUnshared ==
  /\ "connection" \in holders /\ create
  /\ Keeps
  /\ UNCHANGED <<stmtVars, results>>

\* raw_connection() refuses on a closed Connection.
CreateAppender ==
  /\ "connection" \in holders /\ create
  /\ Holds("appender")
  /\ UNCHANGED <<stmtVars, results>>

UseAppender ==
  /\ \/ append_row \/ append_one \/ append_one_fails \/ end_row
     \/ \E m \in Masks, n \in Lengths : append_columns(m, n)
     \/ append_chunk \/ append_chunk_fails \/ append_columns_returns
     \/ \E n \in Streams : append_arrow(n)
     \/ append_batch \/ append_arrow_fails \/ append_arrow_returns
     \/ flush \/ close
  /\ Keeps
  /\ UNCHANGED <<stmtVars, results>>

DropAppender ==
  /\ drop
  /\ LetsGo("appender")
  /\ UNCHANGED <<stmtVars, results>>

Prepare ==
  /\ "connection" \in holders /\ ~appender.aborted /\ Stmt!prepare
  /\ Holds("statement")
  /\ UNCHANGED <<appender, arrow, results>>

UseStatement ==
  /\ ~appender.aborted
  /\ \/ \E S \in SUBSET Cols : Stmt!execute(S) \/ Stmt!execute_fails(S) \/ Stmt!many_fails(S)
     \/ Stmt!execute_again \/ Stmt!execute_raises
     \/ \E sets \in Rows : Stmt!executemany(sets)
     \/ Stmt!many_row \/ Stmt!many_returns
  /\ Keeps
  /\ UNCHANGED <<appender, arrow, results>>

\* The Result of execute copies the statement's handle_ when the query is over: by then
\* a close() of the statement has reset it, and the Result has no share.
ExecuteReturns ==
  /\ ~appender.aborted /\ Stmt!execute_returns
  /\ IF stmt.open THEN Holds("result") ELSE Keeps
  /\ results' = results \cup {IF stmt.open THEN "open" ELSE "closed"}
  /\ UNCHANGED <<appender, arrow>>

CloseStatement ==
  /\ ~appender.aborted /\ Stmt!close
  /\ LetsGo("statement")
  /\ UNCHANGED <<appender, arrow, results>>

DropResult(r) ==
  /\ job = Idle /\ ~appender.aborted /\ r \in results
  /\ results' = results \ {r}
  /\ IF r = "open" THEN LetsGo("result") ELSE Keeps
  /\ UNCHANGED <<appenderVars, stmtVars>>

\* Connection::close, or its destructor.
CloseConnection ==
  /\ job = Idle /\ ~appender.aborted /\ "connection" \in holders
  /\ LetsGo("connection")
  /\ UNCHANGED <<appenderVars, stmtVars, results>>

Next ==
  \/ CreateAppender \/ UseAppender \/ DropAppender
  \/ Prepare \/ UseStatement \/ ExecuteReturns \/ CloseStatement
  \/ (\E r \in {"open", "closed"} : DropResult(r)) \/ CloseConnection

Spec == IngestInit /\ [][Next]_vars

-----------------------------------------------------------------------------
(* Properties. *)

Cell   == (1 .. MaxCalls) \X Nat \X Cols
Stored == table \o appender.rows
Written == {Stored[j].by : j \in DOMAIN Stored}

TypeOK ==
  /\ appender.open \in BOOLEAN /\ appender.part \in Seq(Cell) /\ Len(appender.part) <= NCols
  /\ \A j \in DOMAIN Stored :
       /\ Stored[j].by[1] \in DOMAIN asked
       /\ Stored[j].by[2] \in DOMAIN asked[Stored[j].by[1]].rows
       /\ Stored[j].cells \in Seq(Cell \cup {Null, Unwritten}) /\ Len(Stored[j].cells) = NCols
  /\ \A c \in DOMAIN asked : asked[c].result \in {"running", "ok", "raised", "lost"}
  /\ stmt.open \in BOOLEAN /\ \A k \in Cols : stmt.bound[k] \in Cell \cup {Unbound}
  /\ exec # Idle => \A k \in Cols : exec.bound[k] \in Cell
  /\ results \subseteq {"open", "closed"}
  /\ holders \subseteq {"connection", "appender", "statement", "result"}

\* Row i of call c gave a value for the column k.
Gave(c, i, k) == asked[c].rows[i][k] = <<c, i, k>>

\* What a row that leaves out k may find bound: a value that a row of some call gave for
\* k, and of its own call none but the last before it; a row of its own call that gave k
\* has overwritten what earlier calls gave.
Inherited(c, i, k, cell) ==
  \E d \in DOMAIN asked : \E h \in DOMAIN asked[d].rows :
    /\ cell = <<d, h, k>> /\ Gave(d, h, k)
    /\ d = c => h < i
    /\ \A g \in 1 .. i - 1 : Gave(c, g, k) => d > c \/ (d = c /\ g <= h)

\* No row is made of other rows' pieces, whatever failed before it and whoever called in
\* between: a row in the buffer or the table has in each column the cell that its call gave
\* for that row and column, or is NULL or unwritten as append_columns was told.  The one
\* thing it takes from elsewhere is a parameter that it leaves out, as last bound.
RowsAreWhole ==
  \A j \in DOMAIN Stored : \A k \in Cols :
    LET c == Stored[j].by[1]  i == Stored[j].by[2]  want == asked[c].rows[i][k]
    IN  IF want = Before THEN Inherited(c, i, k, Stored[j].cells[k])
        ELSE Stored[j].cells[k] = want

\* What appender.hpp says of append_columns: a missing column is filled with NULL.
MissingIsNull == \A j \in DOMAIN Stored : \A k \in Cols : Stored[j].cells[k] # Unwritten

\* What a bulk call has written is the beginning of what it was given, each row once and
\* in order, none left out, however it ended; and all of it when it returned, unless the
\* appender was lost with its rows.
BatchIsAPrefix ==
  /\ \A i, j \in DOMAIN Stored :
       i < j /\ Stored[i].by[1] = Stored[j].by[1] => Stored[i].by[2] < Stored[j].by[2]
  /\ \A b \in Written : \A i \in 1 .. b[2] : <<b[1], i>> \in Written
  /\ \A c \in DOMAIN asked :
       asked[c].result = "ok" => \A i \in DOMAIN asked[c].rows : <<c, i>> \in Written

\* An appender that was closed, even by a close() that raised, is never closed again by
\* its destructor, where an error would abort the process.
CloseIsFinal == appender.closed => ~appender.open /\ ~appender.aborted

\* The database stays open as long as an appender, a statement, or a result whose statement
\* was open at its end is alive, whichever is closed first, and no longer than the last.
InOpenDatabase ==
  /\ appender.open \/ stmt.open \/ "open" \in results => database
  /\ database => holders # {}
=============================================================================
