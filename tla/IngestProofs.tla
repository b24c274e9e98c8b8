---------------------------- MODULE IngestProofs ----------------------------
(***************************************************************************)
(* Safety of Ingest for any table, chunk size, calls and interleaving.     *)
(***************************************************************************)
EXTENDS Ingest, SequenceTheorems, TLAPS

Calls   == 1 .. MaxCalls
Given1  == [Cols -> Cell \cup {Null, Unwritten, Unbound, Before}]
Results  == {"running", "ok", "raised", "lost"}
CallType == [rows : Seq(Given1), result : Results]
RowType  == [by : Calls \X Nat, cells : [Cols -> Cell \cup {Null, Unwritten}]]

AppenderType ==
  [open : BOOLEAN, part : Seq(Cell), rows : Seq(RowType),
   closed : BOOLEAN, gone : BOOLEAN, aborted : BOOLEAN]

AppenderTypes ==
  /\ appender \in AppenderType
  /\ Len(appender.part) <= NCols
  /\ table \in Seq(RowType)

AskedTypes == asked \in Seq(CallType) /\ Len(asked) <= MaxCalls

JobTypes ==
  /\ job \in {Idle} \cup [kind : {"row"}, call : Calls, at : Nat]
             \cup [kind : {"columns"}, call : Calls, at : Nat, n : Nat, given : Masks]
  /\ arrow \in {Idle} \cup [call : Calls, at : Nat, n : Nat]
  /\ many \in {Idle} \cup [call : Calls, at : Nat, sets : Seq(SUBSET Cols)]
  /\ exec \in {Idle} \cup [call : Calls, bound : [Cols -> Cell]]
  /\ job # Idle => job.call \in DOMAIN asked
  /\ arrow # Idle => arrow.call \in DOMAIN asked
  /\ many # Idle => many.call \in DOMAIN asked
  /\ exec # Idle => exec.call \in DOMAIN asked

StmtTypes == stmt \in [open : BOOLEAN, bound : [Cols -> Cell \cup {Unbound}]]

ShareTypes ==
  /\ holders \subseteq {"connection", "appender", "statement", "result"}
  /\ database \in BOOLEAN
  /\ results \subseteq {"open", "closed"}

Types == AppenderTypes /\ AskedTypes /\ JobTypes /\ StmtTypes /\ ShareTypes

\* The appender and its owners: one that is not open is empty, whoever is open has a
\* share, and the calls under way keep the object.
Handles ==
  /\ appender.open => ~appender.closed /\ ~appender.gone /\ ~appender.aborted
  /\ appender.closed => ~appender.aborted
  /\ ~appender.open => appender.part = <<>> /\ appender.rows = <<>>
  /\ appender.open => "appender" \in holders
  /\ stmt.open => "statement" \in holders
  /\ "open" \in results => "result" \in holders
  /\ database <=> holders # {}
  /\ job # Idle => appender.open
  /\ arrow # Idle => ~appender.gone

\* The elements of a sequence of rows, and what they stand for.
Elems(s) == {s[j] : j \in DOMAIN s}
Bys(s)   == {s[j].by : j \in DOMAIN s}

\* The rows of each call are in order.
Sorted(s) ==
  \A i, j \in DOMAIN s : i < j /\ s[i].by[1] = s[j].by[1] => s[i].by[2] < s[j].by[2]

\* The cells are what call c gave for its row i, or what it found bound.
Stands(c, i, cells) ==
  \A k \in Cols :
    IF asked[c].rows[i][k] = Before THEN Inherited(c, i, k, cells[k])
    ELSE cells[k] = asked[c].rows[i][k]

\* A row has what its call gave for it.
Whole(row) ==
  /\ row.by[1] \in DOMAIN asked /\ row.by[2] \in DOMAIN asked[row.by[1]].rows
  /\ Stands(row.by[1], row.by[2], row.cells)

\* The rows of a call: none is left out, and all are there when it returned.
CallInv(c) ==
  /\ \A i \in Nat : <<c, i>> \in Bys(Stored) => \A h \in 1 .. i : <<c, h>> \in Bys(Stored)
  /\ asked[c].result = "ok" => \A i \in DOMAIN asked[c].rows : <<c, i>> \in Bys(Stored)

RowsInv ==
  /\ Sorted(Stored)
  /\ \A row \in Elems(Stored) : Whole(row)
  /\ \A c \in DOMAIN asked : CallInv(c)

\* A call under way that has come to row n has written the rows up to it, unless a
\* close() discarded them.
Progress(c, n) ==
  /\ asked[c].result \in {"running", "lost"}
  /\ \A i \in Nat : <<c, i>> \in Bys(Stored) => i <= n
  /\ asked[c].result = "running" =>
       \A i \in DOMAIN asked[c].rows : i <= n => <<c, i>> \in Bys(Stored)

\* append_row: its cells come behind what earlier calls that failed left in the row.
RowJob ==
  /\ Progress(job.call, 0)
  /\ asked[job.call].rows = <<Given(job.call, 1)>>
  /\ job.at <= NCols /\ job.at <= Len(appender.part)
  /\ \A k \in 1 .. job.at : appender.part[Len(appender.part) - job.at + k] = <<job.call, 1, k>>

ColumnsJob ==
  /\ Progress(job.call, job.at)
  /\ asked[job.call].rows = [i \in 1 .. job.n |-> Expected(job.given, job.call, i)]

JobInv ==
  job # Idle =>
    /\ asked[job.call].result = "running"
    /\ job.kind = "row" => RowJob
    /\ job.kind = "columns" => ColumnsJob

ArrowInv ==
  arrow # Idle =>
    /\ Progress(arrow.call, arrow.at)
    /\ arrow.at <= arrow.n
    /\ asked[arrow.call].rows = [i \in 1 .. arrow.n |-> Given(arrow.call, i)]
    /\ asked[arrow.call].result = "lost" => ~appender.open

ManyInv ==
  many # Idle =>
    /\ Progress(many.call, many.at)
    /\ asked[many.call].result = "running"
    /\ many.at <= Len(many.sets)
    /\ asked[many.call].rows =
         [i \in DOMAIN many.sets |-> Stmt!Expected(many.call, i, many.sets[i], Before)]
    /\ \A row \in Elems(appender.rows) : row.by[1] # many.call

\* A statement that runs inserts a row that is whole.
ExecInv ==
  exec # Idle =>
    /\ Progress(exec.call, 0)
    /\ asked[exec.call].result = "running"
    /\ DOMAIN asked[exec.call].rows = {1}
    /\ Stands(exec.call, 1, exec.bound)
    /\ \A row \in Elems(appender.rows) : row.by[1] # exec.call

\* What is bound was given by a row of some call; and it is what the next row of an
\* executemany may find bound.
IsGiven(k, cell) ==
  \E d \in DOMAIN asked : \E h \in DOMAIN asked[d].rows : cell = <<d, h, k>> /\ Gave(d, h, k)

BoundInv ==
  \A k \in Cols : stmt.bound[k] # Unbound =>
    /\ IsGiven(k, stmt.bound[k])
    /\ many # Idle => Inherited(many.call, many.at + 1, k, stmt.bound[k])

StmtInv == ManyInv /\ ExecInv /\ BoundInv

\* The calls under way are different ones.
Apart ==
  /\ job # Idle /\ arrow # Idle => job.call # arrow.call
  /\ job # Idle /\ many # Idle => job.call # many.call
  /\ arrow # Idle /\ many # Idle => arrow.call # many.call
  /\ job # Idle /\ exec # Idle => job.call # exec.call
  /\ arrow # Idle /\ exec # Idle => arrow.call # exec.call
  /\ many # Idle /\ exec # Idle => many.call # exec.call

CallsInv == JobInv /\ ArrowInv /\ StmtInv /\ Apart
Inv == Types /\ Handles /\ RowsInv /\ CallsInv

-----------------------------------------------------------------------------
(* Sequences of rows.                                                      *)

\* What a concatenation consists of.
LEMMA ConcatElems ==
  ASSUME NEW s \in Seq(RowType), NEW t \in Seq(RowType)
  PROVE  /\ s \o t \in Seq(RowType)
         /\ Elems(s \o t) = Elems(s) \cup Elems(t)
         /\ Bys(s \o t) = Bys(s) \cup Bys(t)
<1>1. PICK u \in Seq(RowType) : u = s \o t
  BY ConcatProperties
<1>2. /\ DOMAIN u = 1 .. Len(s) + Len(t) /\ DOMAIN s = 1 .. Len(s) /\ DOMAIN t = 1 .. Len(t)
      /\ Len(s) \in Nat /\ Len(t) \in Nat
  BY <1>1, ConcatProperties, LenProperties
<1>3. /\ \A j \in DOMAIN s : j \in DOMAIN u /\ u[j] = s[j]
      /\ \A j \in DOMAIN t : Len(s) + j \in DOMAIN u /\ u[Len(s) + j] = t[j]
  BY <1>1, <1>2
<1>4. ASSUME NEW j \in DOMAIN u
      PROVE  (\E i \in DOMAIN s : u[j] = s[i]) \/ (\E i \in DOMAIN t : u[j] = t[i])
  <2>1. CASE j <= Len(s)
    <3>1. j \in DOMAIN s
      BY <1>2, <2>1
    <3>2. QED
      BY <1>3, <3>1
  <2>2. CASE j > Len(s)
    <3>1. j - Len(s) \in DOMAIN t /\ Len(s) + (j - Len(s)) = j
      BY <1>2, <2>2
    <3>2. QED
      BY <1>3, <3>1
  <2>3. QED
    BY <1>2, <2>1, <2>2
<1>5. Elems(u) = Elems(s) \cup Elems(t)
  BY <1>3, <1>4 DEF Elems
<1>6. Bys(u) = Bys(s) \cup Bys(t)
  BY <1>3, <1>4 DEF Bys
<1>7. QED
  BY <1>1, <1>5, <1>6

\* A concatenation is in order if its parts are, and no row of the second part belongs
\* before one of the first.
LEMMA SortedConcat ==
  ASSUME NEW s \in Seq(RowType), NEW t \in Seq(RowType)
  PROVE  Sorted(s \o t) <=>
           /\ Sorted(s) /\ Sorted(t)
           /\ \A a \in Bys(s), b \in Bys(t) : a[1] = b[1] => a[2] < b[2]
<1>1. /\ DOMAIN (s \o t) = 1 .. Len(s) + Len(t)
      /\ DOMAIN s = 1 .. Len(s) /\ DOMAIN t = 1 .. Len(t)
      /\ Len(s) \in Nat /\ Len(t) \in Nat
  BY ConcatProperties, LenProperties
<1>2. /\ \A j \in 1 .. Len(s) : (s \o t)[j] = s[j] /\ j \in DOMAIN (s \o t)
      /\ \A j \in 1 .. Len(t) : (s \o t)[Len(s) + j] = t[j] /\ Len(s) + j \in DOMAIN (s \o t)
  BY <1>1
<1>3. ASSUME Sorted(s \o t)
      PROVE  /\ Sorted(s) /\ Sorted(t)
             /\ \A a \in Bys(s), b \in Bys(t) : a[1] = b[1] => a[2] < b[2]
  <2>1. Sorted(s)
    BY <1>1, <1>2, <1>3 DEF Sorted
  <2>2. ASSUME NEW i \in 1 .. Len(t), NEW j \in 1 .. Len(t), i < j
        PROVE  Len(s) + i < Len(s) + j
    BY <1>1, <2>2
  <2>3. Sorted(t)
    <3> SUFFICES ASSUME NEW i \in 1 .. Len(t), NEW j \in 1 .. Len(t), i < j, t[i].by[1] = t[j].by[1]
                 PROVE  t[i].by[2] < t[j].by[2]
      BY <1>1 DEF Sorted
    <3>1. (s \o t)[Len(s) + i] = t[i] /\ (s \o t)[Len(s) + j] = t[j]
      BY <1>2
    <3>2. Len(s) + i \in DOMAIN (s \o t) /\ Len(s) + j \in DOMAIN (s \o t)
      BY <1>2
    <3>3. QED
      BY <1>3, <2>2, <3>1, <3>2 DEF Sorted
  <2>4. ASSUME NEW i \in 1 .. Len(s), NEW j \in 1 .. Len(t)
        PROVE  i < Len(s) + j
    BY <1>1
  <2>5. QED
    BY <1>1, <1>2, <1>3, <2>1, <2>3, <2>4 DEF Sorted, Bys
<1>4. ASSUME Sorted(s), Sorted(t),
             \A a \in Bys(s), b \in Bys(t) : a[1] = b[1] => a[2] < b[2]
      PROVE  Sorted(s \o t)
  <2> SUFFICES ASSUME NEW i \in 1 .. Len(s) + Len(t), NEW j \in 1 .. Len(s) + Len(t), i < j,
                      (s \o t)[i].by[1] = (s \o t)[j].by[1]
               PROVE  (s \o t)[i].by[2] < (s \o t)[j].by[2]
    BY <1>1 DEF Sorted
  <2>1. CASE j <= Len(s)
    <3>1. i \in 1 .. Len(s) /\ j \in 1 .. Len(s)
      BY <1>1, <2>1
    <3>2. QED
      BY <1>1, <1>2, <1>4, <3>1 DEF Sorted
  <2>2. CASE i <= Len(s) /\ j > Len(s)
    <3>1. PICK h \in 1 .. Len(t) : j = Len(s) + h
      <4>1. j - Len(s) \in 1 .. Len(t) /\ j = Len(s) + (j - Len(s))
        BY <1>1, <2>2
      <4>2. QED
        BY <4>1
    <3>2. i \in 1 .. Len(s)
      BY <1>1, <2>2
    <3>3. QED
      BY <1>1, <1>2, <1>4, <3>1, <3>2, ZenonT(30) DEF Bys
  <2>3. CASE i > Len(s)
    <3>1. PICK g \in 1 .. Len(t), h \in 1 .. Len(t) : i = Len(s) + g /\ j = Len(s) + h /\ g < h
      <4>1. /\ i - Len(s) \in 1 .. Len(t) /\ i = Len(s) + (i - Len(s))
            /\ j - Len(s) \in 1 .. Len(t) /\ j = Len(s) + (j - Len(s))
            /\ i - Len(s) < j - Len(s)
        BY <1>1, <2>3
      <4>2. QED
        BY <4>1
    <3>2. QED
      BY <1>1, <1>2, <1>4, <3>1, SMTT(30) DEF Sorted
  <2>4. QED
    BY <1>1, <2>1, <2>2, <2>3
<1>5. QED
  BY <1>3, <1>4

\* A sequence of one row.
LEMMA OneRow ==
  ASSUME NEW row \in RowType
  PROVE  /\ <<row>> \in Seq(RowType) /\ Sorted(<<row>>)
         /\ Elems(<<row>>) = {row} /\ Bys(<<row>>) = {row.by}
         /\ \A s \in Seq(RowType) : Append(s, row) = s \o <<row>>
BY DEF Elems, Bys, Sorted

-----------------------------------------------------------------------------
(* Calls and what they are given.                                          *)

\* A call that is made is the next one.
LEMMA NextCall ==
  ASSUME AskedTypes, Len(asked) < MaxCalls
  PROVE  Call \in Calls
BY SizesArePositive DEF AskedTypes, Calls, Call

\* Rows of cells that a caller gives.
LEMMA GivenTypes ==
  ASSUME NEW c \in Calls, NEW i \in Nat
  PROVE  /\ Given(c, i) \in [Cols -> Cell] /\ Given(c, i) \in Given1
         /\ \A m \in Masks : Expected(m, c, i) \in Given1
         /\ \A S \in SUBSET Cols :
              Stmt!Expected(c, i, S, Unbound) \in Given1 /\ Stmt!Expected(c, i, S, Before) \in Given1
         /\ \A b \in [Cols -> Cell \cup {Unbound}], S \in SUBSET Cols :
              Stmt!Bind(b, c, i, S) \in [Cols -> Cell \cup {Unbound}]
BY DEF Given, Cell, Calls, Given1, Expected, Stmt!Expected, Stmt!Bind, Stmt!Params, Cols

\* A cell or a mark is not the one that asks for what is bound before.
LEMMA NoBefore ==
  ASSUME NEW x \in Cell \cup {Null, Unwritten, Unbound}
  PROVE  x # Before
<1>1. Cell \subseteq Nat \X Nat \X Nat
  BY SizesArePositive DEF Cell, Cols
<1>2. QED
  BY <1>1, BeforeIsNoValue

-----------------------------------------------------------------------------
(* What happens to the calls: one begins, one ends, or rows are lost.      *)

\* A call that begins is the last one; the others are as they were.
LEMMA AsksOne ==
  ASSUME asked \in Seq(CallType), NEW rows \in Seq(Given1), NEW result \in Results,
         asked' = Append(asked, [rows |-> rows, result |-> result])
  PROVE  /\ asked' \in Seq(CallType) /\ Len(asked') = Len(asked) + 1
         /\ DOMAIN asked = 1 .. Len(asked) /\ DOMAIN asked' = 1 .. Len(asked) + 1
         /\ asked'[Len(asked) + 1] = [rows |-> rows, result |-> result]
         /\ \A c \in DOMAIN asked : asked'[c] = asked[c]
<1>1. [rows |-> rows, result |-> result] \in CallType
  BY DEF CallType
<1>2. QED
  BY <1>1, AppendProperties, LenProperties

\* A call that ends has its result, and the others are as they were.
LEMMA EndsOne ==
  ASSUME asked \in Seq(CallType), NEW c \in DOMAIN asked, NEW result \in Results,
         asked' = [asked EXCEPT ![c].result = result]
  PROVE  /\ asked' \in Seq(CallType) /\ Len(asked') = Len(asked)
         /\ DOMAIN asked' = DOMAIN asked
         /\ asked'[c].rows = asked[c].rows /\ asked'[c].result = result
         /\ \A d \in DOMAIN asked \ {c} : asked'[d] = asked[d]
<1>1. asked[c] \in CallType /\ c \in 1 .. Len(asked)
  BY LenProperties
<1>2. PICK e : e = [asked[c] EXCEPT !.result = result]
  OBVIOUS
<1>3. e \in CallType /\ e.rows = asked[c].rows /\ e.result = result
  BY <1>1, <1>2 DEF CallType
<1>4. asked' = [asked EXCEPT ![c] = e]
  BY <1>1, <1>2
<1>5. QED
  BY <1>1, <1>3, <1>4, ExceptSeq, LenProperties
-----------------------------------------------------------------------------
(* What a step leaves alone.                                               *)

\* The step does nothing to call c or to its rows.
Untouched(c) ==
  /\ asked'[c] = asked[c]
  /\ \A i : <<c, i>> \in Bys(Stored') <=> <<c, i>> \in Bys(Stored)

\* The rows stored are rows, and they are rows of the calls there were.
LEMMA StoredRows ==
  ASSUME AppenderTypes
  PROVE  /\ Stored \in Seq(RowType)
         /\ Elems(Stored) = Elems(table) \cup Elems(appender.rows)
         /\ Bys(Stored) = Bys(table) \cup Bys(appender.rows)
         /\ \A row \in Elems(Stored) : row \in RowType
         /\ \A b \in Bys(Stored) : b \in Calls \X Nat /\ \E row \in Elems(Stored) : row.by = b
<1>1. table \in Seq(RowType) /\ appender.rows \in Seq(RowType)
  BY DEF AppenderTypes, AppenderType
<1>2. Stored \in Seq(RowType)
  BY <1>1, ConcatElems DEF Stored
<1>3. \A row \in Elems(Stored) : row \in RowType
  BY <1>2 DEF Elems
<1>4. \A b \in Bys(Stored) : \E row \in Elems(Stored) : row.by = b
  BY DEF Elems, Bys
<1>5. \A b \in Bys(Stored) : b \in Calls \X Nat
  BY <1>3, <1>4 DEF RowType
<1>6. QED
  BY <1>1, <1>2, <1>3, <1>4, <1>5, ConcatElems DEF Stored

\* The rows of a call that is left alone are as they should be if they were.
LEMMA CallKept ==
  ASSUME NEW c, CallInv(c), Untouched(c)
  PROVE  CallInv(c)'
BY DEF CallInv, Untouched

\* The calls under way that a step leaves alone: those under the GIL.
LEMMA JobKept ==
  ASSUME JobInv, job' = job, appender'.part = appender.part,
         job # Idle => Untouched(job.call)
  PROVE  JobInv'
BY DEF JobInv, RowJob, ColumnsJob, Progress, Untouched, Given, Expected

\* append_arrow.
LEMMA ArrowKept ==
  ASSUME ArrowInv, arrow' = arrow, appender'.open => appender.open,
         arrow # Idle => Untouched(arrow.call)
  PROVE  ArrowInv'
BY DEF ArrowInv, Progress, Untouched, Given

\* Calls are added, but none is given other rows.
AsksKept ==
  DOMAIN asked \subseteq DOMAIN asked' /\ \A d \in DOMAIN asked : asked'[d].rows = asked[d].rows

\* What was inherited from them still is.
LEMMA InheritedKept ==
  ASSUME AsksKept, NEW c \in DOMAIN asked, NEW i, NEW k, NEW cell, Inherited(c, i, k, cell)
  PROVE  Inherited(c, i, k, cell)'
BY DEF AsksKept, Inherited, Gave

\* What was given was.
LEMMA IsGivenKept ==
  ASSUME AsksKept, NEW k, NEW cell, IsGiven(k, cell)
  PROVE  IsGiven(k, cell)'
BY DEF AsksKept, IsGiven, Gave

\* Cells stand for the row they stood for.
LEMMA StandsKept ==
  ASSUME AsksKept, NEW c \in DOMAIN asked, NEW i, NEW cells, Stands(c, i, cells)
  PROVE  Stands(c, i, cells)'
BY InheritedKept DEF Stands, AsksKept

\* So a row that was whole is.
LEMMA WholeKept ==
  ASSUME AsksKept, NEW row, Whole(row)
  PROVE  Whole(row)'
BY StandsKept DEF Whole, AsksKept

\* The bindings, where nothing is bound.
LEMMA BoundKept ==
  ASSUME BoundInv, AsksKept, stmt' = stmt, many' \in {many, Idle},
         many # Idle => many.call \in DOMAIN asked
  PROVE  BoundInv'
<1> SUFFICES ASSUME NEW k \in Cols, stmt.bound[k] # Unbound
             PROVE  (/\ IsGiven(k, stmt.bound[k])
                     /\ many # Idle => Inherited(many.call, many.at + 1, k, stmt.bound[k]))'
  BY DEF BoundInv
<1>1. PICK cell : cell = stmt.bound[k] /\ IsGiven(k, cell)
  BY DEF BoundInv, IsGiven
<1>2. IsGiven(k, cell)'
  BY <1>1, IsGivenKept
<1>3. ASSUME many' # Idle
      PROVE  Inherited(many.call, many.at + 1, k, stmt.bound[k])'
  <2>1. PICK c, i : c \in DOMAIN asked /\ many' = many /\ c = many.call /\ i = many.at + 1
    BY <1>3
  <2>2. Inherited(c, i, k, cell)
    BY <1>1, <1>3, <2>1 DEF BoundInv, Inherited
  <2>3. Inherited(c, i, k, cell)'
    BY <2>1, <2>2, InheritedKept
  <2>4. QED
    BY <1>1, <2>1, <2>3 DEF Inherited, Gave
<1>4. QED
  BY <1>1, <1>2, <1>3 DEF IsGiven, Gave

\* The executemany under way, of which the buffer has no row.
LEMMA ManyKept ==
  ASSUME ManyInv, many' \in {many, Idle},
         many' # Idle => Untouched(many.call),
         many' # Idle => \A row \in Elems(appender'.rows) : row.by[1] # many.call
  PROVE  ManyInv'
BY DEF ManyInv, Progress, Untouched, Stmt!Expected, Stmt!Params

\* The execute under way, of which the buffer has no row either.
LEMMA ExecKept ==
  ASSUME ExecInv, AsksKept, exec' \in {exec, Idle}, exec # Idle => exec.call \in DOMAIN asked,
         exec' # Idle => Untouched(exec.call),
         exec' # Idle => \A row \in Elems(appender'.rows) : row.by[1] # exec.call
  PROVE  ExecInv'
<1> SUFFICES ASSUME exec' # Idle
             PROVE  ExecInv'
  BY DEF ExecInv
<1>1. /\ exec' = exec /\ exec.call \in DOMAIN asked
      /\ Progress(exec.call, 0) /\ Untouched(exec.call)
      /\ asked[exec.call].result = "running" /\ DOMAIN asked[exec.call].rows = {1}
  BY DEF ExecInv
<1>2. Stands(exec.call, 1, exec.bound)
  BY <1>1 DEF ExecInv
<1>3. Stands(exec.call, 1, exec.bound)'
  <2>1. PICK c, cells : c \in DOMAIN asked /\ c = exec.call /\ cells = exec.bound
    BY <1>1
  <2>2. Stands(c, 1, cells)
    BY <1>2, <2>1
  <2>3. Stands(c, 1, cells)'
    BY <2>1, <2>2, StandsKept
  <2>4. QED
    BY <1>1, <2>1, <2>3 DEF Stands, Inherited, Gave
<1>4. Progress(exec.call, 0)'
  BY <1>1 DEF Progress, Untouched
<1>5. /\ asked'[exec'.call].result = "running" /\ DOMAIN asked'[exec'.call].rows = {1}
      /\ \A row \in Elems(appender'.rows) : row.by[1] # exec'.call
  BY <1>1 DEF Untouched
<1>6. QED
  BY <1>3, <1>4, <1>5 DEF ExecInv

\* All of it, where the step does nothing to the statement.
LEMMA StmtKept ==
  ASSUME StmtInv, JobTypes, AsksKept, UNCHANGED stmtVars,
         many # Idle => Untouched(many.call), exec # Idle => Untouched(exec.call),
         \A row \in Elems(appender'.rows) :
           /\ many # Idle => row.by[1] # many.call
           /\ exec # Idle => row.by[1] # exec.call
  PROVE  StmtInv'
<1>1. /\ stmt' = stmt /\ many' = many /\ exec' = exec
      /\ many # Idle => many.call \in DOMAIN asked
      /\ exec # Idle => exec.call \in DOMAIN asked
  BY DEF stmtVars, JobTypes
<1>2. QED
  BY <1>1, ManyKept, ExecKept, BoundKept DEF StmtInv

\* In particular where another call, c, is all that acts.
LEMMA StmtKeptBy ==
  ASSUME StmtInv, JobTypes, AsksKept, UNCHANGED stmtVars, NEW c,
         many # Idle => many.call # c, exec # Idle => exec.call # c,
         \A d \in DOMAIN asked : d # c => Untouched(d),
         \A row \in Elems(appender'.rows) : row \in Elems(appender.rows) \/ row.by[1] = c
  PROVE  StmtInv'
BY StmtKept DEF StmtInv, ManyInv, ExecInv, JobTypes

-----------------------------------------------------------------------------
(* What happens to the rows and the calls in a step, by kind of step.      *)

\* A call begins: it is a new one, without rows.
LEMMA CallBegins ==
  ASSUME Inv, Len(asked) < MaxCalls, NEW rows \in Seq(Given1), NEW result \in {"running", "raised"},
         asked' = Append(asked, [rows |-> rows, result |-> result]), Stored' = Stored
  PROVE  /\ AskedTypes' /\ RowsInv'
         /\ DOMAIN asked \subseteq DOMAIN asked' /\ Call \in DOMAIN asked' /\ Call \in Calls
         /\ asked'[Call] = [rows |-> rows, result |-> result]
         /\ \A c \in DOMAIN asked : c # Call /\ Untouched(c)
         /\ \A i \in Nat : <<Call, i>> \notin Bys(Stored')
         /\ AsksKept
<1>1. /\ asked' \in Seq(CallType) /\ Len(asked') = Len(asked) + 1
      /\ DOMAIN asked = 1 .. Len(asked) /\ DOMAIN asked' = 1 .. Len(asked) + 1
      /\ asked'[Call] = [rows |-> rows, result |-> result]
      /\ \A c \in DOMAIN asked : asked'[c] = asked[c]
      /\ Len(asked) \in Nat
  BY AsksOne, LenProperties DEF Inv, Types, AskedTypes, Results, Call
<1>2. /\ DOMAIN asked \subseteq DOMAIN asked' /\ Call \in DOMAIN asked' /\ Call \in Calls
      /\ \A c \in DOMAIN asked : c # Call
      /\ DOMAIN asked' = DOMAIN asked \cup {Call}
  BY <1>1, SizesArePositive DEF Call, Calls
<1>3. \A c \in DOMAIN asked : Untouched(c)
  BY <1>1 DEF Untouched
<1>4. \A i \in Nat : <<Call, i>> \notin Bys(Stored')
  BY <1>2, StoredRows DEF Inv, Types, RowsInv, Whole
<1>5. AsksKept /\ \A row \in Elems(Stored') : Whole(row)'
  <2>1. AsksKept
    BY <1>1, <1>2 DEF AsksKept
  <2>2. QED
    BY <2>1, WholeKept DEF Inv, RowsInv
<1>6. ASSUME NEW c, c = Call
      PROVE  CallInv(c)'
  <2>1. asked'[c].result # "ok"
    <3>1. asked'[c] = [rows |-> rows, result |-> result]
      BY <1>1, <1>6, Zenon
    <3>2. [rows |-> rows, result |-> result].result # "ok"
      OBVIOUS
    <3>3. QED
      BY <3>1, <3>2, Zenon
  <2>2. \A i \in Nat : <<c, i>> \notin Bys(Stored')
    BY <1>4, <1>6
  <2>3. QED
    BY <2>1, <2>2 DEF CallInv
<1>7. ASSUME NEW c \in DOMAIN asked'
      PROVE  CallInv(c)'
  BY <1>2, <1>3, <1>6, CallKept DEF Inv, RowsInv
<1>8. AskedTypes'
  BY <1>1, SizesArePositive DEF AskedTypes
<1>9. QED
  BY <1>1, <1>2, <1>3, <1>4, <1>5, <1>7, <1>8 DEF Inv, RowsInv

\* A call ends, in order only if all of its rows are stored.
LEMMA CallEnds ==
  ASSUME Inv, NEW c \in DOMAIN asked, NEW result \in Results,
         asked' = [asked EXCEPT ![c].result = result], Stored' = Stored,
         result = "ok" => \A i \in DOMAIN asked[c].rows : <<c, i>> \in Bys(Stored)
  PROVE  /\ AskedTypes' /\ RowsInv' /\ DOMAIN asked' = DOMAIN asked /\ AsksKept
         /\ \A d \in DOMAIN asked : d # c => Untouched(d)
<1>1. /\ asked' \in Seq(CallType) /\ Len(asked') = Len(asked)
      /\ DOMAIN asked' = DOMAIN asked
      /\ asked'[c].rows = asked[c].rows /\ asked'[c].result = result
      /\ \A d \in DOMAIN asked \ {c} : asked'[d] = asked[d]
  BY EndsOne DEF Inv, Types, AskedTypes
<1>2. \A d \in DOMAIN asked : d # c => Untouched(d)
  BY <1>1 DEF Untouched
<1>3. AsksKept /\ \A row \in Elems(Stored') : Whole(row)'
  <2>1. AsksKept
    BY <1>1 DEF AsksKept
  <2>2. QED
    BY <2>1, WholeKept DEF Inv, RowsInv
<1>4. CallInv(c)'
  BY <1>1 DEF CallInv, Inv, RowsInv
<1>5. \A d \in DOMAIN asked' : CallInv(d)'
  BY <1>1, <1>2, <1>4, CallKept DEF Inv, RowsInv
<1>6. AskedTypes'
  BY <1>1 DEF Inv, Types, AskedTypes
<1>7. QED
  BY <1>1, <1>2, <1>3, <1>5, <1>6 DEF Inv, RowsInv

\* Rows go to the end of the buffer.
LEMMA RowsToBuffer ==
  ASSUME AppenderTypes, Sorted(Stored), NEW new \in Seq(RowType), Sorted(new),
         \A a \in Bys(Stored), b \in Bys(new) : a[1] = b[1] => a[2] < b[2],
         table' = table, appender'.rows = appender.rows \o new
  PROVE  /\ appender'.rows \in Seq(RowType) /\ table' \in Seq(RowType)
         /\ Sorted(Stored')
         /\ Elems(Stored') = Elems(Stored) \cup Elems(new)
         /\ Bys(Stored') = Bys(Stored) \cup Bys(new)
<1>1. table \in Seq(RowType) /\ appender.rows \in Seq(RowType) /\ Stored \in Seq(RowType)
  BY StoredRows DEF AppenderTypes, AppenderType
<1>2. Stored' = Stored \o new
  <2>1. (table \o appender.rows) \o new = table \o (appender.rows \o new)
    <3>1. ASSUME NEW s \in Seq(RowType), NEW t \in Seq(RowType)
          PROVE  (s \o t) \o new = s \o (t \o new)
      BY ConcatAssociative
    <3>2. QED
      BY <1>1, <3>1, Zenon
  <2>2. QED
    BY <2>1, Zenon DEF Stored
<1>3. appender'.rows \in Seq(RowType)
  BY <1>1, ConcatElems
<1>4. QED
  BY <1>1, <1>2, <1>3, ConcatElems, SortedConcat

\* Rows go to the end of the table, before those in the buffer, which are not the same
\* call's.
LEMMA RowsToTable ==
  ASSUME AppenderTypes, Sorted(Stored), NEW new \in Seq(RowType), Sorted(new),
         \A a \in Bys(Stored), b \in Bys(new) : a[1] = b[1] => a[2] < b[2],
         \A a \in Bys(new), b \in Bys(appender.rows) : a[1] # b[1],
         table' = table \o new, appender'.rows = appender.rows
  PROVE  /\ appender'.rows \in Seq(RowType) /\ table' \in Seq(RowType)
         /\ Sorted(Stored')
         /\ Elems(Stored') = Elems(Stored) \cup Elems(new)
         /\ Bys(Stored') = Bys(Stored) \cup Bys(new)
<1>1. /\ table \in Seq(RowType) /\ appender.rows \in Seq(RowType)
      /\ Elems(Stored) = Elems(table) \cup Elems(appender.rows)
      /\ Bys(Stored) = Bys(table) \cup Bys(appender.rows)
  BY StoredRows DEF AppenderTypes, AppenderType
<1>2. /\ Sorted(table) /\ Sorted(appender.rows)
      /\ \A a \in Bys(table), b \in Bys(appender.rows) : a[1] = b[1] => a[2] < b[2]
  BY <1>1, SortedConcat DEF Stored
<1>3. PICK t \in Seq(RowType) : /\ t = table \o new /\ Sorted(t)
                                /\ Elems(t) = Elems(table) \cup Elems(new)
                                /\ Bys(t) = Bys(table) \cup Bys(new)
  BY <1>1, <1>2, ConcatElems, SortedConcat
<1>4. Stored' = t \o appender.rows
  BY <1>3 DEF Stored
<1>5. /\ Elems(Stored') = Elems(Stored) \cup Elems(new)
      /\ Bys(Stored') = Bys(Stored) \cup Bys(new)
  <2>1. /\ Elems(Stored') = Elems(t) \cup Elems(appender.rows)
        /\ Bys(Stored') = Bys(t) \cup Bys(appender.rows)
    BY <1>1, <1>3, <1>4, ConcatElems, Zenon
  <2>2. QED
    BY <1>1, <1>3, <2>1
<1>6. Sorted(t \o appender.rows)
  BY <1>1, <1>2, <1>3, SortedConcat
<1>7. QED
  BY <1>1, <1>3, <1>4, <1>5, <1>6

\* Call c, whose rows 1 .. lo are stored, stores the rows up to hi.
LEMMA RowsStored ==
  ASSUME Inv, NEW c \in DOMAIN asked', NEW lo \in Nat, NEW hi \in Nat, lo <= hi, NEW new,
         DOMAIN asked' = DOMAIN asked \cup {c},
         \A d \in DOMAIN asked : asked'[d].rows = asked[d].rows /\ (d # c => asked'[d] = asked[d]),
         \A i \in Nat : <<c, i>> \in Bys(Stored) => i <= lo,
         \A i \in 1 .. lo : <<c, i>> \in Bys(Stored),
         Sorted(Stored'), Elems(Stored') = Elems(Stored) \cup Elems(new),
         Bys(Stored') = Bys(Stored) \cup Bys(new),
         Bys(new) = {<<c, i>> : i \in lo + 1 .. hi},
         \A row \in Elems(new) : Whole(row)',
         asked'[c].result = "ok" => DOMAIN asked'[c].rows \subseteq 1 .. hi
  PROVE  /\ RowsInv' /\ AsksKept
         /\ \A d \in DOMAIN asked : d # c => Untouched(d)
         /\ \A i \in Nat : <<c, i>> \in Bys(Stored') => i <= hi
         /\ \A i \in 1 .. hi : <<c, i>> \in Bys(Stored')
<1>1. \A d \in DOMAIN asked : d # c => Untouched(d)
  BY DEF Untouched
<1>2. ASSUME NEW i \in Nat, <<c, i>> \in Bys(Stored')
      PROVE  i <= hi
  <2>1. CASE <<c, i>> \in Bys(Stored)
    BY <2>1
  <2>2. CASE <<c, i>> \in Bys(new)
    BY <2>2
  <2>3. QED
    BY <1>2, <2>1, <2>2
<1>3. ASSUME NEW i \in 1 .. hi
      PROVE  <<c, i>> \in Bys(Stored')
  <2>1. i \in 1 .. lo \/ i \in lo + 1 .. hi
    OBVIOUS
  <2>2. QED
    BY <2>1
<1>4. \A i \in Nat : <<c, i>> \in Bys(Stored') => \A h \in 1 .. i : <<c, h>> \in Bys(Stored')
  BY <1>2, <1>3
<1>5. CallInv(c)'
  BY <1>3, <1>4 DEF CallInv
<1>6. \A d \in DOMAIN asked' : CallInv(d)'
  BY <1>1, <1>5, CallKept DEF Inv, RowsInv
<1>7. AsksKept /\ \A row \in Elems(Stored) : Whole(row)'
  <2>1. AsksKept
    BY DEF AsksKept
  <2>2. QED
    BY <2>1, WholeKept DEF Inv, RowsInv
<1>8. QED
  BY <1>1, <1>2, <1>3, <1>6, <1>7 DEF RowsInv

\* The rows in the buffer go to the table.
LEMMA RowsFlushed ==
  ASSUME AppenderTypes, Flushed, appender'.rows = <<>>
  PROVE  Stored' = Stored /\ table' \in Seq(RowType)
BY ConcatElems, ConcatEmptySeq DEF AppenderTypes, AppenderType, Flushed, Stored

\* The rows in the buffer are discarded, and the calls they belong to are marked.  What
\* is left of such a call is its beginning, for its rows went to the table in order.
LEMMA RowsDiscarded ==
  ASSUME Inv, Discards, appender'.rows = <<>>
  PROVE  /\ AskedTypes' /\ RowsInv' /\ table' \in Seq(RowType)
         /\ DOMAIN asked' = DOMAIN asked /\ AsksKept
         /\ \A c \in DOMAIN asked :
              \/ Untouched(c)
              \/ /\ \E b \in Bys(appender.rows) : b[1] = c
                 /\ asked'[c].rows = asked[c].rows /\ asked'[c].result = "lost"
                 /\ \A i : <<c, i>> \in Bys(Stored') => <<c, i>> \in Bys(Stored)
<1>1. /\ table \in Seq(RowType) /\ appender.rows \in Seq(RowType)
      /\ asked \in Seq(CallType) /\ Len(asked) \in Nat /\ DOMAIN asked = 1 .. Len(asked)
      /\ Elems(Stored) = Elems(table) \cup Elems(appender.rows)
      /\ Bys(Stored) = Bys(table) \cup Bys(appender.rows)
      /\ \A b \in Bys(Stored) : b \in Calls \X Nat
  BY StoredRows, LenProperties DEF Inv, Types, AppenderTypes, AppenderType, AskedTypes
<1>2. Stored' = table /\ table' = table
  BY <1>1, ConcatEmptySeq DEF Discards, Stored
<1>3. /\ Sorted(table)
      /\ \A a \in Bys(table), b \in Bys(appender.rows) : a[1] = b[1] => a[2] < b[2]
  BY <1>1, SortedConcat DEF Stored, Inv, RowsInv
<1>4. DOMAIN asked' = DOMAIN asked
  BY DEF Discards
<1>5. ASSUME NEW c \in DOMAIN asked, \A b \in Bys(appender.rows) : b[1] # c
      PROVE  asked'[c] = asked[c] /\ Untouched(c)
  <2>1. ~ \E j \in DOMAIN appender.rows : appender.rows[j].by[1] = c
    BY <1>5 DEF Bys
  <2>2. asked'[c] = asked[c]
    BY <2>1 DEF Discards
  <2>3. \A i : <<c, i>> \notin Bys(appender.rows)
    BY <1>5
  <2>4. QED
    BY <1>1, <1>2, <2>2, <2>3 DEF Untouched
<1>6. ASSUME NEW c \in DOMAIN asked, NEW b \in Bys(appender.rows), b[1] = c
      PROVE  /\ asked'[c] = [asked[c] EXCEPT !.result = "lost"]
             /\ asked'[c] \in CallType
             /\ asked'[c].rows = asked[c].rows /\ asked'[c].result = "lost"
  <2>1. \E j \in DOMAIN appender.rows : appender.rows[j].by[1] = c
    BY <1>6 DEF Bys
  <2>2. asked'[c] = [asked[c] EXCEPT !.result = "lost"]
    BY <2>1 DEF Discards
  <2>3. asked[c] \in CallType
    BY <1>1, ElementOfSeq
  <2>4. QED
    BY <2>2, <2>3 DEF CallType, Results
<1>7. ASSUME NEW c \in DOMAIN asked
      PROVE  asked'[c] \in CallType /\ asked'[c].rows = asked[c].rows
  <2>1. asked[c] \in CallType
    BY <1>1, ElementOfSeq
  <2>2. CASE \A b \in Bys(appender.rows) : b[1] # c
    BY <1>5, <2>1, <2>2
  <2>3. CASE \E b \in Bys(appender.rows) : b[1] = c
    BY <1>6, <2>3
  <2>4. QED
    BY <2>2, <2>3
<1>8. AskedTypes'
  <2>1. PICK f : f = asked'
    OBVIOUS
  <2>2. f \in [1 .. Len(asked) -> CallType]
    BY <1>1, <1>7, <2>1 DEF Discards
  <2>3. f \in Seq(CallType) /\ Len(f) = Len(asked)
    BY <1>1, <2>2, SeqDef, LenProperties
  <2>4. QED
    BY <2>1, <2>3 DEF Inv, Types, AskedTypes
<1>9. ASSUME NEW c \in DOMAIN asked'
      PROVE  CallInv(c)'
  <2>1. CASE \A b \in Bys(appender.rows) : b[1] # c
    BY <1>4, <1>5, <2>1, CallKept DEF Inv, RowsInv
  <2>2. CASE \E b \in Bys(appender.rows) : b[1] = c
    <3>1. asked'[c].result = "lost"
      BY <1>4, <1>6, <2>2
    <3>2. ASSUME NEW i \in Nat, <<c, i>> \in Bys(table), NEW h \in 1 .. i
          PROVE  <<c, h>> \in Bys(table)
      <4>1. <<c, h>> \in Bys(Stored)
        BY <1>1, <1>4, <3>2 DEF Inv, RowsInv, CallInv
      <4>2. <<c, h>> \notin Bys(appender.rows)
        BY <1>3, <3>2
      <4>3. QED
        BY <1>1, <4>1, <4>2
    <3>3. QED
      BY <1>2, <3>1, <3>2 DEF CallInv
  <2>3. QED
    BY <2>1, <2>2
<1>10. AsksKept /\ \A row \in Elems(Stored') : Whole(row)'
  <2>1. AsksKept
    BY <1>4, <1>7 DEF AsksKept
  <2>2. QED
    BY <1>1, <1>2, <2>1, WholeKept DEF Inv, RowsInv
<1>11. QED
  BY <1>1, <1>2, <1>3, <1>4, <1>5, <1>6, <1>8, <1>9, <1>10 DEF RowsInv

-----------------------------------------------------------------------------
(* The steps of the appender.                                              *)

\* What a step of the appender alone does not touch.
LEMMA RestKept ==
  ASSUME Types, Keeps, UNCHANGED <<stmt, results>>
  PROVE  StmtTypes' /\ ShareTypes'
BY DEF Types, StmtTypes, ShareTypes, Keeps

\* append_row begins.
LEMMA AppendRowStep ==
  ASSUME Inv, append_row, Keeps, UNCHANGED <<stmtVars, results>>
  PROVE  Inv'
<1>1. /\ Call \in Calls /\ Given(Call, 1) \in Given1 /\ <<Given(Call, 1)>> \in Seq(Given1)
      /\ Stored' = Stored
  <2>1. Call \in Calls
    BY NextCall DEF Inv, Types, append_row, CanCall
  <2>2. Given(Call, 1) \in Given1
    BY <2>1, GivenTypes
  <2>3. QED
    BY <2>1, <2>2 DEF append_row, Stored
<1>2. /\ AskedTypes' /\ RowsInv'
      /\ DOMAIN asked \subseteq DOMAIN asked' /\ Call \in DOMAIN asked'
      /\ asked'[Call] = [rows |-> <<Given(Call, 1)>>, result |-> "running"]
      /\ \A c \in DOMAIN asked : c # Call /\ Untouched(c)
      /\ \A i \in Nat : <<Call, i>> \notin Bys(Stored')
      /\ AsksKept
  BY <1>1, CallBegins DEF append_row, CanCall, Asks
<1>3. Types'
  BY <1>1, <1>2, RestKept DEF Inv, Types, append_row, AppenderTypes, AppenderType, JobTypes, stmtVars
<1>4. Handles'
  BY DEF Inv, Handles, append_row, Keeps, stmtVars
<1>5. /\ job' = [kind |-> "row", call |-> Call, at |-> 0]
      /\ UNCHANGED <<appender, arrow, many, exec>>
  BY DEF append_row, stmtVars
<1>6. JobInv'
  BY <1>1, <1>2, <1>5, SizesArePositive DEF JobInv, RowJob, Progress, Inv, Types, AppenderTypes, AppenderType
<1>7. ArrowInv' /\ StmtInv'
  BY <1>2, <1>5, ArrowKept, StmtKeptBy DEF Inv, CallsInv, Types, JobTypes
<1>8. Apart'
  BY <1>2, <1>5 DEF Apart, Inv, CallsInv, Types, JobTypes
<1>9. QED
  BY <1>2, <1>3, <1>4, <1>6, <1>7, <1>8 DEF Inv, CallsInv

\* A cell goes behind the ones before it.
LEMMA AppendOneStep ==
  ASSUME Inv, append_one, Keeps, UNCHANGED <<stmtVars, results>>
  PROVE  Inv'
<1>1. /\ job # Idle /\ job.kind = "row" /\ job.call \in Calls /\ job.at \in Nat /\ job.at < NCols
      /\ job \in [kind : {"row"}, call : Calls, at : Nat]
      /\ NCols \in Nat /\ RowJob /\ asked[job.call].result = "running"
      /\ appender.part \in Seq(Cell) /\ Len(appender.part) \in Nat
  BY SizesArePositive, LenProperties
  DEF append_one, Running, Inv, CallsInv, JobInv, Types, JobTypes, AppenderTypes, AppenderType
<1>2. PICK cell \in Cell : cell = <<job.call, 1, job.at + 1>>
  <2>1. job.at + 1 \in 1 .. NCols
    BY <1>1
  <2>2. <<job.call, 1, job.at + 1>> \in Cell
    BY <1>1, <2>1 DEF Cell, Calls, Cols
  <2>3. QED
    BY <2>2
<1>3. PICK p \in Seq(Cell) : p = Append(appender.part, cell)
  BY <1>1, AppendProperties
<1>4. /\ appender'.part = Append(appender.part, cell) /\ appender'.rows = appender.rows
      /\ appender'.open = appender.open /\ appender'.closed = appender.closed
      /\ appender'.gone = appender.gone /\ appender'.aborted = appender.aborted
      /\ AppenderTypes'
  <2>1. appender' = [appender EXCEPT !.part = p]
    BY <1>2, <1>3 DEF append_one
  <2>2. /\ appender' \in AppenderType
        /\ appender'.part = p /\ appender'.rows = appender.rows
        /\ appender'.open = appender.open /\ appender'.closed = appender.closed
        /\ appender'.gone = appender.gone /\ appender'.aborted = appender.aborted
    BY <2>1 DEF Inv, Types, AppenderTypes, AppenderType
  <2>3. Len(p) <= NCols
    BY <1>1, <1>3, AppendProperties DEF append_one
  <2>4. QED
    BY <1>3, <2>2, <2>3 DEF append_one, Inv, Types, AppenderTypes
<1>5. /\ Len(appender'.part) = Len(appender.part) + 1
      /\ \A k \in 1 .. Len(appender.part) : appender'.part[k] = appender.part[k]
      /\ appender'.part[Len(appender.part) + 1] = cell
  BY <1>1, <1>2, <1>4, AppendProperties
<1>6. /\ job' = [job EXCEPT !.at = @ + 1] /\ job' \in [kind : {"row"}, call : Calls, at : Nat]
      /\ job'.kind = "row" /\ job'.call = job.call /\ job'.at = job.at + 1
  BY <1>1 DEF append_one
<1>7. Stored' = Stored /\ UNCHANGED <<table, asked, arrow, many, exec, stmt>>
  BY <1>4 DEF append_one, Stored, stmtVars
<1>8. Types'
  BY <1>1, <1>4, <1>6, <1>7, RestKept DEF Inv, Types, AskedTypes, JobTypes
<1>9. Handles'
  BY <1>1, <1>4, <1>6, <1>7 DEF Inv, Handles, Keeps, append_one
<1>10. RowsInv' /\ ArrowInv' /\ StmtInv' /\ Apart'
  <2>1. AsksKept /\ \A c : Untouched(c)
    BY <1>7 DEF Untouched, AsksKept
  <2>2. RowsInv'
    BY <1>7, <2>1, WholeKept DEF Inv, RowsInv, CallInv
  <2>3. ArrowInv' /\ StmtInv'
    BY <1>4, <1>7, <2>1, ArrowKept, StmtKept
    DEF Inv, CallsInv, StmtInv, ManyInv, ExecInv, Types
  <2>4. Apart'
    BY <1>1, <1>6, <1>7 DEF Inv, CallsInv, Apart
  <2>5. QED
    BY <2>2, <2>3, <2>4
<1>11. ASSUME NEW k \in 1 .. job.at + 1
       PROVE  appender'.part[Len(appender.part) + 1 - (job.at + 1) + k] = <<job.call, 1, k>>
  <2>1. CASE k <= job.at
    <3>1. /\ Len(appender.part) - job.at + k \in 1 .. Len(appender.part)
          /\ Len(appender.part) + 1 - (job.at + 1) + k = Len(appender.part) - job.at + k
      BY <1>1, <2>1 DEF RowJob
    <3>2. appender.part[Len(appender.part) - job.at + k] = <<job.call, 1, k>>
      BY <1>1, <2>1 DEF RowJob
    <3>3. QED
      BY <1>5, <3>1, <3>2
  <2>2. CASE k = job.at + 1
    <3>1. Len(appender.part) + 1 - (job.at + 1) + k = Len(appender.part) + 1
      BY <1>1, <2>2
    <3>2. QED
      BY <1>2, <1>5, <2>2, <3>1
  <2>3. QED
    BY <1>1, <2>1, <2>2
<1>12. JobInv'
  <2>1. RowJob'
    <3>1. job'.at <= NCols /\ job'.at <= Len(appender'.part)
      BY <1>1, <1>5, <1>6 DEF RowJob
    <3>2. ASSUME NEW k \in 1 .. job'.at
          PROVE  appender'.part[Len(appender'.part) - job'.at + k] = <<job'.call, 1, k>>
      <4>1. k \in 1 .. job.at + 1
        BY <1>6
      <4>2. appender'.part[Len(appender.part) + 1 - (job.at + 1) + k] = <<job.call, 1, k>>
        BY <1>11, <4>1
      <4>3. Len(appender'.part) - job'.at + k = Len(appender.part) + 1 - (job.at + 1) + k
        BY <1>5, <1>6
      <4>4. QED
        BY <1>6, <4>2, <4>3, Zenon
    <3>3. Progress(job.call, 0)' /\ asked'[job'.call].rows = <<Given(job'.call, 1)>>
      BY <1>1, <1>6, <1>7 DEF RowJob, Progress
    <3>4. QED
      BY <1>6, <3>1, <3>2, <3>3 DEF RowJob
  <2>2. QED
    BY <1>1, <1>6, <1>7, <2>1 DEF JobInv
<1>13. QED
  BY <1>8, <1>9, <1>10, <1>12 DEF Inv, CallsInv

\* A call of the appender ends without a row: whatever it is, it is not under way then.
LEMMA JobEndsStep ==
  ASSUME Inv, job # Idle, NEW result \in {"ok", "raised"}, Ends(job.call, result), job' = Idle,
         UNCHANGED <<appender, table, arrow, stmtVars, results>>, Keeps,
         result = "ok" => \A i \in DOMAIN asked[job.call].rows : <<job.call, i>> \in Bys(Stored)
  PROVE  Inv'
<1>1. job.call \in DOMAIN asked /\ asked[job.call].result = "running"
  BY DEF Inv, Types, JobTypes, CallsInv, JobInv
<1>2. asked' = [asked EXCEPT ![job.call].result = result]
  BY <1>1 DEF Ends
<1>3. Stored' = Stored
  BY DEF Stored
<1>4. /\ AskedTypes' /\ RowsInv' /\ DOMAIN asked' = DOMAIN asked /\ AsksKept
      /\ \A d \in DOMAIN asked : d # job.call => Untouched(d)
  BY <1>1, <1>2, <1>3, CallEnds DEF Results
<1>5. Types'
  BY <1>4, RestKept DEF Inv, Types, AppenderTypes, AppenderType, JobTypes, stmtVars
<1>6. Handles'
  BY DEF Inv, Handles, Keeps, stmtVars
<1>7. ArrowInv' /\ StmtInv'
  BY <1>4, ArrowKept, StmtKeptBy DEF Inv, CallsInv, Types, JobTypes, Apart
<1>8. JobInv' /\ Apart'
  BY DEF JobInv, Apart, Inv, CallsInv, stmtVars
<1>9. QED
  BY <1>4, <1>5, <1>6, <1>7, <1>8 DEF Inv, CallsInv

\* A row goes to the buffer once it is complete, and then it is all of its call's cells:
\* with cells of an earlier call in front it would be too long.
LEMMA EndRowStep ==
  ASSUME Inv, end_row, Keeps, UNCHANGED <<stmtVars, results>>
  PROVE  Inv'
<1>1. /\ job # Idle /\ job.kind = "row" /\ job.call \in Calls /\ job.at = NCols
      /\ NCols \in Nat /\ RowJob /\ asked[job.call].result = "running"
      /\ job.call \in DOMAIN asked
      /\ appender.part \in Seq(Cell) /\ Len(appender.part) = NCols
  BY SizesArePositive
  DEF end_row, Running, Inv, CallsInv, JobInv, Types, JobTypes, AppenderTypes, AppenderType
<1>2. \A k \in Cols : appender.part[k] = <<job.call, 1, k>>
  BY <1>1 DEF RowJob, Cols
<1>3. PICK row : row = [by |-> <<job.call, 1>>, cells |-> appender.part]
  OBVIOUS
<1>4. appender.part \in [Cols -> Cell]
  BY <1>1, LenProperties DEF Cols
<1>5. row \in RowType /\ row.by = <<job.call, 1>> /\ row.cells = appender.part
  BY <1>1, <1>3, <1>4 DEF RowType
<1>6. PICK rows \in Seq(RowType) : rows = Append(appender.rows, row) /\ rows = appender.rows \o <<row>>
  <2>1. appender.rows \in Seq(RowType)
    BY DEF Inv, Types, AppenderTypes, AppenderType
  <2>2. Append(appender.rows, row) \in Seq(RowType)
    BY <1>5, <2>1, AppendProperties
  <2>3. Append(appender.rows, row) = appender.rows \o <<row>>
    BY <1>5, <2>1, OneRow
  <2>4. QED
    BY <2>2, <2>3, Zenon
<1>7. appender' = [appender EXCEPT !.rows = rows, !.part = <<>>]
  BY <1>3, <1>6 DEF end_row, Row
<1>8. /\ appender'.rows = rows /\ appender'.part = <<>>
      /\ appender'.open = appender.open /\ appender'.closed = appender.closed
      /\ appender'.gone = appender.gone /\ appender'.aborted = appender.aborted
      /\ appender' \in AppenderType
  <2>1. PICK p \in Seq(Cell) : p = <<>>
    BY EmptySeq
  <2>2. appender \in AppenderType
    BY DEF Inv, Types, AppenderTypes
  <2>3. appender' = [appender EXCEPT !.rows = rows, !.part = p]
    BY <1>7, <2>1
  <2>4. QED
    BY <2>1, <2>2, <2>3 DEF AppenderType
<1>9. AppenderTypes'
  BY <1>1, <1>8 DEF end_row, Inv, Types, AppenderTypes
<1>10. /\ AskedTypes' /\ DOMAIN asked' = DOMAIN asked
       /\ asked'[job.call].rows = asked[job.call].rows
       /\ asked'[job.call].rows = <<Given(job.call, 1)>> /\ AsksKept
       /\ \A d \in DOMAIN asked \ {job.call} : asked'[d] = asked[d]
  <2>1. asked' = [asked EXCEPT ![job.call].result = "ok"]
    BY <1>1 DEF end_row, Ends
  <2>2. asked \in Seq(CallType) /\ Len(asked) <= MaxCalls
    BY DEF Inv, Types, AskedTypes
  <2>3. /\ asked' \in Seq(CallType) /\ Len(asked') = Len(asked) /\ DOMAIN asked' = DOMAIN asked
        /\ asked'[job.call].rows = asked[job.call].rows
        /\ \A d \in DOMAIN asked \ {job.call} : asked'[d] = asked[d]
    BY <1>1, <2>1, <2>2, EndsOne DEF Results
  <2>4. QED
    BY <1>1, <2>2, <2>3 DEF AskedTypes, RowJob, AsksKept
<1>11. /\ <<row>> \in Seq(RowType) /\ Sorted(<<row>>) /\ Elems(<<row>>) = {row}
       /\ Bys(<<row>>) = {<<job.call, 1>>}
  BY <1>5, OneRow
<1>12. \A i \in Nat : <<job.call, i>> \in Bys(Stored) => i <= 0
  BY <1>1 DEF RowJob, Progress
<1>13. \A a \in Bys(Stored), b \in Bys(<<row>>) : a[1] = b[1] => a[2] < b[2]
  BY <1>11, <1>12, StoredRows DEF Inv, Types
<1>14. /\ Sorted(Stored')
       /\ Elems(Stored') = Elems(Stored) \cup Elems(<<row>>)
       /\ Bys(Stored') = Bys(Stored) \cup Bys(<<row>>)
  BY <1>6, <1>8, <1>11, <1>13, RowsToBuffer DEF Inv, Types, RowsInv, end_row
<1>15. Whole(row)'
  <2>1. \A k \in Cols : Given(job.call, 1)[k] = appender.part[k]
    BY <1>2 DEF Given
  <2>2. 1 \in DOMAIN asked'[job.call].rows /\ asked'[job.call].rows[1] = Given(job.call, 1)
    BY <1>10
  <2>3. \A k \in Cols : appender.part[k] # Before
    BY <1>4, NoBefore
  <2>4. QED
    BY <1>1, <1>5, <1>10, <2>1, <2>2, <2>3 DEF Whole, Stands
<1>16. RowsInv' /\ \A d \in DOMAIN asked : d # job.call => Untouched(d)
  <2>1. Bys(<<row>>) = {<<job.call, i>> : i \in 0 + 1 .. 1}
    BY <1>11
  <2>2. DOMAIN asked'[job.call].rows \subseteq 1 .. 1
    BY <1>10
  <2>3. \A d \in DOMAIN asked : asked'[d].rows = asked[d].rows
    BY <1>10
  <2>4. \A r \in Elems(<<row>>) : Whole(r)'
    BY <1>11, <1>15
  <2>5. job.call \in DOMAIN asked' /\ DOMAIN asked' = DOMAIN asked \cup {job.call}
    BY <1>1, <1>10
  <2>6. 0 \in Nat /\ 1 \in Nat /\ 0 <= 1 /\ \A i \in 1 .. 0 : <<job.call, i>> \in Bys(Stored)
    OBVIOUS
  <2>7. PICK new : new = <<row>>
    OBVIOUS
  <2>8. PICK c : c = job.call
    OBVIOUS
  <2>9. PICK lo \in Nat : lo = 0
    OBVIOUS
  <2>10. PICK hi \in Nat : hi = 1
    OBVIOUS
  <2>11. new = <<row>> /\ c = job.call /\ lo = 0 /\ hi = 1
    BY <2>7, <2>8, <2>9, <2>10
  <2>12. /\ c \in DOMAIN asked' /\ DOMAIN asked' = DOMAIN asked \cup {c} /\ lo <= hi
         /\ \A d \in DOMAIN asked : asked'[d].rows = asked[d].rows /\ (d # c => asked'[d] = asked[d])
         /\ \A i \in Nat : <<c, i>> \in Bys(Stored) => i <= lo
         /\ \A i \in 1 .. lo : <<c, i>> \in Bys(Stored)
    BY <1>10, <1>12, <2>3, <2>5, <2>6, <2>11
  <2>13. /\ Sorted(Stored') /\ Elems(Stored') = Elems(Stored) \cup Elems(new)
         /\ Bys(Stored') = Bys(Stored) \cup Bys(new)
         /\ Bys(new) = {<<c, i>> : i \in lo + 1 .. hi}
         /\ \A r \in Elems(new) : Whole(r)'
    BY <1>14, <2>1, <2>4, <2>11
  <2>14. asked'[c].result = "ok" => DOMAIN asked'[c].rows \subseteq 1 .. hi
    BY <2>2, <2>11
  <2>15. RowsInv' /\ \A d \in DOMAIN asked : d # c => Untouched(d)
    BY <2>12, <2>13, <2>14, RowsStored
  <2>16. QED
    BY <2>11, <2>15
<1>17. job' = Idle /\ UNCHANGED <<table, arrow, many, exec, stmt>>
  BY DEF end_row, stmtVars
<1>18. Types'
  BY <1>9, <1>10, <1>17, RestKept DEF Inv, Types, JobTypes
<1>19. Handles'
  BY <1>1, <1>8, <1>17 DEF Inv, Handles, Keeps
<1>20. ArrowInv'
  BY <1>8, <1>16, <1>17, <1>1, ArrowKept DEF Inv, CallsInv, Types, JobTypes, Apart
<1>21. StmtInv'
  <2>1. Elems(appender'.rows) = Elems(appender.rows) \cup {row}
    <3>1. appender.rows \in Seq(RowType)
      BY DEF Inv, Types, AppenderTypes, AppenderType
    <3>2. Elems(appender.rows \o <<row>>) = Elems(appender.rows) \cup Elems(<<row>>)
      BY <1>11, <3>1, ConcatElems
    <3>3. QED
      BY <1>6, <1>8, <1>11, <3>2, Zenon
  <2>2. /\ many # Idle => many.call # job.call
        /\ exec # Idle => exec.call # job.call
    BY <1>1 DEF Inv, CallsInv, Apart
  <2>3. \A r \in Elems(appender'.rows) : r \in Elems(appender.rows) \/ r.by[1] = job.call
    BY <1>5, <2>1
  <2>4. QED
    BY <1>10, <1>16, <2>2, <2>3, StmtKeptBy DEF Inv, CallsInv, Types
<1>22. JobInv' /\ Apart'
  BY <1>17 DEF JobInv, Apart, Inv, CallsInv
<1>23. QED
  BY <1>16, <1>18, <1>19, <1>20, <1>21, <1>22 DEF Inv, CallsInv

\* Rows lo + 1 .. hi of a call, in order.
LEMMA RunOfRows ==
  ASSUME NEW c \in Calls, NEW lo \in Nat, NEW hi \in Nat, lo <= hi, NEW new \in Seq(RowType),
         DOMAIN new = 1 .. hi - lo, \A r \in 1 .. hi - lo : new[r].by = <<c, lo + r>>
  PROVE  Sorted(new) /\ Bys(new) = {<<c, i>> : i \in lo + 1 .. hi}
<1>1. Sorted(new)
  BY DEF Sorted
<1>2. \A r \in 1 .. hi - lo : lo + r \in lo + 1 .. hi
  OBVIOUS
<1>3. ASSUME NEW i \in lo + 1 .. hi
      PROVE  <<c, i>> \in Bys(new)
  <2>1. i - lo \in 1 .. hi - lo /\ lo + (i - lo) = i
    OBVIOUS
  <2>2. QED
    BY <2>1 DEF Bys
<1>4. Bys(new) \subseteq {<<c, i>> : i \in lo + 1 .. hi}
  BY <1>2 DEF Bys
<1>5. QED
  BY <1>1, <1>3, <1>4

\* The open appender buffers rows lo + 1 .. hi of call c, and nothing else happens to
\* the calls.
LEMMA RowsBuffered ==
  ASSUME Inv, NEW c \in DOMAIN asked, NEW lo \in Nat, NEW hi \in Nat, lo <= hi,
         NEW new \in Seq(RowType), DOMAIN new = 1 .. hi - lo,
         \A r \in 1 .. hi - lo : new[r].by = <<c, lo + r>> /\ Whole(new[r]),
         \A i \in Nat : <<c, i>> \in Bys(Stored) => i <= lo,
         \A i \in 1 .. lo : <<c, i>> \in Bys(Stored),
         asked[c].result # "ok", UNCHANGED <<asked, table>>,
         appender' = [appender EXCEPT !.rows = @ \o new]
  PROVE  /\ AppenderTypes' /\ RowsInv' /\ AsksKept
         /\ appender'.part = appender.part /\ appender'.open = appender.open
         /\ appender'.closed = appender.closed /\ appender'.gone = appender.gone
         /\ appender'.aborted = appender.aborted
         /\ \A row \in Elems(appender'.rows) : row \in Elems(appender.rows) \/ row.by[1] = c
         /\ \A d \in DOMAIN asked : d # c => Untouched(d)
         /\ \A i \in Nat : <<c, i>> \in Bys(Stored') => i <= hi
         /\ \A i \in 1 .. hi : <<c, i>> \in Bys(Stored')
<1>1. /\ appender \in AppenderType /\ appender.rows \in Seq(RowType) /\ AppenderTypes
      /\ c \in Calls
  BY LenProperties, SizesArePositive
  DEF Inv, Types, AppenderTypes, AppenderType, AskedTypes, Calls
<1>2. PICK rows \in Seq(RowType) :
        rows = appender.rows \o new /\ Elems(rows) = Elems(appender.rows) \cup Elems(new)
  BY <1>1, ConcatElems
<1>3. appender' = [appender EXCEPT !.rows = rows]
  BY <1>2
<1>4. /\ appender' \in AppenderType /\ appender'.rows = rows
      /\ appender'.part = appender.part /\ appender'.open = appender.open
      /\ appender'.closed = appender.closed /\ appender'.gone = appender.gone
      /\ appender'.aborted = appender.aborted
  BY <1>1, <1>3 DEF AppenderType
<1>5. AppenderTypes'
  BY <1>1, <1>4 DEF AppenderTypes
<1>6. Sorted(new) /\ Bys(new) = {<<c, i>> : i \in lo + 1 .. hi}
  BY <1>1, RunOfRows
<1>7. \A a \in Bys(Stored), b \in Bys(new) : a[1] = b[1] => a[2] < b[2]
  <2>1. ASSUME NEW a \in Bys(Stored), NEW b \in Bys(new), a[1] = b[1]
        PROVE  a[2] < b[2]
    <3>1. PICK i \in lo + 1 .. hi : b = <<c, i>>
      BY <1>6
    <3>2. a \in Calls \X Nat
      BY <1>1, StoredRows
    <3>3. a = <<c, a[2]>> /\ a[2] \in Nat
      BY <2>1, <3>1, <3>2
    <3>4. a[2] <= lo
      BY <3>3
    <3>5. QED
      BY <3>1, <3>3, <3>4
  <2>2. QED
    BY <2>1
<1>8. /\ Sorted(Stored')
      /\ Elems(Stored') = Elems(Stored) \cup Elems(new)
      /\ Bys(Stored') = Bys(Stored) \cup Bys(new)
  BY <1>1, <1>2, <1>4, <1>6, <1>7, RowsToBuffer DEF Inv, RowsInv
<1>9. \A row \in Elems(new) : row.by[1] = c /\ Whole(row)'
  <2>1. \A row \in Elems(new) : row.by[1] = c /\ Whole(row)
    BY DEF Elems
  <2>2. QED
    BY <2>1, WholeKept DEF AsksKept
<1>10. /\ RowsInv' /\ AsksKept
       /\ \A d \in DOMAIN asked : d # c => Untouched(d)
       /\ \A i \in Nat : <<c, i>> \in Bys(Stored') => i <= hi
       /\ \A i \in 1 .. hi : <<c, i>> \in Bys(Stored')
  <2>1. /\ c \in DOMAIN asked' /\ DOMAIN asked' = DOMAIN asked \cup {c}
        /\ \A d \in DOMAIN asked : asked'[d].rows = asked[d].rows /\ (d # c => asked'[d] = asked[d])
        /\ asked'[c].result # "ok"
        /\ \A row \in Elems(new) : Whole(row)'
    BY <1>9
  <2>2. QED
    BY <1>6, <1>8, <2>1, RowsStored
<1>11. QED
  BY <1>2, <1>4, <1>5, <1>9, <1>10

\* append_columns begins.
LEMMA ColumnsStep ==
  ASSUME Inv, NEW m \in Masks, NEW n \in Lengths, append_columns(m, n), Keeps,
         UNCHANGED <<stmtVars, results>>
  PROVE  Inv'
<1>1. n \in Nat /\ Call \in Calls
  BY RowsAreOfTheTable, NextCall DEF Inv, Types, append_columns, CanCall
<1>2. PICK rows \in Seq(Given1) : rows = [i \in 1 .. n |-> Expected(m, Call, i)]
  <2>1. \A i \in 1 .. n : Expected(m, Call, i) \in Given1
    BY <1>1, GivenTypes
  <2>2. [i \in 1 .. n |-> Expected(m, Call, i)] \in Seq(Given1)
    BY <1>1, <2>1
  <2>3. QED
    BY <2>2
<1>3. Stored' = Stored
  BY DEF append_columns, Stored
<1>4. /\ AskedTypes' /\ RowsInv'
      /\ DOMAIN asked \subseteq DOMAIN asked' /\ Call \in DOMAIN asked'
      /\ asked'[Call] = [rows |-> rows, result |-> "running"]
      /\ \A c \in DOMAIN asked : c # Call /\ Untouched(c)
      /\ \A i \in Nat : <<Call, i>> \notin Bys(Stored')
      /\ AsksKept
  <2>1. asked' = Append(asked, [rows |-> rows, result |-> "running"])
    BY <1>2 DEF append_columns, Asks
  <2>2. Len(asked) < MaxCalls
    BY DEF append_columns, CanCall
  <2>3. QED
    BY <1>3, <2>1, <2>2, CallBegins
<1>5. PICK c \in Calls : c = Call
  BY <1>1
<1>6. /\ job' \in [kind : {"columns"}, call : Calls, at : Nat, n : Nat, given : Masks]
      /\ job'.kind = "columns" /\ job'.call = c /\ job'.at = 0 /\ job'.n = n /\ job'.given = m
      /\ UNCHANGED <<appender, arrow, many, exec>>
  BY <1>1, <1>5 DEF append_columns, stmtVars
<1>7. Types'
  BY <1>4, <1>5, <1>6, RestKept DEF Inv, Types, append_columns, AppenderTypes, JobTypes, stmtVars
<1>8. Handles'
  BY DEF Inv, Handles, append_columns, Keeps, stmtVars
<1>9. JobInv'
  <2>1. asked'[c].rows = [i \in 1 .. n |-> Expected(m, c, i)] /\ asked'[c].result = "running"
    BY <1>2, <1>4, <1>5
  <2>2. ColumnsJob'
    <3>1. \A i \in Nat : <<c, i>> \notin Bys(Stored')
      BY <1>4, <1>5
    <3>2. Progress(c, 0)'
      BY <1>1, <2>1, <3>1 DEF Progress
    <3>3. QED
      BY <1>6, <2>1, <3>2 DEF ColumnsJob, Expected
  <2>3. QED
    BY <1>6, <2>1, <2>2 DEF JobInv
<1>10. ArrowInv' /\ StmtInv'
  BY <1>4, <1>6, ArrowKept, StmtKeptBy DEF Inv, CallsInv, Types, JobTypes
<1>11. Apart'
  BY <1>4, <1>5, <1>6 DEF Apart, Inv, CallsInv, Types, JobTypes
<1>12. QED
  BY <1>4, <1>7, <1>8, <1>9, <1>10, <1>11 DEF Inv, CallsInv

\* append_arrow begins.
LEMMA ArrowStep ==
  ASSUME Inv, NEW n \in Streams, append_arrow(n), Keeps, UNCHANGED <<stmtVars, results>>
  PROVE  Inv'
<1>1. n \in Nat /\ Call \in Calls
  BY RowsAreOfTheTable, NextCall DEF Inv, Types, append_arrow, CanCall
<1>2. PICK rows \in Seq(Given1) : rows = [i \in 1 .. n |-> Given(Call, i)]
  <2>1. \A i \in 1 .. n : Given(Call, i) \in Given1
    BY <1>1, GivenTypes
  <2>2. [i \in 1 .. n |-> Given(Call, i)] \in Seq(Given1)
    BY <1>1, <2>1
  <2>3. QED
    BY <2>2
<1>3. Stored' = Stored
  BY DEF append_arrow, Stored
<1>4. /\ AskedTypes' /\ RowsInv'
      /\ DOMAIN asked \subseteq DOMAIN asked' /\ Call \in DOMAIN asked'
      /\ asked'[Call] = [rows |-> rows, result |-> "running"]
      /\ \A c \in DOMAIN asked : c # Call /\ Untouched(c)
      /\ \A i \in Nat : <<Call, i>> \notin Bys(Stored')
      /\ AsksKept
  <2>1. asked' = Append(asked, [rows |-> rows, result |-> "running"])
    BY <1>2 DEF append_arrow, Asks
  <2>2. Len(asked) < MaxCalls
    BY DEF append_arrow, CanCall
  <2>3. QED
    BY <1>3, <2>1, <2>2, CallBegins
<1>5. PICK c \in Calls : c = Call
  BY <1>1
<1>6. /\ arrow' \in [call : Calls, at : Nat, n : Nat]
      /\ arrow'.call = c /\ arrow'.at = 0 /\ arrow'.n = n
      /\ UNCHANGED <<appender, job, many, exec>>
  BY <1>1, <1>5 DEF append_arrow, stmtVars
<1>7. Types'
  BY <1>4, <1>5, <1>6, RestKept DEF Inv, Types, append_arrow, AppenderTypes, JobTypes, stmtVars
<1>8. Handles'
  BY DEF Inv, Handles, append_arrow, Keeps, stmtVars
<1>9. ArrowInv'
  <2>1. asked'[c].rows = [i \in 1 .. n |-> Given(c, i)] /\ asked'[c].result = "running"
    BY <1>2, <1>4, <1>5
  <2>2. \A i \in Nat : <<c, i>> \notin Bys(Stored')
    BY <1>4, <1>5
  <2>3. Progress(c, 0)'
    BY <1>1, <2>1, <2>2 DEF Progress
  <2>4. QED
    BY <1>1, <1>6, <2>1, <2>3 DEF ArrowInv, Given
<1>10. JobInv' /\ StmtInv'
  BY <1>4, <1>6, JobKept, StmtKeptBy DEF Inv, CallsInv, Types, JobTypes
<1>11. Apart'
  BY <1>4, <1>5, <1>6 DEF Apart, Inv, CallsInv, Types, JobTypes
<1>12. QED
  BY <1>4, <1>7, <1>8, <1>9, <1>10, <1>11 DEF Inv, CallsInv

\* append_columns writes for each cell what its caller may expect of it.
LEMMA CopiedAsExpected ==
  ASSUME JobTypes, job # Idle, job.kind = "columns", NEW i \in Nat, NEW k \in Cols
  PROVE  /\ Copied(i, k) \in Cell \cup {Null, Unwritten}
         /\ Expected(job.given, job.call, i)[k] = Copied(i, k)
<1>1. job.call \in Calls /\ <<job.call, i, k>> \in Cell
  BY DEF JobTypes, Cell, Calls
<1>2. PICK m : m = job.given
  OBVIOUS
<1>3. PICK cell \in Cell : cell = <<job.call, i, k>>
  BY <1>1
<1>4. Copied(i, k) = IF ~(IF k \in m.masked THEN i # m.null ELSE k \in m.present)
                     THEN Null ELSE IF k \in m.present THEN cell ELSE Unwritten
  BY <1>2, <1>3 DEF Copied
<1>5. Expected(job.given, job.call, i)[k] =
        IF k \in m.present THEN IF k \in m.masked /\ i = m.null THEN Null ELSE cell
        ELSE IF k \in m.masked /\ i # m.null THEN Unwritten ELSE Null
  BY <1>2, <1>3 DEF Expected
<1>6. QED
  BY <1>3, <1>4, <1>5

\* A chunk goes to the buffer.
LEMMA AppendChunkStep ==
  ASSUME Inv, append_chunk, Keeps, UNCHANGED <<stmtVars, results>>
  PROVE  Inv'
<1>1. /\ job # Idle /\ job.kind = "columns" /\ job.call \in DOMAIN asked
      /\ job \in [kind : {"columns"}, call : Calls, at : Nat, n : Nat, given : Masks]
      /\ job.at < job.n /\ ColumnsJob /\ asked[job.call].result = "running"
      /\ UNCHANGED <<table, asked, arrow>> /\ appender.open
  BY DEF append_chunk, Running, Inv, CallsInv, JobInv, Types, JobTypes, Handles
<1>2. PICK c \in Calls, at \in Nat, n \in Nat : job.call = c /\ job.at = at /\ job.n = n
  BY <1>1
<1>3. PICK t \in Nat : t = ThisN /\ t <= n - at /\ t <= VecSize /\ (t = n - at \/ t = VecSize)
  BY <1>1, <1>2, SizesArePositive DEF ThisN
<1>4. PICK hi \in Nat : hi = at + t
  BY <1>2, <1>3
<1>5. PICK new : new = Chunk
  OBVIOUS
<1>6. ASSUME NEW r \in 1 .. t
      PROVE  new[r] \in RowType /\ new[r].by = <<c, at + r>> /\ Whole(new[r])
  <2>1. PICK i \in Nat : i = at + r /\ i \in 1 .. n
    BY <1>2, <1>3
  <2>2. PICK cells : cells = [k \in Cols |-> Copied(i, k)]
    OBVIOUS
  <2>3. \A k \in Cols : /\ cells[k] \in Cell \cup {Null, Unwritten}
                        /\ Expected(job.given, c, i)[k] = cells[k] /\ cells[k] # Before
    BY <1>1, <1>2, <2>2, CopiedAsExpected, NoBefore DEF Inv, Types
  <2>4. cells \in [Cols -> Cell \cup {Null, Unwritten}]
    BY <2>2, <2>3
  <2>5. new[r] = [by |-> <<c, i>>, cells |-> cells]
    BY <1>2, <1>3, <1>5, <2>1, <2>2 DEF Chunk, Row
  <2>6. new[r] \in RowType
    BY <2>4, <2>5 DEF RowType
  <2>7. asked[c].rows = [h \in 1 .. n |-> Expected(job.given, c, h)]
    BY <1>1, <1>2 DEF ColumnsJob
  <2>8. i \in DOMAIN asked[c].rows /\ asked[c].rows[i] = Expected(job.given, c, i)
    BY <2>1, <2>7
  <2>9. Whole(new[r])
    BY <1>1, <1>2, <2>3, <2>5, <2>8 DEF Whole, Stands
  <2>10. QED
    BY <2>1, <2>5, <2>6, <2>9
<1>7. new \in Seq(RowType) /\ DOMAIN new = 1 .. t
  <2>1. DOMAIN new = 1 .. t /\ new = [r \in 1 .. t |-> new[r]]
    BY <1>3, <1>5 DEF Chunk
  <2>2. QED
    BY <1>3, <1>6, <2>1
<1>8. /\ \A i \in Nat : <<c, i>> \in Bys(Stored) => i <= at
      /\ \A i \in 1 .. at : <<c, i>> \in Bys(Stored)
  <2>1. Progress(c, at)
    BY <1>1, <1>2 DEF ColumnsJob
  <2>2. DOMAIN asked[c].rows = 1 .. n
    BY <1>1, <1>2 DEF ColumnsJob
  <2>3. \A i \in 1 .. at : i \in 1 .. n /\ i <= at
    BY <1>1, <1>2
  <2>4. QED
    BY <1>1, <1>2, <2>1, <2>2, <2>3 DEF Progress
<1>9. /\ AppenderTypes' /\ RowsInv' /\ AsksKept
      /\ appender'.part = appender.part /\ appender'.open = appender.open
      /\ appender'.closed = appender.closed /\ appender'.gone = appender.gone
      /\ appender'.aborted = appender.aborted
      /\ \A row \in Elems(appender'.rows) : row \in Elems(appender.rows) \/ row.by[1] = c
      /\ \A d \in DOMAIN asked : d # c => Untouched(d)
      /\ \A i \in Nat : <<c, i>> \in Bys(Stored') => i <= hi
      /\ \A i \in 1 .. hi : <<c, i>> \in Bys(Stored')
  <2>1. appender' = [appender EXCEPT !.rows = @ \o new]
    BY <1>5 DEF append_chunk, Buffers
  <2>2. at <= hi /\ hi - at = t
    BY <1>2, <1>3, <1>4
  <2>3. QED
    BY <1>1, <1>2, <1>6, <1>7, <1>8, <2>1, <2>2, RowsBuffered, ZenonT(60)
<1>10. /\ job' \in [kind : {"columns"}, call : Calls, at : Nat, n : Nat, given : Masks]
       /\ job'.kind = "columns" /\ job'.call = c /\ job'.at = at + VecSize /\ job'.n = n
       /\ job'.given = job.given
  <2>1. PICK to \in Nat : to = at + VecSize
    BY <1>2, SizesArePositive
  <2>2. job' = [job EXCEPT !.at = to]
    BY <1>2, <2>1 DEF append_chunk
  <2>3. QED
    BY <1>1, <1>2, <2>1, <2>2
<1>11. Types'
  BY <1>1, <1>2, <1>9, <1>10, RestKept DEF Inv, Types, AskedTypes, JobTypes, stmtVars
<1>12. Handles'
  BY <1>1, <1>9 DEF Inv, Handles, Keeps, stmtVars
<1>13. JobInv'
  <2>1. DOMAIN asked[c].rows = 1 .. n
    BY <1>1, <1>2 DEF ColumnsJob
  <2>2. ASSUME NEW i \in 1 .. n, i <= at + VecSize
        PROVE  <<c, i>> \in Bys(Stored')
    <3>1. i \in 1 .. hi
      BY <1>2, <1>3, <1>4, <2>2, SizesArePositive
    <3>2. QED
      BY <1>9, <3>1
  <2>3. ASSUME NEW i \in Nat, <<c, i>> \in Bys(Stored')
        PROVE  i <= at + VecSize
    <3>1. i <= hi
      BY <1>9, <2>3
    <3>2. QED
      BY <1>2, <1>3, <1>4, <3>1, SizesArePositive
  <2>4. Progress(c, at + VecSize)'
    BY <1>1, <1>2, <2>1, <2>2, <2>3 DEF Progress
  <2>5. ColumnsJob'
    <3>1. asked'[c].rows = [i \in 1 .. n |-> Expected(job.given, c, i)]
      BY <1>1, <1>2 DEF ColumnsJob
    <3>2. QED
      BY <1>10, <2>4, <3>1 DEF ColumnsJob, Expected, Progress
  <2>6. QED
    BY <1>1, <1>2, <1>10, <2>5 DEF JobInv
<1>14. ArrowInv' /\ StmtInv'
  <2>1. ArrowInv'
    BY <1>1, <1>2, <1>9, ArrowKept DEF Inv, CallsInv, Types, JobTypes, Apart
  <2>2. StmtInv'
    BY <1>1, <1>2, <1>9, StmtKeptBy DEF Inv, CallsInv, Types, Apart
  <2>3. QED
    BY <2>1, <2>2
<1>15. Apart'
  BY <1>1, <1>2, <1>10 DEF Apart, Inv, CallsInv, stmtVars
<1>16. QED
  BY <1>9, <1>11, <1>12, <1>13, <1>14, <1>15 DEF Inv, CallsInv

\* append_columns returns when all of its rows are in the buffer.
LEMMA ColumnsReturnStep ==
  ASSUME Inv, append_columns_returns, Keeps, UNCHANGED <<stmtVars, results>>
  PROVE  Inv'
<1>1. /\ job # Idle /\ ColumnsJob /\ asked[job.call].result = "running"
      /\ job.at \in Nat /\ job.n \in Nat /\ job.n <= job.at
  BY DEF append_columns_returns, Running, Inv, CallsInv, JobInv, Types, JobTypes
<1>2. \A i \in DOMAIN asked[job.call].rows : <<job.call, i>> \in Bys(Stored)
  BY <1>1 DEF ColumnsJob, Progress
<1>3. QED
  BY <1>1, <1>2, JobEndsStep DEF append_columns_returns

\* append_row and append_columns fail.
LEMMA JobFailsStep ==
  ASSUME Inv, append_one_fails \/ append_chunk_fails, Keeps, UNCHANGED <<stmtVars, results>>
  PROVE  Inv'
<1>1. /\ job # Idle /\ Ends(job.call, "raised") /\ job' = Idle
      /\ UNCHANGED <<appender, table, arrow>>
  BY DEF append_one_fails, append_chunk_fails, Running
<1>2. QED
  BY <1>1, JobEndsStep

\* A batch goes to the buffer: the appender is open, so none of its call's was lost.
LEMMA AppendBatchStep ==
  ASSUME Inv, append_batch, Keeps, UNCHANGED <<stmtVars, results>>
  PROVE  Inv'
<1>1. /\ job = Idle /\ arrow # Idle /\ arrow.call \in DOMAIN asked
      /\ arrow \in [call : Calls, at : Nat, n : Nat]
      /\ arrow.at < arrow.n /\ appender.open /\ Progress(arrow.call, arrow.at)
      /\ asked[arrow.call].rows = [i \in 1 .. arrow.n |-> Given(arrow.call, i)]
      /\ UNCHANGED <<table, asked, job>>
  BY DEF append_batch, Inv, CallsInv, ArrowInv, Types, JobTypes
<1>2. PICK c \in Calls, at \in Nat, n \in Nat : arrow.call = c /\ arrow.at = at /\ arrow.n = n
  BY <1>1
<1>3. PICK hi \in Nat : hi = at + 1
  BY <1>2
<1>4. asked[c].result = "running"
  BY <1>1, <1>2 DEF Inv, CallsInv, ArrowInv, Progress
<1>5. PICK row : row = Row(c, hi, Given(c, hi))
  OBVIOUS
<1>6. row \in RowType /\ row.by = <<c, hi>> /\ Whole(row)
  <2>1. Given(c, hi) \in [Cols -> Cell]
    BY <1>2, <1>3, GivenTypes
  <2>2. row = [by |-> <<c, hi>>, cells |-> Given(c, hi)]
    BY <1>5 DEF Row
  <2>3. row \in RowType
    BY <2>1, <2>2 DEF RowType
  <2>4. hi \in 1 .. n
    BY <1>1, <1>2, <1>3
  <2>5. hi \in DOMAIN asked[c].rows /\ asked[c].rows[hi] = Given(c, hi)
    BY <1>1, <1>2, <2>4
  <2>6. QED
    BY <1>1, <1>2, <2>1, <2>2, <2>3, <2>5, NoBefore DEF Whole, Stands
<1>7. PICK new \in Seq(RowType) :
        new = <<row>> /\ DOMAIN new = 1 .. hi - at /\ \A r \in 1 .. hi - at : new[r] = row /\ r = 1
  <2>1. hi - at = 1
    BY <1>3
  <2>2. <<row>> \in Seq(RowType) /\ DOMAIN <<row>> = 1 .. 1 /\ \A r \in 1 .. 1 : <<row>>[r] = row /\ r = 1
    BY <1>6
  <2>3. QED
    BY <2>1, <2>2
<1>8. /\ \A i \in Nat : <<c, i>> \in Bys(Stored) => i <= at
      /\ \A i \in 1 .. at : <<c, i>> \in Bys(Stored)
  <2>1. DOMAIN asked[c].rows = 1 .. n
    BY <1>1, <1>2
  <2>2. \A i \in 1 .. at : i \in 1 .. n /\ i <= at
    BY <1>1, <1>2
  <2>3. QED
    BY <1>1, <1>2, <1>4, <2>1, <2>2 DEF Progress
<1>9. /\ AppenderTypes' /\ RowsInv' /\ AsksKept
      /\ appender'.part = appender.part /\ appender'.open = appender.open
      /\ appender'.closed = appender.closed /\ appender'.gone = appender.gone
      /\ appender'.aborted = appender.aborted
      /\ \A r \in Elems(appender'.rows) : r \in Elems(appender.rows) \/ r.by[1] = c
      /\ \A d \in DOMAIN asked : d # c => Untouched(d)
      /\ \A i \in Nat : <<c, i>> \in Bys(Stored') => i <= hi
      /\ \A i \in 1 .. hi : <<c, i>> \in Bys(Stored')
  <2>1. appender' = [appender EXCEPT !.rows = @ \o new]
    BY <1>2, <1>3, <1>5, <1>7 DEF append_batch, Buffers
  <2>2. at <= hi /\ c \in DOMAIN asked
    BY <1>1, <1>2, <1>3
  <2>3. \A r \in 1 .. hi - at : new[r].by = <<c, at + r>> /\ Whole(new[r])
    BY <1>3, <1>6, <1>7
  <2>4. asked[c].result # "ok"
    BY <1>4
  <2>5. QED
    BY <1>1, <1>7, <1>8, <2>1, <2>2, <2>3, <2>4, RowsBuffered
<1>10. /\ arrow' \in [call : Calls, at : Nat, n : Nat]
       /\ arrow'.call = c /\ arrow'.at = hi /\ arrow'.n = n
  <2>1. arrow' = [arrow EXCEPT !.at = hi]
    BY <1>2, <1>3 DEF append_batch
  <2>2. QED
    BY <1>1, <1>2, <2>1
<1>11. Types'
  BY <1>1, <1>2, <1>9, <1>10, RestKept DEF Inv, Types, AskedTypes, JobTypes, stmtVars
<1>12. Handles'
  BY <1>1, <1>9 DEF Inv, Handles, Keeps, stmtVars
<1>13. ArrowInv'
  <2>1. Progress(c, hi)'
    <3>1. DOMAIN asked[c].rows = 1 .. n
      BY <1>1, <1>2
    <3>2. QED
      BY <1>1, <1>4, <1>9, <3>1 DEF Progress
  <2>2. hi <= n
    BY <1>1, <1>2, <1>3
  <2>3. QED
    BY <1>1, <1>2, <1>4, <1>10, <2>1, <2>2 DEF ArrowInv, Progress, Given
<1>14. JobInv' /\ StmtInv'
  <2>1. StmtInv'
    BY <1>1, <1>2, <1>9, StmtKeptBy DEF Inv, CallsInv, Types, Apart
  <2>2. QED
    BY <1>1, <2>1 DEF JobInv
<1>15. Apart'
  BY <1>1, <1>2, <1>10 DEF Apart, Inv, CallsInv, stmtVars
<1>16. QED
  BY <1>9, <1>11, <1>12, <1>13, <1>14, <1>15 DEF Inv, CallsInv

\* append_arrow ends; a call whose rows were lost stays marked.
LEMMA ArrowEndsStep ==
  ASSUME Inv, append_arrow_fails \/ append_arrow_returns, Keeps, UNCHANGED <<stmtVars, results>>
  PROVE  Inv'
<1>1. /\ job = Idle /\ arrow # Idle /\ arrow' = Idle
      /\ arrow.call \in DOMAIN asked /\ arrow.n \in Nat
      /\ Progress(arrow.call, arrow.at)
      /\ asked[arrow.call].rows = [i \in 1 .. arrow.n |-> Given(arrow.call, i)]
      /\ UNCHANGED <<appender, table, job>>
  BY DEF append_arrow_fails, append_arrow_returns, Inv, CallsInv, ArrowInv, Types, JobTypes
<1>2. PICK c \in DOMAIN asked : c = arrow.call
  BY <1>1
<1>3. PICK result \in Results :
        /\ asked' = [asked EXCEPT ![c].result = result]
        /\ result = "ok" => asked[c].result = "running" /\ arrow.at = arrow.n
  <2>1. asked[c].result \in {"running", "lost"}
    BY <1>1, <1>2 DEF Progress
  <2>2. CASE asked[c].result = "lost"
    BY <1>2, <2>2 DEF append_arrow_fails, append_arrow_returns, Ends, Results
  <2>3. CASE asked[c].result = "running" /\ append_arrow_fails
    BY <1>2, <2>3 DEF append_arrow_fails, Ends, Results
  <2>4. CASE asked[c].result = "running" /\ append_arrow_returns
    BY <1>2, <2>4 DEF append_arrow_returns, Ends, Results
  <2>5. QED
    BY <2>1, <2>2, <2>3, <2>4
<1>4. Stored' = Stored
  BY <1>1 DEF Stored
<1>5. result = "ok" => \A i \in DOMAIN asked[c].rows : <<c, i>> \in Bys(Stored)
  BY <1>1, <1>2, <1>3 DEF Progress
<1>6. /\ AskedTypes' /\ RowsInv' /\ DOMAIN asked' = DOMAIN asked /\ AsksKept
      /\ \A d \in DOMAIN asked : d # c => Untouched(d)
  BY <1>3, <1>4, <1>5, CallEnds
<1>7. Types'
  BY <1>1, <1>6, RestKept DEF Inv, Types, AppenderTypes, JobTypes, stmtVars
<1>8. Handles'
  BY <1>1 DEF Inv, Handles, Keeps, stmtVars
<1>9. StmtInv'
  BY <1>1, <1>2, <1>6, StmtKeptBy DEF Inv, CallsInv, Types, Apart
<1>10. JobInv' /\ ArrowInv' /\ Apart'
  BY <1>1 DEF JobInv, ArrowInv, Apart, Inv, CallsInv, stmtVars
<1>11. QED
  BY <1>6, <1>7, <1>8, <1>9, <1>10 DEF Inv, CallsInv

\* The appender's buffer goes to the table.
LEMMA FlushedStep ==
  ASSUME Inv, job = Idle, Flushed, UNCHANGED <<asked, job, arrow, stmtVars>>,
         appender' \in AppenderType, appender'.rows = <<>>, appender'.part = <<>>,
         appender'.open => appender.open
  PROVE  AppenderTypes' /\ AskedTypes' /\ JobTypes' /\ RowsInv' /\ CallsInv'
<1>1. Stored' = Stored /\ table' \in Seq(RowType)
  BY RowsFlushed DEF Inv, Types
<1>2. Len(appender'.part) <= NCols
  BY EmptySeq, SizesArePositive
<1>3. AppenderTypes'
  BY <1>1, <1>2 DEF AppenderTypes
<1>4. AsksKept /\ \A c : Untouched(c)
  BY <1>1 DEF Untouched, AsksKept
<1>5. RowsInv'
  BY <1>1, <1>4, WholeKept DEF Inv, RowsInv, CallInv
<1>6. Elems(appender'.rows) = {}
  BY EmptySeq DEF Elems
<1>7. ArrowInv' /\ StmtInv'
  BY <1>4, <1>6, ArrowKept, StmtKept DEF Inv, CallsInv, Types
<1>8. JobInv' /\ Apart'
  BY DEF JobInv, Apart, Inv, CallsInv, stmtVars
<1>9. AskedTypes' /\ JobTypes'
  BY DEF Inv, Types, AskedTypes, JobTypes, stmtVars
<1>10. QED
  BY <1>3, <1>5, <1>7, <1>8, <1>9 DEF CallsInv

\* The appender's buffer is discarded: it is open no more, and of the calls under way only
\* append_arrow can have lost rows.
LEMMA DiscardsStep ==
  ASSUME Inv, job = Idle, Discards, UNCHANGED <<job, arrow, stmtVars>>,
         appender' \in AppenderType, appender'.rows = <<>>, appender'.part = <<>>,
         ~appender'.open
  PROVE  AppenderTypes' /\ AskedTypes' /\ JobTypes' /\ RowsInv' /\ CallsInv'
<1>1. /\ AskedTypes' /\ RowsInv' /\ table' \in Seq(RowType)
      /\ DOMAIN asked' = DOMAIN asked /\ AsksKept
      /\ \A c \in DOMAIN asked :
           \/ Untouched(c)
           \/ /\ \E b \in Bys(appender.rows) : b[1] = c
              /\ asked'[c].rows = asked[c].rows /\ asked'[c].result = "lost"
              /\ \A i : <<c, i>> \in Bys(Stored') => <<c, i>> \in Bys(Stored)
  BY RowsDiscarded
<1>2. Len(appender'.part) <= NCols
  BY EmptySeq, SizesArePositive
<1>3. AppenderTypes'
  BY <1>1, <1>2 DEF AppenderTypes
<1>4. JobTypes'
  BY <1>1 DEF Inv, Types, JobTypes, stmtVars
<1>5. ArrowInv'
  <2>1. SUFFICES ASSUME arrow # Idle
                 PROVE  ArrowInv'
    BY DEF ArrowInv
  <2>2. arrow.call \in DOMAIN asked
    BY <2>1 DEF Inv, Types, JobTypes
  <2>3. CASE Untouched(arrow.call)
    BY <2>3, ArrowKept DEF Inv, CallsInv
  <2>4. CASE /\ asked'[arrow.call].rows = asked[arrow.call].rows
             /\ asked'[arrow.call].result = "lost"
             /\ \A i : <<arrow.call, i>> \in Bys(Stored') => <<arrow.call, i>> \in Bys(Stored)
    BY <2>1, <2>4 DEF Inv, CallsInv, ArrowInv, Progress, Given
  <2>5. QED
    BY <1>1, <2>2, <2>3, <2>4
<1>6. StmtInv'
  <2>1. Elems(appender'.rows) = {}
    BY EmptySeq DEF Elems
  <2>2. ASSUME NEW c \in DOMAIN asked, \A row \in Elems(appender.rows) : row.by[1] # c
        PROVE  Untouched(c)
    <3>1. \A b \in Bys(appender.rows) : b[1] # c
      BY <2>2 DEF Elems, Bys
    <3>2. QED
      BY <1>1, <3>1
  <2>3. /\ many # Idle => Untouched(many.call)
        /\ exec # Idle => Untouched(exec.call)
    BY <2>2 DEF Inv, CallsInv, StmtInv, ManyInv, ExecInv, Types, JobTypes
  <2>4. QED
    BY <1>1, <2>1, <2>3, StmtKept DEF Inv, CallsInv, Types
<1>7. JobInv' /\ Apart'
  BY DEF JobInv, Apart, Inv, CallsInv, stmtVars
<1>8. QED
  BY <1>1, <1>3, <1>4, <1>5, <1>6, <1>7 DEF CallsInv

\* An appender is made: the one before it is gone and left nothing.
LEMMA CreateStep ==
  ASSUME Inv, CreateAppender
  PROVE  Inv'
<1>1. /\ job = Idle /\ appender.gone /\ ~appender.aborted /\ appender' = NewAppender
      /\ UNCHANGED <<table, asked, job, arrow, stmt, many, exec, results, database>>
      /\ holders' = holders \cup {"appender"} /\ "connection" \in holders
  BY DEF CreateAppender, create, Holds, stmtVars
<1>2. ~appender.open /\ arrow = Idle /\ appender.rows = <<>> /\ database
  BY <1>1 DEF Inv, Types, AppenderTypes, AppenderType, Handles, ShareTypes
<1>3. /\ appender' \in AppenderType /\ appender'.rows = <<>> /\ appender'.part = <<>>
      /\ appender'.open /\ ~appender'.closed /\ ~appender'.gone /\ ~appender'.aborted
  BY <1>1, EmptySeq DEF NewAppender, AppenderType
<1>4. Stored' = Stored
  BY <1>1, <1>2, <1>3 DEF Stored
<1>5. Types'
  <2>1. Len(appender'.part) <= NCols
    BY <1>3, EmptySeq, SizesArePositive
  <2>2. AppenderTypes'
    BY <1>1, <1>3, <2>1 DEF Inv, Types, AppenderTypes
  <2>3. AskedTypes' /\ JobTypes' /\ StmtTypes' /\ ShareTypes'
    BY <1>1 DEF Inv, Types, AskedTypes, JobTypes, StmtTypes, ShareTypes
  <2>4. QED
    BY <2>2, <2>3 DEF Types
<1>6. Handles'
  BY <1>1, <1>2, <1>3 DEF Inv, Handles
<1>7. AsksKept /\ \A c : Untouched(c)
  BY <1>1, <1>4 DEF Untouched, AsksKept
<1>8. RowsInv' /\ CallsInv'
  <2>1. RowsInv'
    BY <1>1, <1>4, <1>7, WholeKept DEF Inv, RowsInv, CallInv
  <2>2. Elems(appender'.rows) = {}
    BY <1>3, EmptySeq DEF Elems
  <2>3. StmtInv'
    BY <1>1, <1>7, <2>2, StmtKept DEF Inv, CallsInv, Types, stmtVars
  <2>4. JobInv' /\ ArrowInv' /\ Apart'
    BY <1>1, <1>2 DEF JobInv, ArrowInv, Apart, Inv, CallsInv
  <2>5. QED
    BY <2>1, <2>3, <2>4 DEF CallsInv
<1>9. QED
  BY <1>5, <1>6, <1>8 DEF Inv

\* flush() with no row begun: the rows go to the table and the appender stays open.
LEMMA FlushStep ==
  ASSUME Inv, flush, Keeps, UNCHANGED <<stmtVars, results>>
  PROVE  Inv'
<1>1. /\ job = Idle /\ appender.open /\ Flushed /\ UNCHANGED <<asked, job, arrow>>
  BY DEF flush
<1>2. /\ appender' \in AppenderType /\ appender'.rows = <<>> /\ appender'.part = <<>>
      /\ appender'.open = appender.open /\ appender'.closed = appender.closed
      /\ appender'.gone = appender.gone /\ appender'.aborted = appender.aborted
  <2>1. PICK none \in Seq(RowType) : none = <<>>
    BY EmptySeq
  <2>2. appender' = [appender EXCEPT !.rows = none] /\ appender.part = <<>>
    BY <2>1 DEF flush
  <2>3. appender \in AppenderType
    BY DEF Inv, Types, AppenderTypes
  <2>4. QED
    BY <2>1, <2>2, <2>3 DEF AppenderType
<1>3. AppenderTypes' /\ AskedTypes' /\ JobTypes' /\ RowsInv' /\ CallsInv'
  BY <1>1, <1>2, FlushedStep
<1>4. Handles'
  BY <1>1, <1>2 DEF Inv, Handles, Keeps, stmtVars
<1>5. QED
  BY <1>3, <1>4, RestKept DEF Inv, Types, stmtVars

\* close(): the handle is gone, whether the rows went to the table or were discarded.
LEMMA CloseStep ==
  ASSUME Inv, close, Keeps, UNCHANGED <<stmtVars, results>>
  PROVE  Inv'
<1>1. /\ job = Idle /\ appender.open /\ UNCHANGED <<job, arrow>>
      /\ (Flushed /\ asked' = asked) \/ Discards
  BY DEF close
<1>2. /\ appender' \in AppenderType /\ appender'.rows = <<>> /\ appender'.part = <<>>
      /\ ~appender'.open /\ appender'.closed
      /\ appender'.gone = appender.gone /\ appender'.aborted = appender.aborted
  <2>1. appender \in AppenderType
    BY DEF Inv, Types, AppenderTypes
  <2>2. PICK none \in Seq(RowType), nothing \in Seq(Cell) : none = <<>> /\ nothing = <<>>
    BY EmptySeq
  <2>3. appender' = [appender EXCEPT !.open = FALSE, !.part = nothing, !.rows = none,
                                     !.closed = TRUE]
    BY <2>2 DEF close, Closed
  <2>4. QED
    BY <2>1, <2>2, <2>3 DEF AppenderType
<1>3. AppenderTypes' /\ AskedTypes' /\ JobTypes' /\ RowsInv' /\ CallsInv'
  BY <1>1, <1>2, FlushedStep, DiscardsStep
<1>4. Handles'
  BY <1>1, <1>2 DEF Inv, Handles, Keeps, stmtVars
<1>5. QED
  BY <1>3, <1>4, RestKept DEF Inv, Types, stmtVars

\* The destructor, which aborts the process when it has to discard rows.
LEMMA DropStep ==
  ASSUME Inv, DropAppender
  PROVE  Inv'
<1>1. /\ job = Idle /\ arrow = Idle /\ ~appender.aborted
      /\ UNCHANGED <<job, arrow, stmtVars, results>>
      /\ holders' = holders \ {"appender"} /\ database' = (database /\ holders' # {})
      /\ appender \in AppenderType
  BY DEF DropAppender, drop, LetsGo, Inv, Types, AppenderTypes
<1>2. PICK none \in Seq(RowType), nothing \in Seq(Cell) : none = <<>> /\ nothing = <<>>
  BY EmptySeq
<1>3. /\ appender' \in AppenderType /\ appender'.rows = <<>> /\ appender'.part = <<>>
      /\ ~appender'.open /\ appender'.closed = appender.closed
      /\ appender'.closed => ~appender'.aborted
      /\ (Flushed /\ asked' = asked) \/ Discards
  <2>1. CASE ~appender.open /\ appender' = [appender EXCEPT !.gone = TRUE]
             /\ UNCHANGED <<table, asked>>
    <3>1. appender.rows = <<>> /\ appender.part = <<>>
      BY <2>1 DEF Inv, Handles
    <3>2. Flushed
      BY <2>1, <3>1, ConcatEmptySeq DEF Flushed, Inv, Types, AppenderTypes
    <3>3. QED
      BY <1>1, <2>1, <3>1, <3>2 DEF AppenderType
  <2>2. CASE /\ appender.open /\ appender.part = <<>> /\ Flushed /\ asked' = asked
             /\ appender' = [appender EXCEPT !.open = FALSE, !.rows = <<>>, !.gone = TRUE]
    <3>1. appender' = [appender EXCEPT !.open = FALSE, !.rows = none, !.gone = TRUE]
      BY <1>2, <2>2
    <3>2. QED
      BY <1>1, <1>2, <2>2, <3>1 DEF AppenderType
  <2>3. CASE /\ appender.open /\ Discards
             /\ appender' = [appender EXCEPT !.open = FALSE, !.part = <<>>, !.rows = <<>>,
                                             !.aborted = TRUE]
    <3>1. appender' = [appender EXCEPT !.open = FALSE, !.part = nothing, !.rows = none,
                                             !.aborted = TRUE]
      BY <1>2, <2>3
    <3>2. ~appender.closed
      BY <2>3 DEF Inv, Handles
    <3>3. QED
      BY <1>1, <1>2, <2>3, <3>1, <3>2 DEF AppenderType
  <2>4. QED
    BY <2>1, <2>2, <2>3 DEF DropAppender, drop
<1>4. AppenderTypes' /\ AskedTypes' /\ JobTypes' /\ RowsInv' /\ CallsInv'
  BY <1>1, <1>3, FlushedStep, DiscardsStep
<1>5. Handles'
  BY <1>1, <1>3 DEF Inv, Handles, stmtVars
<1>6. StmtTypes' /\ ShareTypes'
  BY <1>1 DEF Inv, Types, StmtTypes, ShareTypes, stmtVars
<1>7. QED
  BY <1>4, <1>5, <1>6 DEF Inv, Types

-----------------------------------------------------------------------------
(* The steps of the statement.                                             *)

\* A statement inserts row lo + 1 of call c.
LEMMA RowInserted ==
  ASSUME Inv, NEW c \in DOMAIN asked', NEW lo \in Nat, NEW row \in RowType, row.by = <<c, lo + 1>>,
         DOMAIN asked' = DOMAIN asked \cup {c}, c \in Calls,
         \A d \in DOMAIN asked : asked'[d].rows = asked[d].rows /\ (d # c => asked'[d] = asked[d]),
         \A i \in Nat : <<c, i>> \in Bys(Stored) => i <= lo,
         \A i \in 1 .. lo : <<c, i>> \in Bys(Stored),
         \A r \in Elems(appender.rows) : r.by[1] # c,
         Whole(row)',
         asked'[c].result = "ok" => DOMAIN asked'[c].rows \subseteq 1 .. lo + 1,
         appender' = appender, table' = Append(table, row)
  PROVE  /\ AppenderTypes' /\ RowsInv'
         /\ \A d \in DOMAIN asked : d # c => Untouched(d)
         /\ \A i \in Nat : <<c, i>> \in Bys(Stored') => i <= lo + 1
         /\ \A i \in 1 .. lo + 1 : <<c, i>> \in Bys(Stored')
<1>1. AppenderTypes /\ table \in Seq(RowType) /\ appender.rows \in Seq(RowType)
  BY DEF Inv, Types, AppenderTypes, AppenderType
<1>2. PICK hi \in Nat : hi = lo + 1 /\ lo <= hi
  OBVIOUS
<1>3. PICK new \in Seq(RowType) :
        /\ Sorted(new) /\ Elems(new) = {row} /\ Bys(new) = {<<c, hi>>}
        /\ table' = table \o new
  <2>1. /\ <<row>> \in Seq(RowType) /\ Sorted(<<row>>)
        /\ Elems(<<row>>) = {row} /\ Bys(<<row>>) = {row.by}
        /\ Append(table, row) = table \o <<row>>
    BY <1>1, OneRow
  <2>2. QED
    BY <1>2, <2>1, Zenon
<1>4. \A a \in Bys(Stored), b \in Bys(new) : a[1] = b[1] => a[2] < b[2]
  <2>1. ASSUME NEW a \in Bys(Stored), a[1] = c
        PROVE  a[2] < hi
    <3>1. a \in Calls \X Nat
      BY <1>1, StoredRows
    <3>2. a = <<c, a[2]>> /\ a[2] \in Nat
      BY <2>1, <3>1
    <3>3. a[2] <= lo
      BY <3>2
    <3>4. QED
      BY <1>2, <3>2, <3>3
  <2>2. QED
    BY <1>3, <2>1
<1>5. \A a \in Bys(new), b \in Bys(appender.rows) : a[1] # b[1]
  BY <1>3 DEF Elems, Bys
<1>6. /\ table' \in Seq(RowType)
      /\ Sorted(Stored')
      /\ Elems(Stored') = Elems(Stored) \cup Elems(new)
      /\ Bys(Stored') = Bys(Stored) \cup Bys(new)
  <2>1. Sorted(Stored) /\ appender'.rows = appender.rows
    BY DEF Inv, RowsInv
  <2>2. QED
    BY <1>1, <1>3, <1>4, <1>5, <2>1, RowsToTable
<1>7. AppenderTypes'
  BY <1>1, <1>6 DEF AppenderTypes
<1>8. Bys(new) = {<<c, i>> : i \in lo + 1 .. hi}
  <2>1. lo + 1 .. hi = {hi}
    BY <1>2
  <2>2. QED
    BY <1>3, <2>1
<1>9. \A r \in Elems(new) : Whole(r)'
  BY <1>3
<1>10. /\ RowsInv'
       /\ \A d \in DOMAIN asked : d # c => Untouched(d)
       /\ \A i \in Nat : <<c, i>> \in Bys(Stored') => i <= hi
       /\ \A i \in 1 .. hi : <<c, i>> \in Bys(Stored')
  <2>1. asked'[c].result = "ok" => DOMAIN asked'[c].rows \subseteq 1 .. hi
    BY <1>2
  <2>2. QED
    BY <1>2, <1>6, <1>8, <1>9, <2>1, RowsStored
<1>11. QED
  BY <1>2, <1>7, <1>10

\* The bindings that complete ones leave are cells.
LEMMA CompleteBindings ==
  ASSUME NEW b \in [Cols -> Cell \cup {Unbound}], Stmt!Complete(b)
  PROVE  b \in [Cols -> Cell]
BY DEF Stmt!Complete, Stmt!Params, Cols

\* What is bound after a call has cleared it and bound values of its own, or done nothing.
LEMMA BoundByCall ==
  ASSUME BoundInv, AsksKept, NEW c \in Calls, c \in DOMAIN asked', 1 \in DOMAIN asked'[c].rows,
         many' = many, many # Idle => many.call \in DOMAIN asked /\ many.call \in Calls /\ many.call < c,
         \A k \in Cols : \/ stmt'.bound[k] \in {Unbound, stmt.bound[k]}
                         \/ stmt'.bound[k] = <<c, 1, k>> /\ Gave(c, 1, k)'
  PROVE  BoundInv'
<1> SUFFICES ASSUME NEW k \in Cols, stmt'.bound[k] # Unbound
             PROVE  (/\ IsGiven(k, stmt.bound[k])
                     /\ many # Idle => Inherited(many.call, many.at + 1, k, stmt.bound[k]))'
  BY DEF BoundInv
<1>1. PICK cell, b, i : cell = stmt'.bound[k] /\ cell # Unbound /\ b = many.call /\ i = many.at + 1
  OBVIOUS
<1>2. CASE cell = stmt.bound[k]
  <2>1. IsGiven(k, cell) /\ (many # Idle => Inherited(b, i, k, cell))
    BY <1>1, <1>2 DEF BoundInv, IsGiven, Inherited
  <2>2. IsGiven(k, cell)' /\ (many # Idle => Inherited(b, i, k, cell)')
    BY <1>1, <2>1, InheritedKept, IsGivenKept
  <2>3. QED
    BY <1>1, <2>2 DEF Inherited, IsGiven, Gave
<1>3. CASE cell = <<c, 1, k>> /\ Gave(c, 1, k)'
  <2>1. ASSUME many # Idle
        PROVE  Inherited(b, i, k, cell)'
    <3>1. c > b /\ c # b
      BY <1>1, <2>1 DEF Calls
    <3>2. QED
      BY <1>3, <3>1 DEF Inherited
  <2>2. IsGiven(k, cell)'
    BY <1>3 DEF IsGiven
  <2>3. QED
    BY <1>1, <2>1, <2>2 DEF Inherited, IsGiven, Gave
<1>4. QED
  BY <1>1, <1>2, <1>3

\* execute starts to run with complete parameters: its own, or those of before.
LEMMA StartsStep ==
  ASSUME Inv, job = Idle, exec = Idle, Len(asked) < MaxCalls, NEW given \in Given1,
         NEW b \in [Cols -> Cell \cup {Unbound}], Stmt!Complete(b),
         \A k \in Cols : \/ given[k] = <<Call, 1, k>> /\ b[k] = <<Call, 1, k>>
                         \/ given[k] = Before /\ b[k] = stmt.bound[k],
         asked' = Append(asked, [rows |-> <<given>>, result |-> "running"]),
         exec' = [call |-> Call, bound |-> b], stmt' = [stmt EXCEPT !.bound = b], Keeps,
         UNCHANGED <<appender, table, arrow, job, many, results>>
  PROVE  Inv'
<1>1. Call \in Calls /\ b \in [Cols -> Cell]
  BY NextCall, CompleteBindings DEF Inv, Types
<1>2. PICK c \in Calls : c = Call
  BY <1>1
<1>3. PICK rows \in Seq(Given1) : rows = <<given>> /\ DOMAIN rows = {1} /\ rows[1] = given
  <2>1. <<given>> \in Seq(Given1) /\ DOMAIN <<given>> = {1} /\ <<given>>[1] = given
    OBVIOUS
  <2>2. QED
    BY <2>1, Zenon
<1>4. Stored' = Stored
  BY DEF Stored
<1>5. /\ AskedTypes' /\ RowsInv'
      /\ DOMAIN asked \subseteq DOMAIN asked' /\ c \in DOMAIN asked'
      /\ asked'[c] = [rows |-> rows, result |-> "running"]
      /\ \A d \in DOMAIN asked : d # c /\ Untouched(d)
      /\ \A i \in Nat : <<c, i>> \notin Bys(Stored')
      /\ AsksKept
  <2>1. asked' = Append(asked, [rows |-> rows, result |-> "running"])
    BY <1>3
  <2>2. QED
    BY <1>2, <1>4, <2>1, CallBegins
<1>6. asked'[c].rows = rows /\ asked'[c].result = "running"
  BY <1>5
<1>7. /\ exec' \in [call : Calls, bound : [Cols -> Cell]]
      /\ exec'.call = c /\ exec'.bound = b
  BY <1>1, <1>2
<1>8. stmt'.bound = b /\ stmt'.open = stmt.open /\ StmtTypes'
  BY DEF Inv, Types, StmtTypes
<1>9. Types'
  BY <1>5, <1>7, <1>8 DEF Inv, Types, AppenderTypes, JobTypes, ShareTypes, Keeps
<1>10. Handles'
  BY <1>8 DEF Inv, Handles, Keeps
<1>11. /\ StmtInv /\ JobTypes
       /\ many # Idle => many.call \in DOMAIN asked /\ many.call \in Calls /\ many.call < c
  <2>1. DOMAIN asked = 1 .. Len(asked) /\ Len(asked) \in Nat
    BY LenProperties DEF Inv, Types, AskedTypes
  <2>2. c = Len(asked) + 1
    BY <1>2 DEF Call
  <2>3. QED
    BY <2>1, <2>2 DEF Inv, CallsInv, Types, JobTypes
<1>12. ManyInv'
  BY <1>5, <1>11, ManyKept DEF StmtInv, ManyInv
<1>13. Stands(c, 1, b)'
  <2> SUFFICES ASSUME NEW k \in Cols
               PROVE  IF given[k] = Before THEN Inherited(c, 1, k, b[k])' ELSE b[k] = given[k]
    BY <1>3, <1>6 DEF Stands
  <2>1. CASE given[k] = <<Call, 1, k>> /\ b[k] = <<Call, 1, k>>
    <3>1. b[k] # Before
      BY <1>1, NoBefore
    <3>2. QED
      BY <2>1, <3>1
  <2>2. CASE given[k] = Before /\ b[k] = stmt.bound[k]
    <3>1. b[k] # Unbound
      BY DEF Stmt!Complete, Stmt!Params, Cols
    <3>2. PICK d, h : /\ d \in DOMAIN asked /\ h \in DOMAIN asked[d].rows
                      /\ b[k] = <<d, h, k>> /\ Gave(d, h, k)
      BY <1>11, <2>2, <3>1 DEF StmtInv, BoundInv, IsGiven
    <3>3. /\ d \in DOMAIN asked' /\ h \in DOMAIN asked'[d].rows /\ Gave(d, h, k)' /\ d # c
          /\ 1 .. 1 - 1 = {}
      BY <1>5, <3>2 DEF AsksKept, Gave
    <3>4. QED
      BY <2>2, <3>2, <3>3 DEF Inherited
  <2>3. QED
    BY <2>1, <2>2
<1>14. ExecInv'
  <2>1. Progress(c, 0)'
    BY <1>3, <1>5, <1>6 DEF Progress
  <2>2. \A row \in Elems(appender'.rows) : row.by[1] # c
    BY <1>5, StoredRows DEF Inv, Types, RowsInv, Whole
  <2>3. Progress(exec.call, 0)'
    BY <1>7, <2>1 DEF Progress
  <2>4. Stands(exec.call, 1, exec.bound)'
    <3>1. exec'.call = c /\ exec'.bound = b
      BY <1>7
    <3>2. QED
      BY <1>13, <3>1, ZenonT(30) DEF Stands, Inherited, Gave
  <2>5. QED
    BY <1>3, <1>6, <1>7, <2>2, <2>3, <2>4 DEF ExecInv
<1>15. BoundInv'
  <2>1. 1 \in DOMAIN asked'[c].rows /\ asked'[c].rows[1] = given
    BY <1>3, <1>6
  <2>2. \A k \in Cols : \/ stmt'.bound[k] = stmt.bound[k]
                        \/ stmt'.bound[k] = <<c, 1, k>> /\ Gave(c, 1, k)'
    BY <1>2, <1>8, <2>1 DEF Gave
  <2>3. QED
    BY <1>5, <1>11, <2>1, <2>2, BoundByCall DEF StmtInv
<1>16. JobInv' /\ ArrowInv'
  BY <1>5, ArrowKept DEF JobInv, Inv, CallsInv, Types, JobTypes
<1>17. Apart'
  BY <1>5, <1>7, <1>11 DEF Apart, Inv, CallsInv, Types, JobTypes
<1>18. QED
  BY <1>5, <1>9, <1>10, <1>12, <1>14, <1>15, <1>16, <1>17 DEF Inv, CallsInv, StmtInv

\* execute and execute(None) start so.
LEMMA ExecuteStep ==
  ASSUME Inv, (\E S \in SUBSET Cols : Stmt!execute(S)) \/ Stmt!execute_again, Keeps,
         UNCHANGED <<appender, arrow, results>>
  PROVE  Inv'
<1>1. /\ job = Idle /\ exec = Idle /\ Len(asked) < MaxCalls
      /\ UNCHANGED <<appender, table, arrow, job, many, results>>
      /\ stmt \in [open : BOOLEAN, bound : [Cols -> Cell \cup {Unbound}]]
  BY DEF Stmt!execute, Stmt!execute_again, Stmt!CanCall, Stmt!Starts, Inv, Types, StmtTypes
<1>2. PICK c \in Calls : c = Call /\ c = Stmt!Call
  BY <1>1, NextCall DEF Inv, Types, Call, Stmt!Call
<1>3. ASSUME NEW S \in SUBSET Cols, Stmt!execute(S)
      PROVE  Inv'
  <2>1. Stmt!Cleared \in [Cols -> Cell \cup {Unbound}]
    BY DEF Stmt!Cleared, Stmt!Params, Cols
  <2>2. PICK b \in [Cols -> Cell \cup {Unbound}] : b = Stmt!Bind(Stmt!Cleared, c, 1, S)
    BY <2>1, GivenTypes
  <2>3. stmt' = [stmt EXCEPT !.bound = b]
    BY <1>2, <1>3, <2>2 DEF Stmt!execute
  <2>4. stmt'.bound = b
    BY <1>1, <2>3
  <2>5. Stmt!Complete(b) /\ exec' = [call |-> Call, bound |-> b]
    BY <1>2, <1>3, <2>4 DEF Stmt!execute, Stmt!Starts
  <2>6. PICK given \in Given1 : given = Stmt!Expected(c, 1, S, Unbound)
    BY GivenTypes
  <2>7. \A k \in Cols : given[k] = <<Call, 1, k>> /\ b[k] = <<Call, 1, k>>
    BY <1>2, <2>2, <2>5, <2>6
    DEF Stmt!Expected, Stmt!Bind, Stmt!Complete, Stmt!Cleared, Stmt!Params, Cols
  <2>8. asked' = Append(asked, [rows |-> <<given>>, result |-> "running"])
    BY <1>2, <1>3, <2>6 DEF Stmt!execute, Stmt!Asks
  <2>9. QED
    BY <1>1, <2>3, <2>5, <2>7, <2>8, StartsStep
<1>4. ASSUME Stmt!execute_again
      PROVE  Inv'
  <2>1. PICK b \in [Cols -> Cell \cup {Unbound}] : b = stmt.bound
    BY <1>1
  <2>2. stmt' = [stmt EXCEPT !.bound = b]
    BY <1>1, <1>4, <2>1 DEF Stmt!execute_again
  <2>3. Stmt!Complete(b) /\ exec' = [call |-> Call, bound |-> b]
    BY <1>2, <1>4, <2>1 DEF Stmt!execute_again, Stmt!Starts
  <2>4. PICK given \in Given1 : given = [k \in Cols |-> Before] /\ \A k \in Cols : given[k] = Before
    <3>1. [k \in Cols |-> Before] \in Given1 /\ \A k \in Cols : [j \in Cols |-> Before][k] = Before
      BY DEF Given1
    <3>2. QED
      BY <3>1, Zenon
  <2>5. asked' = Append(asked, [rows |-> <<given>>, result |-> "running"])
    BY <1>4, <2>4 DEF Stmt!execute_again, Stmt!Asks, Stmt!Params, Cols
  <2>6. QED
    BY <1>1, <2>1, <2>2, <2>3, <2>4, <2>5, StartsStep
<1>5. QED
  BY <1>3, <1>4

\* execute ends, and its row is inserted or not.
LEMMA ExecEndsStep ==
  ASSUME Inv, job = Idle, exec # Idle, exec' = Idle, NEW result \in {"ok", "raised"},
         asked' = [asked EXCEPT ![exec.call].result = result],
         \/ table' = Append(table, [by |-> <<exec.call, 1>>, cells |-> exec.bound])
         \/ table' = table /\ result = "raised",
         UNCHANGED <<appender, arrow, job, stmt, many>>
  PROVE  AppenderTypes' /\ AskedTypes' /\ JobTypes' /\ StmtTypes' /\ RowsInv' /\ CallsInv'
<1>1. /\ exec \in [call : Calls, bound : [Cols -> Cell]] /\ exec.call \in DOMAIN asked
      /\ Progress(exec.call, 0) /\ asked[exec.call].result = "running"
      /\ DOMAIN asked[exec.call].rows = {1} /\ Stands(exec.call, 1, exec.bound)
      /\ \A r \in Elems(appender.rows) : r.by[1] # exec.call
      /\ StmtInv
  BY DEF Inv, CallsInv, StmtInv, ExecInv, Types, JobTypes
<1>2. PICK c \in DOMAIN asked, b \in [Cols -> Cell] : c = exec.call /\ b = exec.bound /\ c \in Calls
  BY <1>1
<1>3. /\ asked' \in Seq(CallType) /\ Len(asked') = Len(asked) /\ DOMAIN asked' = DOMAIN asked
      /\ asked'[c].rows = asked[c].rows
      /\ \A d \in DOMAIN asked \ {c} : asked'[d] = asked[d]
  BY <1>2, EndsOne DEF Inv, Types, AskedTypes, Results
<1>4. AsksKept
  BY <1>3 DEF AsksKept
<1>5. AskedTypes'
  BY <1>3 DEF Inv, Types, AskedTypes
<1>6. AppenderTypes' /\ RowsInv' /\ \A d \in DOMAIN asked : d # c => Untouched(d)
  <2>1. CASE table' = table /\ result = "raised"
    <3>1. Stored' = Stored
      BY <2>1 DEF Stored
    <3>2. AppenderTypes'
      BY <2>1 DEF Inv, Types, AppenderTypes
    <3>3. QED
      BY <1>2, <2>1, <3>1, <3>2, CallEnds DEF Results
  <2>2. CASE table' = Append(table, [by |-> <<exec.call, 1>>, cells |-> exec.bound])
    <3>1. PICK row \in RowType : row = [by |-> <<c, 1>>, cells |-> b]
      <4>1. [by |-> <<c, 1>>, cells |-> b] \in RowType
        BY <1>2 DEF RowType
      <4>2. QED
        BY <4>1
    <3>2. Whole(row)
      BY <1>1, <1>2, <3>1 DEF Whole
    <3>3. Whole(row)'
      BY <1>4, <3>2, WholeKept
    <3>4. PICK lo \in Nat : lo = 0
      OBVIOUS
    <3>5. row.by = <<c, lo + 1>> /\ table' = Append(table, row)
      BY <1>2, <2>2, <3>1, <3>4
    <3>6. /\ \A i \in Nat : <<c, i>> \in Bys(Stored) => i <= lo
          /\ \A i \in 1 .. lo : <<c, i>> \in Bys(Stored)
      BY <1>1, <1>2, <3>4 DEF Progress
    <3>7. DOMAIN asked'[c].rows \subseteq 1 .. lo + 1
      BY <1>1, <1>2, <1>3, <3>4
    <3>8. /\ c \in DOMAIN asked' /\ DOMAIN asked' = DOMAIN asked \cup {c}
          /\ \A d \in DOMAIN asked : asked'[d].rows = asked[d].rows /\ (d # c => asked'[d] = asked[d])
          /\ \A r \in Elems(appender.rows) : r.by[1] # c
      BY <1>1, <1>2, <1>3
    <3>9. QED
      BY <1>2, <3>3, <3>5, <3>6, <3>7, <3>8, RowInserted
  <2>3. QED
    BY <2>1, <2>2
<1>7. JobTypes' /\ StmtTypes'
  BY <1>3 DEF Inv, Types, JobTypes, StmtTypes
<1>8. StmtInv'
  <2>1. ManyInv'
    BY <1>1, <1>2, <1>6, ManyKept DEF StmtInv, ManyInv, Inv, CallsInv, Apart, Types, JobTypes
  <2>2. ExecInv'
    BY DEF ExecInv
  <2>3. BoundInv'
    BY <1>1, <1>4, BoundKept DEF StmtInv, Inv, Types, JobTypes
  <2>4. QED
    BY <2>1, <2>2, <2>3 DEF StmtInv
<1>9. JobInv' /\ ArrowInv' /\ Apart'
  BY <1>2, <1>6, ArrowKept DEF JobInv, Apart, Inv, CallsInv, Types, JobTypes
<1>10. QED
  BY <1>5, <1>6, <1>7, <1>8, <1>9 DEF CallsInv

\* execute returns: its result has a share of the handle, unless the statement was closed.
LEMMA ExecuteReturnsStep ==
  ASSUME Inv, ExecuteReturns
  PROVE  Inv'
<1>1. /\ job = Idle /\ exec # Idle /\ exec' = Idle
      /\ asked' = [asked EXCEPT ![exec.call].result = "ok"]
      /\ table' = Append(table, [by |-> <<exec.call, 1>>, cells |-> exec.bound])
      /\ UNCHANGED <<appender, arrow, job, stmt, many>>
  BY DEF ExecuteReturns, Stmt!execute_returns, Stmt!Ends, Stmt!Row
<1>2. AppenderTypes' /\ AskedTypes' /\ JobTypes' /\ StmtTypes' /\ RowsInv' /\ CallsInv'
  BY <1>1, ExecEndsStep
<1>3. CASE stmt.open
  <2>1. /\ holders' = holders \cup {"result"} /\ database' = database
        /\ results' = results \cup {"open"}
    BY <1>3 DEF ExecuteReturns, Holds
  <2>2. ShareTypes' /\ Handles'
    BY <1>1, <1>3, <2>1 DEF Inv, Types, ShareTypes, Handles
  <2>3. QED
    BY <1>2, <2>2 DEF Inv, Types
<1>4. CASE ~stmt.open
  <2>1. UNCHANGED <<holders, database>> /\ results' = results \cup {"closed"}
    BY <1>4 DEF ExecuteReturns, Keeps
  <2>2. ShareTypes' /\ Handles'
    BY <1>1, <2>1 DEF Inv, Types, ShareTypes, Handles
  <2>3. QED
    BY <1>2, <2>2 DEF Inv, Types
<1>5. QED
  BY <1>3, <1>4

\* execute raises while it runs.
LEMMA ExecuteRaisesStep ==
  ASSUME Inv, Stmt!execute_raises, Keeps, UNCHANGED <<appender, arrow, results>>
  PROVE  Inv'
<1>1. /\ job = Idle /\ exec # Idle /\ exec' = Idle
      /\ asked' = [asked EXCEPT ![exec.call].result = "raised"]
      /\ table' \in {table, Append(table, [by |-> <<exec.call, 1>>, cells |-> exec.bound])}
      /\ UNCHANGED <<job, stmt, many>>
  BY DEF Stmt!execute_raises, Stmt!Ends, Stmt!Row
<1>2. AppenderTypes' /\ AskedTypes' /\ JobTypes' /\ StmtTypes' /\ RowsInv' /\ CallsInv'
  BY <1>1, ExecEndsStep
<1>3. ShareTypes' /\ Handles'
  BY <1>1 DEF Inv, Types, ShareTypes, Handles, Keeps
<1>4. QED
  BY <1>2, <1>3 DEF Inv, Types

\* A step that does nothing to the calls, and clears the bindings or does nothing.
LEMMA ClearedStep ==
  ASSUME Inv, UNCHANGED <<appender, table, asked, job, arrow, many, exec>>,
         stmt' = stmt \/ \A k \in Cols : stmt'.bound[k] = Unbound
  PROVE  RowsInv' /\ CallsInv'
<1>1. Stored' = Stored /\ AsksKept /\ \A c : Untouched(c)
  BY DEF Untouched, Stored, AsksKept
<1>2. RowsInv'
  BY <1>1, WholeKept DEF Inv, RowsInv, CallInv
<1>3. JobInv' /\ ArrowInv'
  BY <1>1, JobKept, ArrowKept DEF Inv, CallsInv
<1>4. ManyInv' /\ ExecInv'
  BY <1>1, ManyKept, ExecKept DEF Inv, CallsInv, StmtInv, ManyInv, ExecInv, Types, JobTypes
<1>5. BoundInv'
  <2>1. CASE stmt' = stmt
    BY <1>1, <2>1, BoundKept DEF Inv, CallsInv, StmtInv, Types, JobTypes
  <2>2. CASE \A k \in Cols : stmt'.bound[k] = Unbound
    BY <2>2 DEF BoundInv
  <2>3. QED
    BY <2>1, <2>2
<1>6. Apart'
  BY DEF Inv, CallsInv, Apart
<1>7. QED
  BY <1>2, <1>3, <1>4, <1>5, <1>6 DEF CallsInv, StmtInv

\* A statement is prepared and shares the handle.
LEMMA PrepareStep ==
  ASSUME Inv, Prepare
  PROVE  Inv'
<1>1. /\ UNCHANGED <<appender, table, asked, job, arrow, many, exec, results, database>>
      /\ holders' = holders \cup {"statement"}
      /\ stmt' = [open |-> TRUE, bound |-> Stmt!Cleared] /\ "connection" \in holders
  BY DEF Prepare, Stmt!prepare, Holds
<1>2. StmtTypes' /\ \A k \in Cols : stmt'.bound[k] = Unbound
  BY <1>1 DEF StmtTypes, Stmt!Cleared, Stmt!Params, Cols
<1>3. Types'
  BY <1>1, <1>2 DEF Inv, Types, AppenderTypes, AskedTypes, JobTypes, ShareTypes
<1>4. Handles'
  BY <1>1 DEF Inv, Handles
<1>5. RowsInv' /\ CallsInv'
  BY <1>1, <1>2, ClearedStep
<1>6. QED
  BY <1>3, <1>4, <1>5 DEF Inv

\* An object lets go of its share of the handle, or a statement closes.
LEMMA LetsGoStep ==
  ASSUME Inv, CloseStatement \/ (\E r \in {"open", "closed"} : DropResult(r)) \/ CloseConnection
  PROVE  Inv'
<1>1. /\ UNCHANGED <<appender, table, asked, job, arrow, many, exec>>
      /\ \/ \E h \in {"statement", "result", "connection"} :
              holders' = holders \ {h} /\ database' = (database /\ holders' # {})
         \/ UNCHANGED <<holders, database>>
      /\ results' \subseteq results
      /\ stmt'.open => "statement" \in holders'
      /\ "open" \in results' => "result" \in holders'
      /\ StmtTypes'
      /\ stmt' = stmt \/ \A k \in Cols : stmt'.bound[k] = Unbound
  <2>1. CASE CloseStatement
    <3>1. stmt' = [open |-> FALSE, bound |-> Stmt!Cleared]
      BY <2>1 DEF CloseStatement, Stmt!close
    <3>2. StmtTypes' /\ ~stmt'.open /\ \A k \in Cols : stmt'.bound[k] = Unbound
      BY <3>1 DEF StmtTypes, Stmt!Cleared, Stmt!Params, Cols
    <3>3. QED
      BY <2>1, <3>2 DEF CloseStatement, Stmt!close, LetsGo, Inv, Handles
  <2>2. CASE \E r \in {"open", "closed"} : DropResult(r)
    BY <2>2 DEF DropResult, LetsGo, Keeps, appenderVars, stmtVars, Inv, Handles, Types, StmtTypes
  <2>3. CASE CloseConnection
    BY <2>3 DEF CloseConnection, LetsGo, appenderVars, stmtVars, Inv, Handles, Types, StmtTypes
  <2>4. QED
    BY <2>1, <2>2, <2>3
<1>2. Types'
  BY <1>1 DEF Inv, Types, AppenderTypes, AskedTypes, JobTypes, ShareTypes
<1>3. Handles'
  <2>1. CASE UNCHANGED <<holders, database>>
    BY <1>1, <2>1 DEF Inv, Handles
  <2>2. CASE \E h \in {"statement", "result", "connection"} :
               holders' = holders \ {h} /\ database' = (database /\ holders' # {})
    BY <1>1, <2>2 DEF Inv, Handles
  <2>3. QED
    BY <1>1, <2>1, <2>2
<1>4. RowsInv' /\ CallsInv'
  BY <1>1, ClearedStep
<1>5. QED
  BY <1>2, <1>3, <1>4 DEF Inv

\* execute fails: its call is recorded, and the statement keeps what was bound.
LEMMA ExecuteFailsStep ==
  ASSUME Inv, NEW S \in SUBSET Cols, Stmt!execute_fails(S), Keeps,
         UNCHANGED <<appender, arrow, results>>
  PROVE  Inv'
<1>1. /\ job = Idle /\ Len(asked) < MaxCalls /\ stmt.open
      /\ UNCHANGED <<table, job, many, exec>>
      /\ stmt \in [open : BOOLEAN, bound : [Cols -> Cell \cup {Unbound}]]
  BY DEF Stmt!execute_fails, Stmt!CanCall, Inv, Types, StmtTypes
<1>2. PICK c \in Calls : c = Call /\ c = Stmt!Call
  BY <1>1, NextCall DEF Inv, Types, Call, Stmt!Call
<1>3. PICK b \in [Cols -> Cell \cup {Unbound}] :
        stmt' = [stmt EXCEPT !.bound = b] /\ b = Stmt!Bind(Stmt!Cleared, c, 1, S)
  <2>1. Stmt!Cleared \in [Cols -> Cell \cup {Unbound}]
    BY DEF Stmt!Cleared, Stmt!Params, Cols
  <2>2. Stmt!Bind(Stmt!Cleared, c, 1, S) \in [Cols -> Cell \cup {Unbound}]
    BY <2>1, GivenTypes
  <2>3. QED
    BY <1>2, <2>2 DEF Stmt!execute_fails
<1>4. stmt'.open = stmt.open /\ stmt'.bound = b /\ StmtTypes'
  BY <1>1, <1>3 DEF StmtTypes
<1>5. PICK rows \in Seq(Given1) :
        /\ asked' = Append(asked, [rows |-> rows, result |-> "raised"])
        /\ DOMAIN rows = {1} /\ rows[1] = Stmt!Expected(c, 1, S, Unbound)
  <2>1. PICK given \in Given1 : given = Stmt!Expected(c, 1, S, Unbound)
    BY GivenTypes
  <2>2. <<given>> \in Seq(Given1) /\ DOMAIN <<given>> = {1} /\ <<given>>[1] = given
    OBVIOUS
  <2>3. asked' = Append(asked, [rows |-> <<given>>, result |-> "raised"])
    BY <1>2, <2>1 DEF Stmt!execute_fails, Stmt!Asks
  <2>4. QED
    BY <2>1, <2>2, <2>3, Zenon
<1>6. Stored' = Stored
  BY <1>1 DEF Stored
<1>7. /\ AskedTypes' /\ RowsInv' /\ DOMAIN asked \subseteq DOMAIN asked' /\ c \in DOMAIN asked'
      /\ asked'[c] = [rows |-> rows, result |-> "raised"]
      /\ \A d \in DOMAIN asked : d # c /\ Untouched(d)
      /\ AsksKept
  BY <1>1, <1>2, <1>5, <1>6, CallBegins
<1>8. Types'
  BY <1>1, <1>4, <1>7 DEF Inv, Types, AppenderTypes, JobTypes, ShareTypes, Keeps
<1>9. Handles'
  BY <1>1, <1>4 DEF Inv, Handles, Keeps
<1>10. ArrowInv' /\ ManyInv' /\ ExecInv'
  BY <1>1, <1>7, ArrowKept, ManyKept, ExecKept
  DEF Inv, CallsInv, Types, JobTypes, StmtInv, ManyInv, ExecInv
<1>11. BoundInv'
  <2>1. many # Idle => many.call \in DOMAIN asked /\ many.call \in Calls /\ many.call < c
    <3>1. DOMAIN asked = 1 .. Len(asked) /\ Len(asked) \in Nat
      BY LenProperties DEF Inv, Types, AskedTypes
    <3>2. c = Len(asked) + 1
      BY <1>2 DEF Call
    <3>3. QED
      BY <3>1, <3>2 DEF Inv, Types, JobTypes
  <2>2. asked'[c].rows = rows
    BY <1>7
  <2>3. ASSUME NEW k \in S
        PROVE  stmt'.bound[k] = <<c, 1, k>> /\ Gave(c, 1, k)'
    <3>1. stmt'.bound[k] = <<c, 1, k>>
      BY <1>3, <1>4 DEF Stmt!Bind, Stmt!Params, Cols
    <3>2. asked'[c].rows[1][k] = <<c, 1, k>>
      BY <1>5, <2>2 DEF Stmt!Expected, Stmt!Params, Cols
    <3>3. QED
      BY <3>1, <3>2 DEF Gave
  <2>4. \A k \in Cols \ S : stmt'.bound[k] = Unbound
    BY <1>3, <1>4 DEF Stmt!Bind, Stmt!Cleared, Stmt!Params, Cols
  <2>5. QED
    BY <1>1, <1>5, <1>7, <2>1, <2>2, <2>3, <2>4, BoundByCall DEF Inv, CallsInv, StmtInv
<1>12. JobInv' /\ Apart'
  BY <1>1 DEF JobInv, Apart, Inv, CallsInv
<1>13. QED
  BY <1>7, <1>8, <1>9, <1>10, <1>11, <1>12 DEF Inv, CallsInv, StmtInv

\* executemany begins.
LEMMA ManyStep ==
  ASSUME Inv, NEW sets \in Rows, Stmt!executemany(sets), Keeps,
         UNCHANGED <<appender, arrow, results>>
  PROVE  Inv'
<1>1. /\ job = Idle /\ many = Idle /\ Len(asked) < MaxCalls
      /\ UNCHANGED <<stmt, table, job, exec>>
      /\ sets \in Seq(SUBSET Cols) /\ DOMAIN sets = 1 .. Len(sets) /\ Len(sets) \in Nat
  BY RowsAreOfTheTable, LenProperties DEF Stmt!executemany, Stmt!CanCall
<1>2. PICK c \in Calls : c = Call /\ c = Stmt!Call
  BY <1>1, NextCall DEF Inv, Types, Call, Stmt!Call
<1>3. PICK rows \in Seq(Given1) :
        rows = [i \in DOMAIN sets |-> Stmt!Expected(c, i, sets[i], Before)]
  <2>1. ASSUME NEW i \in 1 .. Len(sets)
        PROVE  Stmt!Expected(c, i, sets[i], Before) \in Given1
    <3>1. i \in Nat /\ sets[i] \in SUBSET Cols
      BY <1>1, ElementOfSeq
    <3>2. QED
      BY <3>1, GivenTypes
  <2>2. [i \in DOMAIN sets |-> Stmt!Expected(c, i, sets[i], Before)] \in Seq(Given1)
    BY <1>1, <2>1
  <2>3. QED
    BY <2>2
<1>4. Stored' = Stored
  BY <1>1 DEF Stored
<1>5. /\ AskedTypes' /\ RowsInv'
      /\ DOMAIN asked \subseteq DOMAIN asked' /\ c \in DOMAIN asked'
      /\ asked'[c] = [rows |-> rows, result |-> "running"]
      /\ \A d \in DOMAIN asked : d # c /\ Untouched(d)
      /\ \A i \in Nat : <<c, i>> \notin Bys(Stored')
      /\ AsksKept
  <2>1. asked' = Append(asked, [rows |-> rows, result |-> "running"])
    BY <1>2, <1>3 DEF Stmt!executemany, Stmt!Asks
  <2>2. QED
    BY <1>1, <1>2, <1>4, <2>1, CallBegins
<1>6. /\ many' \in [call : Calls, at : Nat, sets : Seq(SUBSET Cols)]
      /\ many'.call = c /\ many'.at = 0 /\ many'.sets = sets
  BY <1>1, <1>2 DEF Stmt!executemany
<1>7. Types'
  BY <1>1, <1>5, <1>6, RestKept DEF Inv, Types, AppenderTypes, JobTypes
<1>8. Handles'
  BY <1>1 DEF Inv, Handles, Keeps
<1>9. ManyInv'
  <2>1. asked'[c].rows = rows /\ asked'[c].result = "running"
    BY <1>5
  <2>2. DOMAIN rows = 1 .. Len(sets)
    BY <1>1, <1>3
  <2>3. Progress(c, 0)'
    BY <1>5, <2>1, <2>2 DEF Progress
  <2>4. \A row \in Elems(appender'.rows) : row.by[1] # c
    BY <1>5, StoredRows DEF Inv, Types, RowsInv, Whole
  <2>5. QED
    BY <1>1, <1>3, <1>6, <2>1, <2>3, <2>4 DEF ManyInv, Stmt!Expected
<1>10. JobInv' /\ ArrowInv' /\ ExecInv'
  BY <1>1, <1>5, ArrowKept, ExecKept DEF JobInv, Inv, CallsInv, Types, JobTypes, StmtInv, ExecInv
<1>11. BoundInv'
  <2> SUFFICES ASSUME NEW k \in Cols, stmt.bound[k] # Unbound
               PROVE  (/\ IsGiven(k, stmt.bound[k])
                       /\ many # Idle => Inherited(many.call, many.at + 1, k, stmt.bound[k]))'
    BY <1>1 DEF BoundInv
  <2>1. PICK cell : cell = stmt.bound[k] /\ IsGiven(k, cell)
    BY DEF Inv, CallsInv, StmtInv, BoundInv, IsGiven
  <2>2. PICK d, h : /\ d \in DOMAIN asked /\ h \in DOMAIN asked[d].rows
                    /\ cell = <<d, h, k>> /\ Gave(d, h, k)
    BY <2>1 DEF IsGiven
  <2>3. d \in DOMAIN asked' /\ h \in DOMAIN asked'[d].rows /\ Gave(d, h, k)' /\ d # c
    BY <1>5, <2>2 DEF AsksKept, Gave
  <2>4. 1 .. 1 - 1 = {}
    OBVIOUS
  <2>5. IsGiven(k, cell)' /\ Inherited(c, 1, k, cell)'
    BY <2>2, <2>3, <2>4 DEF Inherited, IsGiven
  <2>6. many'.call = c /\ many'.at + 1 = 1 /\ stmt'.bound[k] = cell
    BY <1>1, <1>6, <2>1
  <2>7. QED
    BY <2>5, <2>6 DEF Inherited, IsGiven, Gave
<1>12. Apart'
  BY <1>1, <1>5, <1>6 DEF Apart, Inv, CallsInv, Types, JobTypes
<1>13. QED
  BY <1>5, <1>7, <1>8, <1>9, <1>10, <1>11, <1>12 DEF Inv, CallsInv, StmtInv

\* A row of executemany is inserted: with what it gives, and what is bound otherwise.
LEMMA ManyRowStep ==
  ASSUME Inv, Stmt!many_row, Keeps, UNCHANGED <<appender, arrow, results>>
  PROVE  Inv'
<1>1. /\ job = Idle /\ many # Idle /\ stmt.open /\ many.call \in DOMAIN asked
      /\ many \in [call : Calls, at : Nat, sets : Seq(SUBSET Cols)]
      /\ many.at < Len(many.sets) /\ Progress(many.call, many.at)
      /\ asked[many.call].result = "running"
      /\ asked[many.call].rows =
           [i \in DOMAIN many.sets |-> Stmt!Expected(many.call, i, many.sets[i], Before)]
      /\ \A r \in Elems(appender.rows) : r.by[1] # many.call
      /\ UNCHANGED <<asked, job, exec>>
      /\ stmt \in [open : BOOLEAN, bound : [Cols -> Cell \cup {Unbound}]]
      /\ BoundInv /\ StmtInv
  BY DEF Stmt!many_row, Stmt!InMany, Inv, CallsInv, StmtInv, ManyInv, Types, JobTypes, StmtTypes
<1>2. PICK c \in Calls, at \in Nat, sets \in Seq(SUBSET Cols) :
        many.call = c /\ many.at = at /\ many.sets = sets
  BY <1>1
<1>3. PICK hi \in Nat : hi = at + 1 /\ hi = Stmt!Next1 /\ hi \in 1 .. Len(sets)
  <2>1. at + 1 \in 1 .. Len(sets)
    BY <1>1, <1>2, LenProperties
  <2>2. QED
    BY <1>2, <2>1 DEF Stmt!Next1
<1>4. DOMAIN sets = 1 .. Len(sets) /\ Len(sets) \in Nat /\ sets[hi] \in SUBSET Cols
  BY <1>3, LenProperties, ElementOfSeq
<1>5. PICK b \in [Cols -> Cell \cup {Unbound}] : b = Stmt!Bind(stmt.bound, c, hi, sets[hi])
  <2>1. stmt.bound \in [Cols -> Cell \cup {Unbound}]
    BY <1>1
  <2>2. QED
    BY <1>4, <2>1, GivenTypes
<1>6. stmt' = [stmt EXCEPT !.bound = b]
  BY <1>2, <1>3, <1>5 DEF Stmt!many_row
<1>7. stmt'.bound = b /\ stmt'.open /\ StmtTypes'
  BY <1>1, <1>6 DEF StmtTypes
<1>8. Stmt!Complete(b) /\ table' = Append(table, [by |-> <<c, hi>>, cells |-> b])
  BY <1>2, <1>3, <1>7 DEF Stmt!many_row, Stmt!Row
<1>9. PICK row : row = [by |-> <<c, hi>>, cells |-> b]
  OBVIOUS
<1>10. row \in RowType /\ row.by = <<c, hi>> /\ row.cells = b /\ b \in [Cols -> Cell]
  <2>1. b \in [Cols -> Cell]
    BY <1>8, CompleteBindings
  <2>2. QED
    BY <1>9, <2>1 DEF RowType
<1>11. /\ Whole(row)' /\ AsksKept
       /\ hi \in DOMAIN asked[c].rows
       /\ \A k \in Cols :
            IF k \in sets[hi] THEN asked[c].rows[hi][k] = <<c, hi, k>> /\ b[k] = <<c, hi, k>>
            ELSE asked[c].rows[hi][k] = Before /\ b[k] = stmt.bound[k]
                 /\ Inherited(c, hi, k, b[k])
  <2>1. /\ hi \in DOMAIN asked[c].rows
        /\ asked[c].rows[hi] = Stmt!Expected(c, hi, sets[hi], Before)
    BY <1>1, <1>2, <1>3, <1>4
  <2>2. \A k \in Cols : b[k] # Unbound /\ b[k] # Before
    BY <1>8, <1>10, NoBefore DEF Stmt!Complete, Stmt!Params, Cols
  <2>3. \A k \in Cols :
          IF k \in sets[hi] THEN asked[c].rows[hi][k] = <<c, hi, k>> /\ b[k] = <<c, hi, k>>
          ELSE asked[c].rows[hi][k] = Before /\ b[k] = stmt.bound[k]
    BY <1>5, <2>1 DEF Stmt!Expected, Stmt!Bind, Stmt!Params, Cols
  <2>4. \A k \in Cols : k \notin sets[hi] => Inherited(c, hi, k, b[k])
    BY <1>1, <1>2, <1>3, <2>2, <2>3 DEF BoundInv
  <2>5. Stands(c, hi, b)
    <3> SUFFICES ASSUME NEW k \in Cols
                 PROVE  IF asked[c].rows[hi][k] = Before THEN Inherited(c, hi, k, b[k])
                        ELSE b[k] = asked[c].rows[hi][k]
      BY DEF Stands
    <3>1. QED
      BY <2>2, <2>3, <2>4
  <2>6. AsksKept
    BY <1>1 DEF AsksKept
  <2>7. Whole(row)
    BY <1>1, <1>2, <1>10, <2>1, <2>5 DEF Whole
  <2>8. QED
    BY <2>1, <2>3, <2>4, <2>6, <2>7, WholeKept
<1>12. /\ AppenderTypes' /\ RowsInv'
       /\ \A d \in DOMAIN asked : d # c => Untouched(d)
       /\ \A i \in Nat : <<c, i>> \in Bys(Stored') => i <= hi
       /\ \A i \in 1 .. hi : <<c, i>> \in Bys(Stored')
  <2>1. /\ \A i \in Nat : <<c, i>> \in Bys(Stored) => i <= at
        /\ \A i \in 1 .. at : <<c, i>> \in Bys(Stored)
    <3>1. DOMAIN asked[c].rows = 1 .. Len(sets)
      BY <1>1, <1>2, <1>4
    <3>2. \A i \in 1 .. at : i \in 1 .. Len(sets) /\ i <= at
      BY <1>1, <1>2, <1>4
    <3>3. QED
      BY <1>1, <1>2, <3>1, <3>2 DEF Progress
  <2>2. /\ c \in DOMAIN asked' /\ DOMAIN asked' = DOMAIN asked \cup {c}
        /\ \A d \in DOMAIN asked : asked'[d].rows = asked[d].rows /\ (d # c => asked'[d] = asked[d])
        /\ asked'[c].result # "ok" /\ \A r \in Elems(appender.rows) : r.by[1] # c
    BY <1>1, <1>2, ZenonT(30)
  <2>3. row.by = <<c, at + 1>> /\ table' = Append(table, row)
    BY <1>3, <1>8, <1>9, <1>10
  <2>4. /\ AppenderTypes' /\ RowsInv'
        /\ \A d \in DOMAIN asked : d # c => Untouched(d)
        /\ \A i \in Nat : <<c, i>> \in Bys(Stored') => i <= at + 1
        /\ \A i \in 1 .. at + 1 : <<c, i>> \in Bys(Stored')
    BY <1>10, <1>11, <2>1, <2>2, <2>3, RowInserted
  <2>5. QED
    BY <1>3, <2>4
<1>13. /\ many' \in [call : Calls, at : Nat, sets : Seq(SUBSET Cols)]
       /\ many'.call = c /\ many'.at = hi /\ many'.sets = sets
  <2>1. many' = [many EXCEPT !.at = hi]
    BY <1>3 DEF Stmt!many_row
  <2>2. QED
    BY <1>1, <1>2, <2>1
<1>14. Types'
  <2>1. JobTypes'
    BY <1>1, <1>2, <1>13 DEF Inv, Types, JobTypes
  <2>2. AskedTypes' /\ ShareTypes'
    BY <1>1 DEF Inv, Types, AskedTypes, ShareTypes, Keeps
  <2>3. QED
    BY <1>7, <1>12, <2>1, <2>2 DEF Types
<1>15. Handles'
  BY <1>1, <1>7 DEF Inv, Handles, Keeps
<1>16. ManyInv'
  <2>1. DOMAIN asked[c].rows = 1 .. Len(sets)
    BY <1>1, <1>2, <1>4
  <2>2. Progress(c, hi)'
    BY <1>1, <1>2, <1>12, <2>1 DEF Progress
  <2>3. /\ asked'[c].rows = [i \in DOMAIN sets |-> Stmt!Expected(c, i, sets[i], Before)]
        /\ asked'[c].result = "running" /\ hi <= Len(sets)
    BY <1>1, <1>2, <1>3, <1>4
  <2>4. \A r \in Elems(appender'.rows) : r.by[1] # c
    BY <1>1, <1>2
  <2>5. QED
    BY <1>13, <2>2, <2>3, <2>4 DEF ManyInv, Progress, Stmt!Expected
<1>17. BoundInv'
  <2> SUFFICES ASSUME NEW k \in Cols, b[k] # Unbound
               PROVE  IsGiven(k, b[k]) /\ Inherited(c, hi + 1, k, b[k])
    <3> SUFFICES ASSUME NEW k \in Cols, stmt'.bound[k] # Unbound
                 PROVE  (/\ IsGiven(k, stmt.bound[k])
                         /\ many # Idle => Inherited(many.call, many.at + 1, k, stmt.bound[k]))'
      BY DEF BoundInv
    <3>1. IsGiven(k, b[k]) /\ Inherited(c, hi + 1, k, b[k])
      BY <1>7
    <3>2. stmt'.bound[k] = b[k] /\ many'.call = c /\ many'.at + 1 = hi + 1 /\ asked' = asked
      BY <1>1, <1>7, <1>13
    <3>3. QED
      BY <3>1, <3>2 DEF Inherited, IsGiven, Gave
  <2>1. CASE k \in sets[hi]
    <3>1. b[k] = <<c, hi, k>> /\ Gave(c, hi, k)
      BY <1>11, <2>1 DEF Gave
    <3>2. hi < hi + 1 /\ \A g \in 1 .. hi + 1 - 1 : g <= hi
      OBVIOUS
    <3>3. QED
      BY <1>1, <1>2, <1>11, <3>1, <3>2 DEF Inherited, IsGiven
  <2>2. CASE k \notin sets[hi]
    <3>1. b[k] = stmt.bound[k] /\ asked[c].rows[hi][k] = Before /\ Inherited(c, hi, k, b[k])
      BY <1>11, <2>2
    <3>2. IsGiven(k, b[k])
      BY <1>1, <3>1 DEF BoundInv
    <3>3. ~Gave(c, hi, k)
      <4>1. <<c, hi, k>> \in Cell
        BY <1>2, <1>3 DEF Cell, Calls
      <4>2. QED
        BY <3>1, <4>1, NoBefore DEF Gave
    <3>4. Inherited(c, hi + 1, k, b[k])
      <4>1. PICK d, h :
              /\ d \in DOMAIN asked /\ h \in DOMAIN asked[d].rows
              /\ b[k] = <<d, h, k>> /\ Gave(d, h, k)
              /\ d = c => h < hi
              /\ \A g \in 1 .. hi - 1 : Gave(c, g, k) => d > c \/ (d = c /\ g <= h)
        BY <3>1 DEF Inherited
      <4>2. d = c => h < hi + 1
        <5>1. ASSUME d = c
              PROVE  h \in Nat
          <6>1. h \in DOMAIN asked[c].rows /\ DOMAIN asked[c].rows = 1 .. Len(sets)
            BY <1>1, <1>2, <1>4, <4>1, <5>1
          <6>2. QED
            BY <1>4, <6>1
        <5>2. QED
          BY <4>1, <5>1
      <4>3. ASSUME NEW g \in 1 .. hi + 1 - 1, Gave(c, g, k)
            PROVE  d > c \/ (d = c /\ g <= h)
        <5>1. g # hi
          BY <3>3, <4>3
        <5>2. g \in 1 .. hi - 1
          BY <5>1
        <5>3. QED
          BY <4>1, <4>3, <5>2
      <4>4. QED
        BY <4>1, <4>2, <4>3 DEF Inherited
    <3>5. QED
      BY <3>2, <3>4
  <2>3. QED
    BY <2>1, <2>2
<1>18. JobInv' /\ ArrowInv' /\ ExecInv' /\ Apart'
  <2>1. ArrowInv'
    BY <1>1, <1>2, <1>12, ArrowKept DEF Inv, CallsInv, Types, JobTypes, Apart
  <2>2. ExecInv'
    BY <1>1, <1>2, <1>11, <1>12, ExecKept DEF Inv, CallsInv, StmtInv, ExecInv, Types, JobTypes, Apart
  <2>3. QED
    BY <1>1, <1>2, <1>13, <2>1, <2>2 DEF JobInv, Apart, Inv, CallsInv
<1>19. QED
  BY <1>12, <1>14, <1>15, <1>16, <1>17, <1>18 DEF Inv, CallsInv, StmtInv

\* executemany ends.
LEMMA ManyEndsStep ==
  ASSUME Inv, (\E S \in SUBSET Cols : Stmt!many_fails(S)) \/ Stmt!many_returns, Keeps,
         UNCHANGED <<appender, arrow, results>>
  PROVE  Inv'
<1>1. /\ job = Idle /\ many # Idle /\ many' = Idle /\ many.call \in DOMAIN asked
      /\ many \in [call : Calls, at : Nat, sets : Seq(SUBSET Cols)]
      /\ Progress(many.call, many.at) /\ asked[many.call].result = "running"
      /\ asked[many.call].rows =
           [i \in DOMAIN many.sets |-> Stmt!Expected(many.call, i, many.sets[i], Before)]
      /\ UNCHANGED <<table, job, exec>> /\ BoundInv /\ ExecInv
      /\ many.at <= Len(many.sets)
      /\ stmt \in [open : BOOLEAN, bound : [Cols -> Cell \cup {Unbound}]]
  BY DEF Stmt!many_fails, Stmt!many_returns, Stmt!InMany, Inv, CallsInv, StmtInv, ManyInv, Types, JobTypes,
         StmtTypes
<1>2. PICK c \in DOMAIN asked : c = many.call /\ c \in Calls
  BY <1>1
<1>3. /\ stmt'.open = stmt.open /\ StmtTypes'
      /\ \A k \in Cols : \/ stmt'.bound[k] = stmt.bound[k]
                         \/ \E h \in DOMAIN asked[c].rows :
                              stmt'.bound[k] = <<c, h, k>> /\ Gave(c, h, k)
  <2>1. CASE Stmt!many_returns
    BY <1>1, <2>1 DEF Stmt!many_returns, StmtTypes
  <2>2. CASE \E S \in SUBSET Cols : Stmt!many_fails(S)
    <3>1. PICK S \in SUBSET Cols : Stmt!many_fails(S)
      BY <2>2
    <3>2. PICK at \in Nat : at = Stmt!Next1 /\ at = many.at + 1
      BY <1>1 DEF Stmt!Next1
    <3>3. PICK b \in [Cols -> Cell \cup {Unbound}] : b = Stmt!Bind(stmt.bound, c, at, S)
      <4>1. stmt.bound \in [Cols -> Cell \cup {Unbound}]
        BY <1>1
      <4>2. QED
        BY <1>2, <4>1, GivenTypes
    <3>4. stmt' = [stmt EXCEPT !.bound = b]
      BY <1>2, <3>1, <3>2, <3>3 DEF Stmt!many_fails
    <3>5. stmt'.open = stmt.open /\ stmt'.bound = b /\ StmtTypes'
      BY <1>1, <3>4 DEF StmtTypes
    <3>6. ASSUME NEW k \in S
          PROVE  \E h \in DOMAIN asked[c].rows : b[k] = <<c, h, k>> /\ Gave(c, h, k)
      <4>1. many.at < Len(many.sets) /\ S \subseteq many.sets[at] /\ k \in Cols
        BY <3>1, <3>2, <3>6 DEF Stmt!many_fails
      <4>2. at \in DOMAIN many.sets
        BY <1>1, <3>2, <4>1, LenProperties
      <4>3. at \in DOMAIN asked[c].rows /\ asked[c].rows[at][k] = <<c, at, k>>
        <5>1. /\ at \in DOMAIN asked[c].rows
              /\ asked[c].rows[at] = Stmt!Expected(c, at, many.sets[at], Before)
          BY <1>1, <1>2, <4>2
        <5>2. k \in many.sets[at] /\ k \in Cols
          BY <4>1
        <5>3. QED
          BY <5>1, <5>2 DEF Stmt!Expected, Stmt!Params, Cols
      <4>4. b[k] = <<c, at, k>>
        BY <3>3, <3>6, <4>1 DEF Stmt!Bind, Stmt!Params, Cols
      <4>5. QED
        BY <4>3, <4>4 DEF Gave
    <3>7. \A k \in Cols \ S : b[k] = stmt.bound[k]
      BY <3>3 DEF Stmt!Bind, Stmt!Params, Cols
    <3>8. QED
      BY <3>5, <3>6, <3>7
  <2>3. QED
    BY <2>1, <2>2
<1>4. PICK result \in Results :
        /\ asked' = [asked EXCEPT ![c].result = result]
        /\ result = "ok" => many.at = Len(many.sets)
  <2>1. CASE Stmt!many_returns
    BY <1>2, <2>1 DEF Stmt!many_returns, Stmt!Ends, Results
  <2>2. CASE \E S \in SUBSET Cols : Stmt!many_fails(S)
    BY <1>2, <2>2 DEF Stmt!many_fails, Stmt!Ends, Results
  <2>3. QED
    BY <2>1, <2>2
<1>5. Stored' = Stored
  BY <1>1 DEF Stored
<1>6. result = "ok" => \A i \in DOMAIN asked[c].rows : <<c, i>> \in Bys(Stored)
  <2>1. DOMAIN asked[c].rows = 1 .. Len(many.sets)
    BY <1>1, <1>2, LenProperties
  <2>2. QED
    BY <1>1, <1>2, <1>4, <2>1 DEF Progress
<1>7. /\ AskedTypes' /\ RowsInv' /\ DOMAIN asked' = DOMAIN asked /\ AsksKept
      /\ \A d \in DOMAIN asked : d # c => Untouched(d)
  BY <1>4, <1>5, <1>6, CallEnds
<1>8. Types'
  BY <1>1, <1>3, <1>7 DEF Inv, Types, AppenderTypes, JobTypes, ShareTypes, Keeps
<1>9. Handles'
  BY <1>1, <1>3 DEF Inv, Handles, Keeps
<1>10. ArrowInv'
  BY <1>1, <1>2, <1>7, ArrowKept DEF Inv, CallsInv, Types, JobTypes, Apart
<1>11. ExecInv'
  BY <1>1, <1>2, <1>7, ExecKept DEF Inv, CallsInv, ExecInv, Types, JobTypes, Apart
<1>12. BoundInv'
  <2> SUFFICES ASSUME NEW k \in Cols, stmt'.bound[k] # Unbound
               PROVE  IsGiven(k, stmt.bound[k])'
    BY <1>1 DEF BoundInv
  <2>1. PICK cell : cell = stmt'.bound[k]
    OBVIOUS
  <2>2. IsGiven(k, cell)
    BY <1>1, <1>2, <1>3, <2>1 DEF BoundInv, IsGiven
  <2>3. IsGiven(k, cell)'
    BY <1>7, <2>2, IsGivenKept
  <2>4. QED
    BY <2>1, <2>3 DEF IsGiven, Gave
<1>13. JobInv' /\ ManyInv' /\ Apart'
  BY <1>1 DEF JobInv, ManyInv, Apart, Inv, CallsInv
<1>14. QED
  BY <1>7, <1>8, <1>9, <1>10, <1>11, <1>12, <1>13 DEF Inv, CallsInv, StmtInv

-----------------------------------------------------------------------------
(* The invariant.                                                          *)

\* It holds at first.
LEMMA InitInv == IngestInit => Inv
<1> SUFFICES ASSUME IngestInit
             PROVE  Inv
  OBVIOUS
<1>1. PICK none \in Seq(RowType), nothing \in Seq(Cell), calls \in Seq(CallType) :
        none = <<>> /\ nothing = <<>> /\ calls = <<>>
  BY EmptySeq
<1>2. /\ appender = [open |-> FALSE, part |-> nothing, rows |-> none, closed |-> FALSE,
                     gone |-> TRUE, aborted |-> FALSE]
      /\ table = none /\ asked = calls /\ job = Idle /\ arrow = Idle /\ many = Idle
      /\ exec = Idle /\ results = {}
      /\ holders = {"connection"} /\ database = TRUE
  BY <1>1 DEF IngestInit, Init, NewAppender, Stmt!Init
<1>3. stmt = [open |-> FALSE, bound |-> Stmt!Cleared]
  BY DEF IngestInit, Stmt!Init
<1>4. Len(none) = 0 /\ Len(nothing) = 0 /\ Len(calls) = 0
  BY <1>1, EmptySeq
<1>5. AppenderTypes /\ AskedTypes
  BY <1>1, <1>2, <1>4, SizesArePositive DEF AppenderTypes, AppenderType, AskedTypes
<1>6. StmtTypes /\ ~stmt.open /\ \A k \in Cols : stmt.bound[k] = Unbound
  BY <1>3 DEF StmtTypes, Stmt!Cleared, Stmt!Params, Cols
<1>7. JobTypes /\ ShareTypes
  BY <1>2 DEF JobTypes, ShareTypes
<1>8. Handles
  BY <1>1, <1>2, <1>6 DEF Handles
<1>9. Stored = <<>>
  BY <1>1, <1>2, ConcatEmptySeq DEF Stored
<1>10. DOMAIN asked = {}
  BY <1>1, <1>2, <1>4, LenProperties
<1>11. RowsInv
  BY <1>9, <1>10, EmptySeq DEF RowsInv, Sorted, Elems
<1>12. CallsInv
  BY <1>2, <1>6 DEF CallsInv, JobInv, ArrowInv, StmtInv, ManyInv, ExecInv, BoundInv, Apart
<1>13. QED
  BY <1>5, <1>6, <1>7, <1>8, <1>11, <1>12 DEF Inv, Types

\* Every step preserves it.
LEMMA NextInv == Inv /\ [Next]_vars => Inv'
<1> SUFFICES ASSUME Inv, [Next]_vars
             PROVE  Inv'
  OBVIOUS
<1>1. CASE UseAppender
  <2>1. Keeps /\ UNCHANGED <<stmtVars, results>>
    BY <1>1 DEF UseAppender
  <2>2. CASE append_row
    BY <2>1, <2>2, AppendRowStep
  <2>3. CASE append_one
    BY <2>1, <2>3, AppendOneStep
  <2>4. CASE append_one_fails \/ append_chunk_fails
    BY <2>1, <2>4, JobFailsStep
  <2>5. CASE end_row
    BY <2>1, <2>5, EndRowStep
  <2>6. CASE \E m \in Masks, n \in Lengths : append_columns(m, n)
    BY <2>1, <2>6, ColumnsStep
  <2>7. CASE append_chunk
    BY <2>1, <2>7, AppendChunkStep
  <2>8. CASE append_columns_returns
    BY <2>1, <2>8, ColumnsReturnStep
  <2>9. CASE \E n \in Streams : append_arrow(n)
    BY <2>1, <2>9, ArrowStep
  <2>10. CASE append_batch
    BY <2>1, <2>10, AppendBatchStep
  <2>11. CASE append_arrow_fails \/ append_arrow_returns
    BY <2>1, <2>11, ArrowEndsStep
  <2>12. CASE flush
    BY <2>1, <2>12, FlushStep
  <2>13. CASE close
    BY <2>1, <2>13, CloseStep
  <2>14. QED
    BY <1>1, <2>2, <2>3, <2>4, <2>5, <2>6, <2>7, <2>8, <2>9, <2>10, <2>11, <2>12, <2>13
    DEF UseAppender
<1>2. CASE UseStatement
  <2>1. Keeps /\ UNCHANGED <<appender, arrow, results>>
    BY <1>2 DEF UseStatement
  <2>2. CASE (\E S \in SUBSET Cols : Stmt!execute(S)) \/ Stmt!execute_again
    BY <2>1, <2>2, ExecuteStep
  <2>3. CASE \E S \in SUBSET Cols : Stmt!execute_fails(S)
    BY <2>1, <2>3, ExecuteFailsStep
  <2>4. CASE Stmt!execute_raises
    BY <2>1, <2>4, ExecuteRaisesStep
  <2>5. CASE \E sets \in Rows : Stmt!executemany(sets)
    BY <2>1, <2>5, ManyStep
  <2>6. CASE Stmt!many_row
    BY <2>1, <2>6, ManyRowStep
  <2>7. CASE (\E S \in SUBSET Cols : Stmt!many_fails(S)) \/ Stmt!many_returns
    BY <2>1, <2>7, ManyEndsStep
  <2>8. QED
    BY <1>2, <2>2, <2>3, <2>4, <2>5, <2>6, <2>7 DEF UseStatement
<1>3. CASE CreateAppender
  BY <1>3, CreateStep
<1>4. CASE DropAppender
  BY <1>4, DropStep
<1>5. CASE Prepare
  BY <1>5, PrepareStep
<1>6. CASE ExecuteReturns
  BY <1>6, ExecuteReturnsStep
<1>7. CASE CloseStatement \/ (\E r \in {"open", "closed"} : DropResult(r)) \/ CloseConnection
  BY <1>7, LetsGoStep
<1>8. CASE UNCHANGED vars
  <2>1. UNCHANGED <<appender, table, asked, job, arrow, stmt, many, exec, results, holders, database>>
    BY <1>8 DEF vars, appenderVars, stmtVars
  <2>2. Types' /\ Handles'
    BY <2>1 DEF Inv, Types, AppenderTypes, AskedTypes, JobTypes, StmtTypes, ShareTypes, Handles
  <2>3. RowsInv' /\ CallsInv'
    BY <2>1, ClearedStep
  <2>4. QED
    BY <2>2, <2>3 DEF Inv
<1>9. QED
  BY <1>1, <1>2, <1>3, <1>4, <1>5, <1>6, <1>7, <1>8 DEF Next

\* The inductive invariant is an invariant.
THEOREM InvHolds == Spec => []Inv
BY InitInv, NextInv, PTL DEF Spec

-----------------------------------------------------------------------------
(* What follows from it.                                                   *)

\* Every row, call and share is of its type; a stored row stands for a row that some call
\* was given.
THEOREM TypeCorrect == Spec => []TypeOK
<1>1. ASSUME Inv
      PROVE  TypeOK
  <2>1. /\ appender.open \in BOOLEAN /\ appender.part \in Seq(Cell) /\ Len(appender.part) <= NCols
        /\ stmt.open \in BOOLEAN /\ \A k \in Cols : stmt.bound[k] \in Cell \cup {Unbound}
        /\ exec # Idle => \A k \in Cols : exec.bound[k] \in Cell
        /\ results \subseteq {"open", "closed"}
        /\ holders \subseteq {"connection", "appender", "statement", "result"}
    BY <1>1 DEF Inv, Types, AppenderTypes, AppenderType, StmtTypes, ShareTypes, JobTypes
  <2>2. ASSUME NEW j \in DOMAIN Stored
        PROVE  /\ Stored[j].by[1] \in DOMAIN asked
               /\ Stored[j].by[2] \in DOMAIN asked[Stored[j].by[1]].rows
               /\ Stored[j].cells \in Seq(Cell \cup {Null, Unwritten}) /\ Len(Stored[j].cells) = NCols
    <3>1. PICK row \in Elems(Stored) : row = Stored[j]
      BY DEF Elems
    <3>2. Whole(row) /\ row \in RowType
      BY <1>1, StoredRows DEF Inv, Types, RowsInv
    <3>3. PICK cells \in [1 .. NCols -> Cell \cup {Null, Unwritten}] : cells = row.cells
      BY <3>2 DEF RowType, Cols
    <3>4. cells \in Seq(Cell \cup {Null, Unwritten}) /\ Len(cells) = NCols
      BY SizesArePositive, SeqDef, LenProperties
    <3>5. QED
      BY <3>1, <3>2, <3>3, <3>4 DEF Whole
  <2>3. ASSUME NEW c \in DOMAIN asked
        PROVE  asked[c].result \in {"running", "ok", "raised", "lost"}
    <3>1. asked[c] \in CallType
      BY <1>1, LenProperties, ElementOfSeq DEF Inv, Types, AskedTypes
    <3>2. QED
      BY <3>1 DEF CallType, Results
  <2>4. QED
    BY <2>1, <2>2, <2>3 DEF TypeOK
<1>2. QED
  BY <1>1, InvHolds, PTL

\* Whatever failed before it and whoever called in between, a stored row has in each column
\* the cell that its call gave for it, or the mark that append_columns was told of; only a
\* parameter that the row left out is taken from elsewhere, as last bound.
THEOREM NoTornRow == Spec => []RowsAreWhole
<1>1. Inv => RowsAreWhole
  <2> SUFFICES ASSUME Inv, NEW j \in DOMAIN Stored, NEW k \in Cols
               PROVE  IF asked[Stored[j].by[1]].rows[Stored[j].by[2]][k] = Before
                      THEN Inherited(Stored[j].by[1], Stored[j].by[2], k, Stored[j].cells[k])
                      ELSE Stored[j].cells[k] = asked[Stored[j].by[1]].rows[Stored[j].by[2]][k]
    BY DEF RowsAreWhole
  <2>1. Whole(Stored[j])
    BY DEF Inv, RowsInv, Elems
  <2>2. QED
    BY <2>1 DEF Whole, Stands
<1>2. QED
  BY <1>1, InvHolds, PTL

\* A bulk call's rows are stored in order, none left out and none twice, and all of them
\* when the call returned and the appender did not lose them.
THEOREM BulkIsAPrefix == Spec => []BatchIsAPrefix
<1>1. ASSUME Inv
      PROVE  BatchIsAPrefix
  <2>1. Written = Bys(Stored)
    BY DEF Written, Bys
  <2>2. \A i, j \in DOMAIN Stored :
          i < j /\ Stored[i].by[1] = Stored[j].by[1] => Stored[i].by[2] < Stored[j].by[2]
    BY <1>1 DEF Inv, RowsInv, Sorted
  <2>3. ASSUME NEW b \in Bys(Stored), NEW i \in 1 .. b[2]
        PROVE  <<b[1], i>> \in Bys(Stored)
    <3>1. b \in Calls \X Nat /\ \E row \in Elems(Stored) : row.by = b
      BY <1>1, StoredRows DEF Inv, Types
    <3>2. b[1] \in DOMAIN asked /\ b = <<b[1], b[2]>> /\ b[2] \in Nat
      BY <1>1, <3>1 DEF Inv, RowsInv, Whole
    <3>3. QED
      BY <1>1, <3>2 DEF Inv, RowsInv, CallInv
  <2>4. \A c \in DOMAIN asked :
          asked[c].result = "ok" => \A i \in DOMAIN asked[c].rows : <<c, i>> \in Bys(Stored)
    BY <1>1 DEF Inv, RowsInv, CallInv
  <2>5. QED
    BY <2>1, <2>2, <2>3, <2>4 DEF BatchIsAPrefix
<1>2. QED
  BY <1>1, InvHolds, PTL

\* A closed appender is never closed again by its destructor.
THEOREM ClosedForGood == Spec => []CloseIsFinal
<1>1. Inv => CloseIsFinal
  BY DEF Inv, Handles, CloseIsFinal
<1>2. QED
  BY <1>1, InvHolds, PTL

\* The database is open while an appender, a statement, or a result whose statement was open
\* at its end is alive, and closed once nobody has a share; a result whose statement was
\* closed while it ran has none.
THEOREM DatabaseOutlivesItsUsers == Spec => []InOpenDatabase
<1>1. Inv => InOpenDatabase
  BY DEF Inv, Handles, InOpenDatabase
<1>2. QED
  BY <1>1, InvHolds, PTL
=============================================================================
