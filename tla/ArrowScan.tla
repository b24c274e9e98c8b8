------------------------------ MODULE ArrowScan ------------------------------
(***************************************************************************)
(* Scans of a registered Arrow source (src/cpp/arrow_scan.cpp), under one  *)
(* table name.                                                             *)
(*                                                                         *)
(* A plan keeps the schema it was bound with and is executed any number of *)
(* times; each execution opens the source that is registered at that       *)
(* moment, drains it into chunks and hands out windows of them to DuckDB's *)
(* workers.  Draining calls into the source batch by batch, so another     *)
(* Python thread may register a source in between; the workers run without *)
(* the GIL.  Rows are <<chunk, offset>>, offsets from 0 as in the code;    *)
(* chunks and windows are counted from 1.                                  *)
(***************************************************************************)
EXTENDS Naturals, Sequences, FiniteSets

CONSTANTS
  Scans,    \* occurrences of the table in plans, each with its bind data
  Cached,   \* those whose plan is in the statement cache when it is not executed; the
            \* others are prepared statements', or checked out when the cache is flushed
  Workers,  \* DuckDB's tasks, each a thread that runs one scan to its end
  Sources,  \* Arrow objects that can be registered
  Schema,   \* the schema of each
  Batches,  \* the sizes of the batches each streams
  VecSize,  \* duckdb_vector_size()
  None

ASSUME CachedAreScans    == Cached \subseteq Scans
ASSUME BatchesAreSizes   == Batches \in [Sources -> Seq(Nat)]
ASSUME VecSizeIsPositive == VecSize \in Nat \ {0}
ASSUME NoneIsNothing     == None \notin Scans \cup Sources \cup {Schema[src] : src \in Sources}

VARIABLES
  registered,  \* registry->sources[name]
  bound,       \* the schema each plan converts batches with, None when there is no plan
  phase,       \* of the execution of each scan: "none", "draining" or "scanning"
  scan,        \* ArrowScanState, and how far its stream is drained
  work,        \* where each worker is in arrow_scan_function, and its local state
  sel,         \* contents of the selection vectors: one is made for each worker
  emitted      \* rows of the present execution that downstream has read

vars == <<registered, bound, phase, scan, work, sel, emitted>>

NoState == [src |-> None, pulled |-> 0, chunks |-> <<>>, windows |-> <<>>, next |-> 1]
Off     == [pc |-> "off", scan |-> None, win |-> 0, vec |-> None]

Init ==
  /\ registered = None
  /\ bound = [s \in Scans |-> None]
  /\ phase = [s \in Scans |-> "none"]
  /\ scan = [s \in Scans |-> NoState]
  /\ work = [w \in Workers |-> Off]
  /\ sel = [w \in Workers |-> {}]
  /\ emitted = [s \in Scans |-> {}]

-----------------------------------------------------------------------------
(* Registration and planning.                                              *)

\* register_arrow flushes the cached plans that are not checked out for an execution.
Register(src) ==
  /\ registered' = src
  /\ bound' = [s \in Scans |->
                 IF s \in Cached /\ phase[s] = "none" THEN None ELSE bound[s]]
  /\ UNCHANGED <<phase, scan, work, sel, emitted>>

\* The schema comes from a throwaway stream; a source without a batch is an error.
Bind(s) ==
  /\ bound[s] = None
  /\ registered # None
  /\ Batches[registered] # <<>>
  /\ bound' = [bound EXCEPT ![s] = Schema[registered]]
  /\ UNCHANGED <<registered, phase, scan, work, sel, emitted>>

\* The plan is evicted, or its statement closed.
Unbind(s) ==
  /\ bound[s] # None
  /\ phase[s] = "none"
  /\ bound' = [bound EXCEPT ![s] = None]
  /\ UNCHANGED <<registered, phase, scan, work, sel, emitted>>

-----------------------------------------------------------------------------
(* arrow_scan_init.                                                        *)

\* The source is looked up again, its stream opened.
InitOpens(s) ==
  /\ bound[s] # None
  /\ phase[s] = "none"
  /\ phase' = [phase EXCEPT ![s] = "draining"]
  /\ scan' = [scan EXCEPT ![s] = [NoState EXCEPT !.src = registered]]
  /\ UNCHANGED <<registered, bound, work, sel, emitted>>

\* Faulty variants: only full windows are scheduled; the last one is not cut short.
FullWindows(c, size) ==
  [k \in 1 .. size \div VecSize |->
     [chunk |-> c, offset |-> (k - 1) * VecSize, count |-> VecSize]]
UncutWindows(c, size) ==
  [k \in 1 .. (size + VecSize - 1) \div VecSize |->
     [chunk |-> c, offset |-> (k - 1) * VecSize, count |-> VecSize]]

\* The windows of a chunk: VecSize rows each, the last one what is left.
WindowsOf(c, size) ==
  [k \in 1 .. (size + VecSize - 1) \div VecSize |->
     LET off == (k - 1) * VecSize
     IN  [chunk |-> c, offset |-> off,
          count |-> IF size - off < VecSize THEN size - off ELSE VecSize]]

\* What one more batch of n rows adds to the state; an empty one adds nothing.
Pulled(st, n) ==
  IF n = 0 THEN [st EXCEPT !.pulled = @ + 1]
  ELSE [st EXCEPT !.pulled = @ + 1,
                  !.chunks = Append(@, n),
                  !.windows = @ \o WindowsOf(Len(st.chunks) + 1, n)]

\* Faulty variant: a batch is taken as it comes, whatever the plan's schema is.
InitPullsAnything(s) ==
  /\ phase[s] = "draining"
  /\ scan[s].pulled < Len(Batches[scan[s].src])
  /\ scan' = [scan EXCEPT ![s] = Pulled(@, Batches[@.src][@.pulled + 1])]
  /\ UNCHANGED <<registered, bound, phase, work, sel, emitted>>

\* A batch that matches the plan's schema is converted.
InitPulls(s) ==
  /\ phase[s] = "draining"
  /\ scan[s].pulled < Len(Batches[scan[s].src])
  /\ Schema[scan[s].src] = bound[s]
  /\ scan' = [scan EXCEPT ![s] = Pulled(@, Batches[@.src][@.pulled + 1])]
  /\ UNCHANGED <<registered, bound, phase, work, sel, emitted>>

\* The stream fails, or a batch does not convert: the state is destroyed.
InitFails(s) ==
  /\ phase[s] = "draining"
  /\ phase' = [phase EXCEPT ![s] = "none"]
  /\ scan' = [scan EXCEPT ![s] = NoState]
  /\ UNCHANGED <<registered, bound, work, sel, emitted>>

InitEnds(s) ==
  /\ phase[s] = "draining"
  /\ scan[s].pulled = Len(Batches[scan[s].src])
  /\ phase' = [phase EXCEPT ![s] = "scanning"]
  /\ UNCHANGED <<registered, bound, scan, work, sel, emitted>>

-----------------------------------------------------------------------------
(* The workers.                                                            *)

WorkersOn(s) == {w \in Workers : work[w].scan = s}

\* duckdb_init_set_max_threads
MaxThreads(s) == IF scan[s].windows = <<>> THEN 1 ELSE Len(scan[s].windows)

Starts(w, s, v) ==
  /\ phase[s] = "scanning"
  /\ work[w] = Off
  /\ Cardinality(WorkersOn(s)) < MaxThreads(s)
  /\ work' = [work EXCEPT ![w] = [pc |-> "ready", scan |-> s, win |-> 0, vec |-> v]]
  /\ UNCHANGED <<registered, bound, phase, scan, sel, emitted>>

\* Faulty variant: the workers share one selection vector.
LocalInitShares(w, s) == Starts(w, s, CHOOSE v \in Workers : TRUE)

\* arrow_scan_local_init: the worker gets a selection vector of its own.
LocalInit(w, s) == Starts(w, s, w)

\* Faulty variant: the end of the schedule is missed by one.
ClaimPastEnd(w) ==
  LET s == work[w].scan  n == scan[s].next
  IN  /\ work[w].pc = "ready"
      /\ scan' = [scan EXCEPT ![s].next = n + 1]
      /\ work' = [work EXCEPT ![w].pc = IF n <= Len(scan[s].windows) + 1
                                        THEN "claimed" ELSE "done",
                              ![w].win = n]
      /\ UNCHANGED <<registered, bound, phase, sel, emitted>>

\* next_window.fetch_add: a window, or the end of this worker's part.
Claim(w) ==
  LET s == work[w].scan  n == scan[s].next
  IN  /\ work[w].pc = "ready"
      /\ scan' = [scan EXCEPT ![s].next = n + 1]
      /\ work' = [work EXCEPT ![w].pc = IF n <= Len(scan[s].windows) THEN "claimed" ELSE "done",
                              ![w].win = IF n <= Len(scan[s].windows) THEN n ELSE 0]
      /\ UNCHANGED <<registered, bound, phase, sel, emitted>>

WindowOf(w) == scan[work[w].scan].windows[work[w].win]
Offsets(win) == win.offset .. win.offset + win.count - 1

\* The output refers to the chunk; past row 0 it is sliced by the selection vector.
Emit(w) ==
  /\ work[w].pc = "claimed"
  /\ work' = [work EXCEPT ![w].pc = "full"]
  /\ sel' = IF WindowOf(w).offset = 0 THEN sel
            ELSE [sel EXCEPT ![work[w].vec] = Offsets(WindowOf(w))]
  /\ UNCHANGED <<registered, bound, phase, scan, emitted>>

\* The rows downstream finds in the output of w.
OutputOf(w) ==
  {WindowOf(w).chunk}
    \X (IF WindowOf(w).offset = 0 THEN Offsets(WindowOf(w)) ELSE sel[work[w].vec])

\* Downstream has read the output; DuckDB may call for the next one.
Consumed(w) ==
  /\ work[w].pc = "full"
  /\ work' = [work EXCEPT ![w].pc = "ready", ![w].win = 0]
  /\ emitted' = [emitted EXCEPT ![work[w].scan] = @ \cup OutputOf(w)]
  /\ UNCHANGED <<registered, bound, phase, scan, sel>>

\* The execution is over, or given up (an error, an interrupt, a LIMIT) while no worker
\* is inside arrow_scan_function; local states and the state are destroyed.
StateDestroy(s) ==
  /\ phase[s] = "scanning"
  /\ \A w \in WorkersOn(s) : work[w].pc # "claimed"
  /\ phase' = [phase EXCEPT ![s] = "none"]
  /\ scan' = [scan EXCEPT ![s] = NoState]
  /\ work' = [w \in Workers |-> IF w \in WorkersOn(s) THEN Off ELSE work[w]]
  /\ sel' = [w \in Workers |-> IF w \in WorkersOn(s) THEN {} ELSE sel[w]]
  /\ emitted' = [emitted EXCEPT ![s] = {}]
  /\ UNCHANGED <<registered, bound>>

Planning(s)  == Bind(s) \/ Unbind(s)
Draining(s)  == InitOpens(s) \/ InitPulls(s) \/ InitFails(s) \/ InitEnds(s) \/ StateDestroy(s)
Scanning(w)  == Claim(w) \/ Emit(w) \/ Consumed(w)

Next ==
  \/ \E src \in Sources : Register(src)
  \/ \E s \in Scans : Planning(s) \/ Draining(s)
  \/ \E w \in Workers : Scanning(w) \/ \E s \in Scans : LocalInit(w, s)

Spec == Init /\ [][Next]_vars

-----------------------------------------------------------------------------
(* Properties. *)

Window  == [chunk : Nat, offset : Nat, count : Nat]
State   == [src : Sources \cup {None}, pulled : Nat, chunks : Seq(Nat),
            windows : Seq(Window), next : Nat]
Working == {w \in Workers : work[w].pc \in {"claimed", "full"}}

\* Types; a worker has a scan that is under way, and inside the call a window of it.
TypeOK ==
  /\ registered \in Sources \cup {None}
  /\ bound \in [Scans -> {Schema[src] : src \in Sources} \cup {None}]
  /\ phase \in [Scans -> {"none", "draining", "scanning"}]
  /\ scan \in [Scans -> State]
  /\ work \in [Workers -> [pc : {"off", "ready", "claimed", "full", "done"},
                           scan : Scans \cup {None}, win : Nat, vec : Workers \cup {None}]]
  /\ sel \in [Workers -> SUBSET Nat]
  /\ emitted \in [Scans -> SUBSET (Nat \X Nat)]
  /\ \A w \in Workers : work[w].pc # "off" => /\ work[w].scan \in Scans
                                              /\ work[w].vec \in Workers
                                              /\ phase[work[w].scan] = "scanning"
  /\ \A w \in Working : work[w].win \in DOMAIN scan[work[w].scan].windows

RowsOf(s) == UNION {{c} \X (0 .. scan[s].chunks[c] - 1) : c \in DOMAIN scan[s].chunks}

\* A window lies within its chunk and fits the output vector it is emitted in.
WindowsFit ==
  \A s \in Scans : \A i \in DOMAIN scan[s].windows :
    LET win == scan[s].windows[i]
    IN  /\ win.chunk \in DOMAIN scan[s].chunks
        /\ win.offset + win.count <= scan[s].chunks[win.chunk]
        /\ win.count \in 1 .. VecSize

\* No row is emitted twice: what is in a worker's output when downstream reads it is the
\* window it claimed, in nobody else's output and not emitted before, whatever the other
\* workers and the other scans of the plan do.
NoRowTwice ==
  \A w \in Workers : work[w].pc = "full" =>
    /\ OutputOf(w) = {WindowOf(w).chunk} \X Offsets(WindowOf(w))
    /\ OutputOf(w) \cap emitted[work[w].scan] = {}
    /\ \A v \in WorkersOn(work[w].scan) \ {w} :
         work[v].pc = "full" => OutputOf(v) \cap OutputOf(w) = {}

\* No row is missed: once the schedule is used up and no worker has a window, every row
\* that was drained has been emitted, in this execution of the plan as in the one before.
NoRowMissed ==
  \A s \in Scans :
    /\ phase[s] = "scanning"
    /\ scan[s].next > Len(scan[s].windows)
    /\ WorkersOn(s) \cap Working = {}
    => emitted[s] = RowsOf(s)

\* Those of the first n batches of src that have rows.
Filled(src, n) == {k \in 1 .. n : Batches[src][k] > 0}

\* An execution scans the whole of one source, in order, converted with that source's
\* schema, even when a source of another schema was registered after the plan was made: a
\* batch is the chunk of its rank among those that have rows, and there is no other chunk.
DrainedAsBound ==
  \A s \in Scans :
    LET src == scan[s].src IN
    /\ scan[s].chunks # <<>> => Schema[src] = bound[s]
    /\ phase[s] = "scanning" =>
         /\ Len(scan[s].chunks) = Cardinality(Filled(src, Len(Batches[src])))
         /\ \A k \in Filled(src, Len(Batches[src])) :
              scan[s].chunks[Cardinality(Filled(src, k))] = Batches[src][k]
=============================================================================
