----------------------------- MODULE PythonUdf -----------------------------
(***************************************************************************)
(* What the kinds of Python UDF share: a query of the engine that calls     *)
(* them from its workers, and the Python objects the engine holds for it as *)
(* bare pointers (a worker's state, an aggregate's instances, a generator). *)
(*                                                                         *)
(* The engine's part is external: it is what the callbacks of              *)
(* src/cpp/function.cpp, aggregate.cpp and table.cpp are written for.  A    *)
(* callback takes the GIL and touches objects of its own caller only, so it *)
(* is one step; an exception in it becomes an error of the query (guard in  *)
(* src/cpp/ducky.hpp).  An object is known by its role and remembers the    *)
(* rows it was shown.                                                      *)
(***************************************************************************)
EXTENDS Naturals, Sequences, FiniteSets, Bags

CONSTANTS
  Workers,    \* threads of the engine
  Batch,      \* rows of a chunk (2048)
  Sizes,      \* numbers of rows a source may have
  MaxQueries, \* bound on the queries of a behaviour
  Null, Garbage

VARIABLES
  query,   \* status of the query, its source and that source's size, the kind of its scalar
           \* UDF, how many queries there were, did an agg_init raise
  work,    \* of each worker: where it is, and the rows of its chunk
  scan,    \* rows of a base table that workers have claimed
  objects, \* the live objects the engine holds, each with the rows it was shown
  frame,   \* the slots of an arrow_udf_trampoline under way, or Null
  wild     \* the pointers released that held no live object

udfVars == <<query, work, scan, objects, frame, wild>>
udfRest == <<query, work, scan, frame, wild>>

At(w, stage) == query.status = "running" /\ frame = Null /\ work[w].at = stage
Over         == query.status \in {"failed", "done"}
Goes(w, stage, chunk) == work' = [work EXCEPT ![w] = [at |-> stage, chunk |-> chunk]]
SetError == query' = [query EXCEPT !.status = "failed"]

Creates(o)       ==
  objects' = [p \in DOMAIN objects \cup {o} |-> IF p = o THEN EmptyBag ELSE objects[p]]
Shown(os, o, rs) == [os EXCEPT ![o] = @ (+) SetToBag(rs)]

\* The release of what a slot holds: null is let be, anything but a live object is wild.
Releases(p) ==
  /\ objects' = [o \in DOMAIN objects \ {p} |-> objects[o]]
  /\ wild' = wild \cup ({p} \ (DOMAIN objects \cup {Null}))

RowsOf(chunk) == {chunk[i] : i \in DOMAIN chunk}
Upto(at)      == [i \in 1 .. (IF query.size - at < Batch THEN query.size - at ELSE Batch) |-> at + i]

\* A worker claims the next rows of a base table; with none left it goes on to merge.
ScanRows(w) ==
  /\ At(w, "ready") /\ query.source = "rows"
  /\ IF scan = query.size THEN Goes(w, "merge", <<>>) ELSE Goes(w, "map", Upto(scan))
  /\ scan' = scan + Len(Upto(scan))
  /\ UNCHANGED <<query, objects, frame, wild>>

\* The query is interrupted, or fails elsewhere.
Abandon ==
  /\ query.status = "running" /\ frame = Null
  /\ SetError
  /\ UNCHANGED <<work, scan, objects, frame, wild>>
=============================================================================
