----------------------------- MODULE ScalarUdf -----------------------------
(***************************************************************************)
(* A scalar UDF (src/cpp/function.cpp).  The ndarray kind: each worker      *)
(* makes a state with init=, and calls the function with it for every       *)
(* chunk.  The Arrow kind has no state, and hands the chunk to pyarrow and  *)
(* its answer back to DuckDB by Arrow arrays: each is released by who holds *)
(* it last.  The GIL is kept all along, so this is the only frame then.     *)
(***************************************************************************)
EXTENDS PythonUdf

VARIABLE state \* of each worker: its UDFState, or Null

StateOf(w) == <<"state", w>>

udf_init_trampoline(w) ==
  /\ At(w, "new")
  /\ Creates(StateOf(w))
  /\ state' = [state EXCEPT ![w] = StateOf(w)]
  /\ Goes(w, "ready", <<>>)
  /\ UNCHANGED <<query, scan, frame, wild>>

\* init= raises, and no state is set.
udf_init_raises(w) ==
  /\ At(w, "new")
  /\ SetError
  /\ UNCHANGED <<work, scan, objects, frame, wild, state>>

\* The function is called with its worker's state; what it returns has the length and
\* the type of the chunk, and is copied to the output.
udf_trampoline(w) ==
  /\ At(w, "map") /\ query.udf = "ndarray"
  /\ objects' = Shown(objects, state[w], RowsOf(work[w].chunk))
  /\ Goes(w, "update", work[w].chunk)
  /\ UNCHANGED <<query, scan, frame, wild, state>>

\* It raises, or returns something else.
udf_raises(w) ==
  /\ At(w, "map") /\ query.udf = "ndarray"
  /\ objects' = Shown(objects, state[w], RowsOf(work[w].chunk))
  /\ SetError
  /\ UNCHANGED <<work, scan, frame, wild, state>>

udf_state_destroy(w) ==
  /\ Over /\ state[w] # Null
  /\ Releases(state[w])
  /\ state' = [state EXCEPT ![w] = Null]
  /\ UNCHANGED <<query, work, scan, frame>>

-----------------------------------------------------------------------------

ArrayOf(way) == <<"array", way>>
Held == IF frame = Null THEN {} ELSE {frame.in, frame.batch, frame.out, frame.chunk}

\* The chunk is exported to an array of the frame's own.
arrow_udf_trampoline(w) ==
  /\ At(w, "map") /\ query.udf = "arrow"
  /\ Creates(ArrayOf("in"))
  /\ frame' = [of |-> w, in |-> ArrayOf("in"), batch |-> Null, out |-> Null, chunk |-> Null]
  /\ UNCHANGED <<query, work, scan, wild, state>>

InFrame(w) == frame # Null /\ frame.of = w

\* pyarrow takes the array over.
import_from_c(w) ==
  /\ InFrame(w) /\ frame.in # Null
  /\ frame' = [frame EXCEPT !.batch = frame.in, !.in = Null]
  /\ UNCHANGED <<query, work, scan, objects, wild, state>>

\* The function is called, and what it returns is exported.
export_to_c(w) ==
  /\ InFrame(w) /\ frame.batch # Null /\ frame.out = Null /\ frame.chunk = Null
  /\ Creates(ArrayOf("out"))
  /\ frame' = [frame EXCEPT !.out = ArrayOf("out")]
  /\ UNCHANGED <<query, work, scan, wild, state>>

\* Faulty variant: the frame does not let go of the array that DuckDB took over.
from_arrow_shared(w) ==
  /\ InFrame(w) /\ frame.out # Null /\ frame.chunk = Null
  /\ frame' = [frame EXCEPT !.chunk = frame.out]
  /\ UNCHANGED <<query, work, scan, objects, wild, state>>

from_arrow(w) ==
  /\ InFrame(w) /\ frame.out # Null /\ frame.chunk = Null
  /\ frame' = [frame EXCEPT !.chunk = frame.out, !.out = Null]
  /\ UNCHANGED <<query, work, scan, objects, wild, state>>

\* On every way out ArrowPair and ChunkGuard release what the frame still holds, and the
\* batch goes with its reference.
Unwinds ==
  /\ frame' = Null
  /\ objects' = [o \in DOMAIN objects \ Held |-> objects[o]]
  /\ wild' = wild \cup (({frame.chunk} \cap {frame.out}) \ {Null})

\* The output vector shares the buffers of the chunk; its own end is not followed.
arrow_udf_returns(w) ==
  /\ InFrame(w) /\ frame.chunk # Null
  /\ Unwinds
  /\ Goes(w, "update", work[w].chunk)
  /\ UNCHANGED <<query, scan, state>>

\* A conversion fails, the function raises, or its answer has another length.
arrow_udf_raises(w) ==
  /\ InFrame(w)
  /\ Unwinds
  /\ SetError
  /\ UNCHANGED <<work, scan, state>>
=============================================================================
