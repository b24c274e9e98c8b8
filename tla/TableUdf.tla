------------------------------ MODULE TableUdf ------------------------------
(***************************************************************************)
(* A table UDF (src/cpp/table.cpp): binding a plan stores the arguments,    *)
(* each execution of the plan makes a generator of its own, and one worker  *)
(* reads it in chunks.                                                     *)
(***************************************************************************)
EXTENDS PythonUdf

VARIABLES
  bound,    \* TableUDFBindData of the plan, or Null
  init_data \* TableUDFInitData: its generator and how far that is, and exhausted;
            \* the rows that table_main put out

BindData  == <<"bind_data">>
Generator == <<"generator">>

NoInitData == [generator |-> Null, at |-> 0, exhausted |-> FALSE, out |-> <<>>]

table_bind ==
  /\ query.status = "idle" /\ bound = Null /\ query.n < MaxQueries
  /\ Creates(BindData)
  /\ bound' = BindData
  /\ UNCHANGED <<query, work, scan, frame, wild, init_data>>

table_init ==
  /\ query.status = "running" /\ query.source = "table" /\ init_data.generator = Null
  /\ Creates(Generator)
  /\ init_data' = [NoInitData EXCEPT !.generator = Generator]
  /\ UNCHANGED <<query, work, scan, frame, wild, bound>>

\* The factory raises.
table_init_raises ==
  /\ query.status = "running" /\ query.source = "table" /\ init_data.generator = Null
  /\ SetError
  /\ UNCHANGED <<work, scan, objects, frame, wild, bound, init_data>>

\* table_init asks for a single thread.
MaxThreads == 1

Reads(w) == At(w, "ready") /\ query.source = "table" /\ init_data.generator # Null
Ended(w) ==
  /\ init_data.exhausted
  /\ Goes(w, "merge", <<>>)
  /\ init_data' = init_data

\* The loop stops at a full chunk, or at the end of the generator: a chunk that the
\* last row fills leaves the end to be found by the next call.
Pulled == Upto(init_data.at)
Moved  == [init_data EXCEPT !.at = @ + Len(Pulled), !.exhausted = Len(Pulled) < Batch]

\* Faulty variant: a call that meets the end returns without setting the chunk's size.
table_main_drops_last(w) ==
  /\ Reads(w)
  /\ \/ Ended(w)
     \/ /\ ~init_data.exhausted
        /\ IF Len(Pulled) < Batch
           THEN Goes(w, "merge", <<>>) /\ init_data' = Moved
           ELSE Goes(w, "map", Pulled) /\ init_data' = [Moved EXCEPT !.out = @ \o Pulled]
  /\ UNCHANGED <<query, scan, objects, frame, wild, bound>>

\* A chunk of no rows is the engine's sign that the source has ended.
table_main(w) ==
  /\ Reads(w)
  /\ \/ Ended(w)
     \/ /\ ~init_data.exhausted
        /\ Goes(w, IF Pulled = <<>> THEN "merge" ELSE "map", Pulled)
        /\ init_data' = [Moved EXCEPT !.out = @ \o Pulled]
  /\ UNCHANGED <<query, scan, objects, frame, wild, bound>>

\* The generator raises, or a value does not convert, after k rows of the chunk.
table_main_raises(w, k) ==
  /\ Reads(w) /\ ~init_data.exhausted /\ k <= Len(Pulled)
  /\ init_data' = [init_data EXCEPT !.at = @ + k]
  /\ SetError
  /\ UNCHANGED <<work, scan, objects, frame, wild, bound>>

init_data_destroy ==
  /\ Over /\ init_data.generator # Null
  /\ Releases(init_data.generator)
  /\ init_data' = [init_data EXCEPT !.generator = Null]
  /\ UNCHANGED <<query, work, scan, frame, bound>>

\* The plan goes, a cached or prepared one perhaps after several executions.
bind_data_destroy ==
  /\ query.status = "idle" /\ bound # Null
  /\ Releases(bound)
  /\ bound' = Null
  /\ UNCHANGED <<query, work, scan, frame, init_data>>
=============================================================================
