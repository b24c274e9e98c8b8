------------------------------ MODULE UdfQuery ------------------------------
(***************************************************************************)
(* SELECT agg(f(x)) FROM source GROUP BY g: an aggregate of a scalar UDF    *)
(* over a base table, which all workers scan, or over a table UDF.  The     *)
(* plan is executed again and again.                                       *)
(***************************************************************************)
EXTENDS ScalarUdf, TableUdf, AggregateUdf

\* The objects by role, and what a frame of arrow_udf_trampoline holds.
Roles ==
  {StateOf(w) : w \in Workers} \cup {LocalOf(w, g) : w \in Workers, g \in Groups}
  \cup {GlobalOf(g) : g \in Groups} \cup {BindData, Generator, ArrayOf("in"), ArrayOf("out")}
Ins    == {Null, ArrayOf("in")}
Outs   == {Null, ArrayOf("out")}
Frames == [of : Workers, in : Ins, batch : Ins, out : Outs, chunk : Outs]

ASSUME UdfSizes ==
  /\ Batch \in Nat \ {0} /\ NGroups \in Nat /\ Sizes \subseteq Nat
  /\ IsFiniteSet(Workers)
ASSUME EveryRowHasAGroup == \A n \in Sizes : \A r \in 1 .. n : GroupOf[r] \in Groups
ASSUME NullIsNoObject == Null # Garbage /\ {Null, Garbage} \cap Roles = {} /\ Null \notin Frames

vars == <<udfVars, state, bound, init_data, aggVars>>

NoSlots  == [g \in Groups |-> Null]
NoResult == [offset |-> 0, slots |-> [g \in Groups |-> Garbage]]
Resting  == [w \in Workers |-> [at |-> "finished", chunk |-> <<>>]]

Init ==
  /\ query = [status |-> "idle", source |-> "rows", size |-> 0, udf |-> "ndarray",
              n |-> 0, init_raised |-> FALSE]
  /\ work = Resting /\ scan = 0 /\ objects = EmptyBag /\ frame = Null /\ wild = {}
  /\ state = [w \in Workers |-> Null]
  /\ bound = Null /\ init_data = NoInitData
  /\ create_aggregate_function
  /\ local = [w \in Workers |-> NoSlots] /\ global = NoSlots
  /\ combined = {} /\ result = NoResult

\* The engine starts a worker per thread, and no more than the source allows.
Start(source, n, udf, ws) ==
  /\ query.status = "idle" /\ query.n < MaxQueries
  /\ source = "table" => bound # Null /\ Cardinality(ws) <= MaxThreads
  /\ query' = [query EXCEPT !.status = "running", !.source = source, !.size = n, !.udf = udf,
                            !.n = @ + 1]
  /\ LET first == IF udf = "ndarray" THEN "new" ELSE "ready"
     IN  work' = [w \in Workers |-> IF w \in ws THEN [at |-> first, chunk |-> <<>>] ELSE work[w]]
  /\ scan' = 0
  /\ combined' = {} /\ result' = NoResult
  /\ init_data' = NoInitData
  /\ UNCHANGED <<objects, frame, wild, state, bound, has_combine, local, global>>

Finish ==
  /\ query.status = "running" /\ \A w \in Workers : work[w].at = "finished"
  /\ result.offset = Cardinality(Found)
  /\ query' = [query EXCEPT !.status = "done"]
  /\ UNCHANGED <<work, scan, objects, frame, wild, state, bound, init_data, aggVars>>

\* The engine has destroyed all it kept for the query.
CleanUp ==
  /\ Over
  /\ \A w \in Workers : state[w] = Null /\ local[w] = NoSlots
  /\ global = NoSlots /\ init_data.generator = Null
  /\ query' = [query EXCEPT !.status = "idle"]
  /\ work' = Resting
  /\ combined' = {} /\ result' = NoResult /\ init_data' = NoInitData
  /\ UNCHANGED <<scan, objects, frame, wild, state, bound, has_combine, local, global>>

Engine ==
  \/ \E source \in {"rows", "table"}, udf \in {"ndarray", "arrow"} :
       \E n \in Sizes, ws \in (SUBSET Workers) \ {{}} : Start(source, n, udf, ws)
  \/ \E w \in Workers : ScanRows(w) /\ UNCHANGED <<state, bound, init_data, aggVars>>
  \/ Abandon /\ UNCHANGED <<state, bound, init_data, aggVars>>
  \/ Finish
  \/ CleanUp

Scalar ==
  /\ \E w \in Workers :
       \/ udf_init_trampoline(w) \/ udf_init_raises(w)
       \/ udf_trampoline(w) \/ udf_raises(w) \/ udf_state_destroy(w)
       \/ arrow_udf_trampoline(w) \/ import_from_c(w) \/ export_to_c(w) \/ from_arrow(w)
       \/ arrow_udf_returns(w) \/ arrow_udf_raises(w)
  /\ UNCHANGED <<bound, init_data, aggVars>>

Table ==
  /\ \/ table_bind \/ table_init \/ table_init_raises
     \/ init_data_destroy \/ bind_data_destroy
     \/ \E w \in Workers :
          \/ table_main(w)
          \/ \E k \in 0 .. Batch : table_main_raises(w, k)
  /\ UNCHANGED <<state, aggVars>>

Aggregate ==
  /\ \/ \E w \in Workers :
          \/ agg_update(w) \/ Merges(w)
          \/ \E gs \in SUBSET Groups : agg_update_raises(w, gs)
          \/ \E g \in Groups :
               \/ agg_init(w, g) \/ agg_init_raises(w, g)
               \/ agg_combine(w, g) \/ agg_combine_raises(w, g)
               \/ agg_destroy(w, g)
     \/ \E count \in 1 .. NGroups, none \in SUBSET Groups : agg_finalize(count, none)
     \/ agg_finalize_raises
  /\ UNCHANGED <<state, bound, init_data>>

Next == Engine \/ Scalar \/ Table \/ Aggregate

Spec == Init /\ [][Next]_vars

-----------------------------------------------------------------------------
(* Properties. *)

Slots == {state[w] : w \in Workers} \cup {local[w][g] : w \in Workers, g \in Groups}
         \cup {global[g] : g \in Groups} \cup {bound, init_data.generator} \cup Held

\* No slot dangles: what a slot holds is null, a live object, or what agg_init left there.
TypeOK ==
  /\ query.status \in {"idle", "running", "failed", "done"} /\ query.size \in Sizes \cup {0}
  /\ \A w \in Workers : /\ work[w].at \in {"new", "ready", "map", "update", "merge", "finished"}
                        /\ work[w].chunk \in Seq(1 .. query.size) /\ Len(work[w].chunk) <= Batch
  /\ Slots \subseteq DOMAIN objects \cup {Null, Garbage}
  /\ Garbage \in Slots => query.init_raised

\* Every instance, state, generator, argument list and Arrow array is released exactly
\* once, whatever raises: a live object is in a slot, once everything is cleaned up only
\* the plan's arguments are left, and nothing is released a second time.  The one pointer
\* released that is no object's is what the memory of a state happened to hold whose
\* agg_init raised: agg_destroy takes it for an object.
ReleasedOnce ==
  /\ DOMAIN objects \subseteq Slots
  /\ query.status = "idle" => DOMAIN objects \subseteq {BindData}
  /\ wild \subseteq {Garbage}
  /\ wild # {} => query.init_raised

Source    == [r \in 1 .. query.size |-> r]
Answer(g) == SetToBag(InGroup(Source, g))

\* The answer of a query that ends has a slot for every group of the source, with every
\* row of the group counted exactly once, whatever workers met it (or NULL, where
\* finalize() said so).  Without a combine() that takes a group which one worker met,
\* and the rows of others are lost.
EveryRowCounted ==
  query.status = "done" =>
    /\ result.offset = Cardinality(Met(Source))
    /\ \A i \in 1 .. result.offset :
         LET g == Nth(Met(Source), i)
             alone == Cardinality({w \in Workers : <<w, g>> \in combined}) = 1
         IN  \/ result.slots[i] \in {Null, Answer(g)}
             \/ ~has_combine /\ ~alone /\ result.slots[i] \sqsubseteq Answer(g)

\* A table UDF's rows reach the query in the order of its generator, from the first and
\* none left out, and all of them when the query ends.
TableRowsInOrder ==
  query.source = "table" /\ query.status # "idle" =>
    /\ init_data.out = [i \in 1 .. Len(init_data.out) |-> i]
    /\ query.status = "done" => Len(init_data.out) = query.size
=============================================================================
