---------------------------- MODULE AggregateUdf ----------------------------
(***************************************************************************)
(* An aggregate UDF (src/cpp/aggregate.cpp): every worker has an instance   *)
(* of the class per group it met, and these are combined into one per group *)
(* of the query, finalized and destroyed.  A state of the engine is a slot  *)
(* for the pointer to an instance.                                         *)
(***************************************************************************)
EXTENDS PythonUdf

CONSTANTS
  NGroups,
  GroupOf  \* the group of each row

Groups == 1 .. NGroups

VARIABLES
  has_combine, \* the class has a combine()
  local,       \* the slots of each worker, by group
  global,      \* the slots of the query
  combined,    \* <<worker, group>>s combined so far
  result       \* the result vector, and how many slots of it are written

aggVars == <<has_combine, local, global, combined, result>>

\* The class is registered; without a combine() it has agg_combine_copy.
create_aggregate_function == has_combine \in BOOLEAN

InGroup(chunk, g) == {r \in RowsOf(chunk) : GroupOf[r] = g}
Met(chunk)        == {GroupOf[r] : r \in RowsOf(chunk)}

LocalOf(w, g) == <<"local", w, g>>
GlobalOf(g)   == <<"global", g>>

\* A state is made for a group that is new to a worker, or to the query.
agg_init(w, g) ==
  /\ \/ /\ At(w, "update") /\ g \in Met(work[w].chunk) /\ local[w][g] = Null
        /\ Creates(LocalOf(w, g))
        /\ local' = [local EXCEPT ![w][g] = LocalOf(w, g)]
        /\ UNCHANGED global
     \/ /\ At(w, "merge") /\ local[w][g] # Null /\ global[g] = Null
        /\ Creates(GlobalOf(g))
        /\ global' = [global EXCEPT ![g] = GlobalOf(g)]
        /\ UNCHANGED local
  /\ UNCHANGED <<udfRest, has_combine, combined, result>>

\* The class raises: internal_ptr is left as the engine's memory was, null or not.
agg_init_raises(w, g) ==
  /\ \/ /\ At(w, "update") /\ g \in Met(work[w].chunk) /\ local[w][g] = Null
        /\ \E was \in {Null, Garbage} : local' = [local EXCEPT ![w][g] = was]
        /\ UNCHANGED global
     \/ /\ At(w, "merge") /\ local[w][g] # Null /\ global[g] = Null
        /\ \E was \in {Null, Garbage} : global' = [global EXCEPT ![g] = was]
        /\ UNCHANGED local
  /\ query' = [query EXCEPT !.status = "failed", !.init_raised = TRUE]
  /\ UNCHANGED <<work, scan, objects, frame, wild, has_combine, combined, result>>

-----------------------------------------------------------------------------

\* Rows of one state are passed as a view of the chunk, others gathered by state.
SingleState(chunk) == Cardinality(Met(chunk)) = 1

\* The objects after the rows of the groups gs of the chunk were passed to update().
Updated(w, chunk, gs) ==
  [o \in DOMAIN objects |->
     IF \E g \in gs : o = local[w][g]
     THEN LET g == CHOOSE g \in gs : o = local[w][g]
          IN  objects[o] (+) SetToBag(IF SingleState(chunk) THEN RowsOf(chunk)
                                      ELSE InGroup(chunk, g))
     ELSE objects[o]]

Ready(w) ==
  /\ At(w, "update")
  /\ \A g \in Met(work[w].chunk) : local[w][g] # Null

agg_update(w) ==
  /\ Ready(w)
  /\ objects' = Updated(w, work[w].chunk, Met(work[w].chunk))
  /\ Goes(w, "ready", <<>>)
  /\ UNCHANGED <<query, scan, frame, wild, aggVars>>

\* An update() raises, after those of the groups gs.
agg_update_raises(w, gs) ==
  /\ Ready(w) /\ gs \subseteq Met(work[w].chunk)
  /\ objects' = Updated(w, work[w].chunk, gs)
  /\ SetError
  /\ UNCHANGED <<work, scan, frame, wild, aggVars>>

-----------------------------------------------------------------------------

Combines(w, g) ==
  /\ At(w, "merge") /\ local[w][g] # Null /\ global[g] # Null
  /\ <<w, g>> \notin combined

\* With a combine() the target takes in the source's rows.  Without one the attributes
\* of the source replace the target's own.
Merged(target, source) == IF has_combine THEN target (+) source ELSE source

\* agg_combine, or agg_combine_copy, of one of its states.
agg_combine(w, g) ==
  /\ Combines(w, g)
  /\ objects' = [objects EXCEPT ![global[g]] = Merged(@, objects[local[w][g]])]
  /\ combined' = combined \cup {<<w, g>>}
  /\ UNCHANGED <<udfRest, has_combine, local, global, result>>

agg_combine_raises(w, g) ==
  /\ Combines(w, g)
  /\ SetError
  /\ UNCHANGED <<work, scan, objects, frame, wild, aggVars>>

\* The worker has merged what it had.
Merges(w) ==
  /\ At(w, "merge")
  /\ \A g \in Groups : local[w][g] # Null => <<w, g>> \in combined
  /\ Goes(w, "finished", <<>>)
  /\ UNCHANGED <<query, scan, objects, frame, wild, aggVars>>

-----------------------------------------------------------------------------

\* The states of the query in the order of their groups.
Found      == {g \in Groups : global[g] # Null}
Nth(gs, i) == CHOOSE g \in gs : Cardinality({h \in gs : h <= g}) = i

CanFinalize(count) ==
  /\ query.status = "running" /\ \A w \in Workers : work[w].at = "finished"
  /\ result.offset + count <= Cardinality(Found)

\* Faulty variant: the values go to the beginning of the vector.
agg_finalize_from_zero(count, none) ==
  /\ CanFinalize(count)
  /\ result' = [offset |-> result.offset + count,
                slots  |-> [i \in Groups |->
                  IF i <= count
                  THEN LET g == Nth(Found, result.offset + i) IN IF g \in none THEN Null ELSE objects[global[g]]
                  ELSE result.slots[i]]]
  /\ UNCHANGED <<udfRest, objects, has_combine, local, global, combined>>

\* count states are finalized into the vector from its offset on; the finalize() of
\* those of the groups none returns None.
agg_finalize(count, none) ==
  /\ CanFinalize(count)
  /\ result' = [offset |-> result.offset + count,
                slots  |-> [i \in Groups |->
                  IF i > result.offset /\ i <= result.offset + count
                  THEN IF Nth(Found, i) \in none THEN Null ELSE objects[global[Nth(Found, i)]]
                  ELSE result.slots[i]]]
  /\ UNCHANGED <<udfRest, objects, has_combine, local, global, combined>>

agg_finalize_raises ==
  /\ CanFinalize(1)
  /\ SetError
  /\ UNCHANGED <<work, scan, objects, frame, wild, aggVars>>

\* Faulty variant: the slot keeps its pointer.
agg_destroy_dangling(w, g) ==
  /\ Over
  /\ \/ local[w][g] # Null /\ Releases(local[w][g])
     \/ global[g] # Null /\ Releases(global[g])
  /\ UNCHANGED <<query, work, scan, frame, aggVars>>

\* A slot is cleared when its instance is released.
agg_destroy(w, g) ==
  /\ Over
  /\ \/ /\ local[w][g] # Null
        /\ Releases(local[w][g])
        /\ local' = [local EXCEPT ![w][g] = Null]
        /\ UNCHANGED global
     \/ /\ global[g] # Null
        /\ Releases(global[g])
        /\ global' = [global EXCEPT ![g] = Null]
        /\ UNCHANGED local
  /\ UNCHANGED <<query, work, scan, frame, has_combine, combined, result>>
=============================================================================
