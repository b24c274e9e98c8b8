---------------------------- MODULE UdfQueryProofs ----------------------------
(***************************************************************************)
(* A query over Python UDFs, for any number of workers, groups, rows and    *)
(* queries: no pointer dangles, every object is released once, a table      *)
(* UDF's rows come in its order, and every row is counted once.  The        *)
(* argument is about roles (a slot holds the object of its own role or      *)
(* none) and about rows (a row that was claimed is in one worker's chunk or *)
(* has been shown to one instance).                                        *)
(***************************************************************************)
EXTENDS UdfQuery, FiniteSetTheorems, NaturalsInduction, WellFoundedInduction, TLAPS

-----------------------------------------------------------------------------
(* The inductive invariant.                                                *)

Stages     == {"new", "ready", "map", "update", "merge", "finished"}
StateNames  == {StateOf(w) : w \in Workers}
LocalNames  == {LocalOf(w, g) : w \in Workers, g \in Groups}
GlobalNames == {GlobalOf(g) : g \in Groups}

\* Types of the variables.
Reading == [generator : {Null, Generator}, at : Nat, exhausted : BOOLEAN, out : Seq(Nat)]
Runs ==
  [status : {"idle", "running", "failed", "done"}, source : {"rows", "table"},
   size : Sizes \cup {0}, udf : {"ndarray", "arrow"}, n : Nat, init_raised : BOOLEAN]
Types ==
  /\ query \in Runs
  /\ work \in [Workers -> [at : Stages, chunk : Seq(1 .. query.size)]]
  /\ scan \in Nat
  /\ frame # Null => frame \in Frames
 
  /\ state \in [Workers -> StateNames \cup {Null}]
  /\ bound \in {Null, BindData}
  /\ init_data \in Reading
  /\ has_combine \in BOOLEAN
  /\ local \in [Workers -> [Groups -> LocalNames \cup {Null, Garbage}]]
  /\ global \in [Groups -> GlobalNames \cup {Null, Garbage}]
  /\ combined \in SUBSET (Workers \X Groups)
  /\ result.offset \in Nat

\* A slot holds the object of its own role or no object, and the live objects are those
\* that a slot holds.
Owned ==
  /\ DOMAIN objects \subseteq Roles
  /\ \A w \in Workers :
       /\ state[w] \in {Null, StateOf(w)}
       /\ StateOf(w) \in DOMAIN objects <=> state[w] = StateOf(w)
       /\ \A g \in Groups :
            /\ local[w][g] \in {Null, Garbage, LocalOf(w, g)}
            /\ LocalOf(w, g) \in DOMAIN objects <=> local[w][g] = LocalOf(w, g)
            /\ local[w][g] = Garbage => query.init_raised
  /\ \A g \in Groups :
       /\ global[g] \in {Null, Garbage, GlobalOf(g)}
       /\ GlobalOf(g) \in DOMAIN objects <=> global[g] = GlobalOf(g)
       /\ global[g] = Garbage => query.init_raised
  /\ BindData \in DOMAIN objects <=> bound = BindData
  /\ Generator \in DOMAIN objects <=> init_data.generator = Generator
  /\ wild \subseteq {Garbage}
  /\ wild # {} => query.init_raised

\* What an arrow_udf_trampoline holds: its worker has a chunk to map, and each of the two
\* arrays is in one of its slots only.
Framed ==
  /\ ArrayOf("in") \in DOMAIN objects <=> frame # Null /\ (frame.in # Null \/ frame.batch # Null)
  /\ ArrayOf("out") \in DOMAIN objects <=> frame # Null /\ (frame.out # Null \/ frame.chunk # Null)
  /\ frame # Null =>
       /\ query.status = "running" /\ work[frame.of].at = "map"
       /\ frame.in = Null \/ frame.batch = Null
       /\ frame.out = Null \/ frame.chunk = Null

\* Nothing is left of a query when the next one starts, but the plan's arguments.
Rested ==
  query.status = "idle" =>
    /\ work = Resting /\ global = NoSlots /\ init_data = NoInitData
    /\ \A w \in Workers : state[w] = Null /\ local[w] = NoSlots

\* Rows of the source that a worker claimed, or the generator gave.
Claimed == IF query.source = "rows" THEN scan ELSE init_data.at

\* A worker ends its part only when the source has ended; a table UDF's rows are put out
\* in order, up to where its generator is.
Progress ==
  /\ \A w \in Workers :
       /\ Len(work[w].chunk) <= Batch
       /\ work[w].at \notin {"map", "update"} => work[w].chunk = <<>>
  /\ query.status = "running" =>
       /\ Claimed <= query.size
       /\ (\A w \in Workers : work[w].at \in {"merge", "finished"}) => Claimed = query.size
  /\ query.source = "table" /\ query.status # "idle" =>
       init_data.out = [i \in 1 .. Len(init_data.out) |-> i]
  /\ query.source = "table" /\ query.status = "running" =>
       /\ Len(init_data.out) = init_data.at
       /\ init_data.exhausted => init_data.at = query.size
       /\ init_data.generator = Null =>
            /\ init_data = NoInitData
            /\ \A w \in Workers : work[w].at \in {"new", "ready", "finished"}
  /\ query.source = "table" /\ query.status = "done" => Len(init_data.out) = query.size

\* The rows that update() has shown to the instance of a worker and a group.
Seen(w, g) == IF local[w][g] = Null THEN {} ELSE DOMAIN objects[local[w][g]]
Chunk(w)   == RowsOf(work[w].chunk)

\* Every row that was claimed is in the chunk of one worker, or has been shown once to one
\* instance, which is one of the row's group.
RowsInv ==
  query.status = "running" =>
    /\ \A w \in Workers :
         /\ Chunk(w) \subseteq 1 .. Claimed
         /\ \A g \in Groups :
              /\ local[w][g] # Garbage
              /\ Seen(w, g) \subseteq {r \in 1 .. Claimed : GroupOf[r] = g}
              /\ local[w][g] # Null => objects[local[w][g]] = SetToBag(Seen(w, g))
              /\ local[w][g] # Null =>
                   Seen(w, g) # {} \/ (work[w].at = "update" /\ g \in Met(work[w].chunk))
         /\ \A u \in Workers :
              /\ w # u => Chunk(w) \cap Chunk(u) = {}
              /\ \A g \in Groups : /\ Chunk(w) \cap Seen(u, g) = {}
                                   /\ w # u => Seen(w, g) \cap Seen(u, g) = {}
    /\ \A r \in 1 .. Claimed : \E w \in Workers : r \in Chunk(w) \/ r \in Seen(w, GroupOf[r])

\* The workers whose instance of a group was combined.
Taken(g) == {w \in Workers : <<w, g>> \in combined}

\* The instance of a group of the query has the rows of those that were combined into it;
\* without a combine(), of one of them.
MergeInv ==
  query.status = "running" =>
    /\ \A w \in Workers : \A g \in Groups :
         <<w, g>> \in combined =>
           work[w].at \in {"merge", "finished"} /\ local[w][g] # Null /\ global[g] # Null
    /\ \A w \in Workers :
         work[w].at = "finished" => \A g \in Groups : local[w][g] # Null => <<w, g>> \in combined
    /\ \A g \in Groups : global[g] # Garbage
    /\ \A g \in Groups : global[g] # Null =>
         /\ \E w \in Workers : local[w][g] # Null /\ work[w].at \in {"merge", "finished"}
         /\ has_combine =>
              objects[global[g]] = SetToBag(UNION {Seen(w, g) : w \in Taken(g)})
         /\ ~has_combine =>
              \/ Taken(g) = {} /\ objects[global[g]] = EmptyBag
              \/ \E w \in Taken(g) : objects[global[g]] = SetToBag(Seen(w, g))

\* What is written of the result is written once every worker has merged, from the
\* instances of the query.
ResultInv ==
  query.status = "running" =>
    /\ result.offset > 0 => \A w \in Workers : work[w].at = "finished"
    /\ result.offset <= Cardinality(Found)
    /\ \A i \in 1 .. result.offset :
         result.slots[i] \in {Null, objects[global[Nth(Found, i)]]}

Inv ==
  /\ Types /\ Owned /\ Framed /\ Rested /\ Progress
  /\ RowsInv /\ MergeInv /\ ResultInv /\ EveryRowCounted

-----------------------------------------------------------------------------
(* Names, bags and rows.                                                   *)

\* An object of one role is not one of another.
LEMMA StatesDiffer ==
  ASSUME NEW w \in Workers
  PROVE  /\ StateOf(w) \in Roles /\ StateOf(w) \notin {Null, Garbage}
         /\ \A u \in Workers : StateOf(u) = StateOf(w) => u = w
         /\ \A u \in Workers, g \in Groups : LocalOf(u, g) # StateOf(w)
         /\ \A g \in Groups : GlobalOf(g) # StateOf(w)
         /\ StateOf(w) \notin {BindData, Generator, ArrayOf("in"), ArrayOf("out")}
<1>1. StateOf(w) \in Roles
  BY DEF Roles
<1>2. QED
  BY <1>1, NullIsNoObject DEF StateOf, LocalOf, GlobalOf, BindData, Generator, ArrayOf

\* The same of the instances of a worker, ...
LEMMA LocalsDiffer ==
  ASSUME NEW w \in Workers, NEW g \in Groups
  PROVE  /\ LocalOf(w, g) \in Roles /\ LocalOf(w, g) \notin {Null, Garbage}
         /\ \A u \in Workers, h \in Groups : LocalOf(u, h) = LocalOf(w, g) => u = w /\ h = g
         /\ \A u \in Workers : StateOf(u) # LocalOf(w, g)
         /\ \A h \in Groups : GlobalOf(h) # LocalOf(w, g)
         /\ LocalOf(w, g) \notin {BindData, Generator, ArrayOf("in"), ArrayOf("out")}
<1>1. LocalOf(w, g) \in Roles
  BY DEF Roles
<1>2. QED
  BY <1>1, NullIsNoObject DEF StateOf, LocalOf, GlobalOf, BindData, Generator, ArrayOf

\* ... of those of the query, ...
LEMMA GlobalsDiffer ==
  ASSUME NEW g \in Groups
  PROVE  /\ GlobalOf(g) \in Roles /\ GlobalOf(g) \notin {Null, Garbage}
         /\ \A h \in Groups : GlobalOf(h) = GlobalOf(g) => h = g
         /\ \A u \in Workers : StateOf(u) # GlobalOf(g)
         /\ \A u \in Workers, h \in Groups : LocalOf(u, h) # GlobalOf(g)
         /\ GlobalOf(g) \notin {BindData, Generator, ArrayOf("in"), ArrayOf("out")}
<1>1. GlobalOf(g) \in Roles
  BY DEF Roles
<1>2. QED
  BY <1>1, NullIsNoObject DEF StateOf, LocalOf, GlobalOf, BindData, Generator, ArrayOf

\* ... and of the objects there is one of.
LEMMA OthersDiffer ==
  ASSUME NEW o \in {BindData, Generator, ArrayOf("in"), ArrayOf("out")}
  PROVE  /\ o \in Roles /\ o \notin {Null, Garbage}
         /\ \A u \in Workers : StateOf(u) # o
         /\ \A u \in Workers, h \in Groups : LocalOf(u, h) # o
         /\ \A h \in Groups : GlobalOf(h) # o
         /\ BindData # Generator /\ BindData # ArrayOf("in") /\ BindData # ArrayOf("out")
         /\ Generator # ArrayOf("in") /\ Generator # ArrayOf("out")
         /\ ArrayOf("in") # ArrayOf("out")
<1>1. o \in Roles
  BY DEF Roles
<1>2. QED
  BY <1>1, NullIsNoObject DEF StateOf, LocalOf, GlobalOf, BindData, Generator, ArrayOf

\* Bags of rows: the union of disjoint ones counts every row once.
LEMMA DisjointBags ==
  ASSUME NEW S, NEW T, S \cap T = {}
  PROVE  SetToBag(S) (+) SetToBag(T) = SetToBag(S \cup T)
BY DEF SetToBag, (+)

\* A new object has been shown nothing.
LEMMA NewBag == EmptyBag = SetToBag({}) /\ DOMAIN EmptyBag = {}
BY DEF EmptyBag, SetToBag

\* The rows of a bag made of a set are the set.
LEMMA BagRows == \A S : DOMAIN SetToBag(S) = S
BY DEF SetToBag

\* A new object is alive, has been shown nothing, and disturbs no other.
LEMMA CreatesIs ==
  ASSUME NEW o, Creates(o)
  PROVE  /\ DOMAIN objects' = DOMAIN objects \cup {o}
         /\ objects'[o] = EmptyBag
         /\ \A p \in DOMAIN objects : p # o => objects'[p] = objects[p]
BY DEF Creates

\* Showing rows to an object disturbs no other.
LEMMA ShownIs ==
  ASSUME NEW o, NEW rs, objects' = Shown(objects, o, rs)
  PROVE  /\ DOMAIN objects' = DOMAIN objects
         /\ \A p \in DOMAIN objects : p # o => objects'[p] = objects[p]
BY DEF Shown

\* The release of a live object, or of none, is not wild.
LEMMA ReleasesIs ==
  ASSUME NEW p, Releases(p)
  PROVE  /\ DOMAIN objects' = DOMAIN objects \ {p}
         /\ \A o \in DOMAIN objects \ {p} : objects'[o] = objects[o]
         /\ p \in DOMAIN objects \cup {Null} => wild' = wild
         /\ wild' \subseteq wild \cup {p}
BY DEF Releases

\* The rows of a chunk from a position on: as many as are left of the source, at most a
\* chunk full.
LEMMA UptoIs ==
  ASSUME query.size \in Nat, NEW at \in Nat, at <= query.size
  PROVE  /\ Upto(at) \in Seq(1 .. query.size)
         /\ Len(Upto(at)) \in 0 .. Batch
         /\ Upto(at) = [i \in 1 .. Len(Upto(at)) |-> at + i]
         /\ at + Len(Upto(at)) <= query.size
         /\ RowsOf(Upto(at)) = at + 1 .. at + Len(Upto(at))
         /\ Len(Upto(at)) < Batch => at + Len(Upto(at)) = query.size
         /\ Upto(at) = <<>> => Len(Upto(at)) = 0 /\ at = query.size
<1>1. PICK k : k = IF query.size - at < Batch THEN query.size - at ELSE Batch
  OBVIOUS
<1>2. Batch \in Nat \ {0}
  BY UdfSizes
<1>3. k \in Nat /\ k <= Batch /\ at + k <= query.size /\ (k < Batch => at + k = query.size)
  BY <1>1, <1>2
<1>4. Upto(at) = [i \in 1 .. k |-> at + i]
  BY <1>1 DEF Upto
<1>5. \A i \in 1 .. k : at + i \in 1 .. query.size
  BY <1>3
<1>6. Upto(at) \in Seq(1 .. query.size) /\ Len(Upto(at)) = k
  BY <1>3, <1>4, <1>5
<1>7. RowsOf(Upto(at)) = at + 1 .. at + k
  <2>1. RowsOf(Upto(at)) = {at + i : i \in 1 .. k}
    BY <1>4 DEF RowsOf
  <2>2. \A r \in at + 1 .. at + k : r - at \in 1 .. k /\ r = at + (r - at)
    BY <1>3
  <2>3. \A i \in 1 .. k : at + i \in at + 1 .. at + k
    BY <1>3
  <2>4. QED
    BY <2>1, <2>2, <2>3
<1>8. Upto(at) = <<>> => k = 0
  BY <1>6
<1>9. k = 0 => at = query.size
  BY <1>2, <1>3
<1>10. k \in 0 .. Batch
  BY <1>2, <1>3
<1>11. QED
  BY <1>3, <1>4, <1>6, <1>7, <1>8, <1>9, <1>10

\* A chunk of no rows has none.
LEMMA NoRows == RowsOf(<<>>) = {} /\ Met(<<>>) = {} /\ Len(<<>>) = 0
BY DEF RowsOf, Met

-----------------------------------------------------------------------------
(* Types.                                                                  *)

\* What an assignment to one field of the query leaves alone.
LEMMA StatusSet ==
  ASSUME query \in Runs, NEW s \in {"idle", "running", "failed", "done"},
         query' = [query EXCEPT !.status = s]
  PROVE  /\ query' \in Runs /\ query'.status = s
         /\ query'.source = query.source /\ query'.size = query.size
         /\ query'.init_raised = query.init_raised
BY DEF Runs

\* A failed agg_init is remembered.
LEMMA RaisedSet ==
  ASSUME query \in Runs,
         query' = [query EXCEPT !.status = "failed", !.init_raised = TRUE]
  PROVE  /\ query' \in Runs /\ query'.status = "failed"
         /\ query'.source = query.source /\ query'.size = query.size
         /\ query'.init_raised
BY DEF Runs

\* A worker that goes on is where it went, with the chunk it took.
LEMMA GoesIs ==
  ASSUME Types, NEW w \in Workers, NEW stage \in Stages,
         NEW chunk \in Seq(1 .. query.size), Goes(w, stage, chunk)
  PROVE  /\ work' \in [Workers -> [at : Stages, chunk : Seq(1 .. query.size)]]
         /\ work'[w].at = stage /\ work'[w].chunk = chunk
         /\ \A u \in Workers : u # w => work'[u] = work[u]
BY DEF Goes, Types

\* Where a worker is, and what it has.
LEMMA WorkOf ==
  ASSUME Types, NEW w \in Workers
  PROVE  /\ work[w].at \in Stages /\ work[w].chunk \in Seq(1 .. query.size)
         /\ query.size \in Nat
<1>1. work[w].at \in Stages /\ work[w].chunk \in Seq(1 .. query.size)
  BY DEF Types
<1>2. query.size \in Sizes \cup {0}
  BY DEF Types, Runs
<1>3. query.size \in Nat
  <2>1. \A n \in Sizes : n \in Nat
    BY UdfSizes
  <2>2. QED
    BY <1>2, <2>1
<1>4. QED
  BY <1>1, <1>3

\* The reading of a generator, field by field.
LEMMA ReadingOf ==
  ASSUME Types
  PROVE  /\ init_data.generator \in {Null, Generator} /\ init_data.at \in Nat
         /\ init_data.exhausted \in BOOLEAN /\ init_data.out \in Seq(Nat)
BY DEF Types, Reading

\* No rows are a chunk.
LEMMA EmptyChunk == <<>> \in Seq(1 .. query.size)
OBVIOUS

\* A concatenation, element by element.
LEMMA ConcatTyped ==
  ASSUME NEW S, NEW s \in Seq(S), NEW t \in Seq(S)
  PROVE  /\ s \o t \in Seq(S) /\ Len(s \o t) = Len(s) + Len(t)
         /\ \A i \in 1 .. Len(s) + Len(t) :
              (s \o t)[i] = IF i <= Len(s) THEN s[i] ELSE t[i - Len(s)]
OBVIOUS

\* A chunk that is read, and what has been put out with it.
LEMMA MovedIs ==
  ASSUME Types, NEW k \in Nat, k = Len(Pulled), Pulled \in Seq(Nat),
         init_data' = [Moved EXCEPT !.out = @ \o Pulled]
  PROVE  /\ init_data' \in Reading
         /\ init_data'.generator = init_data.generator
         /\ init_data'.at = init_data.at + k
         /\ init_data'.exhausted <=> k < Batch
         /\ init_data'.out = init_data.out \o Pulled
<1>1. init_data \in Reading /\ Batch \in Nat
  BY UdfSizes DEF Types
<1>2. PICK b \in BOOLEAN : b <=> k < Batch
  OBVIOUS
<1>3. PICK n \in Nat : n = init_data.at + k
  BY <1>1 DEF Reading
<1>4. PICK o \in Seq(Nat) : o = init_data.out \o Pulled
  <2>1. init_data.out \in Seq(Nat)
    BY <1>1 DEF Reading
  <2>2. init_data.out \o Pulled \in Seq(Nat)
    BY <2>1, ConcatTyped
  <2>3. QED
    BY <2>2
<1>5. Moved = [init_data EXCEPT !.at = n, !.exhausted = b]
  <2>1. (Len(Pulled) < Batch) = b
    BY <1>2
  <2>2. QED
    BY <1>3, <2>1 DEF Moved
<1>6. Moved.out = init_data.out
  BY <1>1, <1>5 DEF Reading
<1>7. init_data' = [Moved EXCEPT !.out = o]
  BY <1>4, <1>6
<1>8. init_data' = [generator |-> init_data.generator, at |-> n, exhausted |-> b, out |-> o]
  BY <1>1, <1>5, <1>7 DEF Reading
<1>9. /\ init_data'.generator = init_data.generator /\ init_data'.at = n
      /\ init_data'.exhausted = b /\ init_data'.out = o
  BY <1>8
<1>10. init_data' \in Reading
  <2>1. init_data.generator \in {Null, Generator}
    BY <1>1 DEF Reading
  <2>2. n \in Nat /\ b \in BOOLEAN /\ o \in Seq(Nat)
    BY <1>2, <1>3, <1>4
  <2>3. [generator |-> init_data.generator, at |-> n, exhausted |-> b, out |-> o] \in Reading
    BY <2>1, <2>2 DEF Reading
  <2>4. QED
    BY <1>8, <2>3
<1>11. QED
  BY <1>2, <1>3, <1>4, <1>9, <1>10

\* The other assignments to the reading of a generator.
LEMMA ReadingSet ==
  ASSUME init_data \in Reading
  PROVE  /\ NoInitData \in Reading
         /\ [NoInitData EXCEPT !.generator = Generator] \in Reading
         /\ [init_data EXCEPT !.generator = Null] \in Reading
         /\ \A k \in Nat : [init_data EXCEPT !.at = @ + k] \in Reading
<1>1. <<>> \in Seq(Nat)
  OBVIOUS
<1>2. NoInitData \in Reading
  BY <1>1 DEF NoInitData, Reading
<1>3. [NoInitData EXCEPT !.generator = Generator] \in Reading
  BY <1>2 DEF Reading
<1>4. [init_data EXCEPT !.generator = Null] \in Reading
  BY DEF Reading
<1>5. ASSUME NEW k \in Nat
      PROVE  [init_data EXCEPT !.at = @ + k] \in Reading
  <2>1. PICK n \in Nat : n = init_data.at + k
    BY DEF Reading
  <2>2. [init_data EXCEPT !.at = n] \in Reading
    BY DEF Reading
  <2>3. QED
    BY <2>1, <2>2
<1>6. QED
  BY <1>2, <1>3, <1>4, <1>5

\* The parts of the state that the kinds of UDF share, and that each has to itself.
SharedTypes ==
  /\ query \in Runs
  /\ work \in [Workers -> [at : Stages, chunk : Seq(1 .. query.size)]]
  /\ scan \in Nat
FrameTypes == frame # Null => frame \in Frames
StateTypes == state \in [Workers -> StateNames \cup {Null}]
TableTypes == bound \in {Null, BindData} /\ init_data \in Reading
AggTypes ==
  /\ has_combine \in BOOLEAN
  /\ local \in [Workers -> [Groups -> LocalNames \cup {Null, Garbage}]]
  /\ global \in [Groups -> GlobalNames \cup {Null, Garbage}]
  /\ combined \in SUBSET (Workers \X Groups)
  /\ result.offset \in Nat

\* A step that goes on with the query, ...
LEMMA SharedGoes ==
  ASSUME Types, NEW w \in Workers, NEW stage \in Stages,
         NEW chunk \in Seq(1 .. query.size), Goes(w, stage, chunk), query' = query,
         scan' \in Nat
  PROVE  SharedTypes'
BY GoesIs DEF SharedTypes, Types

\* ... and one that fails it.
LEMMA SharedFails ==
  ASSUME Types, SetError, work' = work, scan' = scan
  PROVE  SharedTypes'
<1>1. query' \in Runs /\ query'.size = query.size
  BY StatusSet DEF Types, SetError
<1>2. QED
  BY <1>1 DEF SharedTypes, Types

\* A step that leaves query and workers where they are.
LEMMA SharedStays ==
  ASSUME Types, query' = query, work' = work, scan' = scan
  PROVE  SharedTypes'
BY DEF SharedTypes, Types

\* The stages by name.
LEMMA StageNames ==
  /\ "new" \in Stages /\ "ready" \in Stages /\ "map" \in Stages /\ "update" \in Stages
  /\ "merge" \in Stages /\ "finished" \in Stages
BY DEF Stages

\* The callbacks of a scalar UDF keep the types.
LEMMA ScalarTypes ==
  ASSUME Types, Scalar
  PROVE  Types'
<1>1. TableTypes' /\ AggTypes'
  BY DEF Scalar, aggVars, TableTypes, AggTypes, Types
<1>2. PICK w \in Workers :
        \/ udf_init_trampoline(w) \/ udf_init_raises(w)
        \/ udf_trampoline(w) \/ udf_raises(w) \/ udf_state_destroy(w)
        \/ arrow_udf_trampoline(w) \/ import_from_c(w) \/ export_to_c(w) \/ from_arrow(w)
        \/ arrow_udf_returns(w) \/ arrow_udf_raises(w)
  BY DEF Scalar
<1>3. /\ work[w].chunk \in Seq(1 .. query.size) /\ <<>> \in Seq(1 .. query.size)
      /\ scan \in Nat
  BY WorkOf, EmptyChunk DEF Types
<1>4. SharedTypes'
  <2>1. CASE udf_init_trampoline(w)
    BY <1>3, <2>1, StageNames, SharedGoes DEF udf_init_trampoline
  <2>2. CASE udf_trampoline(w)
    BY <1>3, <2>2, StageNames, SharedGoes DEF udf_trampoline
  <2>3. CASE udf_init_raises(w) \/ udf_raises(w)
    BY <1>3, <2>3, SharedFails DEF udf_init_raises, udf_raises
  <2>4. CASE udf_state_destroy(w)
    BY <1>3, <2>4, SharedStays, ReleasesIs DEF udf_state_destroy
  <2>5. CASE arrow_udf_trampoline(w) \/ import_from_c(w) \/ export_to_c(w) \/ from_arrow(w)
    BY <1>3, <2>5, SharedStays DEF arrow_udf_trampoline, import_from_c, export_to_c, from_arrow
  <2>6. CASE arrow_udf_returns(w)
    BY <1>3, <2>6, StageNames, SharedGoes DEF arrow_udf_returns
  <2>7. CASE arrow_udf_raises(w)
    BY <2>7, SharedFails DEF arrow_udf_raises
  <2>8. QED
    BY <1>2, <2>1, <2>2, <2>3, <2>4, <2>5, <2>6, <2>7
<1>5. FrameTypes'
  <2>1. CASE frame' = frame
    BY <2>1 DEF FrameTypes, Types
  <2>2. CASE arrow_udf_trampoline(w)
    BY <2>2 DEF arrow_udf_trampoline, FrameTypes, Frames, Ins, Outs
  <2>3. CASE import_from_c(w)
    BY <2>3 DEF import_from_c, InFrame, FrameTypes, Types, Frames, Ins
  <2>4. CASE export_to_c(w)
    BY <2>4 DEF export_to_c, InFrame, FrameTypes, Types, Frames, Outs
  <2>5. CASE from_arrow(w)
    BY <2>5 DEF from_arrow, InFrame, FrameTypes, Types, Frames, Outs
  <2>6. CASE arrow_udf_returns(w) \/ arrow_udf_raises(w)
    BY <2>6 DEF arrow_udf_returns, arrow_udf_raises, Unwinds, FrameTypes
  <2>7. QED
    BY <1>2, <2>1, <2>2, <2>3, <2>4, <2>5, <2>6
    DEF udf_init_trampoline, udf_init_raises, udf_trampoline, udf_raises, udf_state_destroy
<1>6. StateTypes'
  <2>1. CASE state' = state
    BY <2>1 DEF StateTypes, Types
  <2>2. CASE udf_init_trampoline(w) \/ udf_state_destroy(w)
    BY <2>2 DEF udf_init_trampoline, udf_state_destroy, StateTypes, Types, StateNames
  <2>3. QED
    BY <1>2, <2>1, <2>2
    DEF udf_init_raises, udf_trampoline, udf_raises, arrow_udf_trampoline, import_from_c,
        export_to_c, from_arrow, arrow_udf_returns, arrow_udf_raises
<1>7. QED
  BY <1>1, <1>4, <1>5, <1>6
  DEF Types, SharedTypes, FrameTypes, StateTypes, TableTypes, AggTypes

\* What a worker reads of a generator that has not ended.
LEMMA PulledIs ==
  ASSUME Types, Progress, query.status = "running", query.source = "table"
  PROVE  /\ query.size \in Nat /\ init_data.at \in Nat /\ init_data.at <= query.size
         /\ Pulled = Upto(init_data.at) /\ Pulled \in Seq(1 .. query.size)
         /\ Pulled \in Seq(Nat) /\ Len(Pulled) \in Nat
<1>1. query.size \in Sizes \cup {0} /\ init_data.at \in Nat
  BY ReadingOf DEF Types, Runs
<1>2. query.size \in Nat
  <2>1. \A n \in Sizes : n \in Nat
    BY UdfSizes
  <2>2. QED
    BY <1>1, <2>1
<1>3. init_data.at <= query.size
  BY DEF Progress, Claimed
<1>4. Pulled = Upto(init_data.at)
  BY DEF Pulled
<1>5. Pulled \in Seq(1 .. query.size) /\ Len(Pulled) \in 0 .. Batch
  BY <1>1, <1>2, <1>3, <1>4, UptoIs
<1>6. Len(Pulled) \in Nat
  BY <1>5, UdfSizes
<1>7. Pulled \in Seq(Nat)
  <2>1. Pulled = [i \in 1 .. Len(Pulled) |-> init_data.at + i]
    BY <1>1, <1>2, <1>3, <1>4, UptoIs
  <2>2. QED
    BY <1>1, <1>6, <2>1
<1>8. QED
  BY <1>1, <1>2, <1>3, <1>4, <1>5, <1>6, <1>7

\* The callbacks of a table UDF keep the types.
LEMMA TableTypesStep ==
  ASSUME Types, Progress, Table
  PROVE  Types'
<1>1. StateTypes' /\ AggTypes'
  BY DEF Table, aggVars, StateTypes, AggTypes, Types
<1>2. frame' = frame
  BY DEF Table, table_bind, table_init, table_init_raises, init_data_destroy,
         bind_data_destroy, table_main, table_main_raises
<1>3. FrameTypes'
  BY <1>2 DEF FrameTypes, Types
<1>4. scan \in Nat /\ init_data \in Reading /\ bound \in {Null, BindData}
  BY DEF Types
<1>5. CASE table_bind \/ table_init \/ init_data_destroy \/ bind_data_destroy
  <2>1. query' = query /\ work' = work /\ scan' = scan
    BY <1>5 DEF table_bind, table_init, init_data_destroy, bind_data_destroy
  <2>2. init_data' \in Reading
    BY <1>4, <1>5, ReadingSet DEF table_bind, table_init, init_data_destroy, bind_data_destroy
  <2>3. bound' \in {Null, BindData}
    BY <1>4, <1>5 DEF table_bind, table_init, init_data_destroy, bind_data_destroy
  <2>4. SharedTypes' /\ TableTypes'
    BY <2>1, <2>2, <2>3, SharedStays DEF TableTypes
  <2>5. QED
    BY <1>1, <1>3, <2>4 DEF Types, SharedTypes, FrameTypes, StateTypes, TableTypes, AggTypes
<1>6. CASE table_init_raises
  <2>1. SharedTypes'
    BY <1>4, <1>6, SharedFails DEF table_init_raises
  <2>2. TableTypes'
    BY <1>4, <1>6 DEF table_init_raises, TableTypes
  <2>3. QED
    BY <1>1, <1>3, <2>1, <2>2
    DEF Types, SharedTypes, FrameTypes, StateTypes, TableTypes, AggTypes
<1>7. ASSUME NEW w \in Workers, table_main(w)
      PROVE  Types'
  <2>1. query.status = "running" /\ query.source = "table"
    BY <1>7 DEF table_main, Reads, At
  <2>2. SharedTypes'
    <3>1. query' = query /\ scan' = scan /\ wild' = wild
      BY <1>7 DEF table_main
    <3>2. CASE Ended(w)
      BY <1>4, <3>1, <3>2, EmptyChunk, StageNames, SharedGoes DEF Ended
    <3>3. CASE Goes(w, IF Pulled = <<>> THEN "merge" ELSE "map", Pulled)
      BY <1>4, <2>1, <3>1, <3>3, PulledIs, StageNames, SharedGoes
    <3>4. QED
      BY <1>7, <3>2, <3>3 DEF table_main
  <2>3. TableTypes'
    <3>1. bound' = bound
      BY <1>7 DEF table_main
    <3>2. CASE init_data' = init_data
      BY <1>4, <3>1, <3>2 DEF TableTypes
    <3>3. CASE init_data' = [Moved EXCEPT !.out = @ \o Pulled]
      <4>1. init_data' \in Reading
        BY <2>1, <3>3, PulledIs, MovedIs
      <4>2. QED
        BY <1>4, <3>1, <4>1 DEF TableTypes
    <3>4. QED
      BY <1>7, <3>2, <3>3 DEF table_main, Ended
  <2>4. QED
    BY <1>1, <1>3, <2>2, <2>3
    DEF Types, SharedTypes, FrameTypes, StateTypes, TableTypes, AggTypes
<1>8. ASSUME NEW w \in Workers, NEW k \in 0 .. Batch, table_main_raises(w, k)
      PROVE  Types'
  <2>1. SharedTypes'
    BY <1>4, <1>8, SharedFails DEF table_main_raises
  <2>2. k \in Nat
    BY UdfSizes
  <2>3. TableTypes'
    BY <1>4, <1>8, <2>2, ReadingSet DEF table_main_raises, TableTypes
  <2>4. QED
    BY <1>1, <1>3, <2>1, <2>3
    DEF Types, SharedTypes, FrameTypes, StateTypes, TableTypes, AggTypes
<1>9. QED
  BY <1>5, <1>6, <1>7, <1>8 DEF Table

\* Setting one slot of a worker.
LEMMA LocalSet ==
  ASSUME NEW V, local \in [Workers -> [Groups -> V]], NEW w \in Workers, NEW g \in Groups,
         NEW x \in V, local' = [local EXCEPT ![w][g] = x]
  PROVE  /\ local' \in [Workers -> [Groups -> V]] /\ local'[w][g] = x
         /\ \A u \in Workers, h \in Groups : u # w \/ h # g => local'[u][h] = local[u][h]
<1>1. PICK f \in [Groups -> V] : f = [local[w] EXCEPT ![g] = x]
  OBVIOUS
<1>2. local' = [local EXCEPT ![w] = f]
  BY <1>1
<1>3. f[g] = x /\ \A h \in Groups : h # g => f[h] = local[w][h]
  BY <1>1
<1>4. QED
  BY <1>2, <1>3

\* The callbacks of an aggregate UDF keep the types.
LEMMA AggregateTypes ==
  ASSUME Types, Aggregate
  PROVE  Types'
<1>1. StateTypes' /\ TableTypes'
  BY DEF Aggregate, StateTypes, TableTypes, Types
<1>2. /\ scan \in Nat /\ query \in Runs /\ work \in [Workers -> [at : Stages, chunk : Seq(1 .. query.size)]]
      /\ has_combine \in BOOLEAN
      /\ local \in [Workers -> [Groups -> LocalNames \cup {Null, Garbage}]]
      /\ global \in [Groups -> GlobalNames \cup {Null, Garbage}]
      /\ combined \in SUBSET (Workers \X Groups)
      /\ result.offset \in Nat
  BY DEF Types
<1>3. ASSUME NEW w \in Workers, NEW g \in Groups, agg_init(w, g) \/ agg_init_raises(w, g)
      PROVE  Types'
  <2>1. local' \in [Workers -> [Groups -> LocalNames \cup {Null, Garbage}]]
    <3>1. CASE local' = local
      BY <1>2, <3>1
    <3>2. ASSUME NEW x \in LocalNames \cup {Null, Garbage}, local' = [local EXCEPT ![w][g] = x]
          PROVE  local' \in [Workers -> [Groups -> LocalNames \cup {Null, Garbage}]]
      BY <1>2, <3>2, LocalSet
    <3>3. LocalOf(w, g) \in LocalNames
      BY DEF LocalNames
    <3>4. QED
      BY <1>3, <3>1, <3>2, <3>3 DEF agg_init, agg_init_raises
  <2>2. global' \in [Groups -> GlobalNames \cup {Null, Garbage}]
    BY <1>2, <1>3 DEF agg_init, agg_init_raises, GlobalNames
  <2>3. frame' = frame /\ has_combine' = has_combine /\ combined' = combined /\ result' = result
        /\ work' = work /\ scan' = scan /\ wild' = wild
    BY <1>3 DEF agg_init, agg_init_raises, udfRest
  <2>4. query' \in Runs /\ query'.size = query.size
    <3>1. CASE agg_init(w, g)
      BY <1>2, <3>1 DEF agg_init, udfRest
    <3>2. CASE agg_init_raises(w, g)
      BY <1>2, <3>2, RaisedSet DEF agg_init_raises
    <3>3. QED
      BY <1>3, <3>1, <3>2
  <2>5. SharedTypes' /\ FrameTypes' /\ AggTypes'
    BY <1>2, <2>1, <2>2, <2>3, <2>4 DEF SharedTypes, FrameTypes, AggTypes, Types
  <2>6. QED
    BY <1>1, <2>5 DEF Types, SharedTypes, FrameTypes, StateTypes, TableTypes, AggTypes
<1>4. ASSUME NEW w \in Workers, agg_update(w) \/ Merges(w)
      PROVE  Types'
  <2>1. SharedTypes'
    BY <1>2, <1>4, EmptyChunk, StageNames, SharedGoes DEF agg_update, Merges
  <2>2. FrameTypes' /\ AggTypes'
    BY <1>2, <1>4 DEF agg_update, Merges, FrameTypes, AggTypes, aggVars, Types
  <2>3. QED
    BY <1>1, <2>1, <2>2 DEF Types, SharedTypes, FrameTypes, StateTypes, TableTypes, AggTypes
<1>5. ASSUME \/ \E w \in Workers, gs \in SUBSET Groups : agg_update_raises(w, gs)
             \/ \E w \in Workers, g \in Groups : agg_combine_raises(w, g)
             \/ agg_finalize_raises
      PROVE  Types'
  <2>1. SetError /\ work' = work /\ scan' = scan /\ wild' = wild /\ UNCHANGED aggVars /\ frame' = frame
    BY <1>5 DEF agg_update_raises, agg_combine_raises, agg_finalize_raises
  <2>2. SharedTypes'
    BY <1>2, <2>1, SharedFails
  <2>3. FrameTypes' /\ AggTypes'
    BY <1>2, <2>1 DEF FrameTypes, AggTypes, aggVars, Types
  <2>4. QED
    BY <1>1, <2>2, <2>3 DEF Types, SharedTypes, FrameTypes, StateTypes, TableTypes, AggTypes
<1>6. ASSUME NEW w \in Workers, NEW g \in Groups, agg_combine(w, g) \/ agg_destroy(w, g)
      PROVE  Types'
  <2>1. query' = query /\ work' = work /\ scan' = scan /\ frame' = frame
        /\ has_combine' = has_combine /\ result' = result
    BY <1>6 DEF agg_combine, agg_destroy, udfRest
  <2>2. SharedTypes' /\ FrameTypes'
    BY <2>1, SharedStays DEF FrameTypes, Types
  <2>3. combined' \in SUBSET (Workers \X Groups)
    BY <1>2, <1>6 DEF agg_combine, agg_destroy
  <2>4. local' \in [Workers -> [Groups -> LocalNames \cup {Null, Garbage}]]
    <3>1. local' = local \/ local' = [local EXCEPT ![w][g] = Null]
      BY <1>6 DEF agg_combine, agg_destroy
    <3>2. QED
      BY <1>2, <3>1, LocalSet
  <2>5. global' \in [Groups -> GlobalNames \cup {Null, Garbage}]
    BY <1>2, <1>6 DEF agg_combine, agg_destroy
  <2>6. AggTypes'
    BY <1>2, <2>1, <2>3, <2>4, <2>5 DEF AggTypes
  <2>7. QED
    BY <1>1, <2>2, <2>6 DEF Types, SharedTypes, FrameTypes, StateTypes, TableTypes, AggTypes
<1>7. ASSUME NEW count \in 1 .. NGroups, NEW none \in SUBSET Groups, agg_finalize(count, none)
      PROVE  Types'
  <2>1. result'.offset = result.offset + count
    BY <1>7 DEF agg_finalize
  <2>2. result'.offset \in Nat
    BY <1>2, <2>1
  <2>3. query' = query /\ work' = work /\ scan' = scan /\ frame' = frame /\ wild' = wild
        /\ has_combine' = has_combine /\ local' = local /\ global' = global
        /\ combined' = combined
    BY <1>7 DEF agg_finalize, udfRest
  <2>4. SharedTypes' /\ FrameTypes' /\ AggTypes'
    BY <1>2, <2>2, <2>3 DEF SharedTypes, FrameTypes, AggTypes, Types
  <2>5. QED
    BY <1>1, <2>4 DEF Types, SharedTypes, FrameTypes, StateTypes, TableTypes, AggTypes
<1>8. QED
  BY <1>3, <1>4, <1>5, <1>6, <1>7 DEF Aggregate

\* The engine keeps the types.
LEMMA EngineTypes ==
  ASSUME Types, Rested, Progress, Engine
  PROVE  Types'
<1>1. StateTypes'
  BY DEF Engine, Start, Finish, CleanUp, StateTypes, Types
<1>2. /\ scan \in Nat /\ query \in Runs
      /\ work \in [Workers -> [at : Stages, chunk : Seq(1 .. query.size)]]
      /\ has_combine \in BOOLEAN
      /\ local \in [Workers -> [Groups -> LocalNames \cup {Null, Garbage}]]
      /\ global \in [Groups -> GlobalNames \cup {Null, Garbage}]
      /\ combined \in SUBSET (Workers \X Groups)
      /\ result.offset \in Nat /\ init_data \in Reading /\ bound \in {Null, BindData}
  BY DEF Types
<1>3. NoResult.offset = 0
  BY DEF NoResult
<1>4. ASSUME NEW source \in {"rows", "table"}, NEW udf \in {"ndarray", "arrow"}, NEW n \in Sizes,
             NEW ws \in (SUBSET Workers) \ {{}}, Start(source, n, udf, ws)
      PROVE  Types'
  <2>1. /\ query' = [query EXCEPT !.status = "running", !.source = source, !.size = n, !.udf = udf,
                                  !.n = @ + 1]
        /\ init_data' = NoInitData /\ scan' = 0 /\ result' = NoResult /\ combined' = {}
        /\ UNCHANGED <<objects, frame, wild, state, bound, has_combine, local, global>>
    BY <1>4 DEF Start
  <2>2. query' \in Runs /\ query'.size = n
    <3>1. PICK m \in Nat : m = query.n + 1
      BY <1>2 DEF Runs
    <3>2. query' = [query EXCEPT !.status = "running", !.source = source, !.size = n, !.udf = udf,
                                 !.n = m]
      BY <2>1, <3>1
    <3>3. QED
      BY <1>2, <3>2 DEF Runs
  <2>3. work' \in [Workers -> [at : Stages, chunk : Seq(1 .. n)]]
    <3>1. PICK first \in Stages :
            work' = [w \in Workers |-> IF w \in ws THEN [at |-> first, chunk |-> <<>>] ELSE work[w]]
      BY <1>4, StageNames DEF Start
    <3>2. \A w \in Workers : work[w] = [at |-> "finished", chunk |-> <<>>]
      BY <1>4 DEF Start, Rested, Resting
    <3>3. <<>> \in Seq(1 .. n)
      OBVIOUS
    <3>4. \A w \in Workers : work'[w] \in [at : Stages, chunk : Seq(1 .. n)]
      <4>1. [at |-> first, chunk |-> <<>>] \in [at : Stages, chunk : Seq(1 .. n)]
        BY <3>3
      <4>2. [at |-> "finished", chunk |-> <<>>] \in [at : Stages, chunk : Seq(1 .. n)]
        BY <3>3, StageNames
      <4>3. QED
        BY <3>1, <3>2, <4>1, <4>2
    <3>5. QED
      BY <3>1, <3>4
  <2>4. init_data' \in Reading
    BY <1>2, <2>1, ReadingSet
  <2>5. SharedTypes' /\ FrameTypes' /\ TableTypes' /\ AggTypes'
    BY <1>2, <1>3, <2>1, <2>2, <2>3, <2>4 DEF SharedTypes, FrameTypes, TableTypes, AggTypes, Types
  <2>6. QED
    BY <1>1, <2>5 DEF Types, SharedTypes, FrameTypes, StateTypes, TableTypes, AggTypes
<1>5. ASSUME NEW w \in Workers, ScanRows(w), UNCHANGED <<state, bound, init_data, aggVars>>
      PROVE  Types'
  <2>1. query.status = "running" /\ query.source = "rows" /\ query.size \in Nat
    BY <1>5, WorkOf DEF ScanRows, At
  <2>2. scan <= query.size
    BY <2>1 DEF Progress, Claimed
  <2>3. Upto(scan) \in Seq(1 .. query.size) /\ Len(Upto(scan)) \in Nat
    BY <1>2, <2>1, <2>2, UptoIs, UdfSizes
  <2>4. scan' \in Nat /\ query' = query /\ wild' = wild
    BY <1>2, <1>5, <2>3 DEF ScanRows
  <2>5. SharedTypes'
    BY <1>2, <1>5, <2>3, <2>4, EmptyChunk, StageNames, SharedGoes DEF ScanRows
  <2>6. FrameTypes' /\ TableTypes' /\ AggTypes'
    BY <1>2, <1>5 DEF ScanRows, FrameTypes, TableTypes, AggTypes, aggVars, Types
  <2>7. QED
    BY <1>1, <2>5, <2>6 DEF Types, SharedTypes, FrameTypes, StateTypes, TableTypes, AggTypes
<1>6. CASE Abandon /\ UNCHANGED <<state, bound, init_data, aggVars>>
  <2>1. SharedTypes'
    BY <1>2, <1>6, SharedFails DEF Abandon
  <2>2. FrameTypes' /\ TableTypes' /\ AggTypes'
    BY <1>2, <1>6 DEF Abandon, FrameTypes, TableTypes, AggTypes, aggVars, Types
  <2>3. QED
    BY <1>1, <2>1, <2>2 DEF Types, SharedTypes, FrameTypes, StateTypes, TableTypes, AggTypes
<1>7. CASE Finish
  <2>1. query' \in Runs /\ query'.size = query.size
    BY <1>2, <1>7, StatusSet DEF Finish
  <2>2. SharedTypes' /\ FrameTypes' /\ TableTypes' /\ AggTypes'
    BY <1>2, <1>7, <2>1 DEF Finish, SharedTypes, FrameTypes, TableTypes, AggTypes, aggVars, Types
  <2>3. QED
    BY <1>1, <2>2 DEF Types, SharedTypes, FrameTypes, StateTypes, TableTypes, AggTypes
<1>8. CASE CleanUp
  <2>1. query' \in Runs /\ query'.size = query.size
    BY <1>2, <1>8, StatusSet DEF CleanUp
  <2>2. Resting \in [Workers -> [at : Stages, chunk : Seq(1 .. query.size)]]
    BY EmptyChunk, StageNames DEF Resting
  <2>3. NoInitData \in Reading
    BY <1>2, ReadingSet
  <2>4. SharedTypes' /\ FrameTypes' /\ TableTypes' /\ AggTypes'
    BY <1>2, <1>3, <1>8, <2>1, <2>2, <2>3
    DEF CleanUp, SharedTypes, FrameTypes, TableTypes, AggTypes, aggVars, Types
  <2>5. QED
    BY <1>1, <2>4 DEF Types, SharedTypes, FrameTypes, StateTypes, TableTypes, AggTypes
<1>9. QED
  BY <1>4, <1>5, <1>6, <1>7, <1>8 DEF Engine

-----------------------------------------------------------------------------
(* Ownership.                                                              *)

\* A step that leaves the slots alone, and their objects alive.
LEMMA OwnedKept ==
  ASSUME Owned, DOMAIN objects' \subseteq Roles,
         \A o \in Roles : o \notin {ArrayOf("in"), ArrayOf("out")} =>
           (o \in DOMAIN objects' <=> o \in DOMAIN objects),
         state' = state, local' = local, global' = global, bound' = bound,
         init_data'.generator = init_data.generator,
         query.init_raised => query'.init_raised, wild' = wild
  PROVE  Owned'
<1>1. ASSUME NEW w \in Workers
      PROVE  /\ StateOf(w) \in DOMAIN objects' <=> StateOf(w) \in DOMAIN objects
             /\ \A g \in Groups : LocalOf(w, g) \in DOMAIN objects' <=> LocalOf(w, g) \in DOMAIN objects
  BY StatesDiffer, LocalsDiffer
<1>2. ASSUME NEW g \in Groups
      PROVE  GlobalOf(g) \in DOMAIN objects' <=> GlobalOf(g) \in DOMAIN objects
  BY GlobalsDiffer
<1>3. /\ BindData \in DOMAIN objects' <=> BindData \in DOMAIN objects
      /\ Generator \in DOMAIN objects' <=> Generator \in DOMAIN objects
  BY OthersDiffer
<1>4. QED
  BY <1>1, <1>2, <1>3 DEF Owned

\* The special case of a step that leaves all objects alive and makes none.
LEMMA OwnedSame ==
  ASSUME Owned, DOMAIN objects' = DOMAIN objects,
         state' = state, local' = local, global' = global, bound' = bound,
         init_data'.generator = init_data.generator,
         query.init_raised => query'.init_raised, wild' = wild
  PROVE  Owned'
BY OwnedKept DEF Owned

\* A frame that unwinds releases what its slots hold, each once.
LEMMA UnwindsIs ==
  ASSUME Types, Owned, Framed, frame # Null, Unwinds
  PROVE  /\ frame' = Null /\ wild' = wild
         /\ DOMAIN objects' = DOMAIN objects \ {ArrayOf("in"), ArrayOf("out")}
         /\ \A o \in DOMAIN objects' : objects'[o] = objects[o]
<1>1. /\ frame.in \in Ins /\ frame.batch \in Ins /\ frame.out \in Outs /\ frame.chunk \in Outs
     
  BY DEF Types, Frames
<1>2. wild' = wild
  BY <1>1 DEF Unwinds, Framed
<1>3. \A o \in {ArrayOf("in"), ArrayOf("out")} : o \in DOMAIN objects => o \in Held
  BY <1>1 DEF Framed, Held, Ins, Outs
<1>4. Held \subseteq {Null, ArrayOf("in"), ArrayOf("out")} /\ Null \notin DOMAIN objects
  BY <1>1, NullIsNoObject DEF Held, Ins, Outs, Owned
<1>5. objects' = [o \in DOMAIN objects \ Held |-> objects[o]] /\ frame' = Null
  BY DEF Unwinds
<1>6. DOMAIN objects' = DOMAIN objects \ Held /\ \A o \in DOMAIN objects' : objects'[o] = objects[o]
  BY <1>5
<1>7. DOMAIN objects \ Held = DOMAIN objects \ {ArrayOf("in"), ArrayOf("out")}
  BY <1>3, <1>4
<1>8. QED
  BY <1>2, <1>5, <1>6, <1>7

\* The callbacks of a scalar UDF keep every object in its slot.
LEMMA ScalarOwned ==
  ASSUME Types, Owned, Framed, Scalar
  PROVE  Owned'
<1>1. /\ bound' = bound /\ init_data' = init_data /\ local' = local /\ global' = global
      /\ query \in Runs
  BY DEF Scalar, aggVars, Types
<1>2. PICK w \in Workers :
        \/ udf_init_trampoline(w) \/ udf_init_raises(w)
        \/ udf_trampoline(w) \/ udf_raises(w) \/ udf_state_destroy(w)
        \/ arrow_udf_trampoline(w) \/ import_from_c(w) \/ export_to_c(w) \/ from_arrow(w)
        \/ arrow_udf_returns(w) \/ arrow_udf_raises(w)
  BY DEF Scalar
<1>3. DOMAIN objects \subseteq Roles
  BY DEF Owned
<1>4. CASE udf_init_trampoline(w)
  <2>1. DOMAIN objects' = DOMAIN objects \cup {StateOf(w)}
    BY <1>4, CreatesIs DEF udf_init_trampoline
  <2>2. query' = query /\ wild' = wild
    BY <1>4 DEF udf_init_trampoline
  <2>3. state'[w] = StateOf(w) /\ \A u \in Workers : u # w => state'[u] = state[u]
    BY <1>4 DEF udf_init_trampoline, Types
  <2>4. DOMAIN objects' \subseteq Roles
    BY <1>3, <2>1, StatesDiffer
  <2>5. ASSUME NEW u \in Workers
        PROVE  /\ state'[u] \in {Null, StateOf(u)}
               /\ StateOf(u) \in DOMAIN objects' <=> state'[u] = StateOf(u)
    BY <2>1, <2>3, StatesDiffer DEF Owned
  <2>6. \A o \in DOMAIN objects' : o \in DOMAIN objects \/ o = StateOf(w)
    BY <2>1
  <2>7. ASSUME NEW o \in Roles, o # StateOf(w)
        PROVE  o \in DOMAIN objects' <=> o \in DOMAIN objects
    BY <2>1, <2>7
  <2>8. /\ \A u \in Workers, g \in Groups : LocalOf(u, g) \in Roles /\ LocalOf(u, g) # StateOf(w)
        /\ \A g \in Groups : GlobalOf(g) \in Roles /\ GlobalOf(g) # StateOf(w)
        /\ \A o \in {BindData, Generator} : o \in Roles /\ o # StateOf(w)
    BY StatesDiffer, LocalsDiffer, GlobalsDiffer, OthersDiffer
  <2>9. QED
    BY <1>1, <2>2, <2>4, <2>5, <2>7, <2>8 DEF Owned
<1>5. CASE udf_state_destroy(w)
  <2>1. state[w] = StateOf(w) /\ StateOf(w) \in DOMAIN objects
    BY <1>5 DEF udf_state_destroy, Owned
  <2>2. DOMAIN objects' = DOMAIN objects \ {StateOf(w)} /\ wild' = wild
    BY <1>1, <1>5, <2>1, ReleasesIs DEF udf_state_destroy
  <2>3. state'[w] = Null /\ \A u \in Workers : u # w => state'[u] = state[u]
    BY <1>5 DEF udf_state_destroy, Types
  <2>4. query' = query
    BY <1>5 DEF udf_state_destroy
  <2>5. ASSUME NEW u \in Workers
        PROVE  /\ state'[u] \in {Null, StateOf(u)}
               /\ StateOf(u) \in DOMAIN objects' <=> state'[u] = StateOf(u)
    BY <2>2, <2>3, StatesDiffer DEF Owned
  <2>6. DOMAIN objects' \subseteq Roles
    BY <1>3, <2>2
  <2>7. ASSUME NEW o \in Roles, o # StateOf(w)
        PROVE  o \in DOMAIN objects' <=> o \in DOMAIN objects
    BY <2>2, <2>7
  <2>8. /\ \A u \in Workers, g \in Groups : LocalOf(u, g) \in Roles /\ LocalOf(u, g) # StateOf(w)
        /\ \A g \in Groups : GlobalOf(g) \in Roles /\ GlobalOf(g) # StateOf(w)
        /\ \A o \in {BindData, Generator} : o \in Roles /\ o # StateOf(w)
    BY StatesDiffer, LocalsDiffer, GlobalsDiffer, OthersDiffer
  <2>9. QED
    BY <1>1, <2>2, <2>4, <2>5, <2>6, <2>7, <2>8 DEF Owned
<1>6. CASE udf_init_raises(w) \/ udf_raises(w) \/ udf_trampoline(w)
  <2>1. DOMAIN objects' = DOMAIN objects
    BY <1>6, ShownIs DEF udf_init_raises, udf_raises, udf_trampoline
  <2>2. query.init_raised => query'.init_raised
    BY <1>1, <1>6, StatusSet DEF udf_init_raises, udf_raises, udf_trampoline, SetError
  <2>3. state' = state /\ wild' = wild
    BY <1>6 DEF udf_init_raises, udf_raises, udf_trampoline
  <2>4. QED
    BY <1>1, <2>1, <2>2, <2>3, OwnedSame
<1>7. CASE import_from_c(w) \/ from_arrow(w)
  BY <1>1, <1>7, OwnedSame DEF import_from_c, from_arrow
<1>8. CASE arrow_udf_trampoline(w) \/ export_to_c(w)
  <2>1. \E o \in {ArrayOf("in"), ArrayOf("out")} : DOMAIN objects' = DOMAIN objects \cup {o}
    BY <1>8, CreatesIs DEF arrow_udf_trampoline, export_to_c
  <2>2. query' = query /\ state' = state /\ wild' = wild
    BY <1>8 DEF arrow_udf_trampoline, export_to_c
  <2>3. DOMAIN objects' \subseteq Roles
    BY <1>3, <2>1, OthersDiffer
  <2>4. QED
    BY <1>1, <2>1, <2>2, <2>3, OwnedKept
<1>9. CASE arrow_udf_returns(w) \/ arrow_udf_raises(w)
  <2>1. frame # Null /\ Unwinds /\ state' = state
    BY <1>9 DEF arrow_udf_returns, arrow_udf_raises, InFrame
  <2>2. query.init_raised => query'.init_raised
    BY <1>1, <1>9, StatusSet DEF arrow_udf_returns, arrow_udf_raises, SetError
  <2>3. QED
    BY <1>1, <1>3, <2>1, <2>2, UnwindsIs, OwnedKept
<1>10. QED
  BY <1>2, <1>4, <1>5, <1>6, <1>7, <1>8, <1>9

\* The callbacks of a table UDF do too.
LEMMA TableOwned ==
  ASSUME Types, Owned, Table
  PROVE  Owned'
<1>1. /\ state' = state /\ local' = local /\ global' = global /\ query \in Runs
      /\ init_data \in Reading /\ DOMAIN objects \subseteq Roles
  BY DEF Table, aggVars, Types, Owned
<1>2. ASSUME NEW o \in {BindData, Generator}, NEW u \in Roles, u # o,
             DOMAIN objects' = DOMAIN objects \cup {o} \/ DOMAIN objects' = DOMAIN objects \ {o}
      PROVE  u \in DOMAIN objects' <=> u \in DOMAIN objects
  BY <1>2
<1>3. /\ \A w \in Workers : StateOf(w) \in Roles /\ StateOf(w) \notin {BindData, Generator}
      /\ \A w \in Workers, g \in Groups : LocalOf(w, g) \in Roles /\ LocalOf(w, g) \notin {BindData, Generator}
      /\ \A g \in Groups : GlobalOf(g) \in Roles /\ GlobalOf(g) \notin {BindData, Generator}
      /\ BindData \in Roles /\ Generator \in Roles /\ BindData # Generator
      /\ BindData # Null /\ Generator # Null
  BY StatesDiffer, LocalsDiffer, GlobalsDiffer, OthersDiffer
<1>4. ASSUME NEW o \in {BindData, Generator}, wild' = wild, query' = query,
             DOMAIN objects' = DOMAIN objects \cup {o} \/ DOMAIN objects' = DOMAIN objects \ {o},
             BindData \in DOMAIN objects' <=> bound' = BindData,
             Generator \in DOMAIN objects' <=> init_data'.generator = Generator
      PROVE  Owned'
  <2>1. DOMAIN objects' \subseteq Roles
    BY <1>1, <1>3, <1>4
  <2>2. ASSUME NEW w \in Workers
        PROVE  /\ StateOf(w) \in DOMAIN objects' <=> StateOf(w) \in DOMAIN objects
               /\ \A g \in Groups : LocalOf(w, g) \in DOMAIN objects' <=> LocalOf(w, g) \in DOMAIN objects
    BY <1>2, <1>3, <1>4
  <2>3. ASSUME NEW g \in Groups
        PROVE  GlobalOf(g) \in DOMAIN objects' <=> GlobalOf(g) \in DOMAIN objects
    BY <1>2, <1>3, <1>4
  <2>4. QED
    BY <1>1, <1>4, <2>1, <2>2, <2>3 DEF Owned
<1>5. CASE table_bind
  <2>1. DOMAIN objects' = DOMAIN objects \cup {BindData}
    BY <1>5, CreatesIs DEF table_bind
  <2>2. wild' = wild /\ query' = query /\ bound' = BindData /\ init_data' = init_data
    BY <1>5 DEF table_bind
  <2>3. Generator \in DOMAIN objects' <=> init_data'.generator = Generator
    BY <1>3, <2>1, <2>2 DEF Owned
  <2>4. QED
    BY <1>4, <2>1, <2>2, <2>3
<1>6. CASE table_init
  <2>1. DOMAIN objects' = DOMAIN objects \cup {Generator}
    BY <1>6, CreatesIs DEF table_init
  <2>2. wild' = wild /\ query' = query /\ bound' = bound /\ init_data'.generator = Generator
    BY <1>6 DEF table_init, NoInitData
  <2>3. BindData \in DOMAIN objects' <=> bound' = BindData
    BY <1>3, <2>1, <2>2 DEF Owned
  <2>4. QED
    BY <1>4, <2>1, <2>2, <2>3
<1>7. CASE init_data_destroy
  <2>1. init_data.generator = Generator /\ Generator \in DOMAIN objects
    BY <1>1, <1>7 DEF init_data_destroy, Reading, Owned
  <2>2. DOMAIN objects' = DOMAIN objects \ {Generator} /\ wild' = wild
    BY <1>1, <1>7, <2>1, ReleasesIs DEF init_data_destroy
  <2>3. query' = query /\ bound' = bound /\ init_data'.generator = Null
    BY <1>1, <1>7 DEF init_data_destroy, Reading
  <2>4. /\ BindData \in DOMAIN objects' <=> bound' = BindData
        /\ Generator \in DOMAIN objects' <=> init_data'.generator = Generator
    BY <1>3, <2>2, <2>3 DEF Owned
  <2>5. QED
    BY <1>4, <2>2, <2>3, <2>4
<1>8. CASE bind_data_destroy
  <2>1. bound = BindData /\ BindData \in DOMAIN objects
    BY <1>1, <1>8 DEF bind_data_destroy, Types, Owned
  <2>2. DOMAIN objects' = DOMAIN objects \ {BindData} /\ wild' = wild
    BY <1>1, <1>8, <2>1, ReleasesIs DEF bind_data_destroy
  <2>3. query' = query /\ bound' = Null /\ init_data' = init_data
    BY <1>8 DEF bind_data_destroy
  <2>4. /\ BindData \in DOMAIN objects' <=> bound' = BindData
        /\ Generator \in DOMAIN objects' <=> init_data'.generator = Generator
    BY <1>3, <2>2, <2>3 DEF Owned
  <2>5. QED
    BY <1>4, <2>2, <2>3, <2>4
<1>9. CASE table_init_raises
  <2>1. query.init_raised => query'.init_raised
    BY <1>1, <1>9, StatusSet DEF table_init_raises, SetError
  <2>2. QED
    BY <1>1, <1>9, <2>1, OwnedSame DEF table_init_raises
<1>10. ASSUME NEW w \in Workers, table_main(w)
       PROVE  Owned'
  <2>1. objects' = objects /\ query' = query /\ wild' = wild /\ bound' = bound
    BY <1>10 DEF table_main
  <2>2. init_data'.generator = init_data.generator
    <3>1. CASE Ended(w)
      BY <3>1 DEF Ended
    <3>2. CASE init_data' = [Moved EXCEPT !.out = @ \o Pulled]
      BY <1>1, <3>2 DEF Moved, Reading
    <3>3. QED
      BY <1>10, <3>1, <3>2 DEF table_main
  <2>3. QED
    BY <1>1, <2>1, <2>2, OwnedSame
<1>11. ASSUME NEW w \in Workers, NEW k \in 0 .. Batch, table_main_raises(w, k)
       PROVE  Owned'
  <2>1. query.init_raised => query'.init_raised
    BY <1>1, <1>11, StatusSet DEF table_main_raises, SetError
  <2>2. init_data'.generator = init_data.generator
    BY <1>1, <1>11 DEF table_main_raises, Reading
  <2>3. objects' = objects /\ wild' = wild /\ bound' = bound
    BY <1>11 DEF table_main_raises
  <2>4. QED
    BY <1>1, <2>1, <2>2, <2>3, OwnedSame
<1>12. QED
  BY <1>5, <1>6, <1>7, <1>8, <1>9, <1>10, <1>11 DEF Table

\* A new object in its slot, and one that has left its slot: the rest as it was.
LEMMA LocalOwned ==
  ASSUME Types, Owned, NEW w \in Workers, NEW g \in Groups,
         NEW x \in {Null, Garbage, LocalOf(w, g)}, local' = [local EXCEPT ![w][g] = x],
         \/ x = LocalOf(w, g) /\ DOMAIN objects' = DOMAIN objects \cup {LocalOf(w, g)}
         \/ x # LocalOf(w, g) /\ DOMAIN objects' = DOMAIN objects \ {LocalOf(w, g)},
         state' = state, global' = global, bound' = bound,
         init_data'.generator = init_data.generator,
         query.init_raised => query'.init_raised, x = Garbage => query'.init_raised,
         wild' \subseteq {Garbage}, wild' # {} => query'.init_raised
  PROVE  Owned'
<1>1. local'[w][g] = x /\ \A u \in Workers, h \in Groups : u # w \/ h # g => local'[u][h] = local[u][h]
  <2>1. x \in LocalNames \cup {Null, Garbage}
    BY DEF LocalNames
  <2>2. QED
    BY <2>1, LocalSet DEF Types
<1>2. DOMAIN objects' \subseteq Roles
  BY LocalsDiffer DEF Owned
<1>3. ASSUME NEW o \in Roles, o # LocalOf(w, g)
      PROVE  o \in DOMAIN objects' <=> o \in DOMAIN objects
  BY <1>3
<1>4. ASSUME NEW u \in Workers
      PROVE  StateOf(u) \in DOMAIN objects' <=> StateOf(u) \in DOMAIN objects
  BY <1>3, StatesDiffer
<1>5. ASSUME NEW h \in Groups
      PROVE  GlobalOf(h) \in DOMAIN objects' <=> GlobalOf(h) \in DOMAIN objects
  BY <1>3, GlobalsDiffer
<1>6. /\ BindData \in DOMAIN objects' <=> BindData \in DOMAIN objects
      /\ Generator \in DOMAIN objects' <=> Generator \in DOMAIN objects
  BY <1>3, OthersDiffer
<1>7. ASSUME NEW u \in Workers, NEW h \in Groups
      PROVE  /\ local'[u][h] \in {Null, Garbage, LocalOf(u, h)}
             /\ LocalOf(u, h) \in DOMAIN objects' <=> local'[u][h] = LocalOf(u, h)
             /\ local'[u][h] = Garbage => query'.init_raised
  <2>1. CASE u = w /\ h = g
    BY <1>1, <2>1, LocalsDiffer
  <2>2. CASE u # w \/ h # g
    <3>1. LocalOf(u, h) # LocalOf(w, g) /\ LocalOf(u, h) \in Roles
      BY <2>2, LocalsDiffer
    <3>2. LocalOf(u, h) \in DOMAIN objects' <=> LocalOf(u, h) \in DOMAIN objects
      BY <1>3, <3>1
    <3>3. QED
      BY <1>1, <2>2, <3>2 DEF Owned
  <2>3. QED
    BY <2>1, <2>2
<1>8. QED
  BY <1>2, <1>4, <1>5, <1>6, <1>7 DEF Owned

\* The same of a slot of the query.
LEMMA GlobalOwned ==
  ASSUME Types, Owned, NEW g \in Groups,
         NEW x \in {Null, Garbage, GlobalOf(g)}, global' = [global EXCEPT ![g] = x],
         \/ x = GlobalOf(g) /\ DOMAIN objects' = DOMAIN objects \cup {GlobalOf(g)}
         \/ x # GlobalOf(g) /\ DOMAIN objects' = DOMAIN objects \ {GlobalOf(g)},
         state' = state, local' = local, bound' = bound,
         init_data'.generator = init_data.generator,
         query.init_raised => query'.init_raised, x = Garbage => query'.init_raised,
         wild' \subseteq {Garbage}, wild' # {} => query'.init_raised
  PROVE  Owned'
<1>1. global'[g] = x /\ \A h \in Groups : h # g => global'[h] = global[h]
  BY DEF Types
<1>2. DOMAIN objects' \subseteq Roles
  BY GlobalsDiffer DEF Owned
<1>3. ASSUME NEW o \in Roles, o # GlobalOf(g)
      PROVE  o \in DOMAIN objects' <=> o \in DOMAIN objects
  BY <1>3
<1>4. ASSUME NEW u \in Workers
      PROVE  /\ StateOf(u) \in DOMAIN objects' <=> StateOf(u) \in DOMAIN objects
             /\ \A h \in Groups : LocalOf(u, h) \in DOMAIN objects' <=> LocalOf(u, h) \in DOMAIN objects
  BY <1>3, StatesDiffer, LocalsDiffer
<1>5. /\ BindData \in DOMAIN objects' <=> BindData \in DOMAIN objects
      /\ Generator \in DOMAIN objects' <=> Generator \in DOMAIN objects
  BY <1>3, OthersDiffer
<1>6. ASSUME NEW h \in Groups
      PROVE  /\ global'[h] \in {Null, Garbage, GlobalOf(h)}
             /\ GlobalOf(h) \in DOMAIN objects' <=> global'[h] = GlobalOf(h)
             /\ global'[h] = Garbage => query'.init_raised
  <2>1. CASE h = g
    BY <1>1, <2>1, GlobalsDiffer
  <2>2. CASE h # g
    <3>1. GlobalOf(h) # GlobalOf(g) /\ GlobalOf(h) \in Roles
      BY <2>2, GlobalsDiffer
    <3>2. GlobalOf(h) \in DOMAIN objects' <=> GlobalOf(h) \in DOMAIN objects
      BY <1>3, <3>1
    <3>3. QED
      BY <1>1, <2>2, <3>2 DEF Owned
  <2>3. QED
    BY <2>1, <2>2
<1>7. QED
  BY <1>2, <1>4, <1>5, <1>6 DEF Owned

\* What update() shows to instances makes none and releases none.
LEMMA UpdatedDomain ==
  ASSUME NEW w, NEW chunk, NEW gs, objects' = Updated(w, chunk, gs)
  PROVE  DOMAIN objects' = DOMAIN objects
BY DEF Updated

\* The callbacks of an aggregate UDF keep every object in its slot.
LEMMA AggregateOwned ==
  ASSUME Types, Owned, Aggregate
  PROVE  Owned'
<1>1. /\ state' = state /\ bound' = bound /\ init_data' = init_data
      /\ query \in Runs
  BY DEF Aggregate, Types
<1>2. ASSUME NEW w \in Workers, NEW g \in Groups, agg_init(w, g)
      PROVE  Owned'
  <2>1. query' = query /\ wild' = wild
    BY <1>2 DEF agg_init, udfRest
  <2>2. CASE Creates(LocalOf(w, g)) /\ local' = [local EXCEPT ![w][g] = LocalOf(w, g)] /\ UNCHANGED global
    <3>1. LocalOf(w, g) # Garbage /\ wild' \subseteq {Garbage} /\ (wild' # {} => query'.init_raised)
      BY <2>1, LocalsDiffer DEF Owned
    <3>2. DOMAIN objects' = DOMAIN objects \cup {LocalOf(w, g)}
      BY <2>2, CreatesIs
    <3>3. PICK x \in {Null, Garbage, LocalOf(w, g)} : x = LocalOf(w, g)
      OBVIOUS
    <3>4. local' = [local EXCEPT ![w][g] = x] /\ global' = global
      BY <2>2, <3>3
    <3>5. QED
      BY <1>1, <2>1, <3>1, <3>2, <3>3, <3>4, LocalOwned
  <2>3. CASE Creates(GlobalOf(g)) /\ global' = [global EXCEPT ![g] = GlobalOf(g)] /\ UNCHANGED local
    BY <1>1, <2>1, <2>3, CreatesIs, GlobalsDiffer, GlobalOwned DEF Owned
  <2>4. QED
    BY <1>2, <2>2, <2>3 DEF agg_init
<1>3. ASSUME NEW w \in Workers, NEW g \in Groups, agg_init_raises(w, g)
      PROVE  Owned'
  <2>1. query'.init_raised /\ wild' = wild /\ wild \subseteq {Garbage} /\ objects' = objects
    BY <1>1, <1>3, RaisedSet DEF agg_init_raises, Owned
  <2>2. CASE local[w][g] = Null /\ (\E was \in {Null, Garbage} : local' = [local EXCEPT ![w][g] = was])
             /\ UNCHANGED global
    <3>1. LocalOf(w, g) \notin DOMAIN objects
      BY <2>2, LocalsDiffer DEF Owned
    <3>2. PICK was \in {Null, Garbage} : local' = [local EXCEPT ![w][g] = was]
      BY <2>2
    <3>3. DOMAIN objects' = DOMAIN objects \ {LocalOf(w, g)} /\ was # LocalOf(w, g)
      BY <2>1, <3>1, LocalsDiffer
    <3>4. was \in {Null, Garbage, LocalOf(w, g)} /\ global' = global
      BY <2>2
    <3>5. QED
      BY <1>1, <2>1, <3>2, <3>3, <3>4, LocalOwned
  <2>3. CASE global[g] = Null /\ (\E was \in {Null, Garbage} : global' = [global EXCEPT ![g] = was])
             /\ UNCHANGED local
    <3>1. GlobalOf(g) \notin DOMAIN objects
      BY <2>3, GlobalsDiffer DEF Owned
    <3>2. PICK was \in {Null, Garbage} : global' = [global EXCEPT ![g] = was]
      BY <2>3
    <3>3. DOMAIN objects' = DOMAIN objects \ {GlobalOf(g)} /\ was # GlobalOf(g)
      BY <2>1, <3>1, GlobalsDiffer
    <3>4. was \in {Null, Garbage, GlobalOf(g)} /\ local' = local
      BY <2>3
    <3>5. QED
      BY <1>1, <2>1, <3>2, <3>3, <3>4, GlobalOwned
  <2>4. QED
    BY <1>3, <2>2, <2>3 DEF agg_init_raises
<1>4. ASSUME NEW w \in Workers, NEW g \in Groups, agg_destroy(w, g)
      PROVE  Owned'
  <2>1. query' = query
    BY <1>4 DEF agg_destroy
  <2>2. CASE local[w][g] # Null /\ Releases(local[w][g]) /\ local' = [local EXCEPT ![w][g] = Null]
             /\ UNCHANGED global
    <3>1. DOMAIN objects' = DOMAIN objects \ {local[w][g]}
          /\ wild' \subseteq wild \cup {local[w][g]}
          /\ (local[w][g] \in DOMAIN objects => wild' = wild)
      BY <1>1, <2>2, ReleasesIs
    <3>2. /\ DOMAIN objects' = DOMAIN objects \ {LocalOf(w, g)}
          /\ wild' \subseteq {Garbage} /\ (wild' # {} => query.init_raised)
      <4>1. CASE local[w][g] = LocalOf(w, g)
        BY <3>1, <4>1 DEF Owned
      <4>2. CASE local[w][g] = Garbage
        <5>1. LocalOf(w, g) \notin DOMAIN objects /\ query.init_raised /\ wild \subseteq {Garbage}
          BY <4>2, LocalsDiffer DEF Owned
        <5>2. Garbage \notin DOMAIN objects
          BY NullIsNoObject DEF Owned
        <5>3. QED
          BY <3>1, <4>2, <5>1, <5>2
      <4>3. QED
        BY <2>2, <4>1, <4>2 DEF Owned
    <3>3. QED
      BY <1>1, <2>1, <2>2, <3>2, LocalsDiffer, NullIsNoObject, LocalOwned
  <2>3. CASE global[g] # Null /\ Releases(global[g]) /\ global' = [global EXCEPT ![g] = Null]
             /\ UNCHANGED local
    <3>1. DOMAIN objects' = DOMAIN objects \ {global[g]}
          /\ wild' \subseteq wild \cup {global[g]}
          /\ (global[g] \in DOMAIN objects => wild' = wild)
      BY <1>1, <2>3, ReleasesIs
    <3>2. /\ DOMAIN objects' = DOMAIN objects \ {GlobalOf(g)}
          /\ wild' \subseteq {Garbage} /\ (wild' # {} => query.init_raised)
      <4>1. CASE global[g] = GlobalOf(g)
        BY <3>1, <4>1 DEF Owned
      <4>2. CASE global[g] = Garbage
        <5>1. GlobalOf(g) \notin DOMAIN objects /\ query.init_raised /\ wild \subseteq {Garbage}
          BY <4>2, GlobalsDiffer DEF Owned
        <5>2. Garbage \notin DOMAIN objects
          BY NullIsNoObject DEF Owned
        <5>3. QED
          BY <3>1, <4>2, <5>1, <5>2
      <4>3. QED
        BY <2>3, <4>1, <4>2 DEF Owned
    <3>3. QED
      BY <1>1, <2>1, <2>3, <3>2, GlobalsDiffer, NullIsNoObject, GlobalOwned
  <2>4. QED
    BY <1>4, <2>2, <2>3 DEF agg_destroy
<1>5. CASE DOMAIN objects' = DOMAIN objects /\ local' = local /\ global' = global /\ wild' = wild
           /\ (query' = query \/ SetError)
  <2>1. query.init_raised => query'.init_raised
    BY <1>1, <1>5, StatusSet DEF SetError
  <2>2. QED
    BY <1>1, <1>5, <2>1, OwnedSame
<1>6. ASSUME NEW w \in Workers,
             \/ agg_update(w) \/ Merges(w)
             \/ \E gs \in SUBSET Groups : agg_update_raises(w, gs)
             \/ \E g \in Groups : agg_combine(w, g) \/ agg_combine_raises(w, g)
      PROVE  Owned'
  BY <1>5, <1>6, UpdatedDomain
  DEF agg_update, Merges, agg_update_raises, agg_combine, agg_combine_raises, aggVars, udfRest
<1>7. ASSUME \/ \E count \in 1 .. NGroups, none \in SUBSET Groups : agg_finalize(count, none)
             \/ agg_finalize_raises
      PROVE  Owned'
  BY <1>5, <1>7 DEF agg_finalize, agg_finalize_raises, aggVars, udfRest
<1>8. QED
  BY <1>2, <1>3, <1>4, <1>6, <1>7 DEF Aggregate

\* The engine makes and releases no object of its own.
LEMMA EngineOwned ==
  ASSUME Types, Owned, Rested, Engine
  PROVE  Owned'
<1>1. /\ state' = state /\ local' = local /\ global' = global /\ bound' = bound
      /\ objects' = objects /\ wild' = wild
  BY DEF Engine, Start, ScanRows, Abandon, Finish, CleanUp, aggVars
<1>2. query \in Runs
  BY DEF Types
<1>3. query'.init_raised = query.init_raised
  <2>1. CASE query' = query \/ SetError \/ query' = [query EXCEPT !.status = "done"]
             \/ query' = [query EXCEPT !.status = "idle"]
    BY <1>2, <2>1, StatusSet DEF SetError
  <2>2. ASSUME NEW source, NEW n, NEW udf, NEW ws, Start(source, n, udf, ws)
        PROVE  query'.init_raised = query.init_raised
    BY <1>2, <2>2 DEF Start, Runs
  <2>3. QED
    BY <2>1, <2>2 DEF Engine, ScanRows, Abandon, Finish, CleanUp
<1>4. init_data'.generator = init_data.generator
  <2>1. CASE init_data' = init_data
    BY <2>1
  <2>2. CASE init_data' = NoInitData /\ query.status = "idle"
    BY <2>2 DEF Rested
  <2>3. CASE CleanUp
    BY <2>3 DEF CleanUp, NoInitData
  <2>4. QED
    BY <2>1, <2>2, <2>3 DEF Engine, Start, ScanRows, Abandon, Finish, aggVars
<1>5. QED
  BY <1>1, <1>3, <1>4, OwnedSame

-----------------------------------------------------------------------------
(* Frames.                                                                 *)

\* A step that leaves the frame and its arrays alone, with the frame's worker.
LEMMA FramedKept ==
  ASSUME Framed, frame' = frame,
         \A o \in {ArrayOf("in"), ArrayOf("out")} : o \in DOMAIN objects' <=> o \in DOMAIN objects,
         frame = Null \/ (query'.status = "running" /\ work' = work)
  PROVE  Framed'
BY DEF Framed

\* There is no frame but in a query that runs, and whose frame's worker has a chunk.
LEMMA NoFrame ==
  ASSUME Types, Framed,
         query.status # "running" \/ \A w \in Workers : work[w].at # "map"
  PROVE  frame = Null
BY DEF Types, Framed, Frames

\* The callbacks of a scalar UDF keep the frame in step with its arrays.
LEMMA ScalarFramed ==
  ASSUME Types, Owned, Framed, Scalar
  PROVE  Framed'
<1>1. PICK w \in Workers :
        \/ udf_init_trampoline(w) \/ udf_init_raises(w)
        \/ udf_trampoline(w) \/ udf_raises(w) \/ udf_state_destroy(w)
        \/ arrow_udf_trampoline(w) \/ import_from_c(w) \/ export_to_c(w) \/ from_arrow(w)
        \/ arrow_udf_returns(w) \/ arrow_udf_raises(w)
  BY DEF Scalar
<1>2. /\ StateOf(w) \notin {ArrayOf("in"), ArrayOf("out")} /\ ArrayOf("in") # ArrayOf("out")
      /\ ArrayOf("in") # Null /\ ArrayOf("out") # Null
  BY StatesDiffer, OthersDiffer
<1>3. frame # Null => /\ frame \in Frames /\ frame.in \in Ins /\ frame.batch \in Ins
                      /\ frame.out \in Outs /\ frame.chunk \in Outs
  BY DEF Types, Frames
<1>4. CASE udf_init_trampoline(w)
  <2>1. frame = Null /\ frame' = frame /\ DOMAIN objects' = DOMAIN objects \cup {StateOf(w)}
    BY <1>4, CreatesIs DEF udf_init_trampoline, At
  <2>2. QED
    BY <1>2, <2>1, FramedKept
<1>5. CASE udf_init_raises(w) \/ udf_trampoline(w) \/ udf_raises(w)
  <2>1. frame = Null /\ frame' = frame /\ DOMAIN objects' = DOMAIN objects
    BY <1>5, ShownIs DEF udf_init_raises, udf_trampoline, udf_raises, At
  <2>2. QED
    BY <2>1, FramedKept
<1>6. CASE udf_state_destroy(w)
  <2>1. frame = Null /\ frame' = frame
    BY <1>6, NoFrame DEF udf_state_destroy, Over
  <2>2. state[w] = StateOf(w)
    BY <1>6 DEF udf_state_destroy, Owned, Types
  <2>3. DOMAIN objects' = DOMAIN objects \ {StateOf(w)}
    BY <1>6, <2>2, ReleasesIs DEF udf_state_destroy
  <2>4. QED
    BY <1>2, <2>1, <2>3, FramedKept
<1>7. CASE arrow_udf_trampoline(w)
  <2>1. /\ frame = Null /\ query.status = "running" /\ work[w].at = "map"
        /\ query' = query /\ work' = work
        /\ DOMAIN objects' = DOMAIN objects \cup {ArrayOf("in")}
    BY <1>7, CreatesIs DEF arrow_udf_trampoline, At
  <2>2. /\ frame'.of = w /\ frame'.in = ArrayOf("in") /\ frame'.batch = Null
        /\ frame'.out = Null /\ frame'.chunk = Null
    BY <1>7 DEF arrow_udf_trampoline
  <2>3. frame' # Null
    <3>1. frame' \in Frames
      BY <1>7 DEF arrow_udf_trampoline, Frames, Ins, Outs
    <3>2. QED
      BY <3>1, NullIsNoObject
  <2>4. QED
    BY <1>2, <2>1, <2>2, <2>3 DEF Framed
<1>8. CASE import_from_c(w)
  <2>1. frame # Null /\ frame.in # Null /\ query' = query /\ work' = work /\ objects' = objects
    BY <1>8 DEF import_from_c, InFrame
  <2>2. /\ frame' \in Frames /\ frame'.of = frame.of /\ frame'.in = Null /\ frame'.batch = frame.in
        /\ frame'.out = frame.out /\ frame'.chunk = frame.chunk
    BY <1>3, <1>8, <2>1 DEF import_from_c, Frames, Ins
  <2>3. frame' # Null
    BY <2>2, NullIsNoObject
  <2>4. QED
    BY <2>1, <2>2, <2>3 DEF Framed
<1>9. CASE export_to_c(w)
  <2>1. /\ frame # Null /\ frame.out = Null /\ frame.chunk = Null /\ query' = query /\ work' = work
        /\ DOMAIN objects' = DOMAIN objects \cup {ArrayOf("out")}
    BY <1>9, CreatesIs DEF export_to_c, InFrame
  <2>2. /\ frame' \in Frames /\ frame'.of = frame.of /\ frame'.in = frame.in /\ frame'.batch = frame.batch
        /\ frame'.out = ArrayOf("out") /\ frame'.chunk = frame.chunk
    BY <1>3, <1>9, <2>1 DEF export_to_c, Frames, Outs
  <2>3. frame' # Null
    BY <2>2, NullIsNoObject
  <2>4. QED
    BY <1>2, <2>1, <2>2, <2>3 DEF Framed
<1>10. CASE from_arrow(w)
  <2>1. frame # Null /\ frame.out # Null /\ query' = query /\ work' = work /\ objects' = objects
    BY <1>10 DEF from_arrow, InFrame
  <2>2. /\ frame' \in Frames /\ frame'.of = frame.of /\ frame'.in = frame.in /\ frame'.batch = frame.batch
        /\ frame'.out = Null /\ frame'.chunk = frame.out
    BY <1>3, <1>10, <2>1 DEF from_arrow, Frames, Outs
  <2>3. frame' # Null
    BY <2>2, NullIsNoObject
  <2>4. QED
    BY <2>1, <2>2, <2>3 DEF Framed
<1>11. CASE arrow_udf_returns(w) \/ arrow_udf_raises(w)
  <2>1. frame # Null /\ Unwinds
    BY <1>11 DEF arrow_udf_returns, arrow_udf_raises, InFrame
  <2>2. frame' = Null /\ DOMAIN objects' = DOMAIN objects \ {ArrayOf("in"), ArrayOf("out")}
    BY <2>1, UnwindsIs
  <2>3. QED
    BY <2>2 DEF Framed
<1>12. QED
  BY <1>1, <1>4, <1>5, <1>6, <1>7, <1>8, <1>9, <1>10, <1>11

\* The other callbacks, and the engine, meet no frame, or leave it alone.
LEMMA TableFramed ==
  ASSUME Types, Owned, Framed, Progress, Table
  PROVE  Framed'
<1>1. frame' = frame
  BY DEF Table, Types, table_bind, table_init, table_init_raises, init_data_destroy,
         bind_data_destroy, table_main, table_main_raises
<1>2. {BindData, Generator} \cap {ArrayOf("in"), ArrayOf("out")} = {}
  BY OthersDiffer
<1>3. ASSUME NEW p \in {BindData, Generator, Null},
             DOMAIN objects' \in {DOMAIN objects, DOMAIN objects \cup {p}, DOMAIN objects \ {p}}, p # Null
      PROVE  \A o \in {ArrayOf("in"), ArrayOf("out")} : o \in DOMAIN objects' <=> o \in DOMAIN objects
  BY <1>2, <1>3
<1>4. CASE table_bind \/ bind_data_destroy \/ init_data_destroy
  <2>1. frame = Null
    BY <1>4, NoFrame DEF table_bind, bind_data_destroy, init_data_destroy, Over
  <2>2. bind_data_destroy => bound = BindData
    BY DEF bind_data_destroy, Types
  <2>3. init_data_destroy => init_data.generator = Generator
    BY DEF init_data_destroy, Types, Reading
  <2>4. \E p \in {BindData, Generator} :
          DOMAIN objects' \in {DOMAIN objects, DOMAIN objects \cup {p}, DOMAIN objects \ {p}}
    BY <1>1, <1>4, <2>2, <2>3, CreatesIs, ReleasesIs DEF table_bind, bind_data_destroy, init_data_destroy
  <2>5. \A o \in {ArrayOf("in"), ArrayOf("out")} : o \in DOMAIN objects' <=> o \in DOMAIN objects
    BY <1>3, <2>4, OthersDiffer
  <2>6. QED
    BY <1>1, <2>1, <2>5, FramedKept
<1>5. CASE table_init
  <2>1. DOMAIN objects' = DOMAIN objects \cup {Generator} /\ query' = query /\ work' = work
        /\ query.status = "running"
    BY <1>5, CreatesIs DEF table_init
  <2>2. \A o \in {ArrayOf("in"), ArrayOf("out")} : o \in DOMAIN objects' <=> o \in DOMAIN objects
    BY <1>2, <2>1
  <2>3. QED
    BY <1>1, <2>1, <2>2, FramedKept
<1>6. CASE table_init_raises
  <2>1. \A w \in Workers : work[w].at # "map"
    BY <1>6 DEF table_init_raises, Progress
  <2>2. frame = Null /\ objects' = objects
    BY <1>6, <2>1, NoFrame DEF table_init_raises
  <2>3. QED
    BY <1>1, <2>2, FramedKept
<1>7. ASSUME NEW w \in Workers,
             table_main(w) \/ \E k \in 0 .. Batch : table_main_raises(w, k)
      PROVE  Framed'
  <2>1. frame = Null /\ objects' = objects
    BY <1>7 DEF table_main, table_main_raises, Reads, At
  <2>2. QED
    BY <1>1, <2>1, FramedKept
<1>8. QED
  BY <1>4, <1>5, <1>6, <1>7 DEF Table

\* The callbacks of an aggregate UDF meet no frame.
LEMMA AggregateFramed ==
  ASSUME Types, Owned, Framed, Aggregate
  PROVE  Framed'
<1>1. frame = Null
  <2>1. CASE \A w \in Workers : work[w].at = "finished"
    BY <2>1, NoFrame
  <2>2. CASE Over
    BY <2>2, NoFrame DEF Over
  <2>3. QED
    BY <2>1, <2>2, ZenonT(60)
    DEF Aggregate, agg_update, agg_update_raises, Ready, Merges, agg_init, agg_init_raises, agg_combine,
        agg_combine_raises, Combines, agg_destroy, agg_finalize, agg_finalize_raises, CanFinalize, At
<1>2. frame' = frame
  BY DEF Aggregate, agg_update, agg_update_raises, Merges, agg_init, agg_init_raises, agg_combine,
         agg_combine_raises, agg_destroy, agg_finalize, agg_finalize_raises, udfRest
<1>3. Owned'
  BY AggregateOwned
<1>4. \A o \in {ArrayOf("in"), ArrayOf("out")} : o \in DOMAIN objects' <=> o \in DOMAIN objects
  <2>1. ASSUME NEW w \in Workers, NEW g \in Groups, agg_init(w, g)
        PROVE  \E p \in {LocalOf(w, g), GlobalOf(g)} : DOMAIN objects' = DOMAIN objects \cup {p}
    BY <2>1, CreatesIs DEF agg_init
  <2>2. ASSUME NEW w \in Workers, NEW g \in Groups, agg_destroy(w, g)
        PROVE  \E p \in {LocalOf(w, g), GlobalOf(g), Garbage} : DOMAIN objects' = DOMAIN objects \ {p}
    <3>1. local[w][g] # Null => local[w][g] \in {LocalOf(w, g), Garbage}
      BY DEF Owned
    <3>2. global[g] # Null => global[g] \in {GlobalOf(g), Garbage}
      BY DEF Owned
    <3>3. QED
      BY <2>2, <3>1, <3>2, ReleasesIs DEF agg_destroy
  <2>3. ASSUME NEW w \in Workers, NEW g \in Groups, NEW o \in {ArrayOf("in"), ArrayOf("out")}
        PROVE  o \notin {LocalOf(w, g), GlobalOf(g), Garbage}
    BY OthersDiffer
  <2>4. CASE DOMAIN objects' = DOMAIN objects
    BY <2>4
  <2>5. CASE \E w \in Workers : \/ agg_update(w) \/ Merges(w)
                                \/ \E gs \in SUBSET Groups : agg_update_raises(w, gs)
                                \/ \E g \in Groups : \/ agg_init_raises(w, g) \/ agg_combine(w, g)
                                                     \/ agg_combine_raises(w, g)
    <3>1. DOMAIN objects' = DOMAIN objects
      BY <2>5, UpdatedDomain
      DEF agg_update, Merges, agg_update_raises, agg_init_raises, agg_combine, agg_combine_raises
    <3>2. QED
      BY <2>4, <3>1
  <2>6. CASE \/ \E count \in 1 .. NGroups, none \in SUBSET Groups : agg_finalize(count, none)
             \/ agg_finalize_raises
    BY <2>4, <2>6 DEF agg_finalize, agg_finalize_raises
  <2>7. QED
    BY <2>1, <2>2, <2>3, <2>5, <2>6, ZenonT(60) DEF Aggregate
<1>5. QED
  BY <1>1, <1>2, <1>4, FramedKept

\* Neither does what the engine does by itself.
LEMMA EngineFramed ==
  ASSUME Types, Framed, Engine
  PROVE  Framed'
<1>1. frame = Null
  <2>1. CASE query.status # "running" \/ \A w \in Workers : work[w].at = "finished"
    BY <2>1, NoFrame
  <2>2. QED
    BY <2>1 DEF Engine, Start, ScanRows, Abandon, Finish, CleanUp, Over, At
<1>2. frame' = frame /\ objects' = objects
  BY DEF Engine, Start, ScanRows, Abandon, Finish, CleanUp
<1>3. QED
  BY <1>1, <1>2, FramedKept

-----------------------------------------------------------------------------
(* Between queries.                                                        *)

\* Only CleanUp ends a query, and between queries a plan is made or dropped.
LEMMA RestedStep ==
  ASSUME Types, Framed, Rested, Next
  PROVE  Rested'
<1>1. query \in Runs
  BY DEF Types
<1>2. CASE query'.status # "idle"
  BY <1>2 DEF Rested
<1>3. CASE CleanUp
  BY <1>3 DEF CleanUp, Rested
<1>4. CASE Table /\ (table_bind \/ bind_data_destroy)
  <2>1. query' = query /\ work' = work /\ init_data' = init_data /\ state' = state
        /\ local' = local /\ global' = global
    BY <1>4 DEF Table, table_bind, bind_data_destroy, aggVars
  <2>2. QED
    BY <2>1 DEF Rested
<1>5. ASSUME query' = query, query.status \in {"running", "failed", "done"}
      PROVE  Rested'
  BY <1>2, <1>5
<1>6. CASE SetError \/ query' = [query EXCEPT !.status = "done"]
           \/ query' = [query EXCEPT !.status = "failed", !.init_raised = TRUE]
  BY <1>1, <1>2, <1>6, StatusSet, RaisedSet DEF SetError
<1>7. CASE Engine
  <2>1. ASSUME NEW source, NEW n, NEW udf, NEW ws, Start(source, n, udf, ws)
        PROVE  query'.status # "idle"
    BY <1>1, <2>1 DEF Start, Runs
  <2>2. QED
    BY <1>2, <1>3, <1>5, <1>6, <1>7, <2>1 DEF Engine, ScanRows, At, Abandon, Finish
<1>8. CASE Scalar
  <2>1. frame # Null \/ query.status = "running" \/ Over
    BY <1>8
    DEF Scalar, udf_init_trampoline, udf_init_raises, udf_trampoline, udf_raises, udf_state_destroy,
        arrow_udf_trampoline, import_from_c, export_to_c, from_arrow, arrow_udf_returns,
        arrow_udf_raises, At, InFrame
  <2>2. query' = query \/ SetError
    BY <1>8
    DEF Scalar, udf_init_trampoline, udf_init_raises, udf_trampoline, udf_raises, udf_state_destroy,
        arrow_udf_trampoline, import_from_c, export_to_c, from_arrow, arrow_udf_returns,
        arrow_udf_raises
  <2>3. QED
    BY <1>5, <1>6, <2>1, <2>2 DEF Over, Framed
<1>9. CASE Table
  BY <1>4, <1>5, <1>6, <1>9
  DEF Table, table_init, table_init_raises, init_data_destroy, table_main, table_main_raises, Over,
      Reads, At
<1>10. CASE Aggregate
  <2>1. query.status = "running" \/ Over
    BY <1>10, ZenonT(60)
    DEF Aggregate, agg_update, agg_update_raises, Ready, Merges, agg_init, agg_init_raises,
        agg_combine, agg_combine_raises, Combines, agg_destroy, agg_finalize,
        agg_finalize_raises, CanFinalize, At
  <2>2. \/ query' = query \/ SetError
        \/ query' = [query EXCEPT !.status = "failed", !.init_raised = TRUE]
    BY <1>10
    DEF Aggregate, agg_update, agg_update_raises, Merges, agg_init, agg_init_raises,
        agg_combine, agg_combine_raises, agg_destroy, agg_finalize, agg_finalize_raises, udfRest
  <2>3. QED
    BY <1>5, <1>6, <2>1, <2>2 DEF Over
<1>11. QED
  BY <1>7, <1>8, <1>9, <1>10 DEF Next

-----------------------------------------------------------------------------
(* Progress.                                                               *)

\* A step that leaves the query, its workers and its source alone.
LEMMA ProgressKept ==
  ASSUME Progress, query' = query, work' = work, scan' = scan,
         \/ init_data' = init_data
         \/ query.status # "running" /\ init_data'.out = init_data.out
  PROVE  Progress'
<1>1. CASE init_data' = init_data
  BY <1>1 DEF Progress, Claimed
<1>2. CASE query.status # "running" /\ init_data'.out = init_data.out
  BY <1>2 DEF Progress, Claimed
<1>3. QED
  BY <1>1, <1>2

\* A step that fails the query.
LEMMA ProgressFailed ==
  ASSUME Progress, query.status # "idle", query'.status = "failed", query'.source = query.source,
         work' = work, init_data'.out = init_data.out
  PROVE  Progress'
BY DEF Progress

\* A worker that goes on with the chunk it has, or without one, and ends its part only if it
\* has merged.
LEMMA ProgressGoes ==
  ASSUME Types, Progress, NEW w \in Workers, NEW stage \in Stages, NEW chunk \in {<<>>, work[w].chunk},
         Goes(w, stage, chunk), query' = query, scan' = scan, init_data' = init_data,
         stage \notin {"map", "update"} => chunk = <<>>,
         stage \in {"merge", "finished"} => work[w].at \in {"merge", "finished"},
         \/ work[w].at \in {"map", "update", "merge"} \/ stage \in {"new", "ready"}
  PROVE  Progress'
<1>1. chunk \in Seq(1 .. query.size) /\ Len(chunk) <= Batch
  <2>1. Len(<<>>) <= Batch
    BY NoRows, UdfSizes
  <2>2. QED
    BY <2>1, WorkOf, EmptyChunk DEF Progress
<1>2. work'[w].at = stage /\ work'[w].chunk = chunk /\ \A u \in Workers : u # w => work'[u] = work[u]
  BY <1>1, GoesIs
<1>3. \A u \in Workers : /\ Len(work'[u].chunk) <= Batch
                         /\ work'[u].at \notin {"map", "update"} => work'[u].chunk = <<>>
  BY <1>1, <1>2 DEF Progress
<1>4. (\A u \in Workers : work'[u].at \in {"merge", "finished"})
        => \A u \in Workers : work[u].at \in {"merge", "finished"}
  BY <1>2
<1>5. ASSUME query.source = "table", query.status = "running", init_data.generator = Null
      PROVE  \A u \in Workers : work'[u].at \in {"new", "ready", "finished"}
  <2>1. work[w].at \in {"new", "ready", "finished"}
    BY <1>5 DEF Progress
  <2>2. stage \in {"new", "ready"}
    BY <2>1
  <2>3. QED
    BY <1>2, <1>5, <2>2 DEF Progress
<1>6. Claimed' = Claimed
  BY DEF Claimed
<1>7. QED
  BY <1>3, <1>4, <1>5, <1>6 DEF Progress

\* The callbacks of a scalar UDF.
LEMMA ScalarProgress ==
  ASSUME Types, Framed, Progress, Scalar
  PROVE  Progress'
<1>1. PICK w \in Workers :
        \/ udf_init_trampoline(w) \/ udf_init_raises(w)
        \/ udf_trampoline(w) \/ udf_raises(w) \/ udf_state_destroy(w)
        \/ arrow_udf_trampoline(w) \/ import_from_c(w) \/ export_to_c(w) \/ from_arrow(w)
        \/ arrow_udf_returns(w) \/ arrow_udf_raises(w)
  BY DEF Scalar
<1>2. init_data' = init_data /\ query \in Runs
  BY DEF Scalar, Types
<1>3. CASE udf_init_raises(w) \/ udf_raises(w) \/ arrow_udf_raises(w)
  <2>1. query.status = "running" /\ SetError /\ work' = work
    BY <1>3 DEF udf_init_raises, udf_raises, arrow_udf_raises, At, InFrame, Framed
  <2>2. query'.status = "failed" /\ query'.source = query.source
    BY <1>2, <2>1, StatusSet DEF SetError
  <2>3. QED
    BY <1>2, <2>1, <2>2, ProgressFailed
<1>4. CASE udf_state_destroy(w) \/ arrow_udf_trampoline(w) \/ import_from_c(w) \/ export_to_c(w)
           \/ from_arrow(w)
  BY <1>2, <1>4, ProgressKept
  DEF udf_state_destroy, arrow_udf_trampoline, import_from_c, export_to_c, from_arrow
<1>5. CASE udf_init_trampoline(w)
  BY <1>2, <1>5, StageNames, ProgressGoes DEF udf_init_trampoline
<1>6. CASE udf_trampoline(w) \/ arrow_udf_returns(w)
  <2>1. work[w].at = "map" /\ Goes(w, "update", work[w].chunk) /\ query' = query /\ scan' = scan
    BY <1>6 DEF udf_trampoline, arrow_udf_returns, At, InFrame, Framed
  <2>2. QED
    BY <1>2, <2>1, StageNames, ProgressGoes
<1>7. QED
  BY <1>1, <1>3, <1>4, <1>5, <1>6

\* The callbacks of an aggregate UDF.
LEMMA AggregateProgress ==
  ASSUME Types, Progress, Aggregate
  PROVE  Progress'
<1>1. init_data' = init_data /\ query \in Runs
  BY DEF Aggregate, Types
<1>2. ASSUME query.status = "running", work' = work,
             \/ SetError \/ query' = [query EXCEPT !.status = "failed", !.init_raised = TRUE]
      PROVE  Progress'
  <2>1. query'.status = "failed" /\ query'.source = query.source
    BY <1>1, <1>2, StatusSet, RaisedSet DEF SetError
  <2>2. QED
    BY <1>1, <1>2, <2>1, ProgressFailed
<1>3. CASE \/ \E w \in Workers : \/ \E gs \in SUBSET Groups : agg_update_raises(w, gs)
                                 \/ \E g \in Groups : agg_init_raises(w, g) \/ agg_combine_raises(w, g)
           \/ agg_finalize_raises
  BY <1>2, <1>3
  DEF agg_update_raises, agg_init_raises, agg_combine_raises, agg_finalize_raises, Ready, Combines,
      CanFinalize, At
<1>4. CASE \/ \E w \in Workers, g \in Groups : agg_init(w, g) \/ agg_combine(w, g) \/ agg_destroy(w, g)
           \/ \E count \in 1 .. NGroups, none \in SUBSET Groups : agg_finalize(count, none)
  <2>1. query' = query /\ work' = work /\ scan' = scan
    BY <1>4 DEF agg_init, agg_combine, agg_destroy, agg_finalize, udfRest
  <2>2. QED
    BY <1>1, <2>1, ProgressKept
<1>5. ASSUME NEW w \in Workers, agg_update(w)
      PROVE  Progress'
  BY <1>1, <1>5, StageNames, ProgressGoes DEF agg_update, Ready, At
<1>6. ASSUME NEW w \in Workers, Merges(w)
      PROVE  Progress'
  BY <1>1, <1>6, StageNames, ProgressGoes DEF Merges, At
<1>7. QED
  BY <1>3, <1>4, <1>5, <1>6 DEF Aggregate

\* A worker that claims the next rows of a base table.
LEMMA ScanProgress ==
  ASSUME Types, Progress, NEW w \in Workers, ScanRows(w), init_data' = init_data
  PROVE  /\ Progress' /\ query.size \in Nat /\ scan \in Nat /\ scan <= query.size
         /\ scan' = scan + Len(Upto(scan)) /\ Len(Upto(scan)) \in Nat
         /\ Claimed = scan /\ Claimed' = scan'
         /\ work'[w].chunk = IF scan = query.size THEN <<>> ELSE Upto(scan)
         /\ work'[w].at = IF scan = query.size THEN "merge" ELSE "map"
         /\ \A u \in Workers : u # w => work'[u] = work[u]
<1>1. /\ query.status = "running" /\ query.source = "rows" /\ query.size \in Nat /\ scan \in Nat
      /\ query' = query /\ scan' = scan + Len(Upto(scan))
  BY WorkOf DEF ScanRows, At, Types
<1>2. Claimed = scan /\ Claimed' = scan' /\ scan <= query.size
  BY <1>1 DEF Claimed, Progress
<1>3. /\ Upto(scan) \in Seq(1 .. query.size) /\ Len(Upto(scan)) \in 0 .. Batch
      /\ scan + Len(Upto(scan)) <= query.size
  BY <1>1, <1>2, UptoIs
<1>4. Len(Upto(scan)) \in Nat /\ Batch \in Nat /\ Len(Upto(scan)) <= Batch
  BY <1>3, UdfSizes
<1>5. PICK stage \in Stages, chunk \in Seq(1 .. query.size) :
        /\ Goes(w, stage, chunk)
        /\ stage = IF scan = query.size THEN "merge" ELSE "map"
        /\ chunk = IF scan = query.size THEN <<>> ELSE Upto(scan)
  BY <1>3, EmptyChunk, StageNames DEF ScanRows
<1>6. work'[w].at = stage /\ work'[w].chunk = chunk /\ \A u \in Workers : u # w => work'[u] = work[u]
  BY <1>5, GoesIs
<1>7. \A u \in Workers : /\ Len(work'[u].chunk) <= Batch
                         /\ work'[u].at \notin {"map", "update"} => work'[u].chunk = <<>>
  BY <1>4, <1>5, <1>6, NoRows DEF Progress
<1>8. scan' <= query.size
  BY <1>1, <1>3
<1>9. (\A u \in Workers : work'[u].at \in {"merge", "finished"}) => scan' = query.size
  <2>1. CASE scan = query.size
    BY <1>1, <1>4, <1>8, <2>1
  <2>2. CASE scan # query.size
    BY <1>5, <1>6, <2>2
  <2>3. QED
    BY <2>1, <2>2
<1>10. Progress'
  BY <1>1, <1>2, <1>7, <1>8, <1>9 DEF Progress
<1>11. QED
  BY <1>1, <1>2, <1>4, <1>5, <1>6, <1>10

\* A sequence that counts is the first numbers.
LEMMA Counts ==
  ASSUME NEW o \in Seq(Nat), \A i \in 1 .. Len(o) : o[i] = i
  PROVE  o = [i \in 1 .. Len(o) |-> i]
<1>1. o = [i \in 1 .. Len(o) |-> o[i]]
  OBVIOUS
<1>2. QED
  BY <1>1

\* The rows that are put out with the next ones.
LEMMA OutIs ==
  ASSUME NEW s \in Seq(Nat), NEW t \in Seq(Nat), NEW o, o = s \o t,
         \A i \in 1 .. Len(s) : s[i] = i, \A i \in 1 .. Len(t) : t[i] = Len(s) + i
  PROVE  /\ o \in Seq(Nat) /\ Len(o) = Len(s) + Len(t)
         /\ \A i \in 1 .. Len(o) : o[i] = i
<1>1. o \in Seq(Nat)
  BY ConcatTyped
<1>2. PICK n \in Nat, k \in Nat : n = Len(s) /\ k = Len(t)
  OBVIOUS
<1>3. Len(o) = n + k
  BY <1>2, ConcatTyped
<1>4. \A i \in 1 .. n + k : o[i] = IF i <= n THEN s[i] ELSE t[i - n]
  BY <1>2, ConcatTyped
<1>5. (\A i \in 1 .. n : s[i] = i) /\ \A i \in 1 .. k : t[i] = n + i
  BY <1>2
<1>6. ASSUME NEW i \in 1 .. n + k
      PROVE  o[i] = i
  <2>1. CASE i <= n
    <3>1. i \in 1 .. n
      BY <2>1
    <3>2. QED
      BY <1>4, <1>5, <2>1, <3>1
  <2>2. CASE ~(i <= n)
    <3>1. i - n \in 1 .. k /\ n + (i - n) = i
      BY <2>2
    <3>2. t[i - n] = i
      BY <1>5, <3>1
    <3>3. QED
      BY <1>4, <2>2, <3>2
  <2>3. QED
    BY <2>1, <2>2
<1>7. QED
  BY <1>1, <1>2, <1>3, <1>6

\* A worker that reads the next rows of a generator, or its end.
LEMMA MainProgress ==
  ASSUME Types, Progress, NEW w \in Workers, table_main(w)
  PROVE  /\ Progress' /\ query.size \in Nat /\ init_data.at \in Nat /\ init_data.at <= query.size
         /\ Claimed = init_data.at
         /\ \E k \in Nat :
              /\ Claimed' = init_data.at + k
              /\ RowsOf(work'[w].chunk) = init_data.at + 1 .. init_data.at + k
         /\ work'[w].at \in {"map", "merge"}
         /\ \A u \in Workers : u # w => work'[u] = work[u]
<1>1. /\ query.status = "running" /\ query.source = "table" /\ query' = query
      /\ init_data.generator # Null
  BY DEF table_main, Reads, At
<1>2. /\ query.size \in Nat /\ init_data.at \in Nat /\ init_data.at <= query.size
      /\ Pulled = Upto(init_data.at) /\ Pulled \in Seq(1 .. query.size) /\ Pulled \in Seq(Nat)
      /\ Len(Pulled) \in Nat
  BY <1>1, PulledIs
<1>3. Claimed = init_data.at /\ Claimed' = init_data'.at
  BY <1>1 DEF Claimed
<1>4. CASE Ended(w)
  <2>1. init_data' = init_data /\ init_data.at = query.size /\ Goes(w, "merge", <<>>)
    BY <1>1, <1>4 DEF Ended, Progress
  <2>2. /\ work'[w].at = "merge" /\ work'[w].chunk = <<>>
        /\ \A u \in Workers : u # w => work'[u] = work[u]
    BY <2>1, EmptyChunk, StageNames, GoesIs
  <2>3. Len(<<>>) <= Batch
    BY NoRows, UdfSizes
  <2>4. \A u \in Workers : /\ Len(work'[u].chunk) <= Batch
                           /\ work'[u].at \notin {"map", "update"} => work'[u].chunk = <<>>
    BY <2>2, <2>3 DEF Progress
  <2>5. Progress'
    BY <1>1, <1>3, <2>1, <2>4, <1>2 DEF Progress
  <2>6. PICK k \in Nat : k = 0
    OBVIOUS
  <2>7. Claimed' = init_data.at + k /\ init_data.at + 1 .. init_data.at + k = {}
    BY <1>2, <1>3, <2>1, <2>6
  <2>8. QED
    BY <1>2, <1>3, <2>2, <2>5, <2>7, NoRows
<1>5. CASE /\ ~init_data.exhausted
           /\ Goes(w, IF Pulled = <<>> THEN "merge" ELSE "map", Pulled)
           /\ init_data' = [Moved EXCEPT !.out = @ \o Pulled]
  <2>1. PICK stage \in Stages : stage = IF Pulled = <<>> THEN "merge" ELSE "map"
    BY StageNames
  <2>2. /\ work'[w].at = stage /\ work'[w].chunk = Pulled
        /\ \A u \in Workers : u # w => work'[u] = work[u]
    BY <1>2, <1>5, <2>1, GoesIs
  <2>3. PICK k \in Nat : k = Len(Pulled)
    BY <1>2
  <2>4. /\ init_data'.generator = init_data.generator /\ init_data'.at = init_data.at + k
        /\ init_data'.exhausted <=> k < Batch
        /\ init_data'.out = init_data.out \o Pulled
    BY <1>2, <1>5, <2>3, MovedIs
  <2>5. /\ k <= Batch /\ init_data.at + k <= query.size
        /\ Pulled = [i \in 1 .. k |-> init_data.at + i]
        /\ RowsOf(Pulled) = init_data.at + 1 .. init_data.at + k
        /\ k < Batch => init_data.at + k = query.size
        /\ Pulled = <<>> => k = 0 /\ init_data.at = query.size
    <3>1. PICK s : s = Pulled /\ s = Upto(init_data.at)
      BY <1>2
    <3>2. /\ Len(s) \in 0 .. Batch /\ init_data.at + Len(s) <= query.size
          /\ s = [i \in 1 .. Len(s) |-> init_data.at + i]
          /\ RowsOf(s) = init_data.at + 1 .. init_data.at + Len(s)
          /\ Len(s) < Batch => init_data.at + Len(s) = query.size
          /\ s = <<>> => Len(s) = 0 /\ init_data.at = query.size
      BY <1>2, <3>1, UptoIs
    <3>3. k <= Batch
      BY <2>3, <3>1, <3>2, UdfSizes
    <3>4. QED
      BY <2>3, <3>1, <3>2, <3>3
  <2>6. \A u \in Workers : /\ Len(work'[u].chunk) <= Batch
                           /\ work'[u].at \notin {"map", "update"} => work'[u].chunk = <<>>
    BY <2>1, <2>2, <2>3, <2>5 DEF Progress
  <2>7. (\A u \in Workers : work'[u].at \in {"merge", "finished"}) => init_data'.at = query.size
    <3>1. CASE Pulled = <<>>
      BY <1>2, <2>4, <2>5, <3>1
    <3>2. CASE Pulled # <<>>
      <4>1. work'[w].at = "map"
        BY <2>1, <2>2, <3>2
      <4>2. QED
        BY <4>1
    <3>3. QED
      BY <3>1, <3>2
  <2>8. Len(init_data'.out) = init_data'.at /\ init_data'.out = [i \in 1 .. Len(init_data'.out) |-> i]
    <3>1. init_data.out \in Seq(Nat)
      BY ReadingOf
    <3>2. Len(init_data.out) = init_data.at /\ init_data.out = [i \in 1 .. Len(init_data.out) |-> i]
      BY <1>1 DEF Progress
    <3>3. PICK s \in Seq(Nat), t \in Seq(Nat) : s = init_data.out /\ t = Pulled
      BY <1>2, <3>1
    <3>4. Len(s) = init_data.at /\ s = [i \in 1 .. Len(s) |-> i]
          /\ t = [i \in 1 .. Len(t) |-> init_data.at + i] /\ Len(t) = k
      BY <2>3, <2>5, <3>2, <3>3
    <3>5. /\ \A i \in 1 .. Len(s) : s[i] = i
          /\ \A i \in 1 .. Len(t) : t[i] = Len(s) + i
      BY <2>5, <3>3, <3>4
    <3>6. PICK o : o = s \o t
      OBVIOUS
    <3>7. o \in Seq(Nat) /\ Len(o) = Len(s) + Len(t) /\ \A i \in 1 .. Len(o) : o[i] = i
      <4>1. s \in Seq(Nat) /\ t \in Seq(Nat)
        BY <3>3
      <4>2. QED
        BY <3>5, <3>6, <4>1, OutIs, Zenon
    <3>8. o = [i \in 1 .. Len(o) |-> i]
      BY <3>7, Counts
    <3>9. Len(o) = init_data'.at /\ init_data'.out = o
      BY <2>4, <3>3, <3>4, <3>6, <3>7
    <3>10. QED
      BY <3>8, <3>9
  <2>9. init_data'.generator # Null
    BY <1>1, <2>4
  <2>10. init_data'.exhausted => init_data'.at = query.size
    BY <2>4, <2>5
  <2>11. init_data'.at <= query.size
    BY <2>4, <2>5
  <2>12. Progress'
    BY <1>1, <1>3, <2>6, <2>7, <2>8, <2>9, <2>10, <2>11 DEF Progress
  <2>13. work'[w].at \in {"map", "merge"}
    BY <2>1, <2>2
  <2>14. Claimed' = init_data.at + k /\ RowsOf(work'[w].chunk) = init_data.at + 1 .. init_data.at + k
    BY <1>3, <2>2, <2>4, <2>5
  <2>15. QED
    BY <1>2, <1>3, <2>2, <2>12, <2>13, <2>14
<1>6. QED
  BY <1>4, <1>5 DEF table_main

\* The callbacks of a table UDF.
LEMMA TableProgress ==
  ASSUME Types, Progress, Table
  PROVE  Progress'
<1>1. query \in Runs /\ init_data \in Reading
  BY DEF Types
<1>2. CASE table_bind \/ bind_data_destroy
  BY <1>2, ProgressKept DEF table_bind, bind_data_destroy
<1>3. CASE init_data_destroy
  <2>1. init_data'.out = init_data.out
    BY <1>1, <1>3 DEF init_data_destroy, Reading
  <2>2. QED
    BY <1>3, <2>1, ProgressKept DEF init_data_destroy, Over
<1>4. CASE table_init_raises
  <2>1. query'.status = "failed" /\ query'.source = query.source
    BY <1>1, <1>4, StatusSet DEF table_init_raises, SetError
  <2>2. QED
    BY <1>4, <2>1, ProgressFailed DEF table_init_raises
<1>5. ASSUME NEW w \in Workers, NEW k \in 0 .. Batch, table_main_raises(w, k)
      PROVE  Progress'
  <2>1. query'.status = "failed" /\ query'.source = query.source
    BY <1>1, <1>5, StatusSet DEF table_main_raises, SetError
  <2>2. init_data'.out = init_data.out
    BY <1>1, <1>5 DEF table_main_raises, Reading
  <2>3. QED
    BY <1>5, <2>1, <2>2, ProgressFailed DEF table_main_raises, Reads, At
<1>6. CASE table_init
  <2>1. /\ init_data = NoInitData /\ query.status = "running" /\ query.source = "table"
        /\ query' = query /\ work' = work /\ scan' = scan
    BY <1>6 DEF table_init, Progress
  <2>2. /\ init_data'.generator = Generator /\ init_data'.at = init_data.at
        /\ init_data'.exhausted = init_data.exhausted /\ init_data'.out = init_data.out
    BY <1>6, <2>1 DEF table_init, NoInitData
  <2>3. Generator # Null
    BY OthersDiffer
  <2>4. QED
    BY <2>1, <2>2, <2>3 DEF Progress, Claimed
<1>7. QED
  BY <1>2, <1>3, <1>4, <1>5, <1>6, MainProgress DEF Table

\* The start of a query.
LEMMA StartProgress ==
  ASSUME Types, Rested, NEW source \in {"rows", "table"}, NEW udf \in {"ndarray", "arrow"},
         NEW n \in Sizes, NEW ws \in (SUBSET Workers) \ {{}}, Start(source, n, udf, ws)
  PROVE  /\ Progress' /\ Claimed' = 0 /\ query'.status = "running"
         /\ \A w \in Workers : work'[w].chunk = <<>>
         /\ \E w \in Workers : work'[w].at \notin {"merge", "finished"}
<1>1. /\ query'.status = "running" /\ query'.source = source /\ query'.size = n /\ n \in Nat
      /\ scan' = 0 /\ init_data' = NoInitData
  <2>1. query \in Runs
    BY DEF Types
  <2>2. \A m \in Sizes : m \in Nat
    BY UdfSizes
  <2>3. QED
    BY <2>1, <2>2 DEF Start, Runs
<1>2. PICK first \in {"new", "ready"} :
        work' = [w \in Workers |-> IF w \in ws THEN [at |-> first, chunk |-> <<>>] ELSE work[w]]
  BY DEF Start
<1>3. \A w \in Workers : work[w].at = "finished" /\ work[w].chunk = <<>>
  BY DEF Start, Rested, Resting
<1>4. \A w \in Workers : work'[w].chunk = <<>> /\ work'[w].at \in {first, "finished"}
  BY <1>2, <1>3
<1>5. \E w \in Workers : work'[w].at = first
  <2>1. PICK w \in Workers : w \in ws
    OBVIOUS
  <2>2. QED
    BY <1>2, <2>1
<1>6. Claimed' = 0
  BY <1>1 DEF Claimed, NoInitData
<1>7. Len(<<>>) <= Batch /\ Len(<<>>) = 0
  BY NoRows, UdfSizes
<1>8. /\ init_data'.at = 0 /\ ~init_data'.exhausted /\ init_data'.out = <<>>
      /\ Len(init_data'.out) = 0 /\ init_data'.out = [i \in 1 .. Len(init_data'.out) |-> i]
  <2>1. init_data'.at = 0 /\ init_data'.exhausted = FALSE /\ init_data'.out = <<>>
    BY <1>1 DEF NoInitData
  <2>2. <<>> = [i \in 1 .. 0 |-> i]
    OBVIOUS
  <2>3. QED
    BY <1>7, <2>1, <2>2
<1>9. (NoInitData)' = NoInitData
  BY DEF NoInitData, Generator
<1>10. Progress'
  BY <1>1, <1>4, <1>5, <1>6, <1>7, <1>8 DEF Progress
<1>11. QED
  BY <1>1, <1>4, <1>5, <1>6, <1>10

\* What the engine does by itself.
LEMMA EngineProgress ==
  ASSUME Types, Rested, Progress, Engine
  PROVE  Progress'
<1>1. query \in Runs
  BY DEF Types
<1>2. ASSUME NEW w \in Workers, ScanRows(w), UNCHANGED <<state, bound, init_data, aggVars>>
      PROVE  Progress'
  BY <1>2, ScanProgress
<1>3. CASE Abandon /\ UNCHANGED <<state, bound, init_data, aggVars>>
  <2>1. query'.status = "failed" /\ query'.source = query.source
    BY <1>1, <1>3, StatusSet DEF Abandon, SetError
  <2>2. QED
    BY <1>3, <2>1, ProgressFailed DEF Abandon
<1>4. CASE Finish
  <2>1. query'.status = "done" /\ query'.source = query.source /\ query'.size = query.size
    BY <1>1, <1>4, StatusSet DEF Finish
  <2>2. Claimed = query.size
    BY <1>4 DEF Finish, Progress
  <2>3. work' = work /\ scan' = scan /\ init_data' = init_data /\ query.status = "running"
    BY <1>4 DEF Finish
  <2>4. query.source = "table" => Len(init_data.out) = query.size
    BY <2>2, <2>3 DEF Progress, Claimed
  <2>5. QED
    BY <2>1, <2>3, <2>4 DEF Progress
<1>5. CASE CleanUp
  <2>1. query'.status = "idle"
    BY <1>1, <1>5, StatusSet DEF CleanUp
  <2>2. \A w \in Workers : work'[w].chunk = <<>>
    BY <1>5 DEF CleanUp, Resting
  <2>3. Len(<<>>) <= Batch
    BY NoRows, UdfSizes
  <2>4. QED
    BY <2>1, <2>2, <2>3 DEF Progress
<1>6. QED
  BY <1>2, <1>3, <1>4, <1>5, StartProgress DEF Engine

-----------------------------------------------------------------------------
(* Groups in their order.                                                  *)

\* A set of numbers that is not empty has a least one.
LEMMA LeastNumber ==
  ASSUME NEW T, T \subseteq Nat, T # {}
  PROVE  \E x \in T : \A y \in T : ~(y < x)
<1>1. \E x \in T : \A y \in T : ~(<<y, x>> \in OpToRel(<, Nat))
  BY NatLessThanWellFounded, WFMin
<1>2. QED
  BY <1>1 DEF OpToRel

\* There are finitely many groups, and finitely many in a set of them.
LEMMA GroupsFinite ==
  ASSUME NEW gs, gs \subseteq Groups
  PROVE  IsFiniteSet(gs) /\ Cardinality(gs) \in Nat /\ Cardinality(gs) <= NGroups
<1>1. IsFiniteSet(1 .. NGroups) /\ Cardinality(1 .. NGroups) = NGroups /\ NGroups \in Nat
  <2>1. NGroups \in Nat
    BY UdfSizes
  <2>2. QED
    BY <2>1, FS_Interval
<1>2. gs \in SUBSET (1 .. NGroups)
  BY DEF Groups
<1>3. IsFiniteSet(gs) /\ Cardinality(gs) <= Cardinality(1 .. NGroups)
  BY <1>1, <1>2, FS_Subset
<1>4. QED
  BY <1>1, <1>3, FS_CardinalityType

\* The i-th group of a set is one of the set.
LEMMA NthIs ==
  ASSUME NEW gs, gs \subseteq Groups, NEW i \in 1 .. Cardinality(gs)
  PROVE  Nth(gs, i) \in gs
<1> DEFINE upto(n) == {h \in gs : h <= n}
           T == {n \in Nat : i <= Cardinality(upto(n))}
<1>1. NGroups \in Nat /\ i \in Nat /\ 1 <= i /\ i <= Cardinality(gs) /\ \A g \in gs : g \in Nat /\ 1 <= g /\ g <= NGroups
  BY GroupsFinite, UdfSizes DEF Groups
<1>2. \A n \in Nat : IsFiniteSet(upto(n)) /\ Cardinality(upto(n)) \in Nat
  <2>1. \A n \in Nat : upto(n) \subseteq Groups
    OBVIOUS
  <2>2. QED
    BY <2>1, GroupsFinite
<1>3. NGroups \in T
  <2>1. upto(NGroups) = gs
    BY <1>1
  <2>2. QED
    BY <1>1, <2>1
<1>4. PICK n \in T : \A m \in T : ~(m < n)
  <2>1. T \subseteq Nat /\ T # {}
    BY <1>3
  <2>2. QED
    BY <2>1, LeastNumber
<1>5. n \in Nat /\ i <= Cardinality(upto(n))
  BY <1>4
<1>6. n # 0
  <2>1. upto(0) = {}
    BY <1>1
  <2>2. Cardinality(upto(0)) = 0
    BY <2>1, FS_EmptySet
  <2>3. QED
    BY <1>1, <1>5, <2>2
<1>7. PICK m \in Nat : n = m + 1
  <2>1. n - 1 \in Nat /\ n = (n - 1) + 1
    BY <1>5, <1>6
  <2>2. QED
    BY <2>1
<1>8. ~(i <= Cardinality(upto(m)))
  <2>1. m < n
    BY <1>7
  <2>2. m \notin T
    BY <1>4, <2>1
  <2>3. QED
    BY <2>2
<1>9. n \in gs
  <2>1. ASSUME n \notin gs
        PROVE  FALSE
    <3>1. upto(n) = upto(m)
      BY <1>1, <1>7, <2>1
    <3>2. QED
      BY <1>5, <1>8, <3>1
  <2>2. QED
    BY <2>1
<1>10. Cardinality(upto(n)) = i
  <2>1. upto(n) = upto(m) \cup {n} /\ n \notin upto(m)
    <3>1. \A h \in Nat : h <= m + 1 <=> h <= m \/ h = m + 1
      OBVIOUS
    <3>2. ~(m + 1 <= m)
      OBVIOUS
    <3>3. QED
      BY <1>1, <1>7, <1>9, <3>1, <3>2
  <2>2. Cardinality(upto(n)) = Cardinality(upto(m)) + 1
    BY <1>2, <2>1, FS_AddElement
  <2>3. QED
    BY <1>1, <1>2, <1>5, <1>8, <2>2
<1>11. \E g \in gs : Cardinality({h \in gs : h <= g}) = i
  BY <1>9, <1>10
<1>12. QED
  BY <1>11 DEF Nth

-----------------------------------------------------------------------------
(* Rows.                                                                   *)

Counting == RowsInv /\ MergeInv /\ ResultInv

\* There is nothing to count when no query runs.
LEMMA CountingStops ==
  ASSUME query'.status # "running"
  PROVE  Counting'
BY DEF Counting, RowsInv, MergeInv, ResultInv

\* Nothing is written of the result as long as a worker has not merged.
LEMMA ResultStays ==
  ASSUME Types, ResultInv, query.status = "running",
         \E w \in Workers : work[w].at # "finished",
         result' = result, global' \in [Groups -> GlobalNames \cup {Null, Garbage}]
  PROVE  ResultInv'
<1>1. result.offset = 0 /\ result'.offset = 0
  <2>1. result.offset \in Nat /\ ~(result.offset > 0)
    BY DEF Types, ResultInv
  <2>2. QED
    BY <2>1
<1>2. Found' \subseteq Groups
  BY DEF Found, Groups
<1>3. (Cardinality(Found))' \in Nat
  BY <1>2, GroupsFinite
<1>4. ~(result'.offset > 0) /\ result'.offset <= (Cardinality(Found))' /\ 1 .. result'.offset = {}
  BY <1>1, <1>3
<1>5. QED
  BY <1>4 DEF ResultInv

\* The rows of the source, those that were claimed among them, have each a group.
LEMMA RowsHaveGroups ==
  ASSUME Types, Progress, query.status = "running"
  PROVE  /\ query.size \in Nat /\ Claimed \in Nat /\ Claimed <= query.size
         /\ \A r \in 1 .. query.size : GroupOf[r] \in Groups
         /\ \A r \in 1 .. Claimed : GroupOf[r] \in Groups
<1>1. query.size \in Nat /\ query.size \in Sizes \cup {0}
  <2>1. query.size \in Sizes \cup {0}
    BY DEF Types, Runs
  <2>2. \A n \in Sizes : n \in Nat
    BY UdfSizes
  <2>3. QED
    BY <2>1, <2>2
<1>2. Claimed \in Nat
  BY ReadingOf DEF Claimed, Types
<1>3. Claimed <= query.size
  BY DEF Progress
<1>4. \A r \in 1 .. query.size : GroupOf[r] \in Groups
  BY <1>1, EveryRowHasAGroup
<1>5. \A r \in 1 .. Claimed : r \in 1 .. query.size
  BY <1>1, <1>2, <1>3
<1>6. QED
  BY <1>1, <1>2, <1>3, <1>4, <1>5

\* The rows that were shown stay shown, and the claimed ones claimed.
LEMMA RowsKept ==
  ASSUME Types, Progress, RowsInv, query.status = "running", Claimed' = Claimed, local' = local,
         \A w \in Workers : work'[w].chunk = work[w].chunk,
         \A w \in Workers : work[w].at = "update" => work'[w].at = "update",
         \A w \in Workers, g \in Groups :
           local[w][g] # Null => objects'[local[w][g]] = objects[local[w][g]]
  PROVE  RowsInv'
<1>1. \A w \in Workers, g \in Groups : Seen(w, g)' = Seen(w, g)
  BY DEF Seen
<1>2. \A w \in Workers : Chunk(w)' = Chunk(w)
  BY DEF Chunk
<1>3. ASSUME NEW w \in Workers
      PROVE  /\ Chunk(w)' \subseteq 1 .. Claimed'
             /\ \A g \in Groups :
                  /\ local'[w][g] # Garbage
                  /\ Seen(w, g)' \subseteq {r \in 1 .. Claimed' : GroupOf[r] = g}
  BY <1>1, <1>2 DEF RowsInv
<1>4. ASSUME NEW w \in Workers, NEW g \in Groups, local'[w][g] # Null
      PROVE  /\ objects'[local'[w][g]] = SetToBag(Seen(w, g)')
             /\ Seen(w, g)' # {} \/ (work'[w].at = "update" /\ g \in Met(work'[w].chunk))
  BY <1>1, <1>4 DEF RowsInv
<1>5. ASSUME NEW w \in Workers, NEW u \in Workers
      PROVE  /\ w # u => Chunk(w)' \cap Chunk(u)' = {}
             /\ \A g \in Groups : /\ Chunk(w)' \cap Seen(u, g)' = {}
                                  /\ w # u => Seen(w, g)' \cap Seen(u, g)' = {}
  BY <1>1, <1>2 DEF RowsInv
<1>6. \A r \in 1 .. Claimed' : \E w \in Workers : r \in Chunk(w)' \/ r \in Seen(w, GroupOf[r])'
  BY <1>1, <1>2, RowsHaveGroups DEF RowsInv
<1>7. QED
  BY <1>3, <1>4, <1>5, <1>6 DEF RowsInv

\* What was merged stays merged, and there is no more of it.
LEMMA MergeKept ==
  ASSUME MergeInv, query.status = "running",
         combined' = combined, global' = global, has_combine' = has_combine,
         \A w \in Workers : work[w].at \in {"merge", "finished"} =>
           /\ work'[w].at \in {"merge", "finished"}
           /\ \A g \in Groups : local'[w][g] = local[w][g] /\ Seen(w, g)' = Seen(w, g),
         \A w \in Workers : work'[w].at = "finished" /\ work[w].at # "finished" =>
           \A g \in Groups : local'[w][g] # Null => <<w, g>> \in combined,
         \A g \in Groups : global[g] # Null => objects'[global[g]] = objects[global[g]]
  PROVE  MergeInv'
<1>1. \A g \in Groups : Taken(g)' = Taken(g)
  BY DEF Taken
<1>2. \A g \in Groups : \A w \in Taken(g) : w \in Workers /\ <<w, g>> \in combined
  BY DEF Taken
<1>3. \A g \in Groups : \A w \in Taken(g) : Seen(w, g)' = Seen(w, g)
  BY <1>2 DEF MergeInv
<1>4. ASSUME NEW g \in Groups, global'[g] # Null
      PROVE  /\ \E w \in Workers : local'[w][g] # Null /\ work'[w].at \in {"merge", "finished"}
             /\ has_combine' =>
                  objects'[global'[g]] = SetToBag(UNION {Seen(w, g)' : w \in Taken(g)'})
             /\ ~has_combine' =>
                  \/ Taken(g)' = {} /\ objects'[global'[g]] = EmptyBag
                  \/ \E w \in Taken(g)' : objects'[global'[g]] = SetToBag(Seen(w, g)')
  <2>1. global[g] # Null /\ objects'[global'[g]] = objects[global[g]]
    BY <1>4
  <2>2. \E w \in Workers : local'[w][g] # Null /\ work'[w].at \in {"merge", "finished"}
    <3>1. PICK w \in Workers : local[w][g] # Null /\ work[w].at \in {"merge", "finished"}
      BY <2>1 DEF MergeInv
    <3>2. local'[w][g] # Null /\ work'[w].at \in {"merge", "finished"}
      BY <3>1
    <3>3. QED
      BY <3>2
  <2>3. {Seen(w, g)' : w \in Taken(g)'} = {Seen(w, g) : w \in Taken(g)}
    BY <1>1, <1>3
  <2>4. has_combine' =>
          objects'[global'[g]] = SetToBag(UNION {Seen(w, g)' : w \in Taken(g)'})
    BY <2>1, <2>3 DEF MergeInv
  <2>5. ~has_combine' =>
          \/ Taken(g)' = {} /\ objects'[global'[g]] = EmptyBag
          \/ \E w \in Taken(g)' : objects'[global'[g]] = SetToBag(Seen(w, g)')
    <3>1. ~has_combine =>
            \/ Taken(g) = {} /\ objects[global[g]] = EmptyBag
            \/ \E w \in Taken(g) : objects[global[g]] = SetToBag(Seen(w, g))
      BY <2>1 DEF MergeInv
    <3>2. QED
      BY <1>1, <1>3, <2>1, <3>1
  <2>6. QED
    BY <2>2, <2>4, <2>5
<1>5. \A w \in Workers : \A g \in Groups :
        <<w, g>> \in combined' =>
           work'[w].at \in {"merge", "finished"} /\ local'[w][g] # Null /\ global'[g] # Null
  BY DEF MergeInv
<1>6. \A w \in Workers :
        work'[w].at = "finished" => \A g \in Groups : local'[w][g] # Null => <<w, g>> \in combined'
  BY DEF MergeInv
<1>7. \A g \in Groups : global'[g] # Garbage
  BY DEF MergeInv
<1>8. QED
  BY <1>4, <1>5, <1>6, <1>7 DEF MergeInv

\* What is written of the result stays written.
LEMMA ResultKept ==
  ASSUME Types, ResultInv, query.status = "running", result' = result, global' = global,
         work' = work,
         \A g \in Groups : global[g] # Null => objects'[global[g]] = objects[global[g]]
  PROVE  ResultInv'
<1>1. Found' = Found /\ Found \subseteq Groups
  BY DEF Found, Groups
<1>2. ASSUME NEW i \in 1 .. result.offset
      PROVE  result.slots[i] \in {Null, objects'[global[Nth(Found, i)]]}
  <2>1. result.offset \in Nat /\ result.offset <= Cardinality(Found) /\ Cardinality(Found) \in Nat
    BY <1>1, GroupsFinite DEF ResultInv, Types
  <2>2. i \in 1 .. Cardinality(Found)
    BY <2>1
  <2>3. PICK g : g = Nth(Found, i)
    OBVIOUS
  <2>4. g \in Found
    BY <1>1, <2>2, <2>3, NthIs
  <2>5. global[g] # Null /\ g \in Groups
    BY <2>4 DEF Found
  <2>6. result.slots[i] \in {Null, objects[global[g]]}
    BY <2>3 DEF ResultInv
  <2>7. objects'[global[g]] = objects[global[g]]
    BY <2>5
  <2>8. QED
    BY <2>3, <2>6, <2>7
<1>3. QED
  BY <1>1, <1>2 DEF ResultInv

\* An instance of a worker, and of the query.
LEMMA InstanceIs ==
  ASSUME Owned, Counting, query.status = "running"
  PROVE  /\ \A w \in Workers, g \in Groups : local[w][g] # Null =>
              local[w][g] = LocalOf(w, g) /\ LocalOf(w, g) \in DOMAIN objects
         /\ \A g \in Groups : global[g] # Null =>
              global[g] = GlobalOf(g) /\ GlobalOf(g) \in DOMAIN objects
BY DEF Owned, Counting, RowsInv, MergeInv

\* A step that touches other objects leaves the instances alone.
LEMMA InstancesKept ==
  ASSUME Owned, Counting, query.status = "running",
         NEW X, \A o \in X : o \in {Null, BindData, Generator, ArrayOf("in"), ArrayOf("out")}
                             \/ \E w \in Workers : o = StateOf(w),
         \A o \in DOMAIN objects : o \notin X => objects'[o] = objects[o]
  PROVE  /\ \A w \in Workers, g \in Groups :
              local[w][g] # Null => objects'[local[w][g]] = objects[local[w][g]]
         /\ \A g \in Groups : global[g] # Null => objects'[global[g]] = objects[global[g]]
<1>1. \A w \in Workers, g \in Groups : LocalOf(w, g) \notin X
  BY LocalsDiffer
<1>2. \A g \in Groups : GlobalOf(g) \notin X
  BY GlobalsDiffer
<1>3. QED
  BY <1>1, <1>2, InstanceIs

\* A step that leaves the rows and the instances alone, and in which a worker may go on
\* before it meets the aggregate.
LEMMA CountingKept ==
  ASSUME Types, Progress, Counting, query.status = "running", Claimed' = Claimed,
         local' = local, global' = global, combined' = combined, has_combine' = has_combine,
         result' = result,
         \A w \in Workers : work'[w].chunk = work[w].chunk,
         \/ work' = work
         \/ \E w \in Workers : /\ work[w].at \in {"new", "map"} /\ work'[w].at \in {"ready", "update"}
                               /\ \A u \in Workers : u # w => work'[u] = work[u],
         \A w \in Workers, g \in Groups :
           local[w][g] # Null => objects'[local[w][g]] = objects[local[w][g]],
         \A g \in Groups : global[g] # Null => objects'[global[g]] = objects[global[g]]
  PROVE  Counting'
<1>1. RowsInv /\ MergeInv /\ ResultInv
  BY DEF Counting
<1>2. \A w \in Workers : \/ work'[w].at = work[w].at
                         \/ work[w].at \in {"new", "map"} /\ work'[w].at \in {"ready", "update"}
  OBVIOUS
<1>3. RowsInv'
  <2>1. \A w \in Workers : work[w].at = "update" => work'[w].at = "update"
    BY <1>2
  <2>2. QED
    BY <1>1, <2>1, RowsKept
<1>4. MergeInv'
  <2>1. \A w \in Workers, g \in Groups : Seen(w, g)' = Seen(w, g)
    BY DEF Seen
  <2>2. \A w \in Workers : work[w].at \in {"merge", "finished"} => work'[w].at \in {"merge", "finished"}
    BY <1>2
  <2>3. \A w \in Workers : work'[w].at = "finished" => work[w].at = "finished"
    BY <1>2
  <2>4. QED
    BY <1>1, <2>1, <2>2, <2>3, MergeKept
<1>5. ResultInv'
  <2>1. CASE work' = work
    BY <1>1, <2>1, ResultKept
  <2>2. CASE \E w \in Workers : work[w].at \in {"new", "map"}
    BY <1>1, <2>2, ResultStays DEF Types
  <2>3. QED
    BY <2>1, <2>2
<1>6. QED
  BY <1>3, <1>4, <1>5 DEF Counting

\* The callbacks of a scalar UDF count nothing.
LEMMA ScalarCounting ==
  ASSUME Types, Owned, Framed, Progress, Counting, Scalar
  PROVE  Counting'
<1>1. PICK w \in Workers :
        \/ udf_init_trampoline(w) \/ udf_init_raises(w)
        \/ udf_trampoline(w) \/ udf_raises(w) \/ udf_state_destroy(w)
        \/ arrow_udf_trampoline(w) \/ import_from_c(w) \/ export_to_c(w) \/ from_arrow(w)
        \/ arrow_udf_returns(w) \/ arrow_udf_raises(w)
  BY DEF Scalar
<1>2. /\ init_data' = init_data /\ query \in Runs /\ local' = local /\ global' = global
      /\ combined' = combined /\ has_combine' = has_combine /\ result' = result
  BY DEF Scalar, Types, aggVars
<1>3. CASE udf_init_raises(w) \/ udf_raises(w) \/ arrow_udf_raises(w)
  <2>1. query'.status = "failed"
    BY <1>2, <1>3, StatusSet DEF udf_init_raises, udf_raises, arrow_udf_raises, SetError
  <2>2. QED
    BY <2>1, CountingStops
<1>4. CASE udf_state_destroy(w)
  <2>1. query'.status # "running"
    BY <1>4 DEF udf_state_destroy, Over
  <2>2. QED
    BY <2>1, CountingStops
<1>5. ASSUME query.status = "running", query' = query, scan' = scan,
             \/ work' = work
             \/ /\ work[w].at \in {"new", "map"} /\ work'[w].at \in {"ready", "update"}
                /\ work'[w].chunk = work[w].chunk
                /\ \A u \in Workers : u # w => work'[u] = work[u],
             \A o \in DOMAIN objects :
               o \notin {Null, StateOf(w), ArrayOf("in"), ArrayOf("out")} => objects'[o] = objects[o]
      PROVE  Counting'
  <2>1. Claimed' = Claimed
    BY <1>2, <1>5 DEF Claimed
  <2>2. /\ \A u \in Workers, g \in Groups :
             local[u][g] # Null => objects'[local[u][g]] = objects[local[u][g]]
        /\ \A g \in Groups : global[g] # Null => objects'[global[g]] = objects[global[g]]
    <3>1. PICK X : X = {Null, StateOf(w), ArrayOf("in"), ArrayOf("out")}
      OBVIOUS
    <3>2. \A o \in X : o \in {Null, BindData, Generator, ArrayOf("in"), ArrayOf("out")}
                        \/ \E u \in Workers : o = StateOf(u)
      BY <3>1
    <3>3. \A o \in DOMAIN objects : o \notin X => objects'[o] = objects[o]
      BY <1>5, <3>1
    <3>4. QED
      BY <1>5, <3>2, <3>3, InstancesKept
  <2>3. \A u \in Workers : work'[u].chunk = work[u].chunk
    BY <1>5
  <2>4. QED
    BY <1>2, <1>5, <2>1, <2>2, <2>3, CountingKept
<1>6. CASE udf_init_trampoline(w)
  <2>1. Goes(w, "ready", <<>>) /\ work[w].at = "new" /\ query.status = "running"
    BY <1>6 DEF udf_init_trampoline, At
  <2>2. /\ work'[w].at = "ready" /\ work'[w].chunk = <<>>
        /\ \A u \in Workers : u # w => work'[u] = work[u]
    BY <2>1, EmptyChunk, StageNames, GoesIs
  <2>3. work[w].chunk = <<>>
    BY <2>1 DEF Progress
  <2>4. \A o \in DOMAIN objects : o # StateOf(w) => objects'[o] = objects[o]
    BY <1>6, CreatesIs DEF udf_init_trampoline
  <2>5. query' = query /\ scan' = scan
    BY <1>6 DEF udf_init_trampoline
  <2>6. QED
    BY <1>5, <2>1, <2>2, <2>3, <2>4, <2>5
<1>7. CASE udf_trampoline(w) \/ arrow_udf_returns(w)
  <2>1. /\ Goes(w, "update", work[w].chunk) /\ work[w].at = "map" /\ query.status = "running"
        /\ query' = query /\ scan' = scan
    BY <1>7 DEF udf_trampoline, arrow_udf_returns, At, InFrame, Framed
  <2>2. /\ work'[w].at = "update" /\ work'[w].chunk = work[w].chunk
        /\ \A u \in Workers : u # w => work'[u] = work[u]
    BY <2>1, WorkOf, StageNames, GoesIs
  <2>3. \A o \in DOMAIN objects :
          o \notin {Null, StateOf(w), ArrayOf("in"), ArrayOf("out")} => objects'[o] = objects[o]
    <3>1. CASE udf_trampoline(w)
      <4>1. state[w] \in {Null, StateOf(w)}
        BY DEF Owned
      <4>2. \A o \in DOMAIN objects : o # state[w] => objects'[o] = objects[o]
        BY <3>1, ShownIs DEF udf_trampoline
      <4>3. QED
        BY <4>1, <4>2
    <3>2. CASE arrow_udf_returns(w)
      BY <3>2, UnwindsIs DEF arrow_udf_returns, InFrame
    <3>3. QED
      BY <1>7, <3>1, <3>2
  <2>4. QED
    BY <1>5, <2>1, <2>2, <2>3
<1>8. CASE arrow_udf_trampoline(w) \/ import_from_c(w) \/ export_to_c(w) \/ from_arrow(w)
  <2>1. query.status = "running" /\ query' = query /\ scan' = scan /\ work' = work
    BY <1>8 DEF arrow_udf_trampoline, import_from_c, export_to_c, from_arrow, At, InFrame, Framed
  <2>2. \A o \in DOMAIN objects :
          o \notin {ArrayOf("in"), ArrayOf("out")} => objects'[o] = objects[o]
    BY <1>8, CreatesIs DEF arrow_udf_trampoline, import_from_c, export_to_c, from_arrow
  <2>3. QED
    BY <1>5, <2>1, <2>2
<1>9. QED
  BY <1>1, <1>3, <1>4, <1>6, <1>7, <1>8

\* A worker that claims rows which nobody has claimed.
LEMMA ClaimCounting ==
  ASSUME Types, Progress, Counting, query.status = "running",
         NEW w \in Workers, work[w].at = "ready", work'[w].at \in {"map", "merge"},
         \A u \in Workers : u # w => work'[u] = work[u],
         NEW k \in Nat, Claimed' = Claimed + k,
         RowsOf(work'[w].chunk) = Claimed + 1 .. Claimed + k,
         objects' = objects, local' = local, global' = global,
         combined' = combined, has_combine' = has_combine, result' = result
  PROVE  Counting'
<1>1. RowsInv /\ MergeInv /\ ResultInv
  BY DEF Counting
<1>2. PICK n \in Nat : n = Claimed
  BY RowsHaveGroups
<1>3. \A u \in Workers, g \in Groups : Seen(u, g)' = Seen(u, g)
  BY DEF Seen
<1>4. Claimed' = n + k /\ Chunk(w)' = n + 1 .. n + k
  BY <1>2 DEF Chunk
<1>5. \A u \in Workers : u # w => Chunk(u)' = Chunk(u)
  BY DEF Chunk
<1>6. \A u \in Workers : Chunk(u) \subseteq 1 .. n
  BY <1>1, <1>2 DEF RowsInv
<1>7. \A u \in Workers, g \in Groups : Seen(u, g) \subseteq {r \in 1 .. n : GroupOf[r] = g}
  BY <1>1, <1>2 DEF RowsInv
<1>8. /\ 1 .. n \subseteq 1 .. n + k /\ n + 1 .. n + k \subseteq 1 .. n + k
      /\ (1 .. n) \cap (n + 1 .. n + k) = {}
      /\ \A r \in 1 .. n + k : r \in 1 .. n \/ r \in n + 1 .. n + k
  OBVIOUS
<1>9. RowsInv'
  <2>1. ASSUME NEW u \in Workers
        PROVE  /\ Chunk(u)' \subseteq 1 .. n + k
               /\ \A g \in Groups :
                    /\ local'[u][g] # Garbage
                    /\ Seen(u, g)' \subseteq {r \in 1 .. n + k : GroupOf[r] = g}
    <3>1. Chunk(u)' \subseteq 1 .. n + k
      BY <1>4, <1>5, <1>6, <1>8
    <3>2. \A g \in Groups : local'[u][g] # Garbage
      BY <1>1 DEF RowsInv
    <3>3. \A g \in Groups : Seen(u, g)' \subseteq {r \in 1 .. n + k : GroupOf[r] = g}
      BY <1>3, <1>7, <1>8
    <3>4. QED
      BY <3>1, <3>2, <3>3
  <2>2. ASSUME NEW u \in Workers, NEW g \in Groups, local'[u][g] # Null
        PROVE  /\ objects'[local'[u][g]] = SetToBag(Seen(u, g)')
               /\ Seen(u, g)' # {} \/ (work'[u].at = "update" /\ g \in Met(work'[u].chunk))
    <3>1. objects[local[u][g]] = SetToBag(Seen(u, g))
      BY <1>1, <2>2 DEF RowsInv
    <3>2. Seen(u, g) # {} \/ (work[u].at = "update" /\ g \in Met(work[u].chunk))
      BY <1>1, <2>2 DEF RowsInv
    <3>3. work[u].at = "update" => work'[u] = work[u]
      OBVIOUS
    <3>4. QED
      BY <1>3, <3>1, <3>2, <3>3
  <2>3. ASSUME NEW u \in Workers, NEW v \in Workers
        PROVE  /\ u # v => Chunk(u)' \cap Chunk(v)' = {}
               /\ \A g \in Groups : /\ Chunk(u)' \cap Seen(v, g)' = {}
                                    /\ u # v => Seen(u, g)' \cap Seen(v, g)' = {}
    <3>1. /\ u # v => Chunk(u) \cap Chunk(v) = {}
          /\ \A g \in Groups : /\ Chunk(u) \cap Seen(v, g) = {}
                               /\ u # v => Seen(u, g) \cap Seen(v, g) = {}
      BY <1>1 DEF RowsInv
    <3>2. \A g \in Groups : Seen(v, g) \subseteq 1 .. n
      BY <1>7
    <3>3. u # v => Chunk(u)' \cap Chunk(v)' = {}
      BY <1>4, <1>5, <1>6, <1>8, <3>1
    <3>4. \A g \in Groups : Chunk(u)' \cap Seen(v, g)' = {}
      BY <1>3, <1>4, <1>5, <1>8, <3>1, <3>2
    <3>5. QED
      BY <1>3, <3>1, <3>3, <3>4
  <2>4. ASSUME NEW r \in 1 .. n + k
        PROVE  \E u \in Workers : r \in Chunk(u)' \/ r \in Seen(u, GroupOf[r])'
    <3>1. CASE r \in n + 1 .. n + k
      BY <1>4, <3>1
    <3>2. CASE r \in 1 .. n
      <4>1. GroupOf[r] \in Groups
        BY <1>2, <3>2, RowsHaveGroups
      <4>2. PICK u \in Workers : r \in Chunk(u) \/ r \in Seen(u, GroupOf[r])
        BY <1>1, <1>2, <3>2 DEF RowsInv
      <4>3. Chunk(w) = {}
        BY NoRows DEF Progress, Chunk
      <4>4. r \in Chunk(u)' \/ r \in Seen(u, GroupOf[r])'
        BY <1>3, <1>5, <4>1, <4>2, <4>3
      <4>5. QED
        BY <4>4
    <3>3. QED
      BY <1>8, <3>1, <3>2
  <2>5. QED
    BY <1>4, <2>1, <2>2, <2>3, <2>4 DEF RowsInv
<1>10. MergeInv'
  <2>1. \A u \in Workers : work[u].at \in {"merge", "finished"} => work'[u] = work[u]
    OBVIOUS
  <2>2. \A u \in Workers : work'[u].at = "finished" => work[u].at = "finished"
    OBVIOUS
  <2>3. QED
    BY <1>1, <1>3, <2>1, <2>2, MergeKept
<1>11. ResultInv'
  BY <1>1, ResultStays DEF Types
<1>12. QED
  BY <1>9, <1>10, <1>11 DEF Counting

\* The callbacks of a table UDF.
LEMMA TableCounting ==
  ASSUME Types, Owned, Progress, Counting, Table
  PROVE  Counting'
<1>1. /\ query \in Runs /\ local' = local /\ global' = global
      /\ combined' = combined /\ has_combine' = has_combine /\ result' = result
  BY DEF Table, Types, aggVars
<1>2. CASE query' = query /\ query.status # "running"
  BY <1>2, CountingStops
<1>3. CASE SetError
  <2>1. query'.status = "failed"
    BY <1>1, <1>3, StatusSet DEF SetError
  <2>2. QED
    BY <2>1, CountingStops
<1>4. CASE table_init
  <2>1. /\ query.status = "running" /\ query.source = "table" /\ query' = query /\ work' = work
        /\ init_data = NoInitData /\ init_data' = [NoInitData EXCEPT !.generator = Generator]
    BY <1>4 DEF table_init, Progress
  <2>2. Claimed' = Claimed
    BY <2>1 DEF Claimed, NoInitData
  <2>3. \A o \in DOMAIN objects : o \notin {Generator} => objects'[o] = objects[o]
    BY <1>4, CreatesIs DEF table_init
  <2>4. PICK X : X = {Generator}
    OBVIOUS
  <2>5. /\ \A u \in Workers, g \in Groups :
             local[u][g] # Null => objects'[local[u][g]] = objects[local[u][g]]
        /\ \A g \in Groups : global[g] # Null => objects'[global[g]] = objects[global[g]]
    BY <2>1, <2>3, <2>4, InstancesKept
  <2>6. QED
    BY <1>1, <2>1, <2>2, <2>5, CountingKept
<1>5. ASSUME NEW w \in Workers, table_main(w)
      PROVE  Counting'
  <2>1. /\ query.status = "running" /\ work[w].at = "ready" /\ objects' = objects
    BY <1>5 DEF table_main, Reads, At
  <2>2. PICK k \in Nat : /\ Claimed' = Claimed + k
                         /\ RowsOf(work'[w].chunk) = Claimed + 1 .. Claimed + k
    BY <1>5, MainProgress
  <2>3. work'[w].at \in {"map", "merge"} /\ \A u \in Workers : u # w => work'[u] = work[u]
    BY <1>5, MainProgress
  <2>4. QED
    BY <1>1, <2>1, <2>2, <2>3, ClaimCounting
<1>6. QED
  BY <1>2, <1>3, <1>4, <1>5
  DEF Table, table_bind, bind_data_destroy, init_data_destroy, table_init_raises, table_main_raises, Over

\* What the engine does by itself.
LEMMA EngineCounting ==
  ASSUME Types, Rested, Progress, Counting, Engine
  PROVE  Counting'
<1>1. query \in Runs
  BY DEF Types
<1>2. CASE SetError \/ query' = [query EXCEPT !.status = "done"]
           \/ query' = [query EXCEPT !.status = "idle"]
  <2>1. query'.status # "running"
    BY <1>1, <1>2, StatusSet DEF SetError
  <2>2. QED
    BY <2>1, CountingStops
<1>3. ASSUME NEW w \in Workers, ScanRows(w), UNCHANGED <<state, bound, init_data, aggVars>>
      PROVE  Counting'
  <2>1. /\ query.status = "running" /\ work[w].at = "ready" /\ objects' = objects
        /\ local' = local /\ global' = global /\ init_data' = init_data
        /\ combined' = combined /\ has_combine' = has_combine /\ result' = result
    BY <1>3 DEF ScanRows, At, aggVars
  <2>2. /\ query.size \in Nat /\ scan \in Nat /\ scan <= query.size
        /\ scan' = scan + Len(Upto(scan)) /\ Len(Upto(scan)) \in Nat
        /\ Claimed = scan /\ Claimed' = scan'
        /\ work'[w].chunk = IF scan = query.size THEN <<>> ELSE Upto(scan)
        /\ work'[w].at = IF scan = query.size THEN "merge" ELSE "map"
        /\ \A u \in Workers : u # w => work'[u] = work[u]
    BY <1>3, <2>1, ScanProgress
  <2>3. PICK k \in Nat : k = Len(Upto(scan))
    BY <2>2
  <2>4. RowsOf(Upto(scan)) = scan + 1 .. scan + k /\ scan + k <= query.size
    BY <2>2, <2>3, UptoIs
  <2>5. RowsOf(work'[w].chunk) = scan + 1 .. scan + k
    <3>1. CASE scan = query.size
      <4>1. scan + 1 .. scan + k = {}
        BY <2>2, <2>4, <3>1
      <4>2. QED
        BY <2>2, <3>1, <4>1, NoRows
    <3>2. CASE scan # query.size
      BY <2>2, <2>4, <3>2
    <3>3. QED
      BY <3>1, <3>2
  <2>6. work'[w].at \in {"map", "merge"}
    BY <2>2
  <2>7. Claimed' = Claimed + k /\ RowsOf(work'[w].chunk) = Claimed + 1 .. Claimed + k
    BY <2>2, <2>3, <2>5
  <2>8. QED
    BY <2>1, <2>2, <2>6, <2>7, ClaimCounting
<1>4. ASSUME NEW source \in {"rows", "table"}, NEW udf \in {"ndarray", "arrow"},
             NEW n \in Sizes, NEW ws \in (SUBSET Workers) \ {{}}, Start(source, n, udf, ws)
      PROVE  Counting'
  <2>1. /\ Claimed' = 0 /\ \A w \in Workers : work'[w].chunk = <<>>
    BY <1>4, StartProgress
  <2>2. /\ query.status = "idle" /\ combined' = {} /\ result' = NoResult
        /\ local' = local /\ global' = global
    BY <1>4 DEF Start
  <2>3. /\ \A w \in Workers, g \in Groups : local'[w][g] = Null
        /\ \A g \in Groups : global'[g] = Null
    BY <2>2 DEF Rested, NoSlots
  <2>4. \A w \in Workers : Chunk(w)' = {} /\ \A g \in Groups : Seen(w, g)' = {}
    BY <2>1, <2>3, NoRows DEF Chunk, Seen
  <2>5. 1 .. 0 = {} /\ Null # Garbage
    BY NullIsNoObject
  <2>6. RowsInv'
    BY <2>1, <2>3, <2>4, <2>5 DEF RowsInv
  <2>7. MergeInv'
    <3>1. \A w \in Workers, g \in Groups : <<w, g>> \notin combined'
      BY <2>2
    <3>2. QED
      BY <2>3, <2>5, <3>1 DEF MergeInv
  <2>8. ResultInv'
    <3>1. result'.offset = 0
      BY <2>2 DEF NoResult
    <3>2. Found' \subseteq Groups
      BY DEF Found, Groups
    <3>3. (Cardinality(Found))' \in Nat
      BY <3>2, GroupsFinite
    <3>4. ~(result'.offset > 0) /\ result'.offset <= (Cardinality(Found))' /\ 1 .. result'.offset = {}
      BY <3>1, <3>3
    <3>5. QED
      BY <3>4 DEF ResultInv
  <2>9. QED
    BY <2>6, <2>7, <2>8 DEF Counting
<1>5. QED
  BY <1>2, <1>3, <1>4 DEF Engine, Abandon, Finish, CleanUp

\* A step that makes an instance, shown nothing, for rows that its worker has.
LEMMA RowsSame ==
  ASSUME Types, Progress, RowsInv, query.status = "running", Claimed' = Claimed,
         \A w \in Workers : work'[w].chunk = work[w].chunk,
         \A w \in Workers, g \in Groups : Seen(w, g)' = Seen(w, g),
         \A w \in Workers, g \in Groups : local'[w][g] # Garbage,
         \A w \in Workers, g \in Groups : local'[w][g] # Null =>
           /\ objects'[local'[w][g]] = SetToBag(Seen(w, g))
           /\ Seen(w, g) # {} \/ (work'[w].at = "update" /\ g \in Met(work[w].chunk))
  PROVE  RowsInv'
<1>1. \A w \in Workers : Chunk(w)' = Chunk(w)
  BY DEF Chunk
<1>2. ASSUME NEW w \in Workers
      PROVE  /\ Chunk(w)' \subseteq 1 .. Claimed'
             /\ \A g \in Groups :
                  /\ local'[w][g] # Garbage
                  /\ Seen(w, g)' \subseteq {r \in 1 .. Claimed' : GroupOf[r] = g}
  BY <1>1 DEF RowsInv
<1>3. ASSUME NEW w \in Workers, NEW g \in Groups, local'[w][g] # Null
      PROVE  /\ objects'[local'[w][g]] = SetToBag(Seen(w, g)')
             /\ Seen(w, g)' # {} \/ (work'[w].at = "update" /\ g \in Met(work'[w].chunk))
  BY <1>3
<1>4. ASSUME NEW w \in Workers, NEW u \in Workers
      PROVE  /\ w # u => Chunk(w)' \cap Chunk(u)' = {}
             /\ \A g \in Groups : /\ Chunk(w)' \cap Seen(u, g)' = {}
                                  /\ w # u => Seen(w, g)' \cap Seen(u, g)' = {}
  BY <1>1 DEF RowsInv
<1>5. \A r \in 1 .. Claimed' : \E w \in Workers : r \in Chunk(w)' \/ r \in Seen(w, GroupOf[r])'
  BY <1>1, RowsHaveGroups DEF RowsInv
<1>6. QED
  BY <1>2, <1>3, <1>4, <1>5 DEF RowsInv

\* A new instance of a worker.
LEMMA InitLocalCounting ==
  ASSUME Types, Owned, Progress, Counting, query.status = "running",
         NEW w \in Workers, NEW g \in Groups, work[w].at = "update", g \in Met(work[w].chunk),
         local[w][g] = Null, Creates(LocalOf(w, g)),
         local' = [local EXCEPT ![w][g] = LocalOf(w, g)],
         query' = query, work' = work, scan' = scan, init_data' = init_data, global' = global,
         combined' = combined, has_combine' = has_combine, result' = result
  PROVE  Counting'
<1>1. RowsInv /\ MergeInv /\ ResultInv
  BY DEF Counting
<1>2. local'[w][g] = LocalOf(w, g)
      /\ \A u \in Workers, h \in Groups : u # w \/ h # g => local'[u][h] = local[u][h]
  <2>1. LocalOf(w, g) \in LocalNames \cup {Null, Garbage}
    BY DEF LocalNames
  <2>2. QED
    BY <2>1, LocalSet DEF Types
<1>3. /\ objects'[LocalOf(w, g)] = EmptyBag
      /\ \A o \in DOMAIN objects : o # LocalOf(w, g) => objects'[o] = objects[o]
  BY CreatesIs
<1>4. LocalOf(w, g) \notin {Null, Garbage}
  BY LocalsDiffer
<1>5. ASSUME NEW u \in Workers, NEW h \in Groups, u # w \/ h # g, local[u][h] # Null
      PROVE  objects'[local[u][h]] = objects[local[u][h]]
  BY <1>3, <1>5, InstanceIs, LocalsDiffer
<1>6. ASSUME NEW h \in Groups, global[h] # Null
      PROVE  objects'[global[h]] = objects[global[h]]
  BY <1>3, <1>6, InstanceIs, LocalsDiffer
<1>7. Seen(w, g) = {} /\ Seen(w, g)' = {}
  <2>1. DOMAIN EmptyBag = {}
    BY NewBag
  <2>2. DOMAIN objects'[local'[w][g]] = {}
    BY <1>2, <1>3, <2>1
  <2>3. QED
    BY <2>2 DEF Seen
<1>8. ASSUME NEW u \in Workers, NEW h \in Groups
      PROVE  Seen(u, h)' = Seen(u, h)
  <2>1. CASE u = w /\ h = g
    BY <1>7, <2>1
  <2>2. CASE u # w \/ h # g
    BY <1>2, <1>5, <2>2 DEF Seen
  <2>3. QED
    BY <2>1, <2>2
<1>9. RowsInv'
  <2>1. Claimed' = Claimed
    BY DEF Claimed
  <2>2. \A u \in Workers, h \in Groups : local'[u][h] # Garbage
    BY <1>1, <1>2, <1>4 DEF RowsInv
  <2>3. ASSUME NEW u \in Workers, NEW h \in Groups, local'[u][h] # Null
        PROVE  /\ objects'[local'[u][h]] = SetToBag(Seen(u, h))
               /\ Seen(u, h) # {} \/ (work'[u].at = "update" /\ h \in Met(work[u].chunk))
    <3>1. CASE u = w /\ h = g
      <4>1. objects'[local'[w][g]] = SetToBag({})
        BY <1>2, <1>3, NewBag
      <4>2. QED
        BY <1>7, <3>1, <4>1
    <3>2. CASE u # w \/ h # g
      <4>1. local[u][h] # Null /\ objects'[local'[u][h]] = objects[local[u][h]]
        BY <1>2, <1>5, <2>3, <3>2
      <4>2. QED
        BY <1>1, <4>1 DEF RowsInv
    <3>3. QED
      BY <3>1, <3>2
  <2>4. QED
    BY <1>1, <1>8, <2>1, <2>2, <2>3, RowsSame
<1>10. MergeInv'
  <2>1. ASSUME NEW u \in Workers, work[u].at \in {"merge", "finished"}
        PROVE  /\ work'[u].at \in {"merge", "finished"}
               /\ \A h \in Groups : local'[u][h] = local[u][h] /\ Seen(u, h)' = Seen(u, h)
    BY <1>2, <1>8, <2>1
  <2>2. QED
    BY <1>1, <1>6, <2>1, MergeKept
<1>11. ResultInv'
  BY <1>1, ResultStays DEF Types
<1>12. QED
  BY <1>9, <1>10, <1>11 DEF Counting

\* A new instance of the query.
LEMMA InitGlobalCounting ==
  ASSUME Types, Owned, Progress, Counting, query.status = "running",
         NEW w \in Workers, NEW g \in Groups, work[w].at = "merge",
         local[w][g] # Null, global[g] = Null, Creates(GlobalOf(g)),
         global' = [global EXCEPT ![g] = GlobalOf(g)],
         query' = query, work' = work, scan' = scan, init_data' = init_data, local' = local,
         combined' = combined, has_combine' = has_combine, result' = result
  PROVE  Counting'
<1>1. RowsInv /\ MergeInv /\ ResultInv
  BY DEF Counting
<1>2. global'[g] = GlobalOf(g) /\ \A h \in Groups : h # g => global'[h] = global[h]
  BY DEF Types
<1>3. /\ objects'[GlobalOf(g)] = EmptyBag
      /\ \A o \in DOMAIN objects : o # GlobalOf(g) => objects'[o] = objects[o]
  BY CreatesIs
<1>4. GlobalOf(g) \notin {Null, Garbage}
  BY GlobalsDiffer
<1>5. ASSUME NEW u \in Workers, NEW h \in Groups, local[u][h] # Null
      PROVE  objects'[local[u][h]] = objects[local[u][h]]
  BY <1>3, <1>5, InstanceIs, GlobalsDiffer
<1>6. ASSUME NEW h \in Groups, h # g, global[h] # Null
      PROVE  objects'[global'[h]] = objects[global[h]]
  BY <1>2, <1>3, <1>6, InstanceIs, GlobalsDiffer
<1>7. \A u \in Workers, h \in Groups : Seen(u, h)' = Seen(u, h)
  BY <1>5 DEF Seen
<1>8. \A h \in Groups : Taken(h)' = Taken(h)
  BY DEF Taken
<1>9. Taken(g) = {}
  BY <1>1 DEF Taken, MergeInv
<1>10. RowsInv'
  <2>1. Claimed' = Claimed
    BY DEF Claimed
  <2>2. QED
    BY <1>1, <1>5, <2>1, RowsKept
<1>11. MergeInv'
  <2>1. \A u \in Workers : \A h \in Groups :
          <<u, h>> \in combined' =>
            work'[u].at \in {"merge", "finished"} /\ local'[u][h] # Null /\ global'[h] # Null
    BY <1>1, <1>2, <1>4 DEF MergeInv
  <2>2. \A u \in Workers :
          work'[u].at = "finished" => \A h \in Groups : local'[u][h] # Null => <<u, h>> \in combined'
    BY <1>1 DEF MergeInv
  <2>3. \A h \in Groups : global'[h] # Garbage
    BY <1>1, <1>2, <1>4 DEF MergeInv
  <2>4. ASSUME NEW h \in Groups, global'[h] # Null
        PROVE  /\ \E u \in Workers : local'[u][h] # Null /\ work'[u].at \in {"merge", "finished"}
               /\ has_combine' =>
                    objects'[global'[h]] = SetToBag(UNION {Seen(u, h)' : u \in Taken(h)'})
               /\ ~has_combine' =>
                    \/ Taken(h)' = {} /\ objects'[global'[h]] = EmptyBag
                    \/ \E u \in Taken(h)' : objects'[global'[h]] = SetToBag(Seen(u, h)')
    <3>1. CASE h = g
      <4>1. Taken(h)' = {} /\ objects'[global'[h]] = EmptyBag
        BY <1>2, <1>3, <1>8, <1>9, <3>1
      <4>2. UNION {Seen(u, h)' : u \in Taken(h)'} = {}
        BY <4>1
      <4>3. objects'[global'[h]] = SetToBag(UNION {Seen(u, h)' : u \in Taken(h)'})
        BY <4>1, <4>2, NewBag
      <4>4. QED
        BY <3>1, <4>1, <4>3
    <3>2. CASE h # g
      <4>1. global[h] # Null /\ objects'[global'[h]] = objects[global[h]]
        BY <1>2, <1>6, <2>4, <3>2
      <4>2. {Seen(u, h)' : u \in Taken(h)'} = {Seen(u, h) : u \in Taken(h)}
        BY <1>7, <1>8 DEF Taken
      <4>3. \E u \in Workers : local'[u][h] # Null /\ work'[u].at \in {"merge", "finished"}
        BY <1>1, <4>1 DEF MergeInv
      <4>4. has_combine' => objects'[global'[h]] = SetToBag(UNION {Seen(u, h)' : u \in Taken(h)'})
        BY <1>1, <4>1, <4>2 DEF MergeInv
      <4>5. ~has_combine' =>
              \/ Taken(h)' = {} /\ objects'[global'[h]] = EmptyBag
              \/ \E u \in Taken(h)' : objects'[global'[h]] = SetToBag(Seen(u, h)')
        <5>1. ~has_combine =>
                \/ Taken(h) = {} /\ objects[global[h]] = EmptyBag
                \/ \E u \in Taken(h) : objects[global[h]] = SetToBag(Seen(u, h))
          BY <1>1, <4>1 DEF MergeInv
        <5>2. \A u \in Taken(h) : Seen(u, h)' = Seen(u, h)
          BY <1>7 DEF Taken
        <5>3. QED
          BY <1>8, <4>1, <5>1, <5>2
      <4>6. QED
        BY <4>3, <4>4, <4>5
    <3>3. QED
      BY <3>1, <3>2
  <2>5. QED
    BY <2>1, <2>2, <2>3, <2>4 DEF MergeInv
<1>12. ResultInv'
  <2>1. global' \in [Groups -> GlobalNames \cup {Null, Garbage}]
    BY DEF Types, GlobalNames
  <2>2. QED
    BY <1>1, <2>1, ResultStays
<1>13. QED
  BY <1>10, <1>11, <1>12 DEF Counting

\* What update() shows to the instances of a worker: to each the rows of its group.
LEMMA UpdatedIs ==
  ASSUME Types, Owned, Progress, Counting, query.status = "running",
         NEW w \in Workers, \A g \in Met(work[w].chunk) : local[w][g] # Null,
         objects' = Updated(w, work[w].chunk, Met(work[w].chunk))
  PROVE  /\ \A g \in Groups : local[w][g] # Null =>
              objects'[local[w][g]] = SetToBag(Seen(w, g) \cup InGroup(work[w].chunk, g))
         /\ \A g \in Groups : local[w][g] = Null => InGroup(work[w].chunk, g) = {}
         /\ \A o \in DOMAIN objects :
              (\A g \in Groups : o # LocalOf(w, g)) => objects'[o] = objects[o]
<1>1. RowsInv
  BY DEF Counting
<1>2. PICK chunk : chunk = work[w].chunk
  OBVIOUS
<1>3. \A r \in RowsOf(chunk) : GroupOf[r] \in Groups
  <2>1. RowsOf(chunk) \subseteq 1 .. Claimed
    BY <1>1, <1>2 DEF RowsInv, Chunk
  <2>2. QED
    BY <2>1, RowsHaveGroups
<1>4. Met(chunk) \subseteq Groups
  BY <1>3 DEF Met
<1>5. \A g \in Groups : g \notin Met(chunk) => InGroup(chunk, g) = {}
  BY DEF Met, InGroup
<1>6. \A g \in Groups : local[w][g] # Null =>
        local[w][g] = LocalOf(w, g) /\ LocalOf(w, g) \in DOMAIN objects
  BY InstanceIs
<1>7. \A g \in Met(chunk) : local[w][g] = LocalOf(w, g) /\ LocalOf(w, g) \in DOMAIN objects
  BY <1>2, <1>4, <1>6
<1>8. ASSUME NEW o \in DOMAIN objects, \A g \in Met(chunk) : o # LocalOf(w, g)
      PROVE  objects'[o] = objects[o]
  BY <1>2, <1>7, <1>8 DEF Updated
<1>9. ASSUME NEW g \in Met(chunk)
      PROVE  objects'[local[w][g]] = SetToBag(Seen(w, g) \cup InGroup(chunk, g))
  <2>1. PICK o : o = local[w][g]
    OBVIOUS
  <2>2. o \in DOMAIN objects /\ o = LocalOf(w, g) /\ g \in Groups
    BY <1>4, <1>7, <2>1
  <2>3. \A h \in Met(chunk) : o = local[w][h] => h = g
    <3>1. ASSUME NEW h \in Met(chunk), o = local[w][h]
          PROVE  h = g
      <4>1. h \in Groups /\ LocalOf(w, h) = LocalOf(w, g)
        BY <1>4, <1>7, <2>2, <3>1
      <4>2. QED
        BY <2>2, <4>1, LocalsDiffer
    <3>2. QED
      BY <3>1
  <2>4. (CHOOSE h \in Met(chunk) : o = local[w][h]) = g
    BY <2>1, <2>3
  <2>5. PICK rs : rs = IF SingleState(chunk) THEN RowsOf(chunk) ELSE InGroup(chunk, g)
    OBVIOUS
  <2>6. objects'[o] = objects[o] (+) SetToBag(rs)
    BY <1>2, <2>1, <2>2, <2>4, <2>5 DEF Updated
  <2>7. rs = InGroup(chunk, g)
    <3>1. CASE SingleState(chunk)
      <4>1. IsFiniteSet(Met(chunk))
        BY <1>4, GroupsFinite
      <4>2. \E x : Met(chunk) = {x}
        BY <3>1, <4>1, FS_Singleton DEF SingleState
      <4>3. Met(chunk) = {g}
        BY <4>2
      <4>4. \A r \in RowsOf(chunk) : GroupOf[r] \in Met(chunk)
        BY DEF Met
      <4>5. QED
        BY <2>5, <3>1, <4>3, <4>4 DEF InGroup
    <3>2. QED
      BY <2>5, <3>1
  <2>8. objects[o] = SetToBag(Seen(w, g))
    <3>1. local[w][g] # Null
      BY <1>2
    <3>2. objects[local[w][g]] = SetToBag(Seen(w, g))
      BY <1>1, <2>2, <3>1 DEF RowsInv
    <3>3. QED
      BY <2>1, <3>2
  <2>9. Seen(w, g) \cap InGroup(chunk, g) = {}
    <3>1. Chunk(w) \cap Seen(w, g) = {}
      BY <1>1, <2>2 DEF RowsInv
    <3>2. QED
      BY <1>2, <3>1 DEF Chunk, InGroup
  <2>10. QED
    BY <2>1, <2>6, <2>7, <2>8, <2>9, DisjointBags
<1>10. ASSUME NEW g \in Groups, local[w][g] # Null
       PROVE  objects'[local[w][g]] = SetToBag(Seen(w, g) \cup InGroup(chunk, g))
  <2>1. CASE g \in Met(chunk)
    BY <1>9, <2>1
  <2>2. CASE g \notin Met(chunk)
    <3>1. local[w][g] = LocalOf(w, g) /\ LocalOf(w, g) \in DOMAIN objects
      BY <1>6, <1>10
    <3>2. \A h \in Met(chunk) : LocalOf(w, g) # LocalOf(w, h)
      BY <1>4, <2>2, LocalsDiffer
    <3>3. objects'[local[w][g]] = objects[local[w][g]]
      BY <1>8, <3>1, <3>2
    <3>4. objects[local[w][g]] = SetToBag(Seen(w, g)) /\ InGroup(chunk, g) = {}
      BY <1>1, <1>5, <1>10, <2>2 DEF RowsInv
    <3>5. Seen(w, g) \cup InGroup(chunk, g) = Seen(w, g)
      BY <3>4
    <3>6. QED
      BY <3>3, <3>4, <3>5
  <2>3. QED
    BY <2>1, <2>2
<1>11. ASSUME NEW g \in Groups, local[w][g] = Null
       PROVE  InGroup(chunk, g) = {}
  BY <1>2, <1>5, <1>11
<1>12. QED
  BY <1>2, <1>4, <1>8, <1>10, <1>11

\* The rows of a worker's chunk are shown: what it claimed and had not shown is shown now.
LEMMA UpdateCounting ==
  ASSUME Types, Owned, Progress, Counting, NEW w \in Workers, agg_update(w),
         init_data' = init_data
  PROVE  Counting'
<1>1. RowsInv /\ MergeInv /\ ResultInv
  BY DEF Counting
<1>2. /\ query.status = "running" /\ work[w].at = "update" /\ query' = query /\ scan' = scan
      /\ \A g \in Met(work[w].chunk) : local[w][g] # Null
      /\ objects' = Updated(w, work[w].chunk, Met(work[w].chunk))
      /\ Goes(w, "ready", <<>>)
      /\ local' = local /\ global' = global
      /\ combined' = combined /\ has_combine' = has_combine /\ result' = result
  BY DEF agg_update, Ready, At, aggVars
<1>3. work'[w].at = "ready" /\ work'[w].chunk = <<>> /\ \A u \in Workers : u # w => work'[u] = work[u]
  BY <1>2, EmptyChunk, StageNames, GoesIs
<1>4. Claimed' = Claimed
  BY <1>2 DEF Claimed
<1>5. /\ \A g \in Groups : local[w][g] # Null =>
           objects'[local[w][g]] = SetToBag(Seen(w, g) \cup InGroup(work[w].chunk, g))
      /\ \A g \in Groups : local[w][g] = Null => InGroup(work[w].chunk, g) = {}
      /\ \A o \in DOMAIN objects :
           (\A g \in Groups : o # LocalOf(w, g)) => objects'[o] = objects[o]
  BY <1>2, UpdatedIs
<1>6. \A g \in Groups : InGroup(work[w].chunk, g) = {r \in Chunk(w) : GroupOf[r] = g}
  BY DEF InGroup, Chunk
<1>7. ASSUME NEW g \in Groups
      PROVE  Seen(w, g)' = Seen(w, g) \cup {r \in Chunk(w) : GroupOf[r] = g}
  <2>1. CASE local[w][g] = Null
    <3>1. Seen(w, g) = {} /\ Seen(w, g)' = {}
      BY <1>2, <2>1 DEF Seen
    <3>2. QED
      BY <1>5, <1>6, <2>1, <3>1
  <2>2. CASE local[w][g] # Null
    <3>1. Seen(w, g)' = DOMAIN objects'[local[w][g]]
      BY <1>2, <2>2 DEF Seen
    <3>2. QED
      BY <1>5, <1>6, <2>2, <3>1, BagRows
  <2>3. QED
    BY <2>1, <2>2
<1>8. ASSUME NEW u \in Workers, NEW g \in Groups, u # w
      PROVE  /\ Seen(u, g)' = Seen(u, g)
             /\ local[u][g] # Null => objects'[local[u][g]] = objects[local[u][g]]
  <2>1. ASSUME local[u][g] # Null
        PROVE  objects'[local[u][g]] = objects[local[u][g]]
    <3>1. local[u][g] = LocalOf(u, g) /\ LocalOf(u, g) \in DOMAIN objects
      BY <1>2, <2>1, InstanceIs
    <3>2. \A h \in Groups : LocalOf(u, g) # LocalOf(w, h)
      BY <1>8, LocalsDiffer
    <3>3. QED
      BY <1>5, <3>1, <3>2
  <2>2. QED
    BY <1>2, <2>1 DEF Seen
<1>9. ASSUME NEW g \in Groups, global[g] # Null
      PROVE  objects'[global[g]] = objects[global[g]]
  <2>1. global[g] = GlobalOf(g) /\ GlobalOf(g) \in DOMAIN objects
    BY <1>2, <1>9, InstanceIs
  <2>2. \A h \in Groups : GlobalOf(g) # LocalOf(w, h)
    BY GlobalsDiffer
  <2>3. QED
    BY <1>5, <2>1, <2>2
<1>10. Chunk(w)' = {} /\ \A u \in Workers : u # w => Chunk(u)' = Chunk(u)
  BY <1>3, NoRows DEF Chunk
<1>11. RowsInv'
  <2>1. Chunk(w) \subseteq 1 .. Claimed /\ \A u \in Workers : Chunk(u) \subseteq 1 .. Claimed
    BY <1>1, <1>2 DEF RowsInv
  <2>2. \A u \in Workers, g \in Groups : Seen(u, g) \subseteq {r \in 1 .. Claimed : GroupOf[r] = g}
    BY <1>1, <1>2 DEF RowsInv
  <2>3. ASSUME NEW u \in Workers, NEW v \in Workers
        PROVE  /\ u # v => Chunk(u) \cap Chunk(v) = {}
               /\ \A g \in Groups : /\ Chunk(u) \cap Seen(v, g) = {}
                                    /\ u # v => Seen(u, g) \cap Seen(v, g) = {}
    BY <1>1, <1>2 DEF RowsInv
  <2>4. ASSUME NEW u \in Workers
        PROVE  /\ Chunk(u)' \subseteq 1 .. Claimed
               /\ \A g \in Groups :
                    /\ local'[u][g] # Garbage
                    /\ Seen(u, g)' \subseteq {r \in 1 .. Claimed : GroupOf[r] = g}
    <3>1. Chunk(u)' \subseteq 1 .. Claimed
      BY <1>10, <2>1
    <3>2. \A g \in Groups : local'[u][g] # Garbage
      BY <1>1, <1>2 DEF RowsInv
    <3>3. ASSUME NEW g \in Groups
          PROVE  Seen(u, g)' \subseteq {r \in 1 .. Claimed : GroupOf[r] = g}
      <4>1. CASE u = w
        BY <1>7, <2>1, <2>2, <4>1
      <4>2. CASE u # w
        BY <1>8, <2>2, <4>2
      <4>3. QED
        BY <4>1, <4>2
    <3>4. QED
      BY <3>1, <3>2, <3>3
  <2>5. ASSUME NEW u \in Workers, NEW g \in Groups, local'[u][g] # Null
        PROVE  /\ objects'[local'[u][g]] = SetToBag(Seen(u, g)')
               /\ Seen(u, g)' # {} \/ (work'[u].at = "update" /\ g \in Met(work'[u].chunk))
    <3>1. local[u][g] # Null /\ local'[u][g] = local[u][g]
      BY <1>2, <2>5
    <3>2. objects[local[u][g]] = SetToBag(Seen(u, g))
          /\ (Seen(u, g) # {} \/ (work[u].at = "update" /\ g \in Met(work[u].chunk)))
      BY <1>1, <1>2, <3>1 DEF RowsInv
    <3>3. CASE u = w
      <4>1. objects'[local'[u][g]] = SetToBag(Seen(u, g)')
        BY <1>5, <1>6, <1>7, <3>1, <3>3
      <4>2. Seen(u, g)' # {}
        <5>1. g \in Met(work[w].chunk) => {r \in Chunk(w) : GroupOf[r] = g} # {}
          BY DEF Met, Chunk
        <5>2. QED
          BY <1>7, <3>2, <3>3, <5>1
      <4>3. QED
        BY <4>1, <4>2
    <3>4. CASE u # w
      BY <1>3, <1>8, <3>1, <3>2, <3>4
    <3>5. QED
      BY <3>3, <3>4
  <2>6. ASSUME NEW u \in Workers, NEW v \in Workers
        PROVE  /\ u # v => Chunk(u)' \cap Chunk(v)' = {}
               /\ \A g \in Groups : /\ Chunk(u)' \cap Seen(v, g)' = {}
                                    /\ u # v => Seen(u, g)' \cap Seen(v, g)' = {}
    <3>1. u # v => Chunk(u)' \cap Chunk(v)' = {}
      BY <1>10, <2>3
    <3>2. ASSUME NEW g \in Groups
          PROVE  Chunk(u)' \cap Seen(v, g)' = {}
      <4>1. CASE u = w
        BY <1>10, <4>1
      <4>2. CASE u # w
        <5>1. Chunk(u)' = Chunk(u) /\ Chunk(u) \cap Chunk(w) = {} /\ Chunk(u) \cap Seen(v, g) = {}
          BY <1>10, <2>3, <4>2
        <5>2. Seen(v, g)' \subseteq Seen(v, g) \cup Chunk(w)
          BY <1>7, <1>8
        <5>3. QED
          BY <5>1, <5>2
      <4>3. QED
        BY <4>1, <4>2
    <3>3. ASSUME NEW g \in Groups, u # v
          PROVE  Seen(u, g)' \cap Seen(v, g)' = {}
      <4>1. /\ Seen(u, g) \cap Seen(v, g) = {}
            /\ Chunk(w) \cap Seen(u, g) = {} /\ Chunk(w) \cap Seen(v, g) = {}
        BY <2>3, <3>3
      <4>2. CASE u = w
        <5>1. Seen(v, g)' = Seen(v, g) /\ Seen(u, g)' \subseteq Seen(u, g) \cup Chunk(w)
          BY <1>7, <1>8, <3>3, <4>2
        <5>2. QED
          BY <4>1, <5>1
      <4>3. CASE v = w
        <5>1. Seen(u, g)' = Seen(u, g) /\ Seen(v, g)' \subseteq Seen(v, g) \cup Chunk(w)
          BY <1>7, <1>8, <3>3, <4>3
        <5>2. QED
          BY <4>1, <5>1
      <4>4. CASE u # w /\ v # w
        BY <1>8, <4>1, <4>4
      <4>5. QED
        BY <4>2, <4>3, <4>4
    <3>4. QED
      BY <3>1, <3>2, <3>3
  <2>7. ASSUME NEW r \in 1 .. Claimed
        PROVE  \E u \in Workers : r \in Chunk(u)' \/ r \in Seen(u, GroupOf[r])'
    <3>1. GroupOf[r] \in Groups
      BY <1>2, RowsHaveGroups
    <3>2. PICK u \in Workers : r \in Chunk(u) \/ r \in Seen(u, GroupOf[r])
      BY <1>1, <1>2 DEF RowsInv
    <3>3. CASE u = w
      BY <1>7, <3>1, <3>2, <3>3
    <3>4. CASE u # w
      BY <1>8, <1>10, <3>1, <3>2, <3>4
    <3>5. QED
      BY <3>3, <3>4
  <2>8. QED
    BY <1>4, <2>4, <2>5, <2>6, <2>7 DEF RowsInv
<1>12. MergeInv'
  <2>1. ASSUME NEW u \in Workers, work[u].at \in {"merge", "finished"}
        PROVE  /\ work'[u].at \in {"merge", "finished"}
               /\ \A h \in Groups : local'[u][h] = local[u][h] /\ Seen(u, h)' = Seen(u, h)
    <3>1. u # w
      BY <1>2, <2>1
    <3>2. QED
      BY <1>2, <1>3, <1>8, <2>1, <3>1
  <2>2. \A u \in Workers : work'[u].at = "finished" => work[u].at = "finished"
    BY <1>3
  <2>3. QED
    BY <1>1, <1>2, <1>9, <2>1, <2>2, MergeKept
<1>13. ResultInv'
  BY <1>1, <1>2, ResultStays DEF Types
<1>14. QED
  BY <1>11, <1>12, <1>13 DEF Counting

\* The instance of a worker goes into the one of the query.
LEMMA CombineCounting ==
  ASSUME Types, Owned, Progress, Counting, NEW w \in Workers, NEW g \in Groups,
         agg_combine(w, g), init_data' = init_data
  PROVE  Counting'
<1>1. RowsInv /\ MergeInv /\ ResultInv
  BY DEF Counting
<1>2. /\ query.status = "running" /\ work[w].at = "merge" /\ query' = query /\ scan' = scan /\ work' = work
      /\ local[w][g] # Null /\ global[g] # Null /\ <<w, g>> \notin combined
      /\ combined' = combined \cup {<<w, g>>}
      /\ local' = local /\ global' = global /\ has_combine' = has_combine /\ result' = result
  BY DEF agg_combine, Combines, At, udfRest
<1>3. global[g] = GlobalOf(g) /\ GlobalOf(g) \in DOMAIN objects
  BY <1>2, InstanceIs
<1>4. /\ objects'[global[g]] = Merged(objects[global[g]], objects[local[w][g]])
      /\ \A o \in DOMAIN objects : o # GlobalOf(g) => objects'[o] = objects[o]
  BY <1>3 DEF agg_combine
<1>5. ASSUME NEW u \in Workers, NEW h \in Groups, local[u][h] # Null
      PROVE  objects'[local[u][h]] = objects[local[u][h]]
  BY <1>2, <1>4, <1>5, InstanceIs, GlobalsDiffer
<1>6. ASSUME NEW h \in Groups, h # g, global[h] # Null
      PROVE  objects'[global[h]] = objects[global[h]]
  BY <1>2, <1>4, <1>6, InstanceIs, GlobalsDiffer
<1>7. \A u \in Workers, h \in Groups : Seen(u, h)' = Seen(u, h)
  BY <1>2, <1>5 DEF Seen
<1>8. \A h \in Groups : h # g => Taken(h)' = Taken(h)
  BY <1>2 DEF Taken
<1>9. Taken(g)' = Taken(g) \cup {w} /\ w \notin Taken(g) /\ Taken(g) \subseteq Workers
  BY <1>2 DEF Taken
<1>10. RowsInv'
  <2>1. Claimed' = Claimed
    BY <1>2 DEF Claimed
  <2>2. QED
    BY <1>1, <1>2, <1>5, <2>1, RowsKept
<1>11. MergeInv'
  <2>1. \A u \in Workers : \A h \in Groups :
          <<u, h>> \in combined' =>
            work'[u].at \in {"merge", "finished"} /\ local'[u][h] # Null /\ global'[h] # Null
    BY <1>1, <1>2 DEF MergeInv
  <2>2. \A u \in Workers :
          work'[u].at = "finished" => \A h \in Groups : local'[u][h] # Null => <<u, h>> \in combined'
    BY <1>1, <1>2 DEF MergeInv
  <2>3. \A h \in Groups : global'[h] # Garbage
    BY <1>1, <1>2 DEF MergeInv
  <2>4. ASSUME NEW h \in Groups, global'[h] # Null
        PROVE  /\ \E u \in Workers : local'[u][h] # Null /\ work'[u].at \in {"merge", "finished"}
               /\ has_combine' =>
                    objects'[global'[h]] = SetToBag(UNION {Seen(u, h)' : u \in Taken(h)'})
               /\ ~has_combine' =>
                    \/ Taken(h)' = {} /\ objects'[global'[h]] = EmptyBag
                    \/ \E u \in Taken(h)' : objects'[global'[h]] = SetToBag(Seen(u, h)')
    <3>1. CASE h = g
      <4>1. objects[local[w][g]] = SetToBag(Seen(w, g))
        BY <1>1, <1>2 DEF RowsInv
      <4>2. \E u \in Workers : local'[u][h] # Null /\ work'[u].at \in {"merge", "finished"}
        BY <1>2, <3>1
      <4>3. ASSUME has_combine
            PROVE  objects'[global[g]] = SetToBag(UNION {Seen(u, g)' : u \in Taken(g)'})
        <5>1. objects[global[g]] = SetToBag(UNION {Seen(u, g) : u \in Taken(g)})
          BY <1>1, <1>2, <4>3 DEF MergeInv
        <5>2. PICK U : U = UNION {Seen(u, g) : u \in Taken(g)}
          OBVIOUS
        <5>3. \A u \in Taken(g) : Seen(u, g) \cap Seen(w, g) = {}
          BY <1>1, <1>2, <1>9 DEF RowsInv
        <5>4. U \cap Seen(w, g) = {}
          BY <5>2, <5>3
        <5>5. objects'[global[g]] = SetToBag(U) (+) SetToBag(Seen(w, g))
          BY <1>4, <4>1, <4>3, <5>1, <5>2 DEF Merged
        <5>6. {Seen(u, g)' : u \in Taken(g)'} = {Seen(u, g) : u \in Taken(g) \cup {w}}
          BY <1>7, <1>9
        <5>7. UNION {Seen(u, g) : u \in Taken(g) \cup {w}} = U \cup Seen(w, g)
          BY <5>2
        <5>8. QED
          BY <5>4, <5>5, <5>6, <5>7, DisjointBags
      <4>4. ASSUME ~has_combine
            PROVE  \E u \in Taken(g)' : objects'[global[g]] = SetToBag(Seen(u, g)')
        <5>1. objects'[global[g]] = SetToBag(Seen(w, g)')
          BY <1>4, <1>7, <4>1, <4>4 DEF Merged
        <5>2. w \in Taken(g)'
          BY <1>9
        <5>3. QED
          BY <5>1, <5>2
      <4>5. QED
        BY <1>2, <3>1, <4>2, <4>3, <4>4
    <3>2. CASE h # g
      <4>1. global[h] # Null /\ objects'[global'[h]] = objects[global[h]] /\ Taken(h)' = Taken(h)
        BY <1>2, <1>6, <1>8, <2>4, <3>2
      <4>2. {Seen(u, h)' : u \in Taken(h)'} = {Seen(u, h) : u \in Taken(h)}
        BY <1>7, <4>1 DEF Taken
      <4>3. \E u \in Workers : local'[u][h] # Null /\ work'[u].at \in {"merge", "finished"}
        BY <1>1, <1>2, <4>1 DEF MergeInv
      <4>4. has_combine' => objects'[global'[h]] = SetToBag(UNION {Seen(u, h)' : u \in Taken(h)'})
        BY <1>1, <1>2, <4>1, <4>2 DEF MergeInv
      <4>5. ~has_combine' =>
              \/ Taken(h)' = {} /\ objects'[global'[h]] = EmptyBag
              \/ \E u \in Taken(h)' : objects'[global'[h]] = SetToBag(Seen(u, h)')
        <5>1. ~has_combine =>
                \/ Taken(h) = {} /\ objects[global[h]] = EmptyBag
                \/ \E u \in Taken(h) : objects[global[h]] = SetToBag(Seen(u, h))
          BY <1>1, <1>2, <4>1 DEF MergeInv
        <5>2. \A u \in Taken(h) : Seen(u, h)' = Seen(u, h)
          BY <1>7 DEF Taken
        <5>3. QED
          BY <1>2, <4>1, <5>1, <5>2
      <4>6. QED
        BY <4>3, <4>4, <4>5
    <3>3. QED
      BY <3>1, <3>2
  <2>5. QED
    BY <2>1, <2>2, <2>3, <2>4 DEF MergeInv
<1>12. ResultInv'
  BY <1>1, <1>2, ResultStays DEF Types
<1>13. QED
  BY <1>10, <1>11, <1>12 DEF Counting

\* A worker that has merged has taken part with all it had.
LEMMA MergesCounting ==
  ASSUME Types, Progress, Counting, NEW w \in Workers, Merges(w), init_data' = init_data
  PROVE  Counting'
<1>1. RowsInv /\ MergeInv /\ ResultInv
  BY DEF Counting
<1>2. /\ query.status = "running" /\ work[w].at = "merge" /\ query' = query /\ scan' = scan
      /\ objects' = objects /\ Goes(w, "finished", <<>>)
      /\ \A g \in Groups : local[w][g] # Null => <<w, g>> \in combined
      /\ local' = local /\ global' = global
      /\ combined' = combined /\ has_combine' = has_combine /\ result' = result
  BY DEF Merges, At, aggVars
<1>3. work'[w].at = "finished" /\ work'[w].chunk = <<>> /\ \A u \in Workers : u # w => work'[u] = work[u]
  BY <1>2, EmptyChunk, StageNames, GoesIs
<1>4. work[w].chunk = <<>>
  BY <1>2 DEF Progress
<1>5. RowsInv'
  <2>1. Claimed' = Claimed
    BY <1>2 DEF Claimed
  <2>2. \A u \in Workers : /\ work'[u].chunk = work[u].chunk
                           /\ work[u].at = "update" => work'[u].at = "update"
    BY <1>2, <1>3, <1>4
  <2>3. QED
    BY <1>1, <1>2, <2>1, <2>2, RowsKept
<1>6. MergeInv'
  <2>1. \A u \in Workers, g \in Groups : Seen(u, g)' = Seen(u, g)
    BY <1>2 DEF Seen
  <2>2. \A u \in Workers : work[u].at \in {"merge", "finished"} => work'[u].at \in {"merge", "finished"}
    BY <1>3
  <2>3. \A u \in Workers : work'[u].at = "finished" /\ work[u].at # "finished" => u = w
    BY <1>3
  <2>4. QED
    BY <1>1, <1>2, <2>1, <2>2, <2>3, MergeKept
<1>7. ResultInv'
  BY <1>1, <1>2, ResultStays DEF Types
<1>8. QED
  BY <1>5, <1>6, <1>7 DEF Counting

\* The values of the next groups go into the next slots.
LEMMA FinalizeCounting ==
  ASSUME Types, Progress, Counting, NEW count \in 1 .. NGroups, NEW none \in SUBSET Groups,
         agg_finalize(count, none), init_data' = init_data
  PROVE  Counting'
<1>1. RowsInv /\ MergeInv /\ ResultInv
  BY DEF Counting
<1>2. /\ query.status = "running" /\ query' = query /\ scan' = scan /\ work' = work
      /\ objects' = objects /\ local' = local /\ global' = global
      /\ combined' = combined /\ has_combine' = has_combine
      /\ \A w \in Workers : work[w].at = "finished"
      /\ result.offset + count <= Cardinality(Found)
  BY DEF agg_finalize, CanFinalize, udfRest
<1>3. RowsInv'
  <2>1. Claimed' = Claimed
    BY <1>2 DEF Claimed
  <2>2. QED
    BY <1>1, <1>2, <2>1, RowsKept
<1>4. MergeInv'
  <2>1. \A u \in Workers, g \in Groups : Seen(u, g)' = Seen(u, g)
    BY <1>2 DEF Seen
  <2>2. QED
    BY <1>1, <1>2, <2>1, MergeKept
<1>5. ResultInv'
  <2>1. PICK n \in Nat, k \in Nat : n = result.offset /\ k = n + count /\ k <= Cardinality(Found)
    <3>1. result.offset \in Nat /\ count \in Nat
      BY UdfSizes DEF Types
    <3>2. result.offset + count \in Nat
      BY <3>1
    <3>3. QED
      BY <1>2, <3>1, <3>2
  <2>2. Found' = Found /\ Found \subseteq Groups
    BY <1>2 DEF Found, Groups
  <2>3. Cardinality(Found) \in Nat /\ Cardinality(Found) <= NGroups /\ NGroups \in Nat
    BY <2>2, GroupsFinite, UdfSizes
  <2>4. /\ result'.offset = k
        /\ \A i \in Groups : result'.slots[i] =
             IF i > n /\ i <= k
             THEN IF Nth(Found, i) \in none THEN Null ELSE objects[global[Nth(Found, i)]]
             ELSE result.slots[i]
    BY <2>1 DEF agg_finalize
  <2>5. ASSUME NEW i \in 1 .. k
        PROVE  result'.slots[i] \in {Null, objects[global[Nth(Found, i)]]}
    <3>1. i \in Groups
      BY <2>1, <2>3 DEF Groups
    <3>2. CASE i > n /\ i <= k
      BY <2>4, <3>1, <3>2
    <3>3. CASE ~(i > n)
      <4>1. i \in 1 .. n
        BY <3>3
      <4>2. result.slots[i] \in {Null, objects[global[Nth(Found, i)]]}
        BY <1>1, <1>2, <2>1, <4>1 DEF ResultInv
      <4>3. QED
        BY <2>4, <3>1, <3>3, <4>2
    <3>4. i <= k
      OBVIOUS
    <3>5. QED
      BY <3>2, <3>3, <3>4
  <2>6. QED
    BY <1>2, <2>1, <2>2, <2>4, <2>5 DEF ResultInv
<1>6. QED
  BY <1>3, <1>4, <1>5 DEF Counting

\* The callbacks of an aggregate UDF.
LEMMA AggregateCounting ==
  ASSUME Types, Owned, Progress, Counting, Aggregate
  PROVE  Counting'
<1>1. query \in Runs /\ init_data' = init_data
  BY DEF Aggregate, Types
<1>2. CASE SetError \/ query' = [query EXCEPT !.status = "failed", !.init_raised = TRUE]
  <2>1. query'.status = "failed"
    BY <1>1, <1>2, StatusSet, RaisedSet DEF SetError
  <2>2. QED
    BY <2>1, CountingStops
<1>3. ASSUME NEW w \in Workers, NEW g \in Groups, agg_init(w, g)
      PROVE  Counting'
  <2>1. /\ query' = query /\ work' = work /\ scan' = scan
        /\ combined' = combined /\ has_combine' = has_combine /\ result' = result
    BY <1>3 DEF agg_init, udfRest
  <2>2. CASE /\ At(w, "update") /\ g \in Met(work[w].chunk) /\ local[w][g] = Null
             /\ Creates(LocalOf(w, g)) /\ local' = [local EXCEPT ![w][g] = LocalOf(w, g)]
             /\ UNCHANGED global
    BY <1>1, <2>1, <2>2, InitLocalCounting DEF At
  <2>3. CASE /\ At(w, "merge") /\ local[w][g] # Null /\ global[g] = Null
             /\ Creates(GlobalOf(g)) /\ global' = [global EXCEPT ![g] = GlobalOf(g)]
             /\ UNCHANGED local
    BY <1>1, <2>1, <2>3, InitGlobalCounting DEF At
  <2>4. QED
    BY <1>3, <2>2, <2>3 DEF agg_init
<1>4. ASSUME NEW w \in Workers, NEW g \in Groups, agg_destroy(w, g)
      PROVE  Counting'
  BY <1>4, CountingStops DEF agg_destroy, Over
<1>5. QED
  BY <1>1, <1>2, <1>3, <1>4, UpdateCounting, CombineCounting, MergesCounting, FinalizeCounting
  DEF Aggregate, agg_init_raises, agg_update_raises, agg_combine_raises, agg_finalize_raises

-----------------------------------------------------------------------------
(* The answer.                                                             *)

\* A bag of fewer rows is less.
LEMMA SmallerBag ==
  ASSUME NEW S, NEW T, S \subseteq T
  PROVE  SetToBag(S) \sqsubseteq SetToBag(T)
BY DEF SetToBag, \sqsubseteq

\* When every worker has merged, the groups of the query are those of the source, and each
\* has the rows of the group, or without a combine() those of one of its workers.
LEMMA AllCounted ==
  ASSUME Types, Progress, Counting, query.status = "running",
         \A w \in Workers : work[w].at = "finished"
  PROVE  /\ Found = Met(Source)
         /\ \A g \in Found :
              LET alone == Cardinality({w \in Workers : <<w, g>> \in combined}) = 1
              IN  \/ objects[global[g]] = Answer(g)
                  \/ ~has_combine /\ ~alone /\ objects[global[g]] \sqsubseteq Answer(g)
<1>1. RowsInv /\ MergeInv
  BY DEF Counting
<1>2. /\ query.size \in Nat /\ Claimed = query.size
      /\ \A r \in 1 .. query.size : GroupOf[r] \in Groups
  BY RowsHaveGroups DEF Progress
<1>3. RowsOf(Source) = 1 .. query.size
  BY <1>2 DEF RowsOf, Source
<1>4. Met(Source) = {GroupOf[r] : r \in 1 .. query.size}
  BY <1>3 DEF Met
<1>5. \A g : InGroup(Source, g) = {r \in 1 .. query.size : GroupOf[r] = g}
  BY <1>3 DEF InGroup
<1>6. \A w \in Workers : Chunk(w) = {}
  BY NoRows DEF Progress, Chunk
<1>7. \A w \in Workers, g \in Groups : Seen(w, g) \subseteq InGroup(Source, g)
  BY <1>1, <1>2, <1>5 DEF RowsInv
<1>8. \A w \in Workers, g \in Groups : Seen(w, g) # {} => local[w][g] # Null
  BY DEF Seen
<1>9. \A w \in Workers, g \in Groups : local[w][g] # Null => Seen(w, g) # {} /\ w \in Taken(g)
  BY <1>1 DEF RowsInv, MergeInv, Taken
<1>10. \A g \in Groups, r \in 1 .. query.size : GroupOf[r] = g => \E w \in Taken(g) : r \in Seen(w, g)
  <2>1. SUFFICES ASSUME NEW g \in Groups, NEW r \in 1 .. query.size, GroupOf[r] = g
                 PROVE  \E w \in Taken(g) : r \in Seen(w, g)
    OBVIOUS
  <2>2. PICK w \in Workers : r \in Chunk(w) \/ r \in Seen(w, GroupOf[r])
    BY <1>1, <1>2 DEF RowsInv
  <2>3. r \in Seen(w, g)
    BY <1>6, <2>1, <2>2
  <2>4. w \in Taken(g)
    BY <1>8, <1>9, <2>3
  <2>5. QED
    BY <2>3, <2>4
<1>11. \A g \in Groups : Taken(g) \subseteq Workers
  BY DEF Taken
<1>12. \A g \in Groups : (\E w \in Taken(g) : TRUE) => global[g] # Null
  BY <1>1 DEF MergeInv, Taken
<1>13. Found = Met(Source)
  <2>1. ASSUME NEW g \in Found
        PROVE  g \in Met(Source)
    <3>1. g \in Groups /\ global[g] # Null
      BY DEF Found
    <3>2. PICK w \in Workers : local[w][g] # Null
      BY <1>1, <3>1 DEF MergeInv
    <3>3. PICK r : r \in Seen(w, g)
      BY <1>9, <3>1, <3>2
    <3>4. r \in InGroup(Source, g)
      BY <1>7, <3>1, <3>3
    <3>5. QED
      BY <1>4, <1>5, <3>4
  <2>2. ASSUME NEW g \in Met(Source)
        PROVE  g \in Found
    <3>1. PICK r \in 1 .. query.size : g = GroupOf[r]
      BY <1>4
    <3>2. g \in Groups
      BY <1>2, <3>1
    <3>3. QED
      BY <1>10, <1>12, <3>1, <3>2 DEF Found
  <2>3. QED
    BY <2>1, <2>2
<1>14. ASSUME NEW g \in Found
       PROVE  LET alone == Cardinality({w \in Workers : <<w, g>> \in combined}) = 1
              IN  \/ objects[global[g]] = Answer(g)
                  \/ ~has_combine /\ ~alone /\ objects[global[g]] \sqsubseteq Answer(g)
  <2>1. g \in Groups /\ global[g] # Null
    BY DEF Found
  <2>2. Answer(g) = SetToBag(InGroup(Source, g))
    BY DEF Answer
  <2>3. CASE has_combine
    <3>1. objects[global[g]] = SetToBag(UNION {Seen(w, g) : w \in Taken(g)})
      BY <1>1, <2>1, <2>3 DEF MergeInv
    <3>2. UNION {Seen(w, g) : w \in Taken(g)} \subseteq InGroup(Source, g)
      BY <1>7, <1>11, <2>1
    <3>3. InGroup(Source, g) \subseteq UNION {Seen(w, g) : w \in Taken(g)}
      BY <1>5, <1>10, <2>1
    <3>4. UNION {Seen(w, g) : w \in Taken(g)} = InGroup(Source, g)
      BY <3>2, <3>3
    <3>5. QED
      BY <2>2, <3>1, <3>4
  <2>4. CASE ~has_combine
    <3>1. PICK v \in Workers : local[v][g] # Null
      BY <1>1, <2>1 DEF MergeInv
    <3>2. Taken(g) # {}
      BY <1>9, <2>1, <3>1
    <3>3. PICK w \in Taken(g) : objects[global[g]] = SetToBag(Seen(w, g))
      BY <1>1, <2>1, <2>4, <3>2 DEF MergeInv
    <3>4. Seen(w, g) \subseteq InGroup(Source, g)
      BY <1>7, <1>11, <2>1
    <3>5. CASE Cardinality(Taken(g)) = 1
      <4>1. IsFiniteSet(Taken(g))
        <5>1. Taken(g) \in SUBSET Workers
          BY <1>11, <2>1
        <5>2. QED
          BY <5>1, UdfSizes, FS_Subset
      <4>2. \E x : Taken(g) = {x}
        BY <3>5, <4>1, FS_Singleton
      <4>3. Taken(g) = {w}
        BY <4>2
      <4>4. InGroup(Source, g) \subseteq Seen(w, g)
        BY <1>5, <1>10, <2>1, <4>3
      <4>5. Seen(w, g) = InGroup(Source, g)
        BY <3>4, <4>4
      <4>6. QED
        BY <2>2, <3>3, <4>5
    <3>6. CASE ~(Cardinality(Taken(g)) = 1)
      <4>1. objects[global[g]] \sqsubseteq Answer(g)
        BY <2>2, <3>3, <3>4, SmallerBag
      <4>2. QED
        BY <2>4, <3>6, <4>1 DEF Taken
    <3>7. QED
      BY <3>5, <3>6
  <2>5. QED
    BY <2>3, <2>4
<1>15. QED
  BY <1>13, <1>14

\* The query ends with the answer.
LEMMA FinishCounted ==
  ASSUME Types, Progress, Counting, Finish
  PROVE  EveryRowCounted'
<1>1. /\ query.status = "running" /\ \A w \in Workers : work[w].at = "finished"
      /\ result.offset = Cardinality(Found)
      /\ result' = result /\ combined' = combined /\ has_combine' = has_combine
  BY DEF Finish, aggVars
<1>2. query'.size = query.size
  BY StatusSet DEF Finish, Types
<1>3. Source' = Source
  BY <1>2 DEF Source
<1>4. /\ Met(Source)' = Met(Source) /\ \A g : Answer(g)' = Answer(g)
  BY <1>3 DEF Met, Answer, InGroup
<1>5. /\ Found = Met(Source)
      /\ \A g \in Found :
           LET alone == Cardinality({w \in Workers : <<w, g>> \in combined}) = 1
           IN  \/ objects[global[g]] = Answer(g)
               \/ ~has_combine /\ ~alone /\ objects[global[g]] \sqsubseteq Answer(g)
  BY <1>1, AllCounted
<1>6. ASSUME NEW i \in 1 .. result.offset, NEW g, g = Nth(Found, i)
      PROVE  \/ result.slots[i] \in {Null, Answer(g)}
             \/ /\ ~has_combine /\ ~(Cardinality({w \in Workers : <<w, g>> \in combined}) = 1)
                /\ result.slots[i] \sqsubseteq Answer(g)
  <2>1. g \in Found
    <3>1. Found \subseteq Groups
      BY DEF Found, Groups
    <3>2. QED
      BY <1>1, <1>6, <3>1, NthIs
  <2>2. result.slots[i] \in {Null, objects[global[g]]}
    BY <1>1, <1>6 DEF Counting, ResultInv
  <2>3. CASE result.slots[i] = Null
    BY <2>3
  <2>4. CASE result.slots[i] = objects[global[g]]
    BY <1>5, <2>1, <2>4
  <2>5. QED
    BY <2>2, <2>3, <2>4
<1>7. QED
  BY <1>1, <1>4, <1>5, <1>6 DEF EveryRowCounted

\* What a query has answered stays, until the next one.
LEMMA CountedStep ==
  ASSUME Types, Progress, Counting, EveryRowCounted, Next
  PROVE  EveryRowCounted'
<1>1. query \in Runs
  BY DEF Types
<1>2. CASE query'.status # "done"
  BY <1>2 DEF EveryRowCounted
<1>3. CASE query' = query /\ result' = result /\ combined' = combined /\ has_combine' = has_combine
  <2>1. Source' = Source
    BY <1>3 DEF Source
  <2>2. /\ Met(Source)' = Met(Source) /\ \A g : Answer(g)' = Answer(g)
    BY <2>1 DEF Met, Answer, InGroup
  <2>3. QED
    BY <1>3, <2>2 DEF EveryRowCounted
<1>4. CASE SetError \/ query' = [query EXCEPT !.status = "idle"]
           \/ query' = [query EXCEPT !.status = "failed", !.init_raised = TRUE]
  BY <1>1, <1>2, <1>4, StatusSet, RaisedSet DEF SetError
<1>5. CASE query' = query /\ query.status = "running"
  BY <1>2, <1>5
<1>6. CASE Engine
  <2>1. ASSUME NEW source, NEW n, NEW udf, NEW ws, Start(source, n, udf, ws)
        PROVE  query'.status # "done"
    BY <1>1, <2>1 DEF Start, Runs
  <2>2. QED
    BY <1>2, <1>4, <1>5, <1>6, <2>1, FinishCounted DEF Engine, ScanRows, At, Abandon, CleanUp
<1>7. CASE Scalar
  <2>1. query' = query \/ SetError
    BY <1>7
    DEF Scalar, udf_init_trampoline, udf_init_raises, udf_trampoline, udf_raises, udf_state_destroy,
        arrow_udf_trampoline, import_from_c, export_to_c, from_arrow, arrow_udf_returns,
        arrow_udf_raises
  <2>2. QED
    BY <1>3, <1>4, <1>7, <2>1 DEF Scalar, aggVars
<1>8. CASE Table
  <2>1. query' = query \/ SetError
    BY <1>8
    DEF Table, table_bind, table_init, table_init_raises, init_data_destroy, bind_data_destroy,
        table_main, table_main_raises
  <2>2. QED
    BY <1>3, <1>4, <1>8, <2>1 DEF Table, aggVars
<1>9. CASE Aggregate
  <2>1. CASE \E w \in Workers, g \in Groups : agg_destroy(w, g)
    BY <1>3, <2>1 DEF agg_destroy
  <2>2. CASE query' = query /\ query.status = "running"
    BY <1>5, <2>2
  <2>3. QED
    BY <1>4, <1>9, <2>1, <2>2, ZenonT(60)
    DEF Aggregate, agg_update, agg_update_raises, Ready, Merges, agg_init, agg_init_raises,
        agg_combine, agg_combine_raises, Combines, agg_finalize, agg_finalize_raises, CanFinalize, At,
        udfRest
<1>10. QED
  BY <1>6, <1>7, <1>8, <1>9 DEF Next

-----------------------------------------------------------------------------
(* The theorems.                                                           *)

\* The invariant holds at the start, ...
LEMMA InitInv ==
  ASSUME Init
  PROVE  Inv
<1>1. DOMAIN objects = {} /\ objects = EmptyBag
  BY NewBag DEF Init
<1>2. /\ query.status = "idle" /\ query.source = "rows" /\ query.size = 0 /\ ~query.init_raised
      /\ frame = Null /\ wild = {} /\ bound = Null /\ init_data.generator = Null
  BY DEF Init, NoInitData
<1>3. /\ \A w \in Workers : /\ state[w] = Null /\ local[w] = NoSlots
                            /\ work[w].at = "finished" /\ work[w].chunk = <<>>
                            /\ \A g \in Groups : local[w][g] = Null
      /\ \A g \in Groups : global[g] = Null
  BY DEF Init, Resting, NoSlots
<1>4. Types
  <2>1. query \in Runs
    BY DEF Init, Runs
  <2>2. work \in [Workers -> [at : Stages, chunk : Seq(1 .. query.size)]]
    BY EmptyChunk, StageNames DEF Init, Resting
  <2>3. init_data \in Reading
    <3>1. <<>> \in Seq(Nat)
      OBVIOUS
    <3>2. QED
      BY <3>1 DEF Init, NoInitData, Reading
  <2>4. local \in [Workers -> [Groups -> LocalNames \cup {Null, Garbage}]]
    BY DEF Init, NoSlots
  <2>5. global \in [Groups -> GlobalNames \cup {Null, Garbage}]
    BY DEF Init, NoSlots
  <2>6. result.offset \in Nat /\ combined \in SUBSET (Workers \X Groups) /\ has_combine \in BOOLEAN
        /\ scan \in Nat /\ state \in [Workers -> StateNames \cup {Null}]
    BY DEF Init, NoResult, create_aggregate_function
  <2>7. QED
    BY <1>2, <2>1, <2>2, <2>3, <2>4, <2>5, <2>6 DEF Types
<1>5. Owned
  <2>1. \A w \in Workers : /\ StateOf(w) # Null
                           /\ \A g \in Groups : LocalOf(w, g) # Null
    BY StatesDiffer, LocalsDiffer
  <2>2. \A g \in Groups : GlobalOf(g) # Null
    BY GlobalsDiffer
  <2>3. BindData # Null /\ Generator # Null /\ Null # Garbage
    BY OthersDiffer, NullIsNoObject
  <2>4. QED
    BY <1>1, <1>2, <1>3, <2>1, <2>2, <2>3 DEF Owned
<1>6. Framed
  BY <1>1, <1>2 DEF Framed
<1>7. Rested
  BY <1>3 DEF Rested, Init
<1>8. Progress
  <2>1. Len(<<>>) <= Batch
    BY NoRows, UdfSizes
  <2>2. QED
    BY <1>2, <1>3, <2>1 DEF Progress
<1>9. RowsInv /\ MergeInv /\ ResultInv /\ EveryRowCounted
  BY <1>2 DEF RowsInv, MergeInv, ResultInv, EveryRowCounted
<1>10. QED
  BY <1>4, <1>5, <1>6, <1>7, <1>8, <1>9 DEF Inv

\* ... is kept by every step, ...
LEMMA NextInv ==
  ASSUME Inv, Next
  PROVE  Inv'
<1>1. /\ Types /\ Owned /\ Framed /\ Rested /\ Progress /\ Counting /\ EveryRowCounted
  BY DEF Inv, Counting
<1>2. Types'
  BY <1>1, ScalarTypes, TableTypesStep, AggregateTypes, EngineTypes DEF Next
<1>3. Owned'
  BY <1>1, ScalarOwned, TableOwned, AggregateOwned, EngineOwned DEF Next
<1>4. Framed'
  BY <1>1, ScalarFramed, TableFramed, AggregateFramed, EngineFramed DEF Next
<1>5. Rested'
  BY <1>1, RestedStep
<1>6. Progress'
  BY <1>1, ScalarProgress, TableProgress, AggregateProgress, EngineProgress DEF Next
<1>7. Counting'
  BY <1>1, ScalarCounting, TableCounting, AggregateCounting, EngineCounting DEF Next
<1>8. EveryRowCounted'
  BY <1>1, CountedStep
<1>9. QED
  BY <1>2, <1>3, <1>4, <1>5, <1>6, <1>7, <1>8 DEF Inv, Counting

\* ... and by a step of something else.
LEMMA StutterInv ==
  ASSUME Inv, UNCHANGED vars
  PROVE  Inv'
<1>1. /\ query' = query /\ work' = work /\ scan' = scan /\ objects' = objects /\ frame' = frame
      /\ wild' = wild /\ state' = state /\ bound' = bound /\ init_data' = init_data
      /\ has_combine' = has_combine /\ local' = local /\ global' = global
      /\ combined' = combined /\ result' = result
  BY DEF vars, udfVars, aggVars
<1>2. Types' /\ Owned' /\ Framed' /\ Rested' /\ Progress'
  BY <1>1 DEF Inv, Types, Owned, Framed, Rested, Progress, Claimed
<1>3. Counting'
  <2>1. CASE query.status # "running"
    BY <1>1, <2>1, CountingStops
  <2>2. CASE query.status = "running"
    <3>1. Types /\ Progress /\ Counting
      BY DEF Inv, Counting
    <3>2. Claimed' = Claimed
      BY <1>1 DEF Claimed
    <3>3. QED
      BY <1>1, <2>2, <3>1, <3>2, CountingKept
  <2>3. QED
    BY <2>1, <2>2
<1>4. EveryRowCounted'
  BY <1>1 DEF Inv, EveryRowCounted, Found, Source, Answer, Met, InGroup
<1>5. QED
  BY <1>2, <1>3, <1>4 DEF Inv, Counting

\* The invariant holds always.
THEOREM InvHolds == Spec => []Inv
BY InitInv, NextInv, StutterInv, PTL DEF Spec

\* No slot dangles: what the engine holds as a bare pointer is null, or a live object of
\* the slot's own, or what a failed agg_init left (src/cpp/function.cpp, table.cpp,
\* aggregate.cpp).
THEOREM TypeCorrect == Spec => []TypeOK
<1>1. Inv => TypeOK
  <2>1. SUFFICES ASSUME Inv
                 PROVE  TypeOK
    OBVIOUS
  <2>2. Types /\ Owned /\ Framed /\ Progress
    BY <2>1 DEF Inv
  <2>3. query.status \in {"idle", "running", "failed", "done"} /\ query.size \in Sizes \cup {0}
    BY <2>2 DEF Types, Runs
  <2>4. \A w \in Workers : /\ work[w].at \in {"new", "ready", "map", "update", "merge", "finished"}
                           /\ work[w].chunk \in Seq(1 .. query.size) /\ Len(work[w].chunk) <= Batch
    BY <2>2, WorkOf DEF Stages, Progress
  <2>5. Held \subseteq DOMAIN objects \cup {Null} /\ Garbage \notin Held
    <3>1. frame # Null => /\ frame.in \in Ins /\ frame.batch \in Ins
                          /\ frame.out \in Outs /\ frame.chunk \in Outs
      BY <2>2 DEF Types, Frames
    <3>2. Garbage # Null /\ Garbage \notin {ArrayOf("in"), ArrayOf("out")}
      BY NullIsNoObject, OthersDiffer
    <3>3. QED
      BY <2>2, <3>1, <3>2 DEF Held, Framed, Ins, Outs
  <2>6. {bound, init_data.generator} \subseteq DOMAIN objects \cup {Null}
        /\ Garbage \notin {bound, init_data.generator}
    <3>1. bound \in {Null, BindData} /\ init_data.generator \in {Null, Generator}
      BY <2>2, ReadingOf DEF Types
    <3>2. Garbage \notin {Null, BindData, Generator}
      BY NullIsNoObject, OthersDiffer
    <3>3. QED
      BY <2>2, <3>1, <3>2 DEF Owned
  <2>7. \A w \in Workers : /\ state[w] \in DOMAIN objects \cup {Null} /\ state[w] # Garbage
                           /\ \A g \in Groups : /\ local[w][g] \in DOMAIN objects \cup {Null, Garbage}
                                                /\ local[w][g] = Garbage => query.init_raised
    BY <2>2, StatesDiffer, NullIsNoObject DEF Owned
  <2>8. \A g \in Groups : /\ global[g] \in DOMAIN objects \cup {Null, Garbage}
                          /\ global[g] = Garbage => query.init_raised
    BY <2>2 DEF Owned
  <2>9. Slots \subseteq DOMAIN objects \cup {Null, Garbage}
    BY <2>5, <2>6, <2>7, <2>8 DEF Slots
  <2>10. Garbage \in Slots => query.init_raised
    BY <2>5, <2>6, <2>7, <2>8 DEF Slots
  <2>11. QED
    BY <2>3, <2>4, <2>9, <2>10 DEF TypeOK
<1>2. QED
  BY <1>1, InvHolds, PTL

\* Every Python object and every Arrow array the engine is given is released exactly once,
\* whatever raises: a live one is in a slot, none but the plan's arguments outlives its
\* query, and none is released again.  The one pointer ever released that is no object's
\* is what the memory of a state held whose agg_init raised (aggregate.cpp:30, 42).
THEOREM EveryObjectReleasedOnce == Spec => []ReleasedOnce
<1>1. Inv => ReleasedOnce
  <2>1. SUFFICES ASSUME Inv
                 PROVE  ReleasedOnce
    OBVIOUS
  <2>2. Types /\ Owned /\ Framed /\ Rested
    BY <2>1 DEF Inv
  <2>3. ASSUME NEW o \in DOMAIN objects
        PROVE  o \in Slots
    <3>1. o \in Roles
      BY <2>2 DEF Owned
    <3>2. CASE \E w \in Workers : o = StateOf(w)
      BY <2>2, <3>2 DEF Owned, Slots
    <3>3. CASE \E w \in Workers, g \in Groups : o = LocalOf(w, g)
      BY <2>2, <3>3 DEF Owned, Slots
    <3>4. CASE \E g \in Groups : o = GlobalOf(g)
      BY <2>2, <3>4 DEF Owned, Slots
    <3>5. CASE o \in {BindData, Generator}
      BY <2>2, <3>5 DEF Owned, Slots
    <3>6. CASE o \in {ArrayOf("in"), ArrayOf("out")}
      <4>1. frame # Null => /\ frame.in \in Ins /\ frame.batch \in Ins
                            /\ frame.out \in Outs /\ frame.chunk \in Outs
        BY <2>2 DEF Types, Frames
      <4>2. o \in Held
        BY <2>2, <3>6, <4>1 DEF Framed, Held, Ins, Outs
      <4>3. QED
        BY <4>2 DEF Slots
    <3>7. QED
      BY <3>1, <3>2, <3>3, <3>4, <3>5, <3>6 DEF Roles
  <2>4. query.status = "idle" => DOMAIN objects \subseteq {BindData}
    <3>1. SUFFICES ASSUME query.status = "idle", NEW o \in DOMAIN objects
                   PROVE  o = BindData
      OBVIOUS
    <3>2. /\ \A w \in Workers : state[w] = Null /\ \A g \in Groups : local[w][g] = Null
          /\ \A g \in Groups : global[g] = Null
          /\ init_data.generator = Null
      BY <2>2, <3>1 DEF Rested, NoSlots, NoInitData
    <3>3. frame = Null
      BY <2>2, <3>1 DEF Framed
    <3>4. o \in Roles
      BY <2>2 DEF Owned
    <3>5. \A w \in Workers : o # StateOf(w)
      BY <2>2, <3>2, StatesDiffer DEF Owned
    <3>6. \A w \in Workers, g \in Groups : o # LocalOf(w, g)
      BY <2>2, <3>2, LocalsDiffer DEF Owned
    <3>7. \A g \in Groups : o # GlobalOf(g)
      BY <2>2, <3>2, GlobalsDiffer DEF Owned
    <3>8. o # Generator
      BY <2>2, <3>2, OthersDiffer DEF Owned
    <3>9. o \notin {ArrayOf("in"), ArrayOf("out")}
      BY <2>2, <3>3 DEF Framed
    <3>10. QED
      BY <3>4, <3>5, <3>6, <3>7, <3>8, <3>9 DEF Roles
  <2>5. wild \subseteq {Garbage} /\ (wild # {} => query.init_raised)
    BY <2>2 DEF Owned
  <2>6. QED
    BY <2>3, <2>4, <2>5 DEF ReleasedOnce
<1>2. QED
  BY <1>1, InvHolds, PTL

\* A query that ends has counted every row of its source once in its group, whichever
\* workers met it and in whatever order they merged, or said NULL; without a combine()
\* only a group that one worker met is whole (src/cpp/aggregate.cpp).
THEOREM EveryRowCountedTheorem == Spec => []EveryRowCounted
<1>1. Inv => EveryRowCounted
  BY DEF Inv
<1>2. QED
  BY <1>1, InvHolds, PTL

\* A table UDF's rows reach the query in the order of its generator, none is left out, and
\* all of them have come when the query ends (src/cpp/table.cpp).
THEOREM TableRowsComeInOrder == Spec => []TableRowsInOrder
<1>1. Inv => TableRowsInOrder
  BY DEF Inv, Progress, TableRowsInOrder
<1>2. QED
  BY <1>1, InvHolds, PTL
=============================================================================
