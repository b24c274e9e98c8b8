-------------------------- MODULE MCStatementCache --------------------------
(* Instances of StatementCache for TLC. *)
EXTENDS StatementCache, TLC

\* The handles are interchangeable, and so are the queries of one kind.
Symmetry == Permutations(Stmts) \cup Permutations(Queries \ Flushing)

\* What each call of run() asked for and was answered, until the cache has its statement
\* back; and what its plan was made against: the one behind the statement it holds.
Requests ==
  [t \in Threads |-> IF pc[t] \in {"prepare"} \cup Holding
                     THEN <<call[t].query, call[t].params>> ELSE None]
PlansOfCalls == [t \in Threads |-> IF pc[t] \in Holding THEN prep[call[t].stmt].plan ELSE None]
Answers == [t \in Threads |-> IF pc[t] = "ran" THEN result[t] ELSE None]

\* The plans in the cache, by query.
KeptPlans == {<<lru[i].query, prep[lru[i].stmt].plan>> : i \in DOMAIN lru}

\* The promise of run(), read off the state of run().
Promise == INSTANCE PlanningConnection WITH
  open <- status = "open", request <- Requests, plan <- PlansOfCalls, answer <- Answers,
  kept <- KeptPlans

\* run() with its cache keeps the promise of PlanningConnection: a call is answered with
\* its own query, its own parameters and a plan that it made, or that a call which returned
\* after the last flush left; no plan outlives a flush but in the hands of a call.
RunsAsPromised == Promise!Spec
=============================================================================
