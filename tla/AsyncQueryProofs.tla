-------------------------- MODULE AsyncQueryProofs --------------------------
(***************************************************************************)
(* Safety of AsyncQuery for any coroutines, UDFs and pool size.            *)
(*                                                                         *)
(* Nothing a coroutine does touches another coroutine's query, so the      *)
(* invariant is stated for one coroutine d; the only state they share that *)
(* matters is whether the event loop is inside of d's call.                *)
(***************************************************************************)
EXTENDS AsyncQuery, TLAPS

\* mu_ says who is inside the engine with d's pending query.
LocksMatch(d) ==
  /\ mu[d] = d <=> job[d] = "task"
  /\ mu[d] = Loop <=> OnLoop(d)

\* The event loop is inside a call of d while d is blocking, or reaps what d left.
LoopMatches(d) ==
  /\ coro[d] \in Blocking => loop = d
  /\ loop = d => coro[d] \in Blocking \cup {"dropped", "raised"}

\* When the pending query is there, and when it is not.
QueryIsThere(d) ==
  /\ coro[d] \in {"ticking", "sleeping", "cancelling", "erring", "materialize",
                  "materializing", "drain", "draining"} => pending[d] = "live"
  /\ coro[d] \in {"materialized", "drained", "returned", "aborted"} => pending[d] # "live"
  /\ coro[d] = "new" => pending[d] = "none" /\ state[d] = "NOT_READY"
  /\ state[d] = "CONSUMED" => pending[d] # "live"

\* Which job a coroutine may have: none once it has looked at the state, one that runs on
\* when it was cancelled or dropped.
JobFits(d) ==
  /\ coro[d] \in {"new", "sleeping", "erring", "materialize", "materializing",
                  "materialized", "returned", "raised"} => job[d] = "none"
  /\ coro[d] = "ticking" => job[d] \notin {"none", "reaping"}
  /\ job[d] = "task" => pending[d] = "live"
  /\ job[d] = "reaping" => coro[d] = "dropped"
  /\ coro[d] = "dropped" /\ job[d] # "none" => pending[d] = "live"
  /\ LoopReaps(d) => job[d] = "none" /\ pending[d] = "live"

QueryInv(d) == LocksMatch(d) /\ LoopMatches(d) /\ QueryIsThere(d) /\ JobFits(d)
Inv == Types /\ \A d \in Drives : QueryInv(d)

\* What a step on behalf of another coroutine leaves alone, as far as QueryInv(e) sees.
Kept(e) ==
  /\ coro'[e] = coro[e] /\ job'[e] = job[e] /\ state'[e] = state[e]
  /\ pending'[e] = pending[e] /\ mu'[e] = mu[e]
  /\ loop' = e <=> loop = e

\* The steps taken for coroutine d, by whichever thread.
StepFor(d) ==
  \/ Coroutine(d) \/ Cancel(d) \/ Drop(d) \/ ReapOnLoop(d) \/ ReapedOnLoop(d)
  \/ PoolThread(d) \/ UdfCalled(d) \/ UdfReturns(d)

\* What other coroutines do disturbs nothing of e's invariant.
LEMMA KeptInvariant ==
  ASSUME NEW e \in Drives, QueryInv(e), Kept(e)
  PROVE  QueryInv(e)'
BY DEF QueryInv, Kept, LocksMatch, LoopMatches, QueryIsThere, JobFits, OnLoop, LoopReaps

\* Every step keeps the types.
LEMMA TypesStep ==
  ASSUME Types, NEW d \in Drives, StepFor(d)
  PROVE  Types'
<1> USE DEF Types, Set, Interrupted, LoopRuns, Resume, Blocking, Ended, OnPool, engineVars
<1>1. CASE Start(d)  BY <1>1 DEF Start
<1>2. CASE StartFails(d)  BY <1>2 DEF StartFails
<1>3. CASE TickAgain(d)  BY <1>3 DEF TickAgain
<1>4. CASE Sleep(d)  BY <1>4 DEF Sleep
<1>5. CASE Wake(d)  BY <1>5 DEF Wake
<1>6. CASE AskError(d)  BY <1>6 DEF AskError
<1>7. CASE RaiseError(d)  BY <1>7 DEF RaiseError
<1>8. CASE Materialize(d)  BY <1>8 DEF Materialize
<1>9. CASE MaterializeLocks(d)  BY <1>9 DEF MaterializeLocks, Locks
<1>10. CASE MaterializeExecutes(d)  BY <1>10 DEF MaterializeExecutes, Executes
<1>11. CASE MaterializeReturns(d)  BY <1>11 DEF MaterializeReturns, Returns
<1>12. CASE Drain(d)  BY <1>12 DEF Drain
<1>13. CASE DrainLocks(d)  BY <1>13 DEF DrainLocks, Locks
<1>14. CASE DrainExecutes(d)  BY <1>14 DEF DrainExecutes, Executes
<1>15. CASE DrainReturns(d)  BY <1>15 DEF DrainReturns, Returns
<1>16. CASE Cancel(d)  BY <1>16 DEF Cancel
<1>17. CASE Drop(d)  BY <1>17 DEF Drop
<1>18. CASE ReapOnLoop(d)  BY <1>18 DEF ReapOnLoop
<1>19. CASE ReapedOnLoop(d)  BY <1>19 DEF ReapedOnLoop
<1>20. CASE PickUp(d)  BY <1>20 DEF PickUp
<1>21. CASE Enters(d)  BY <1>21 DEF Enters
<1>22. CASE TooLate(d)  BY <1>22 DEF TooLate
<1>23. CASE Leaves(d)  BY <1>23 DEF Leaves
<1>24. CASE TickContinues(d)  BY <1>24 DEF TickContinues, Ticked
<1>25. CASE TickReady(d)  BY <1>25 DEF TickReady, Ticked
<1>26. CASE TickFails(d)  BY <1>26 DEF TickFails, Ticked
<1>27. CASE ReapOnPool(d)  BY <1>27 DEF ReapOnPool
<1>28. CASE ReapedOnPool(d)  BY <1>28 DEF ReapedOnPool
<1>29. CASE UdfCalled(d)  BY <1>29 DEF UdfCalled
<1>30. CASE UdfReturns(d)  BY <1>30 DEF UdfReturns
<1>31. QED
  BY <1>1, <1>2, <1>3, <1>4, <1>5, <1>6, <1>7, <1>8, <1>9, <1>10, <1>11, <1>12, <1>13, <1>14,
     <1>15, <1>16, <1>17, <1>18, <1>19, <1>20, <1>21, <1>22, <1>23, <1>24, <1>25, <1>26, <1>27,
     <1>28, <1>29, <1>30
     DEF StepFor, Coroutine, PoolThread

\* Every step for d keeps d's invariant, whichever thread takes it: the event loop, a
\* pool thread or one of DuckDB's workers.
LEMMA OwnStep ==
  ASSUME Types, NEW d \in Drives, QueryInv(d), StepFor(d)
  PROVE  QueryInv(d)'
<1> USE NamesDiffer DEF Types, Set, LoopRuns, Resume, Blocking, Ended, OnPool, QueryInv,
      LocksMatch, LoopMatches, QueryIsThere, JobFits, OnLoop, LoopReaps
<1>1. CASE Start(d)  BY <1>1 DEF Start
<1>2. CASE StartFails(d)  BY <1>2 DEF StartFails
<1>3. CASE TickAgain(d)  BY <1>3 DEF TickAgain
<1>4. CASE Sleep(d)  BY <1>4 DEF Sleep
<1>5. CASE Wake(d)  BY <1>5 DEF Wake
<1>6. CASE AskError(d)  BY <1>6 DEF AskError
<1>7. CASE RaiseError(d)  BY <1>7 DEF RaiseError
<1>8. CASE Materialize(d)  BY <1>8 DEF Materialize
<1>9. CASE MaterializeLocks(d)  BY <1>9 DEF MaterializeLocks, Locks
<1>10. CASE MaterializeExecutes(d)  BY <1>10 DEF MaterializeExecutes, Executes
<1>11. CASE MaterializeReturns(d)  BY <1>11 DEF MaterializeReturns, Returns
<1>12. CASE Drain(d)  BY <1>12 DEF Drain
<1>13. CASE DrainLocks(d)  BY <1>13 DEF DrainLocks, Locks
<1>14. CASE DrainExecutes(d)  BY <1>14 DEF DrainExecutes, Executes
<1>15. CASE DrainReturns(d)  BY <1>15 DEF DrainReturns, Returns
<1>16. CASE Cancel(d)  BY <1>16 DEF Cancel
<1>17. CASE Drop(d)  BY <1>17 DEF Drop
<1>18. CASE ReapOnLoop(d)  BY <1>18 DEF ReapOnLoop
<1>19. CASE ReapedOnLoop(d)  BY <1>19 DEF ReapedOnLoop
<1>20. CASE PickUp(d)  BY <1>20 DEF PickUp
<1>21. CASE Enters(d)  BY <1>21 DEF Enters
<1>22. CASE TooLate(d)  BY <1>22 DEF TooLate
<1>23. CASE Leaves(d)  BY <1>23 DEF Leaves
<1>24. CASE TickContinues(d)  BY <1>24 DEF TickContinues, Ticked
<1>25. CASE TickReady(d)  BY <1>25 DEF TickReady, Ticked
<1>26. CASE TickFails(d)  BY <1>26 DEF TickFails, Ticked
<1>27. CASE ReapOnPool(d)  BY <1>27 DEF ReapOnPool
<1>28. CASE ReapedOnPool(d)  BY <1>28 DEF ReapedOnPool
<1>29. CASE UdfCalled(d)  BY <1>29 DEF UdfCalled
<1>30. CASE UdfReturns(d)  BY <1>30 DEF UdfReturns
<1>31. QED
  BY <1>1, <1>2, <1>3, <1>4, <1>5, <1>6, <1>7, <1>8, <1>9, <1>10, <1>11, <1>12, <1>13, <1>14,
     <1>15, <1>16, <1>17, <1>18, <1>19, <1>20, <1>21, <1>22, <1>23, <1>24, <1>25, <1>26, <1>27,
     <1>28, <1>29, <1>30
     DEF StepFor, Coroutine, PoolThread

\* A thread touches no other coroutine's query: a step for d keeps the state of e, and
\* takes the event loop from nobody but d.
LEMMA OthersKept ==
  ASSUME Types, NEW d \in Drives, QueryInv(d), StepFor(d), NEW e \in Drives, e # d
  PROVE  Kept(e)
<1> USE NamesDiffer DEF Types, Set, LoopRuns, Resume, Blocking, Ended, Kept, QueryInv,
      LoopMatches
<1>1. CASE Start(d)  BY <1>1 DEF Start
<1>2. CASE StartFails(d)  BY <1>2 DEF StartFails
<1>3. CASE TickAgain(d)  BY <1>3 DEF TickAgain
<1>4. CASE Sleep(d)  BY <1>4 DEF Sleep
<1>5. CASE Wake(d)  BY <1>5 DEF Wake
<1>6. CASE AskError(d)  BY <1>6 DEF AskError
<1>7. CASE RaiseError(d)  BY <1>7 DEF RaiseError
<1>8. CASE Materialize(d)  BY <1>8 DEF Materialize
<1>9. CASE MaterializeLocks(d)  BY <1>9 DEF MaterializeLocks, Locks
<1>10. CASE MaterializeExecutes(d)  BY <1>10 DEF MaterializeExecutes, Executes
<1>11. CASE MaterializeReturns(d)  BY <1>11 DEF MaterializeReturns, Returns
<1>12. CASE Drain(d)  BY <1>12 DEF Drain
<1>13. CASE DrainLocks(d)  BY <1>13 DEF DrainLocks, Locks
<1>14. CASE DrainExecutes(d)  BY <1>14 DEF DrainExecutes, Executes
<1>15. CASE DrainReturns(d)  BY <1>15 DEF DrainReturns, Returns
<1>16. CASE Cancel(d)  BY <1>16 DEF Cancel
<1>17. CASE Drop(d)  BY <1>17 DEF Drop
<1>18. CASE ReapOnLoop(d)  BY <1>18 DEF ReapOnLoop
<1>19. CASE ReapedOnLoop(d)  BY <1>19 DEF ReapedOnLoop
<1>20. CASE PickUp(d)  BY <1>20 DEF PickUp
<1>21. CASE Enters(d)  BY <1>21 DEF Enters
<1>22. CASE TooLate(d)  BY <1>22 DEF TooLate
<1>23. CASE Leaves(d)  BY <1>23 DEF Leaves
<1>24. CASE TickContinues(d)  BY <1>24 DEF TickContinues, Ticked
<1>25. CASE TickReady(d)  BY <1>25 DEF TickReady, Ticked
<1>26. CASE TickFails(d)  BY <1>26 DEF TickFails, Ticked
<1>27. CASE ReapOnPool(d)  BY <1>27 DEF ReapOnPool
<1>28. CASE ReapedOnPool(d)  BY <1>28 DEF ReapedOnPool
<1>29. CASE UdfCalled(d)  BY <1>29 DEF UdfCalled
<1>30. CASE UdfReturns(d)  BY <1>30 DEF UdfReturns
<1>31. QED
  BY <1>1, <1>2, <1>3, <1>4, <1>5, <1>6, <1>7, <1>8, <1>9, <1>10, <1>11, <1>12, <1>13, <1>14,
     <1>15, <1>16, <1>17, <1>18, <1>19, <1>20, <1>21, <1>22, <1>23, <1>24, <1>25, <1>26, <1>27,
     <1>28, <1>29, <1>30
     DEF StepFor, Coroutine, PoolThread

-----------------------------------------------------------------------------
\* Each coroutine's lock, pending query, job and place in _drive fit together.
THEOREM Invariant == Spec => []Inv
<1>1. Init => Inv
  <2> SUFFICES ASSUME Init PROVE Inv
    OBVIOUS
  <2>1. Types
    BY CallsAreCounted DEF Init, Types
  <2>2. ASSUME NEW d \in Drives PROVE QueryInv(d)
    BY NamesDiffer DEF Init, QueryInv, LocksMatch, LoopMatches, QueryIsThere, JobFits,
       OnLoop, LoopReaps, Blocking
  <2>3. QED  BY <2>1, <2>2 DEF Inv
<1>2. Inv /\ [Next]_vars => Inv'
  <2> SUFFICES ASSUME Inv, [Next]_vars PROVE Inv'
    OBVIOUS
  <2>1. CASE UNCHANGED vars
    BY <2>1 DEF vars, Inv, Types, QueryInv, LocksMatch, LoopMatches, QueryIsThere, JobFits,
       OnLoop, LoopReaps
  <2>2. ASSUME NEW d \in Drives, StepFor(d) PROVE Inv'
    <3>1. Types'
      BY <2>2, TypesStep DEF Inv
    <3>2. QueryInv(d)'
      BY <2>2, OwnStep DEF Inv
    <3>3. ASSUME NEW e \in Drives, e # d PROVE QueryInv(e)'
      <4>1. Kept(e)
        BY <2>2, <3>3, OthersKept DEF Inv
      <4>2. QED  BY <4>1, KeptInvariant DEF Inv
    <3>4. QED  BY <3>1, <3>2, <3>3 DEF Inv
  <2>3. QED  BY <2>1, <2>2 DEF Next, Finished, StepFor
<1>3. QED  BY <1>1, <1>2, PTL DEF Spec

\* The types hold, and the event loop is inside a C++ call of PendingResult exactly
\* while the coroutine it entered the call for is blocking, or is being reaped.
THEOREM TypeTheorem == Spec => []TypeOK
<1>1. Inv => TypeOK
  BY NamesDiffer DEF Inv, TypeOK, Types, QueryInv, LoopMatches
<1>2. QED  BY <1>1, Invariant, PTL

\* At most one thread is inside the engine with a pending query, and none after it was
\* freed: execute_task, materialize, drain and the destructor never overlap.
THEOREM OneUserTheorem == Spec => []OneUserAtATime
<1>1. Inv => OneUserAtATime
  <2> SUFFICES ASSUME Inv, NEW d \in Drives
               PROVE /\ job[d] = "task" => pending[d] = "live" /\ ~OnLoop(d) /\ ~LoopReaps(d)
                     /\ OnLoop(d) => pending[d] = "live" /\ ~PoolReaps(d)
                     /\ LoopReaps(d) \/ PoolReaps(d) => pending[d] = "live"
                     /\ ~(LoopReaps(d) /\ PoolReaps(d))
    BY DEF OneUserAtATime
  <2>1. QueryInv(d)
    BY DEF Inv
  <2>2. QED
    BY <2>1, NamesDiffer DEF QueryInv, LocksMatch, QueryIsThere, JobFits, OnLoop,
       LoopReaps, PoolReaps
<1>2. QED  BY <1>1, Invariant, PTL

\* An await that ends with a result or a CancelledError leaves no query in the engine.
THEOREM NothingLeftTheorem == Spec => []NothingLeftBehind
<1>1. Inv => NothingLeftBehind
  BY DEF Inv, NothingLeftBehind, QueryInv, QueryIsThere
<1>2. QED  BY <1>1, Invariant, PTL

\* A coroutine that still waits for a tick never sees its query consumed.
THEOREM ConsumedTheorem == Spec => []ConsumedIsNeverSeen
<1>1. Inv => ConsumedIsNeverSeen
  BY DEF Inv, ConsumedIsNeverSeen, QueryInv, QueryIsThere
<1>2. QED  BY <1>1, Invariant, PTL
=============================================================================
