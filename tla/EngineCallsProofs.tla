-------------------------- MODULE EngineCallsProofs --------------------------
(***************************************************************************)
(* Safety of EngineCalls for any threads, UDFs and number of UDF calls: who *)
(* keeps the GIL is known from where the threads are, and no call comes    *)
(* back while one of DuckDB's workers is still in its query.               *)
(***************************************************************************)
EXTENDS EngineCalls, TLAPS

\* What is known of the engine where a thread stands.  run_pending comes back to look at
\* the state of its tick, and READY and ERROR are only ever seen of a query that is over
\* and that no trampoline runs for.
CallMatches(t) ==
  /\ pc[t] = "idle" => Settled(t)
  /\ pc[t] = "tick" => engine[t] = "running"
  /\ pc[t] = "ticked" => (state[t] = "NOT_READY" <=> engine[t] = "running")
  /\ pc[t] = "ticked" /\ state[t] # "NOT_READY" => Settled(t)

Inv == TypeOK /\ \A t \in Threads : CallMatches(t)

\* The steps taken by or for thread t.
StepFor(t) ==
  Runs(t) \/ Blocks(t) \/ PythonThread(t) \/ UdfCalled(t) \/ UdfReturns(t)

\* Every step keeps the types, and the GIL with the one thread in a call that keeps it.
LEMMA TypesStep ==
  ASSUME TypeOK, NEW t \in Threads, StepFor(t)
  PROVE  TypeOK'
<1> USE ThreadNames, BoundsAreNat, PeriodIsLong DEF TypeOK, Set, QueryStarts, many
<1>1. CASE Runs(t)  BY <1>1 DEF Runs, Begins
<1>2. CASE Blocks(t)  BY <1>2 DEF Blocks, Begins
<1>3. CASE Tick(t)  BY <1>3 DEF Tick
<1>4. CASE Fails(t)  BY <1>4 DEF Fails, Ticked
<1>5. CASE Continues(t)  BY <1>5 DEF Continues, Ticked
<1>6. CASE Interrupts(t)  BY <1>6 DEF Interrupts, Ticked
<1>7. CASE Drained(t)  BY <1>7 DEF Drained
<1>8. CASE Delivers(t)  BY <1>8 DEF Delivers, Ticked
<1>9. CASE Works(t)  BY <1>9 DEF Works
<1>10. CASE Unblocks(t)  BY <1>10 DEF Unblocks, RowIsDone
<1>11. CASE NextRow(t)  BY <1>11 DEF NextRow, RowIsDone, ChecksSignals
<1>12. CASE StopsAtRow(t)  BY <1>12 DEF StopsAtRow, RowIsDone
<1>13. CASE UdfCalled(t)  BY <1>13 DEF UdfCalled
<1>14. CASE UdfReturns(t)  BY <1>14 DEF UdfReturns
<1>15. QED
  BY <1>1, <1>2, <1>3, <1>4, <1>5, <1>6, <1>7, <1>8, <1>9, <1>10, <1>11, <1>12,
     <1>13, <1>14
     DEF StepFor, PythonThread

\* A step for t keeps what is known of t's query, and changes no other thread's.
LEMMA CallStep ==
  ASSUME Inv, NEW t \in Threads, StepFor(t)
  PROVE  \A u \in Threads : CallMatches(u)'
<1> USE DEF Inv, TypeOK, CallMatches, Settled, Set, QueryStarts, many
<1>1. CASE Runs(t)  BY <1>1 DEF Runs, Begins
<1>2. CASE Blocks(t)  BY <1>2 DEF Blocks, Begins
<1>3. CASE Tick(t)  BY <1>3 DEF Tick
<1>4. CASE Fails(t)  BY <1>4 DEF Fails, Ticked
<1>5. CASE Continues(t)  BY <1>5 DEF Continues, Ticked
<1>6. CASE Interrupts(t)  BY <1>6 DEF Interrupts, Ticked
<1>7. CASE Drained(t)  BY <1>7 DEF Drained
<1>8. CASE Delivers(t)  BY <1>8 DEF Delivers, Ticked
<1>9. CASE Works(t)  BY <1>9 DEF Works
<1>10. CASE Unblocks(t)  BY <1>10 DEF Unblocks, RowIsDone
<1>11. CASE NextRow(t)  BY <1>11 DEF NextRow, RowIsDone, ChecksSignals
<1>12. CASE StopsAtRow(t)  BY <1>12 DEF StopsAtRow, RowIsDone
<1>13. CASE UdfCalled(t)  BY <1>13 DEF UdfCalled
<1>14. CASE UdfReturns(t)  BY <1>14 DEF UdfReturns
<1>15. QED
  BY <1>1, <1>2, <1>3, <1>4, <1>5, <1>6, <1>7, <1>8, <1>9, <1>10, <1>11, <1>12,
     <1>13, <1>14
     DEF StepFor, PythonThread

\* The invariant holds at first.
LEMMA InitInv == Init => Inv
<1> SUFFICES ASSUME Init
             PROVE  Inv
  OBVIOUS
<1>1. calls \in [Threads -> 0 .. Calls] /\ rows \in [Threads -> 0 .. Rows]
  BY BoundsAreNat DEF Init
<1>2. since \in [Threads -> 0 .. SIGNAL_CHECK_PERIOD - 1]
  BY PeriodIsLong DEF Init
<1>3. ASSUME NEW t \in Threads
      PROVE  CallMatches(t)
  BY DEF Init, CallMatches, Settled
<1>4. TypeOK
  BY <1>1, <1>2, ThreadNames DEF Init, TypeOK
<1>5. QED
  BY <1>3, <1>4 DEF Inv

\* Every step keeps the invariant, whoever takes it.
LEMMA NextInv == Inv /\ [Next]_vars => Inv'
<1> SUFFICES ASSUME Inv, [Next]_vars
             PROVE  Inv'
  OBVIOUS
<1>1. ASSUME NEW t \in Threads, StepFor(t)
      PROVE  Inv'
  BY <1>1, TypesStep, CallStep DEF Inv
<1>2. CASE CtrlC
  BY <1>2 DEF CtrlC, many, Inv, TypeOK, CallMatches, Settled
<1>3. CASE SignalHandled
  BY <1>3 DEF SignalHandled, many, Inv, TypeOK, CallMatches, Settled
<1>4. CASE UNCHANGED vars
  BY <1>4 DEF vars, many, Inv, TypeOK, CallMatches, Settled
<1>5. QED
  BY <1>1, <1>2, <1>3, <1>4 DEF Next, StepFor

\* The engine is what each thread's place says of it, always.
THEOREM InvHolds == Spec => []Inv
BY InitInv, NextInv, PTL DEF Spec

\* The types; and the GIL is kept across steps by a thread exactly while it drains an
\* interrupted query or is in a call that never gives it up.
THEOREM TypeCorrect == Spec => []TypeOK
<1>1. Inv => TypeOK
  BY DEF Inv
<1>2. QED
  BY <1>1, InvHolds, PTL

\* A call returns or raises only after the last of DuckDB's workers has left its query:
\* whatever the interleaving of ticks, Ctrl-C, draining and UDF calls of any threads.
THEOREM CallsOutliveUdfs == Spec => []NoOrphanedUdf
<1>1. Inv => NoOrphanedUdf
  BY DEF Inv, CallMatches, NoOrphanedUdf, Settled
<1>2. QED
  BY <1>1, InvHolds, PTL
=============================================================================
