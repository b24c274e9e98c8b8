------------------------- MODULE PlanningConnection -------------------------
(***************************************************************************)
(* What Connection::run promises its callers, with no statement, list or    *)
(* capacity in sight: a call runs its own query, under its own parameters, *)
(* with a plan it made or one that was kept for its query since the last   *)
(* flush.                                                                  *)
(*                                                                         *)
(* It promises less than a plan of now, and shows where: settings change   *)
(* without a flush (Configure, an Answer that Ctrl-C takes from its call), *)
(* and a call in progress at a flush may leave its plan afterwards         *)
(* (Return).                                                               *)
(***************************************************************************)
CONSTANTS Threads, MainThread, Queries, Flushing, Params, Options, Sources, None

World    == [settings : SUBSET Options, source : Sources \cup {None}]
Bindings == Params \cup {None}

VARIABLES
  open,      \* the Connection accepts calls
  request,   \* what each thread's call asked for, None between calls
  plan,      \* what the call's plan was made against, None until there is one
  answer,    \* what was run for the call
  kept,      \* the plans that may be used again, by query
  settings, source

vars == <<open, request, plan, answer, kept, settings, source>>
Now  == [settings |-> settings, source |-> source]

Init ==
  /\ open = TRUE
  /\ request = [t \in Threads |-> None]
  /\ plan = [t \in Threads |-> None]
  /\ answer = [t \in Threads |-> None]
  /\ kept = {}
  /\ settings = {}
  /\ source = None

\* A kept plan may be dropped at any call.
Ask(t) ==
  /\ open
  /\ request[t] = None
  /\ \E q \in Queries, p \in Bindings :
       /\ request' = [request EXCEPT ![t] = <<q, p>>]
       /\ \/ plan' = plan
          \/ \E w \in World : <<q, w>> \in kept /\ plan' = [plan EXCEPT ![t] = w]
  /\ kept' \in SUBSET kept
  /\ UNCHANGED <<open, answer, settings, source>>

Plan(t) ==
  /\ request[t] # None /\ plan[t] = None
  /\ plan' = [plan EXCEPT ![t] = Now]
  /\ UNCHANGED <<open, request, answer, kept, settings, source>>

Answer(t) ==
  /\ plan[t] # None /\ answer[t] = None
  /\ answer' = [answer EXCEPT ![t] =
       [sql |-> request[t][1], plan |-> plan[t], bound |-> request[t][2]]]
  /\ settings' \in IF request[t][1] \in Flushing THEN SUBSET Options ELSE {settings}
  /\ UNCHANGED <<open, request, plan, kept, source>>

Ends(t) ==
  /\ request' = [request EXCEPT ![t] = None]
  /\ plan' = [plan EXCEPT ![t] = None]
  /\ answer' = [answer EXCEPT ![t] = None]
  /\ UNCHANGED <<open, settings, source>>

\* A call that returns its answer leaves its plan, or flushes all of them.
Return(t) ==
  /\ answer[t] # None
  /\ kept' \in IF request[t][1] \in Flushing THEN {{}}
               ELSE SUBSET (kept \cup {<<request[t][1], plan[t]>>})
  /\ Ends(t)

\* The call throws.  Only Ctrl-C, on the main thread, takes an answer from it.
Throw(t) ==
  /\ request[t] # None
  /\ answer[t] = None \/ t = MainThread
  /\ kept' = kept
  /\ Ends(t)

Register ==
  /\ open
  /\ source' \in Sources
  /\ kept' = {}
  /\ UNCHANGED <<open, request, plan, answer, settings>>

Configure ==
  /\ settings' \in SUBSET Options
  /\ UNCHANGED <<open, request, plan, answer, kept, source>>

Close ==
  /\ open' = FALSE
  /\ kept' = {}
  /\ UNCHANGED <<request, plan, answer, settings, source>>

Next ==
  \/ \E t \in Threads : Ask(t) \/ Plan(t) \/ Answer(t) \/ Return(t) \/ Throw(t)
  \/ Register \/ Configure \/ Close

Spec == Init /\ [][Next]_vars
=============================================================================
