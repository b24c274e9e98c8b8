--------------------------- MODULE SettingsScope ---------------------------
(***************************************************************************)
(* The blocks `with progress_bar(con)` and `with profile(con, mode)`        *)
(* (src/ducky/_progress.py, src/ducky/_profile.py), nested in any way in    *)
(* one thread: each takes note of the settings of the Connection it will    *)
(* touch, changes them, and puts them back when its body ends, returned or  *)
(* raised.  A progress_bar also has a thread that polls and draws.          *)
(*                                                                         *)
(* Every statement a block runs may fail, before or after it took effect    *)
(* (Ctrl-C, a closed connection), and so may its bar.                       *)
(***************************************************************************)
EXTENDS Naturals, Sequences

CONSTANTS
  MaxBlocks, \* bound on the blocks of a behaviour
  Depth,     \* bound on their nesting
  Null

ASSUME BoundsAreNatural == MaxBlocks \in Nat /\ Depth \in Nat

Values ==
  [enable_progress_bar       |-> {"true", "false"},
   enable_progress_bar_print |-> {"true", "false"},
   enable_profiling          |-> {Null, "no_output", "query_tree"},
   profiling_mode            |-> {Null, "standard", "detailed"}]

Names == DOMAIN Values
Default ==
  [enable_progress_bar |-> "false", enable_progress_bar_print |-> "true",
   enable_profiling |-> Null, profiling_mode |-> Null]

\* What current_setting() says of them: while profiling is off both of its settings are
\* null.
Profiling == {"enable_profiling", "profiling_mode"}
AllValues == UNION {Values[n] : n \in Names}
Settings  ==
  {s \in [Names -> AllValues] :
     /\ \A n \in Names : s[n] \in Values[n]
     /\ s["enable_profiling"] = Null <=> s["profiling_mode"] = Null}

VARIABLES
  settings, \* of the Connection
  stack,    \* the blocks entered, the innermost last: which it is, its number, where it is
            \* (and at which statement), the settings it took note of and those it was
            \* entered with
  blocks,   \* how many blocks there were
  outcome,  \* how the last block was left
  poller    \* of each block: its polling thread, is it told to stop, its bar

vars == <<settings, stack, blocks, outcome, poller>>

Kinds == {"progress_bar", "standard", "detailed"}

\* The statements of a block: what it sets, and what it puts back, in order.
Sets(kind) ==
  CASE kind = "progress_bar" ->
         << <<"enable_progress_bar", "true">>, <<"enable_progress_bar_print", "false">> >>
    [] kind = "standard" -> << <<"enable_profiling", "no_output">> >>
    [] kind = "detailed" -> << <<"enable_profiling", "no_output">>, <<"profiling_mode", "detailed">> >>

Restores(kind) ==
  IF kind = "progress_bar" THEN <<"enable_progress_bar", "enable_progress_bar_print">>
                           ELSE <<"profiling_mode", "enable_profiling">>

Touched(kind) == {Restores(kind)[i] : i \in DOMAIN Restores(kind)}
Current(kind) == [name \in Touched(kind) |-> settings[name]]

NoPoller == [at |-> "none", stop |-> FALSE, bar |-> "none"]

Init ==
  /\ settings \in Settings
  /\ stack = <<>> /\ blocks = 0 /\ outcome = "none"
  /\ poller = [n \in 1 .. MaxBlocks |-> NoPoller]

Inside == stack # <<>>
Top    == stack[Len(stack)]
At(place) == Inside /\ Top.at = place
InProgressBar == Top.kind = "progress_bar"

Goes(place) == stack' = [stack EXCEPT ![Len(stack)].at = place, ![Len(stack)].i = 1]
Leaves(how) == stack' = SubSeq(stack, 1, Len(stack) - 1) /\ outcome' = how

\* SET name = v, or RESET name if v is Null.  A statement on one of the two settings of
\* profiling turns it on or off, and the other setting goes or comes with it: it comes
\* back as whatever DuckDB remembered.
Executes(name, v) ==
  \E s \in Settings :
    /\ s[name] = v
    /\ \A other \in Names \ {name} :
         \/ s[other] = settings[other]
         \/ {name, other} = Profiling /\ Null \in {v, settings[name]}
    /\ settings' = s

-----------------------------------------------------------------------------

\* A block is entered from the body of another, or from outside.
Enter(kind) ==
  /\ ~Inside \/ At("body")
  /\ Len(stack) < Depth /\ blocks < MaxBlocks
  /\ blocks' = blocks + 1
  /\ stack' = Append(stack, [kind |-> kind, n |-> blocks + 1, at |-> "snapshot", i |-> 1,
                             prev |-> <<>>, entered |-> Current(kind)])
  /\ UNCHANGED <<settings, outcome, poller>>

Snapshot ==
  /\ At("snapshot")
  /\ stack' = [stack EXCEPT ![Len(stack)].prev = Current(Top.kind), ![Len(stack)].at = "set"]
  /\ UNCHANGED <<settings, blocks, outcome, poller>>

SetOne ==
  LET set == Sets(Top.kind)[Top.i]
  IN  /\ At("set")
      /\ Executes(set[1], set[2])
      /\ IF Top.i < Len(Sets(Top.kind))
         THEN stack' = [stack EXCEPT ![Len(stack)].i = @ + 1]
         ELSE Goes(IF InProgressBar THEN "start" ELSE "body")
      /\ UNCHANGED <<blocks, outcome, poller>>

\* The bar is made and the thread started.
ThreadStarts == poller' = [poller EXCEPT ![Top.n] = [at |-> "check", stop |-> FALSE, bar |-> "open"]]

Start ==
  /\ At("start")
  /\ Goes("body")
  /\ ThreadStarts
  /\ UNCHANGED <<settings, blocks, outcome>>

\* The body does as it likes, set_profile_sink included.
BodySets(n, v) ==
  /\ At("body")
  /\ Executes(n, v)
  /\ UNCHANGED <<stack, blocks, outcome, poller>>

\* The body ends, or raises.
BodyEnds ==
  /\ At("body")
  /\ Goes(IF InProgressBar THEN "stop" ELSE "refresh")
  /\ UNCHANGED <<settings, blocks, outcome, poller>>

\* Faulty variant: the thread is joined before it is told to stop.
Stop_late ==
  /\ At("stop")
  /\ Goes("join")
  /\ UNCHANGED <<settings, blocks, outcome, poller>>

Stop ==
  /\ At("stop")
  /\ Goes("join")
  /\ poller' = [poller EXCEPT ![Top.n].stop = TRUE]
  /\ UNCHANGED <<settings, blocks, outcome>>

Join ==
  /\ At("join") /\ poller[Top.n].at = "gone"
  /\ Goes("close")
  /\ UNCHANGED <<settings, blocks, outcome, poller>>

CloseBar ==
  /\ At("close")
  /\ Goes("restore")
  /\ poller' = [poller EXCEPT ![Top.n].bar = "closed"]
  /\ UNCHANGED <<settings, blocks, outcome>>

\* Whatever Exception refresh() raises is suppressed; a KeyboardInterrupt is none.
Refresh ==
  /\ At("refresh")
  /\ Goes("restore")
  /\ UNCHANGED <<settings, blocks, outcome, poller>>

\* Faulty variant: the settings are put back to their defaults.
Reset_one ==
  LET name == Restores(Top.kind)[Top.i]
  IN  /\ At("restore")
      /\ Executes(name, Default[name])
      /\ IF Top.i < Len(Restores(Top.kind))
         THEN stack' = [stack EXCEPT ![Len(stack)].i = @ + 1] /\ outcome' = outcome
         ELSE Leaves("restored")
      /\ UNCHANGED <<blocks, poller>>

\* A setting that was null is RESET.
RestoreOne ==
  LET name == Restores(Top.kind)[Top.i]
  IN  /\ At("restore")
      /\ Executes(name, Top.prev[name])
      /\ IF Top.i < Len(Restores(Top.kind))
         THEN stack' = [stack EXCEPT ![Len(stack)].i = @ + 1] /\ outcome' = outcome
         ELSE Leaves("restored")
      /\ UNCHANGED <<blocks, poller>>

\* A step of the block itself fails: the rest of it is skipped, for no step is protected
\* from the failure of another.  The thread may have been started: nobody stops it then.
\* (stop.set() is taken not to fail.)
Fails ==
  /\ Inside /\ Top.at \in {"snapshot", "set", "start", "join", "close", "refresh", "restore"}
  /\ \/ settings' = settings
     \/ Top.at = "set" /\ LET set == Sets(Top.kind)[Top.i] IN Executes(set[1], set[2])
     \/ /\ Top.at = "restore"
        /\ LET name == Restores(Top.kind)[Top.i] IN Executes(name, Top.prev[name])
  /\ \/ poller' = poller
     \/ Top.at = "start" /\ ThreadStarts
  /\ Leaves("raised")
  /\ UNCHANGED blocks

-----------------------------------------------------------------------------
(* The thread of a bar.                                                    *)

Poller(n, from, to) == poller[n].at = from /\ poller' = [poller EXCEPT ![n].at = to]

Poll(n) ==
  /\ \/ Poller(n, "check", IF poller[n].stop THEN "gone" ELSE "query")
     \/ Poller(n, "query", "draw")
     \/ Poller(n, "query", "gone") \* progress() raises
     \/ Poller(n, "draw", "wait")
     \/ Poller(n, "draw", "gone")  \* the bar cannot be drawn
     \/ Poller(n, "wait", "check")
  /\ UNCHANGED <<settings, stack, blocks, outcome>>

Exits == Stop \/ Join \/ CloseBar \/ Refresh \/ RestoreOne

Next ==
  \/ \E kind \in Kinds : Enter(kind)
  \/ Snapshot \/ SetOne \/ Start
  \/ \E n \in Names : \E v \in Values[n] : BodySets(n, v)
  \/ BodyEnds \/ Exits \/ Fails
  \/ \E n \in 1 .. MaxBlocks : Poll(n)

\* A body may never end; the way out of it goes on, and so does a thread.
Fairness == WF_vars(Exits) /\ \A n \in 1 .. MaxBlocks : WF_vars(Poll(n))

Spec == Init /\ [][Next]_vars /\ Fairness

-----------------------------------------------------------------------------
(* Properties. *)

\* A block whose own statements went through leaves the settings it touched as it found
\* them, whatever its body did with them, and even when blocks inside it failed half way.
SettingsRestored ==
  [][Len(stack') < Len(stack) /\ outcome' = "restored" =>
       \A name \in Touched(Top.kind) : settings'[name] = Top.entered[name]]_vars

\* Once the body of a progress_bar has ended its thread ends, though joining it or closing
\* the bar may be interrupted.
PollerEnds ==
  \A n \in 1 .. MaxBlocks : At("stop") /\ Top.n = n ~> poller[n].at = "gone"
=============================================================================
