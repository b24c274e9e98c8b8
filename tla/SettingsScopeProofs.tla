------------------------- MODULE SettingsScopeProofs -------------------------
(***************************************************************************)
(* SettingsScope for any nesting and number of blocks: a block whose own   *)
(* statements went through puts back what it found.                        *)
(*                                                                         *)
(* The argument: while a block is not the innermost one it stays in its    *)
(* body, so between its entry and its snapshot, and between the statements *)
(* that put the settings back, nobody else touches the Connection.  The    *)
(* statement that puts back enable_profiling does not undo the one on      *)
(* profiling_mode before it, for the two were noted at one moment: both    *)
(* null or neither.                                                        *)
(***************************************************************************)
EXTENDS SettingsScope, SequenceTheorems, TLAPS

Places ==
  {"snapshot", "set", "start", "body", "stop", "join", "close", "refresh", "restore"}
Noted(kind) == [Touched(kind) -> AllValues]
SomeNoted   == UNION {Noted(kind) : kind \in Kinds}

Block ==
  [kind : Kinds, n : Nat, at : Places, i : {1, 2}, prev : SomeNoted \cup {<<>>},
   entered : SomeNoted]

\* A block notes the settings as they were when it was entered, those of profiling on or
\* off together.
NotedAsEntered(b) ==
  /\ b.entered \in Noted(b.kind)
  /\ b.kind # "progress_bar" =>
       (b.entered["enable_profiling"] = Null <=> b.entered["profiling_mode"] = Null)
  /\ b.at # "snapshot" => b.prev = b.entered

\* The innermost block: nothing was touched before its snapshot, and what it has put back
\* so far is as it was.
InnermostFits(b) ==
  /\ b.at = "snapshot" => b.i = 1 /\ b.entered = Current(b.kind)
  /\ b.at = "set" => b.i \in DOMAIN Sets(b.kind)
  /\ b.at = "restore" /\ b.i = 2 =>
       settings[Restores(b.kind)[1]] = b.entered[Restores(b.kind)[1]]

StackInv ==
  /\ stack \in Seq(Block)
  /\ \A k \in 1 .. Len(stack) :
       /\ NotedAsEntered(stack[k])
       /\ k < Len(stack) => stack[k].at = "body"

Inv ==
  /\ settings \in Settings
  /\ blocks \in Nat
  /\ StackInv
  /\ Inside => InnermostFits(Top)

-----------------------------------------------------------------------------
(* The data: names, values and the statements of a block.                  *)

\* The settings by name.
LEMMA TheNames ==
  Names = {"enable_progress_bar", "enable_progress_bar_print", "enable_profiling",
           "profiling_mode"}
BY DEF Names, Values

\* Every block puts back two settings, and they are different ones.
LEMMA TwoRestores ==
  ASSUME NEW kind \in Kinds
  PROVE  /\ Len(Restores(kind)) = 2
         /\ Restores(kind)[1] # Restores(kind)[2]
         /\ Touched(kind) = {Restores(kind)[1], Restores(kind)[2]}
         /\ Touched(kind) \subseteq Names
         /\ kind # "progress_bar" => Restores(kind) = <<"profiling_mode", "enable_profiling">>
         /\ kind = "progress_bar" => Touched(kind) \cap Profiling = {}
<1>1. CASE kind = "progress_bar"
  BY <1>1, TheNames DEF Restores, Touched, Profiling
<1>2. CASE kind # "progress_bar"
  BY <1>2, TheNames DEF Restores, Touched
<1>3. QED
  BY <1>1, <1>2

\* Every block sets one or two settings.
LEMMA SetsAreSettings ==
  ASSUME NEW kind \in Kinds
  PROVE  /\ Len(Sets(kind)) \in {1, 2}
         /\ DOMAIN Sets(kind) = 1 .. Len(Sets(kind))
<1>1. CASE kind = "progress_bar"
  BY <1>1 DEF Sets
<1>2. CASE kind = "standard"
  BY <1>2 DEF Sets
<1>3. CASE kind = "detailed"
  BY <1>3 DEF Sets
<1>4. QED
  BY <1>1, <1>2, <1>3 DEF Kinds

\* What a statement does to the settings.
LEMMA ExecutesIs ==
  ASSUME NEW name \in Names, NEW v, Executes(name, v)
  PROVE  /\ settings' \in Settings
         /\ settings'[name] = v
         /\ \A other \in Names \ {name} :
              \/ settings'[other] = settings[other]
              \/ {name, other} = Profiling /\ Null \in {v, settings[name]}
BY DEF Executes

\* Whatever it is about, it leaves the settings what they may be.
LEMMA ExecutesKeeps ==
  ASSUME NEW name, NEW v, Executes(name, v)
  PROVE  settings' \in Settings
BY DEF Executes

\* The settings a block takes note of.
LEMMA CurrentIsNoted ==
  ASSUME settings \in Settings, NEW kind \in Kinds
  PROVE  /\ Current(kind) \in Noted(kind) /\ Current(kind) \in SomeNoted
         /\ kind # "progress_bar" =>
              (Current(kind)["enable_profiling"] = Null <=> Current(kind)["profiling_mode"] = Null)
<1>1. settings \in [Names -> AllValues]
  BY DEF Settings
<1>2. Current(kind) \in Noted(kind) /\ Current(kind) \in SomeNoted
  BY <1>1, TwoRestores DEF Current, Noted, SomeNoted
<1>3. CASE kind # "progress_bar"
  <2>1. "enable_profiling" \in Touched(kind) /\ "profiling_mode" \in Touched(kind)
    BY <1>3, TwoRestores
  <2>2. QED
    BY <1>2, <2>1 DEF Current, Settings
<1>4. QED
  BY <1>2, <1>3

-----------------------------------------------------------------------------
(* The stack of blocks.                                                    *)

\* Inside of a block there is an innermost one.
LEMMA TopIsABlock ==
  ASSUME StackInv, Inside
  PROVE  Len(stack) \in Nat \ {0} /\ Top \in Block /\ NotedAsEntered(Top)
BY DEF StackInv, Inside, Top

\* A step of the innermost block changes that one alone.
LEMMA TopMoves ==
  ASSUME StackInv, Inside, NEW b \in Block, NotedAsEntered(b),
         stack' = [stack EXCEPT ![Len(stack)] = b]
  PROVE  StackInv' /\ Top' = b /\ Len(stack') = Len(stack)
<1>1. Len(stack) \in Nat \ {0} /\ Len(stack) \in DOMAIN stack
  BY DEF StackInv, Inside
<1>2. stack' \in Seq(Block) /\ Len(stack') = Len(stack)
  BY <1>1 DEF StackInv
<1>3. \A k \in 1 .. Len(stack) : stack'[k] = IF k = Len(stack) THEN b ELSE stack[k]
  BY <1>1 DEF StackInv
<1>4. ASSUME NEW k \in 1 .. Len(stack)
      PROVE  NotedAsEntered(stack'[k]) /\ (k < Len(stack) => stack'[k].at = "body")
  BY <1>1, <1>3 DEF StackInv
<1>5. Top' = b
  BY <1>1, <1>2, <1>3 DEF Top
<1>6. QED
  BY <1>2, <1>4, <1>5 DEF StackInv

\* A sequence without its last element.
LEMMA AllButLast ==
  ASSUME NEW S, NEW s \in Seq(S), s # <<>>
  PROVE  /\ SubSeq(s, 1, Len(s) - 1) \in Seq(S)
         /\ Len(SubSeq(s, 1, Len(s) - 1)) = Len(s) - 1
         /\ \A k \in 1 .. Len(s) - 1 : SubSeq(s, 1, Len(s) - 1)[k] = s[k]
<1>1. PICK n \in Nat : Len(s) = n + 1
  <2>1. Len(s) \in Nat \ {0}
    BY EmptySeq
  <2>2. Len(s) - 1 \in Nat /\ Len(s) = (Len(s) - 1) + 1
    BY <2>1
  <2>3. QED
    BY <2>2
<1>2. Len(s) - 1 = n
  BY <1>1
<1>3. \A k \in 1 .. n : s[k] \in S
  BY <1>1
<1>4. SubSeq(s, 1, n) \in Seq(S)
  BY <1>1, <1>3
<1>5. Len(SubSeq(s, 1, n)) = n
  BY <1>1
<1>6. \A k \in 1 .. n : SubSeq(s, 1, n)[k] = s[k]
  BY <1>1, <1>5
<1>7. QED
  BY <1>2, <1>4, <1>5, <1>6

\* A block that is left uncovers the body of the one around it.
LEMMA TopGoes ==
  ASSUME StackInv, Inside, stack' = SubSeq(stack, 1, Len(stack) - 1)
  PROVE  /\ StackInv' /\ Len(stack') < Len(stack)
         /\ Inside' => Top'.at = "body"
<1>1. Len(stack) \in Nat \ {0}
  BY DEF StackInv, Inside
<1>2. /\ stack' \in Seq(Block) /\ Len(stack') = Len(stack) - 1
      /\ \A k \in 1 .. Len(stack') : stack'[k] = stack[k]
  BY AllButLast DEF StackInv, Inside
<1>3. ASSUME NEW k \in 1 .. Len(stack')
      PROVE  NotedAsEntered(stack'[k]) /\ stack'[k].at = "body"
  BY <1>1, <1>2 DEF StackInv
<1>4. Inside' => Top'.at = "body"
  BY <1>1, <1>2, <1>3 DEF Inside, Top
<1>5. QED
  BY <1>1, <1>2, <1>3, <1>4 DEF StackInv

-----------------------------------------------------------------------------
(* Every step keeps the invariant.                                         *)

\* A block begins: it has seen no setting changed yet.
LEMMA EnterStep ==
  ASSUME Inv, NEW kind \in Kinds, Enter(kind)
  PROVE  Inv' /\ ~(Len(stack') < Len(stack))
<1> DEFINE b == [kind |-> kind, n |-> blocks + 1, at |-> "snapshot", i |-> 1,
                 prev |-> <<>>, entered |-> Current(kind)]
<1>1. b \in Block /\ NotedAsEntered(b)
  BY CurrentIsNoted DEF Inv, Block, Places, NotedAsEntered
<1>2. /\ stack' \in Seq(Block) /\ Len(stack') = Len(stack) + 1 /\ Len(stack) \in Nat
      /\ \A k \in 1 .. Len(stack) : stack'[k] = stack[k]
      /\ stack'[Len(stack) + 1] = b
  BY <1>1 DEF Enter, Inv, StackInv
<1>3. \A k \in 1 .. Len(stack) : stack[k].at = "body"
  BY <1>2 DEF Enter, Inv, StackInv, At, Inside, Top
<1>4. StackInv' /\ Top' = b
  BY <1>1, <1>2, <1>3 DEF Inv, StackInv, Top, NotedAsEntered
<1>5. InnermostFits(Top)'
  BY <1>4 DEF InnermostFits, Enter, Current
<1>6. QED
  BY <1>2, <1>4, <1>5 DEF Inv, Enter

\* The block takes note of the settings it was entered with.
LEMMA SnapshotStep ==
  ASSUME Inv, Snapshot
  PROVE  Inv' /\ ~(Len(stack') < Len(stack))
<1>1. Inside /\ Top \in Block /\ Len(stack) \in Nat \ {0} /\ InnermostFits(Top)
      /\ NotedAsEntered(Top) /\ Top.at = "snapshot"
  BY TopIsABlock DEF Inv, Snapshot, At
<1>2. Top.kind \in Kinds /\ Current(Top.kind) \in SomeNoted
  BY <1>1, CurrentIsNoted DEF Inv, Block
<1>3. PICK b : b = [Top EXCEPT !.prev = Current(Top.kind), !.at = "set"]
  OBVIOUS
<1>4. b \in Block /\ b.kind = Top.kind /\ b.at = "set" /\ b.prev = Current(Top.kind)
      /\ b.entered = Top.entered /\ b.i = Top.i
  BY <1>1, <1>2, <1>3 DEF Block, Places
<1>5. NotedAsEntered(b)
  BY <1>1, <1>4 DEF NotedAsEntered, InnermostFits
<1>6. stack' = [stack EXCEPT ![Len(stack)] = b]
  BY <1>1, <1>3 DEF Snapshot, Top, Inv, StackInv
<1>7. StackInv' /\ Top' = b /\ Len(stack') = Len(stack)
  BY <1>1, <1>4, <1>5, <1>6, TopMoves DEF Inv
<1>8. InnermostFits(Top)'
  BY <1>1, <1>2, <1>4, <1>7, SetsAreSettings DEF InnermostFits
<1>9. QED
  BY <1>1, <1>7, <1>8 DEF Inv, Snapshot

\* The innermost block goes to another place of its code.
LEMMA GoesStep ==
  ASSUME StackInv, Inside, Top.at # "snapshot", NEW place \in Places \ {"snapshot"}, Goes(place)
  PROVE  /\ StackInv' /\ Len(stack') = Len(stack)
         /\ Top' = [Top EXCEPT !.at = place, !.i = 1]
<1>1. Top \in Block /\ Len(stack) \in Nat \ {0} /\ NotedAsEntered(Top)
  BY TopIsABlock
<1>2. PICK b : b = [Top EXCEPT !.at = place, !.i = 1]
  OBVIOUS
<1>3. b \in Block /\ NotedAsEntered(b)
  BY <1>1, <1>2 DEF Block, NotedAsEntered
<1>4. stack' = [stack EXCEPT ![Len(stack)] = b]
  BY <1>1, <1>2 DEF Goes, Top, StackInv
<1>5. QED
  BY <1>2, <1>3, <1>4, TopMoves

\* The innermost block goes on to its second statement.
LEMMA CountStep ==
  ASSUME StackInv, Inside, Top.at # "snapshot", Top.i = 1,
         stack' = [stack EXCEPT ![Len(stack)].i = @ + 1]
  PROVE  /\ StackInv' /\ Len(stack') = Len(stack)
         /\ Top' = [Top EXCEPT !.i = 2]
<1>1. Top \in Block /\ Len(stack) \in Nat \ {0} /\ NotedAsEntered(Top)
  BY TopIsABlock
<1>2. PICK b : b = [Top EXCEPT !.i = 2]
  OBVIOUS
<1>3. b \in Block /\ NotedAsEntered(b)
  BY <1>1, <1>2 DEF Block, NotedAsEntered
<1>4. stack' = [stack EXCEPT ![Len(stack)] = b]
  BY <1>1, <1>2 DEF Top, StackInv
<1>5. QED
  BY <1>2, <1>3, <1>4, TopMoves

\* Of two statements the first has the second after it.
LEMMA OneBeforeTwo == \A i \in {1, 2}, l \in {1, 2} : i < l => i = 1 /\ l = 2
OBVIOUS

\* A statement of the way in.
LEMMA SetOneStep ==
  ASSUME Inv, SetOne
  PROVE  Inv' /\ ~(Len(stack') < Len(stack))
<1>1. Inside /\ Top \in Block /\ Len(stack) \in Nat \ {0} /\ InnermostFits(Top) /\ Top.at = "set"
  BY TopIsABlock DEF Inv, SetOne, At
<1>2. Top.kind \in Kinds /\ Top.i \in {1, 2} /\ Top.i \in DOMAIN Sets(Top.kind)
  BY <1>1 DEF Block, InnermostFits
<1>3. settings' \in Settings
  BY ExecutesKeeps DEF SetOne
<1>4. CASE Top.i < Len(Sets(Top.kind))
  <2>1. Top.i = 1 /\ 2 \in DOMAIN Sets(Top.kind)
    <3>1. PICK l \in {1, 2} : l = Len(Sets(Top.kind)) /\ DOMAIN Sets(Top.kind) = 1 .. l
      BY <1>2, SetsAreSettings
    <3>2. Top.i < l
      BY <1>4, <3>1
    <3>3. Top.i = 1 /\ l = 2
      BY <1>2, <3>1, <3>2, OneBeforeTwo
    <3>4. QED
      BY <3>1, <3>3
  <2>2. StackInv' /\ Len(stack') = Len(stack) /\ Top' = [Top EXCEPT !.i = 2]
    BY <1>1, <1>4, <2>1, CountStep DEF SetOne, Inv
  <2>3. InnermostFits(Top)'
    BY <1>1, <2>1, <2>2 DEF InnermostFits, Block
  <2>4. QED
    BY <1>1, <1>3, <2>2, <2>3 DEF Inv, SetOne
<1>5. CASE ~(Top.i < Len(Sets(Top.kind)))
  <2>1. PICK place \in {"start", "body"} : Goes(place)
    BY <1>5 DEF SetOne
  <2>2. StackInv' /\ Len(stack') = Len(stack) /\ Top' = [Top EXCEPT !.at = place, !.i = 1]
    BY <1>1, <2>1, GoesStep DEF Inv, Places
  <2>3. InnermostFits(Top)'
    BY <1>1, <2>1, <2>2 DEF InnermostFits, Block
  <2>4. QED
    BY <1>1, <1>3, <2>2, <2>3 DEF Inv, SetOne
<1>6. QED
  BY <1>4, <1>5

\* What a block does between its statements, and the end of its body.
LEMMA PlaceStep ==
  ASSUME Inv, UNCHANGED <<settings, blocks>>, Inside, Top.at # "snapshot",
         NEW place \in {"body", "stop", "refresh", "join", "close", "restore"}, Goes(place)
  PROVE  Inv' /\ ~(Len(stack') < Len(stack))
<1>1. Top \in Block /\ Len(stack) \in Nat \ {0}
  BY TopIsABlock DEF Inv
<1>2. StackInv' /\ Len(stack') = Len(stack) /\ Top' = [Top EXCEPT !.at = place, !.i = 1]
  BY GoesStep DEF Inv, Places
<1>3. InnermostFits(Top)'
  BY <1>1, <1>2 DEF InnermostFits, Block
<1>4. QED
  BY <1>1, <1>2, <1>3 DEF Inv

\* The body changes settings as it likes: what its block took note of stays.
LEMMA BodySetsStep ==
  ASSUME Inv, NEW n \in Names, NEW v \in Values[n], BodySets(n, v)
  PROVE  Inv' /\ ~(Len(stack') < Len(stack))
<1>1. settings' \in Settings
  BY ExecutesKeeps DEF BodySets
<1>2. Inside' /\ InnermostFits(Top)'
  BY DEF BodySets, At, Inside, Top, InnermostFits
<1>3. Len(stack) \in Nat
  BY DEF Inv, StackInv
<1>4. QED
  BY <1>1, <1>2, <1>3 DEF Inv, StackInv, NotedAsEntered, BodySets

\* A block that is left leaves the block around it in its body, whatever it did to the
\* settings.
LEMMA LeavesStep ==
  ASSUME Inv, Inside, NEW how, Leaves(how), blocks' = blocks, settings' \in Settings
  PROVE  Inv'
<1>1. StackInv' /\ (Inside' => Top'.at = "body")
  BY TopGoes DEF Inv, Leaves
<1>2. Inside' => InnermostFits(Top)'
  BY <1>1 DEF InnermostFits
<1>3. QED
  BY <1>1, <1>2 DEF Inv

\* What a block puts back is what it found.
LEMMA RestoreStep ==
  ASSUME Inv, RestoreOne
  PROVE  /\ Inv'
         /\ Len(stack') < Len(stack) =>
              \A name \in Touched(Top.kind) : settings'[name] = Top.entered[name]
<1> DEFINE name == Restores(Top.kind)[Top.i]
<1>1. /\ Inside /\ Top \in Block /\ Len(stack) \in Nat \ {0} /\ InnermostFits(Top)
      /\ NotedAsEntered(Top) /\ Top.at = "restore"
  BY TopIsABlock DEF Inv, RestoreOne, At
<1>2. Top.kind \in Kinds /\ Top.i \in {1, 2}
  BY <1>1 DEF Block
<1>3. /\ Len(Restores(Top.kind)) = 2 /\ Restores(Top.kind)[1] # Restores(Top.kind)[2]
      /\ Touched(Top.kind) = {Restores(Top.kind)[1], Restores(Top.kind)[2]}
      /\ Touched(Top.kind) \subseteq Names
  BY <1>2, TwoRestores
<1>4. Top.prev = Top.entered /\ Top.entered \in [Touched(Top.kind) -> AllValues]
  BY <1>1 DEF NotedAsEntered, Noted
<1>5. name \in Touched(Top.kind)
  BY <1>2, <1>3
<1>6. Executes(name, Top.entered[name])
  BY <1>4 DEF RestoreOne
<1>7. /\ settings' \in Settings /\ settings'[name] = Top.entered[name]
      /\ \A other \in Names \ {name} :
           \/ settings'[other] = settings[other]
           \/ {name, other} = Profiling /\ Null \in {Top.entered[name], settings[name]}
  BY <1>3, <1>5, <1>6, ExecutesIs
<1>8. CASE Top.i = 1
  <2>1. stack' = [stack EXCEPT ![Len(stack)].i = @ + 1]
    BY <1>3, <1>8 DEF RestoreOne
  <2>2. StackInv' /\ Len(stack') = Len(stack) /\ Top' = [Top EXCEPT !.i = 2]
    BY <1>1, <1>8, <2>1, CountStep DEF Inv
  <2>3. Top'.kind = Top.kind /\ Top'.at = "restore" /\ Top'.i = 2 /\ Top'.entered = Top.entered
    BY <1>1, <2>2 DEF Block
  <2>4. InnermostFits(Top)'
    BY <1>7, <1>8, <2>3 DEF InnermostFits
  <2>5. QED
    BY <1>1, <1>7, <2>2, <2>4 DEF Inv, RestoreOne
<1>9. CASE Top.i = 2
  <2>1. Leaves("restored") /\ blocks' = blocks
    BY <1>3, <1>9 DEF RestoreOne
  <2>2. Inv'
    BY <1>1, <1>7, <2>1, LeavesStep
  <2>3. settings[Restores(Top.kind)[1]] = Top.entered[Restores(Top.kind)[1]]
    BY <1>1, <1>9 DEF InnermostFits
  <2>4. settings'[Restores(Top.kind)[1]] = Top.entered[Restores(Top.kind)[1]]
    <3>1. CASE Top.kind = "progress_bar"
      BY <1>3, <1>2, <1>5, <1>7, <1>9, <2>3, <3>1, TwoRestores
    <3>2. CASE Top.kind # "progress_bar"
      <4>1. Restores(Top.kind) = <<"profiling_mode", "enable_profiling">>
        BY <1>2, <3>2, TwoRestores
      <4>2. Top.entered["enable_profiling"] = Null <=> Top.entered["profiling_mode"] = Null
        BY <1>1, <3>2 DEF NotedAsEntered
      <4>3. /\ settings'["enable_profiling"] = Null <=> settings'["profiling_mode"] = Null
            /\ settings["enable_profiling"] = Null <=> settings["profiling_mode"] = Null
        BY <1>7 DEF Settings, Inv
      <4>4. /\ settings'["enable_profiling"] = Top.entered["enable_profiling"]
            /\ settings["profiling_mode"] = Top.entered["profiling_mode"]
        BY <1>7, <1>9, <2>3, <4>1
      <4>5. CASE Top.entered["profiling_mode"] = Null
        BY <4>1, <4>2, <4>3, <4>4, <4>5
      <4>6. CASE Top.entered["profiling_mode"] # Null
        BY <1>3, <1>7, <1>9, <4>1, <4>2, <4>3, <4>4, <4>6
      <4>7. QED
        BY <4>5, <4>6
    <3>3. QED
      BY <3>1, <3>2
  <2>5. QED
    BY <1>3, <1>7, <1>9, <2>2, <2>4
<1>10. QED
  BY <1>2, <1>8, <1>9

\* A statement of a block that fails may have taken effect.
LEMMA FailsStep ==
  ASSUME Inv, Fails
  PROVE  Inv' /\ outcome' = "raised"
<1>1. Inside
  BY DEF Fails
<1>2. CASE settings' = settings
  BY <1>1, <1>2, LeavesStep DEF Inv, Fails, Leaves
<1>3. CASE Top.at = "set" /\ LET set == Sets(Top.kind)[Top.i] IN Executes(set[1], set[2])
  BY <1>1, <1>3, ExecutesKeeps, LeavesStep DEF Fails, Leaves
<1>4. CASE /\ Top.at = "restore"
           /\ LET name == Restores(Top.kind)[Top.i] IN Executes(name, Top.prev[name])
  BY <1>1, <1>4, ExecutesKeeps, LeavesStep DEF Fails, Leaves
<1>5. QED
  BY <1>2, <1>3, <1>4 DEF Fails

-----------------------------------------------------------------------------
(* The specification.                                                      *)

\* What SettingsRestored says of a step.
Restored ==
  Len(stack') < Len(stack) /\ outcome' = "restored" =>
    \A name \in Touched(Top.kind) : settings'[name] = Top.entered[name]

\* The invariant holds at first.
LEMMA InitInv == Init => Inv
<1> SUFFICES ASSUME Init
             PROVE  Inv
  OBVIOUS
<1>1. settings \in Settings
  BY DEF Init
<1>2. QED
  BY <1>1 DEF Init, Inv, StackInv, Inside

\* Every step keeps the invariant, and a block that is left in order leaves the settings
\* as they were.
LEMMA NextInv == Inv /\ [Next]_vars => Inv' /\ Restored
<1> SUFFICES ASSUME Inv, [Next]_vars
             PROVE  Inv' /\ Restored
  OBVIOUS
<1>1. ASSUME NEW kind \in Kinds, Enter(kind)
      PROVE  Inv' /\ Restored
  BY <1>1, EnterStep DEF Restored
<1>2. CASE Snapshot
  BY <1>2, SnapshotStep DEF Restored
<1>3. CASE SetOne
  BY <1>3, SetOneStep DEF Restored
<1>4. ASSUME NEW n \in Names, NEW v \in Values[n], BodySets(n, v)
      PROVE  Inv' /\ Restored
  BY <1>4, BodySetsStep DEF Restored
<1>5. CASE Start \/ BodyEnds \/ Stop \/ Join \/ CloseBar \/ Refresh
  <2>1. PICK place \in {"body", "stop", "refresh", "join", "close", "restore"} : Goes(place)
    BY <1>5 DEF Start, BodyEnds, Stop, Join, CloseBar, Refresh
  <2>2. UNCHANGED <<settings, blocks>> /\ Inside /\ Top.at # "snapshot"
    BY <1>5 DEF Start, BodyEnds, Stop, Join, CloseBar, Refresh, At
  <2>3. QED
    BY <2>1, <2>2, PlaceStep DEF Restored
<1>6. CASE RestoreOne
  BY <1>6, RestoreStep DEF Restored
<1>7. CASE Fails
  BY <1>7, FailsStep DEF Restored
<1>8. ASSUME UNCHANGED <<settings, stack, blocks>>
      PROVE  Inv' /\ Restored
  <2>1. Len(stack) \in Nat
    BY DEF Inv, StackInv
  <2>2. QED
    BY <1>8, <2>1 DEF Inv, StackInv, Inside, Top, InnermostFits, Current, Restored
<1>9. QED
  BY <1>1, <1>2, <1>3, <1>4, <1>5, <1>6, <1>7, <1>8 DEF Next, Exits, Poll, vars

\* The stack of blocks is what InnermostFits and StackInv say of it, always.
THEOREM InvHolds == Spec => []Inv
<1>1. Inv /\ [Next]_vars => Inv'
  BY NextInv
<1>2. QED
  BY <1>1, InitInv, PTL DEF Spec

\* A block whose own statements went through leaves the settings it touched as it found
\* them, for any nesting, whatever its body and the blocks inside it did to them.
THEOREM SettingsAreRestored == Spec => SettingsRestored
<1>1. Inv /\ [Next]_vars =>
        [Len(stack') < Len(stack) /\ outcome' = "restored" =>
           \A name \in Touched(Top.kind) : settings'[name] = Top.entered[name]]_vars
  BY NextInv DEF Restored
<1>2. QED
  BY <1>1, InvHolds, PTL DEF Spec, SettingsRestored
=============================================================================
