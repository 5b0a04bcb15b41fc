--------------------------- MODULE ExtractionProofs ---------------------------
(***************************************************************************)
(* Extraction for all plans, items, hooks and bounds: its typing, that     *)
(* what is in the stage is always what state.json says, and that a stage   *)
(* which is committed is that of a run from nothing.                       *)
(***************************************************************************)
EXTENDS Extraction, TLAPS

\* From the copy of the inner APK on, source-cache holds the APK of this plan.
CacheIsPlans == pc \notin {"idle", "cache"} => cache = plan

\* The cursor names an item while one is copied, a hook while one runs.
CursorNames ==
  /\ pc \in {"copy", "chmod"} => cur \in Items
  /\ pc = "marker" => cur \in Hooks

\* The items before the cursor are in the stage, and after extract_plan all are.
ItemsThere ==
  \A i \in Items :
    \/ pc \in {"extract", "copy"} /\ i < cur
    \/ pc = "chmod" /\ i <= cur
    \/ pc \in {"hooks", "marker"}
    => stage[i] # None

\* Where the steps of _prepare_stage_state and of the discard stand.
Ordered ==
  /\ pc \in {"drop hooks", "discard state"} => stage = Nothing
  /\ pc = "state" => stage = Nothing \/ state = Expected
  /\ pc \in {"extract", "copy", "chmod", "hooks", "marker", "validate",
             "discard", "staged"} => state = Expected

\* Each recipe but the first is an update that was counted.
UpdatesCounted == recipe <= changes

Typed == TypeOK /\ CacheIsPlans /\ CursorNames /\ ItemsThere /\ UpdatesCounted
IInv == Typed /\ Ordered /\ StateDescribesStage

USE ExtractionAssumption, NoneAssumption
-----------------------------------------------------------------------------

\* What a step may write into the stage.
LEMMA Written ==
  ASSUME NEW f \in Files, NEW c \in Contents \cup {None}, stage \in Stages
  PROVE  [stage EXCEPT ![f] = c] \in Stages
BY DEF Stages

LEMMA ItemsAreFiles == Items \subseteq Files
BY DEF Items, Files

\* The effect of a hook is a content of its own recipe.
LEMMA EffectTyped ==
  ASSUME TypeOK, ItemsThere, pc = "hooks", NEW h \in Hooks
  PROVE  Effect(h) \in Contents
<1>1. Target[h] \in Files
  OBVIOUS
<1>2. CASE Target[h] \in Items
  <2>1. stage[Target[h]] \in Contents
    BY <1>1, <1>2 DEF TypeOK, ItemsThere, Stages
  <2>2. Append(stage[Target[h]].by, h) \in Seq(Hooks)
    BY <2>1 DEF Contents
  <2> QED BY <1>2, <2>1, <2>2 DEF Effect, Contents
<1>3. CASE Target[h] \notin Items
  <2>1. <<h>> \in Seq(Hooks)
    OBVIOUS
  <2> QED BY <1>3, <2>1 DEF Effect, Contents, TypeOK
<1> QED BY <1>2, <1>3

LEMMA TornTyped ==
  ASSUME NEW c \in Contents \cup {None}
  PROVE  Torn(c) \in Contents \cup {None}
BY DEF Torn, Contents

LEMMA InitTyped == Init => Typed
<1> SUFFICES ASSUME Init PROVE Typed OBVIOUS
<1>1. stage \in Stages
  BY DEF Init, Nothing, Stages
<1> QED BY <1>1 DEF Init, Typed, TypeOK, CacheIsPlans, CursorNames, ItemsThere,
           UpdatesCounted, Recipes

LEMMA NextTyped == Typed /\ [Next]_vars => Typed'
<1> SUFFICES ASSUME Typed, [Next]_vars PROVE Typed'
  OBVIOUS
<1> USE DEF Typed, TypeOK, CacheIsPlans, CursorNames, ItemsThere, UpdatesCounted,
            disk, counts
<1>1. CASE Start
  BY <1>1 DEF Start, Recipes
<1>2. CASE CacheMember
  BY <1>2 DEF CacheMember
<1>3. CASE Prepare
  BY <1>3 DEF Prepare
<1>4. CASE DropStage
  <2>1. stage' \in Stages
    BY <1>4 DEF DropStage, Nothing, Stages
  <2> QED BY <1>4, <2>1 DEF DropStage
<1>5. CASE DropHooks
  BY <1>5 DEF DropHooks
<1>6. CASE WriteState
  <2>1. Expected \in States
    BY DEF Expected, States
  <2> QED BY <1>6, <2>1 DEF WriteState, Items
<1>7. CASE Copy
  BY <1>7 DEF Copy, Items
<1>8. CASE Replace
  <2> DEFINE c == [of |-> cache, under |-> recipe, by |-> <<>>, whole |-> TRUE,
                   mode |-> FALSE]
  <2>1. <<>> \in Seq(Hooks) /\ cache \in Plans
    BY <1>8 DEF Replace
  <2>2. c \in Contents
    BY <2>1 DEF Contents
  <2>3. c \in Contents /\ cur \in Files /\ c # None
    BY <1>8, <2>2, ItemsAreFiles DEF Replace
  <2>4. stage' = [stage EXCEPT ![cur] = c] /\ stage' \in Stages
    BY <1>8, <2>3, Written DEF Replace
  <2>5. ItemsThere'
    BY <1>8, <2>3, <2>4, ItemsAreFiles DEF Replace, Stages, Items
  <2> QED BY <1>8, <2>4, <2>5 DEF Replace
<1>9. CASE Chmod
  <2> DEFINE c == [stage[cur] EXCEPT !.mode = TRUE]
  <2>1. cur \in Files /\ stage[cur] # None
    BY <1>9, ItemsAreFiles DEF Chmod, Items
  <2>2. c \in Contents
    <3>1. stage[cur] \in Contents
      BY <2>1 DEF Stages
    <3> QED BY <3>1 DEF Contents
  <2>3. stage' = [stage EXCEPT ![cur] = c] /\ stage' \in Stages
    BY <1>9, <2>1, <2>2, Written DEF Chmod
  <2>4. \A i \in Items : i <= cur => stage'[i] # None
    <3>1. c # None
      BY <2>2
    <3> HIDE DEF c
    <3>2. pc = "chmod" /\ stage'[cur] # None
      <4>1. stage'[cur] = c
        BY <2>1, <2>3 DEF Stages
      <4> QED BY <1>9, <3>1, <4>1 DEF Chmod
    <3>3. ASSUME NEW i \in Items, i <= cur, i # cur PROVE stage'[i] # None
      BY <2>1, <2>3, <3>2, <3>3, ItemsAreFiles DEF Stages
    <3> QED BY <3>2, <3>3
  <2>5. ItemsThere'
    BY <1>9, <2>4 DEF Chmod, Items
  <2> QED BY <1>9, <2>3, <2>5 DEF Chmod
<1>10. CASE Resume
  BY <1>10 DEF Resume, ResumeItemValid, Items
<1>11. CASE Extracted
  BY <1>11 DEF Extracted, Items
<1>12. CASE SkipHook
  BY <1>12 DEF SkipHook
<1>13. CASE RunHook
  <2>1. cur \in Hooks /\ Target[cur] \in Files
    BY <1>13 DEF RunHook, Hooks
  <2>2. Effect(cur) \in Contents
    BY <1>13, <2>1, EffectTyped DEF RunHook
  <2>3. /\ stage' = [stage EXCEPT ![Target[cur]] = Effect(cur)]
        /\ stage' \in Stages
    BY <1>13, <2>1, <2>2, Written DEF RunHook
  <2>4. ItemsThere'
    BY <1>13, <2>1, <2>2, <2>3, ItemsAreFiles DEF RunHook, Stages
  <2> QED BY <1>13, <2>1, <2>3, <2>4 DEF RunHook
<1>14. CASE WriteMarker
  BY <1>14 DEF WriteMarker
<1>15. CASE HooksRun
  BY <1>15 DEF HooksRun
<1>16. CASE Validate
  BY <1>16 DEF Validate
<1>17. CASE Discard
  <2>1. stage' \in Stages
    BY <1>17 DEF Discard, Nothing, Stages
  <2> QED BY <1>17, <2>1 DEF Discard
<1>18. CASE DiscardState
  BY <1>18 DEF DiscardState
<1>19. CASE Commit
  <2>1. stage' \in Stages
    BY <1>19 DEF Commit, Nothing, Stages
  <2> QED BY <1>19, <2>1 DEF Commit
<1>20. CASE Update
  <2>1. /\ UNCHANGED <<pc, cur, plan, cache, stage, parts, state, markers, bared,
                       faults>>
        /\ pc = "idle" /\ changes < MaxChanges
        /\ recipe' = recipe + 1 /\ changes' = changes + 1
    BY <1>20 DEF Update, disk
  <2>2. recipe' \in Recipes /\ changes' \in 0 .. MaxChanges /\ UpdatesCounted'
    BY <2>1 DEF Recipes
  <2> QED BY <2>1, <2>2
<1>21. CASE End
  <2>1. stage' \in Stages
    <3>1. CASE pc \in {"drop stage", "discard"}
      BY <1>21, <3>1 DEF End, Stages
    <3>2. CASE pc = "marker"
      <4>1. /\ Target[cur] \in Files
            /\ Torn(stage[Target[cur]]) \in Contents \cup {None}
        BY <3>2, TornTyped DEF Stages
      <4> QED BY <1>21, <3>2, <4>1, Written DEF End
    <3> QED BY <1>21, <3>1, <3>2 DEF End
  <2>2. parts' \subseteq Items /\ bared' \subseteq Items
    BY <1>21 DEF End
  <2>3. markers' \in [Hooks -> Recipes \cup {None}]
    BY <1>21 DEF End
  <2>4. pc' = "idle" /\ UNCHANGED <<cur, plan, recipe, cache, state, changes>>
    BY <1>21 DEF End
  <2>5. faults' \in 0 .. MaxFaults
    <3>1. faults < MaxFaults /\ faults' = faults + 1
      BY <1>21 DEF End
    <3>2. faults \in 0 .. MaxFaults /\ MaxFaults \in Nat
      OBVIOUS
    <3> QED BY ONLY <3>1, <3>2
  <2> QED BY <2>1, <2>2, <2>3, <2>4, <2>5 DEF Recipes
<1>22. CASE UNCHANGED vars
  BY <1>22 DEF vars
<1> QED BY <1>1, <1>2, <1>3, <1>4, <1>5, <1>6, <1>7, <1>8, <1>9, <1>10, <1>11,
           <1>12, <1>13, <1>14, <1>15, <1>16, <1>17, <1>18, <1>19, <1>20, <1>21,
           <1>22 DEF Next, Step

\* Every variable keeps its type, whatever the plans, items, hooks and faults.
THEOREM ExtractionTyping == Spec => []TypeOK
<1>1. Init => Typed
  BY InitTyped
<1>2. Typed /\ [Next]_vars => Typed'
  BY NextTyped
<1>3. Typed => TypeOK
  BY DEF Typed
<1> QED BY <1>1, <1>2, <1>3, PTL DEF Spec
-----------------------------------------------------------------------------

\* A stage and a state.json that stay as they are stay described.
LEMMA Undisturbed ==
  ASSUME StateDescribesStage, UNCHANGED state,
         \A f \in Files : stage'[f] # None =>
           /\ stage[f] # None
           /\ stage'[f].under = stage[f].under /\ stage'[f].of = stage[f].of
  PROVE  StateDescribesStage'
BY DEF StateDescribesStage

\* A step that writes one file of the current recipe and plan under Expected.
LEMMA WrittenAsExpected ==
  ASSUME StateDescribesStage, Typed, NEW g \in Files, NEW c,
         state = Expected, UNCHANGED state,
         c.under = recipe, Fingerprint[c.of] = Fingerprint[plan],
         stage' = [stage EXCEPT ![g] = c]
  PROVE  StateDescribesStage'
<1>1. Expected \in States
  BY DEF Expected, States, Typed, TypeOK
<1>2. state' # None
  BY <1>1
<1> QED BY <1>2 DEF StateDescribesStage, Expected, Typed, TypeOK, Stages

LEMMA InitDescribed == Init => Ordered /\ StateDescribesStage
BY DEF Init, Ordered, StateDescribesStage, Nothing

LEMMA NextDescribed == IInv /\ [Next]_vars => (Ordered /\ StateDescribesStage)'
<1> SUFFICES ASSUME IInv, [Next]_vars PROVE Ordered' /\ StateDescribesStage'
  OBVIOUS
<1> USE DEF IInv, Ordered, disk, counts
<1>1. CASE Start
  BY <1>1, Undisturbed DEF Start
<1>2. CASE CacheMember
  BY <1>2, Undisturbed DEF CacheMember
<1>3. CASE Prepare
  <2>1. state = None => stage = Nothing
    BY DEF StateDescribesStage, Typed, TypeOK, Stages, Nothing
  <2> QED BY <1>3, <2>1, Undisturbed DEF Prepare, Expected
<1>4. CASE DropStage
  BY <1>4, Undisturbed DEF DropStage, Nothing
<1>5. CASE DropHooks
  BY <1>5, Undisturbed DEF DropHooks, Nothing
<1>6. CASE WriteState
  <2>1. CASE stage = Nothing
    BY <1>6, <2>1 DEF WriteState, Nothing, StateDescribesStage, Expected
  <2>2. CASE state = Expected
    BY <1>6, <2>2, Undisturbed DEF WriteState, Expected
  <2> QED BY <1>6, <2>1, <2>2 DEF WriteState
<1>7. CASE Copy
  BY <1>7, Undisturbed DEF Copy, Expected
<1>8. CASE Replace
  <2>1. cur \in Files /\ cache = plan
    BY <1>8, ItemsAreFiles DEF Replace, Typed, CursorNames, CacheIsPlans
  <2> QED BY <1>8, <2>1, WrittenAsExpected DEF Replace, Expected
<1>9. CASE Chmod
  <2>1. cur \in Files
    BY <1>9, ItemsAreFiles DEF Chmod, Typed, CursorNames
  <2>2. stage[cur] \in Contents
    BY <1>9, <2>1
       DEF Chmod, Typed, TypeOK, CursorNames, ItemsThere, Stages, Items
  <2>3. \A f \in Files : stage'[f] # None =>
          /\ stage[f] # None
          /\ stage'[f].under = stage[f].under /\ stage'[f].of = stage[f].of
    BY <1>9, <2>1, <2>2 DEF Chmod, Typed, TypeOK, Stages, Contents
  <2> QED BY <1>9, <2>3, Undisturbed DEF Chmod, Expected
<1>10. CASE Resume
  BY <1>10, Undisturbed DEF Resume, Expected
<1>11. CASE Extracted
  BY <1>11, Undisturbed DEF Extracted, Expected
<1>12. CASE SkipHook
  BY <1>12, Undisturbed DEF SkipHook, Expected
<1>13. CASE RunHook
  <2>1. cur \in Hooks /\ Target[cur] \in Files
    BY <1>13 DEF RunHook, Hooks, Typed, TypeOK
  <2>2. /\ Effect(cur).under = recipe
        /\ Fingerprint[Effect(cur).of] = Fingerprint[plan]
    <3>1. CASE Target[cur] \in Items
      <4>1. stage[Target[cur]] \in Contents /\ stage[Target[cur]] # None
        BY <1>13, <2>1, <3>1 DEF RunHook, Typed, TypeOK, ItemsThere, Stages
      <4>2. /\ Effect(cur).under = stage[Target[cur]].under
            /\ Effect(cur).of = stage[Target[cur]].of
        BY <3>1, <4>1 DEF Effect, Contents
      <4> QED BY <1>13, <2>1, <4>1, <4>2
             DEF RunHook, StateDescribesStage, Expected
    <3> QED BY <3>1 DEF Effect
  <2> QED BY <1>13, <2>1, <2>2, WrittenAsExpected DEF RunHook, Expected
<1>14. CASE WriteMarker
  BY <1>14, Undisturbed DEF WriteMarker, Expected
<1>15. CASE HooksRun
  BY <1>15, Undisturbed DEF HooksRun, Expected
<1>16. CASE Validate
  BY <1>16, Undisturbed DEF Validate, Expected
<1>17. CASE Discard
  BY <1>17, Undisturbed DEF Discard, Nothing
<1>18. CASE DiscardState
  BY <1>18 DEF DiscardState, Nothing, StateDescribesStage
<1>19. CASE Commit
  BY <1>19, Undisturbed DEF Commit, Nothing
<1>20. CASE Update
  BY <1>20, Undisturbed DEF Update
<1>21. CASE End
  <2>1. \A f \in Files : stage'[f] # None =>
          /\ stage[f] # None
          /\ stage'[f].under = stage[f].under /\ stage'[f].of = stage[f].of
    <3>1. CASE pc \in {"drop stage", "discard"}
      BY <1>21, <3>1 DEF End
    <3>2. CASE pc = "marker"
      <4>1. Target[cur] \in Files
        BY <3>2 DEF Typed, CursorNames
      <4>2. stage[Target[cur]] \in Contents \cup {None}
        BY <4>1 DEF Typed, TypeOK, Stages
      <4>3. stage' = stage \/ stage' = [stage EXCEPT ![Target[cur]] = Torn(@)]
        BY <1>21, <3>2 DEF End
      <4>4. CASE stage' = stage
        BY <4>4
      <4>5. CASE stage' = [stage EXCEPT ![Target[cur]] = Torn(@)]
        BY <4>1, <4>2, <4>5 DEF Torn, Typed, TypeOK, Stages, Contents
      <4> QED BY <4>3, <4>4, <4>5
    <3> QED BY <1>21, <3>1, <3>2 DEF End
  <2> QED BY <1>21, <2>1, Undisturbed DEF End
<1>22. CASE UNCHANGED vars
  BY <1>22, Undisturbed DEF vars, Expected
<1> QED BY <1>1, <1>2, <1>3, <1>4, <1>5, <1>6, <1>7, <1>8, <1>9, <1>10, <1>11,
           <1>12, <1>13, <1>14, <1>15, <1>16, <1>17, <1>18, <1>19, <1>20, <1>21,
           <1>22 DEF Next, Step

\* At any moment the process may die, and state.json tells the next run whose
\* the stage is: _prepare_stage_state and the discard order their steps so.
THEOREM StageIsDescribed == Spec => []StateDescribesStage
<1>1. Init => IInv
  BY InitTyped, InitDescribed DEF IInv
<1>2. IInv /\ [Next]_vars => IInv'
  BY NextTyped, NextDescribed DEF IInv
<1>3. IInv => StateDescribesStage
  BY DEF IInv
<1> QED BY <1>1, <1>2, <1>3, PTL DEF Spec
-----------------------------------------------------------------------------
(* A committed stage is that of a run from nothing. What the hooks have    *)
(* done to an item can be told from the cursor (ItemsFresh), because an    *)
(* item goes to the hooks only as it was copied; a hook's own file needs   *)
(* nothing but that hook (OwnFiles).                                       *)

\* The hooks that this run is through with, from 1 on.
Ran == IF pc = "hooks" THEN cur - 1 ELSE IF pc = "marker" THEN cur
       ELSE IF pc \in {"validate", "staged"} THEN NumHooks ELSE 0
RanOn(f) == {h \in HooksOf(f) : h <= Ran}

\* This run has copied or resumed the item.
Ready(i) == \/ pc \in {"extract", "copy"} /\ i < cur
            \/ pc = "chmod" /\ i <= cur
            \/ pc \in {"hooks", "marker", "validate", "staged"}

ItemsFresh ==
  \A i \in Items :
    Ready(i) => /\ stage[i] # None /\ stage[i].whole /\ stage[i].of = plan
                /\ RanInOrder(stage[i].by, RanOn(i))

OwnFiles ==
  \A f \in Files \ Items :
    stage[f] # None => \E h \in HooksOf(f) : stage[f].by = <<h>>

\* Only the chmod under way, and those that never came, have a mode missing.
Modes ==
  \A i \in Items : stage[i] # None /\ ~stage[i].mode =>
    i \in bared \/ (pc = "chmod" /\ i = cur)

StagedWhole ==
  pc = "staged" => \A f \in Files : stage[f] # None /\ stage[f].whole

Fresh == ItemsFresh /\ OwnFiles /\ Modes /\ StagedWhole

\* A hook that comes after those in by continues the order.
LEMMA NextInOrder ==
  ASSUME NEW by \in Seq(Hooks), NEW hooks \in SUBSET Hooks, NEW h \in Hooks,
         RanInOrder(by, hooks), \A g \in hooks : g < h
  PROVE  RanInOrder(Append(by, h), hooks \cup {h})
<1>1. \A k \in 1 .. Len(by) : by[k] \in hooks
  BY DEF RanInOrder
<1>2. /\ Len(Append(by, h)) = Len(by) + 1 /\ Len(by) \in Nat
      /\ \A k \in 1 .. Len(by) : Append(by, h)[k] = by[k]
      /\ Append(by, h)[Len(by) + 1] = h
  OBVIOUS
<1>3. \A g : g \in hooks <=> \E k \in 1 .. Len(by) : by[k] = g
  BY DEF RanInOrder
<1>4. {Append(by, h)[k] : k \in 1 .. Len(by) + 1} = hooks \cup {h}
  <2>1. \A k \in 1 .. Len(by) + 1 : k \in 1 .. Len(by) \/ k = Len(by) + 1
    BY <1>2
  <2>2. \A g : (\E k \in 1 .. Len(by) + 1 : Append(by, h)[k] = g)
               <=> g \in hooks \cup {h}
    BY <1>2, <1>3, <2>1
  <2> QED BY <2>2
<1>5. ASSUME NEW j \in 1 .. Len(by) + 1, NEW k \in 1 .. Len(by) + 1, j < k
      PROVE  Append(by, h)[j] < Append(by, h)[k]
  <2>1. j \in 1 .. Len(by)
    BY <1>2, <1>5
  <2>2. CASE k \in 1 .. Len(by)
    BY <1>2, <1>5, <2>1, <2>2 DEF RanInOrder
  <2>3. CASE k = Len(by) + 1
    BY <1>1, <1>2, <2>1, <2>3
  <2> QED BY <1>2, <2>2, <2>3
<1> QED BY <1>2, <1>4, <1>5 DEF RanInOrder

\* No hook at all, and one.
LEMMA FewInOrder ==
  /\ RanInOrder(<<>>, {})
  /\ \A h \in Hooks : RanInOrder(<<h>>, {h})
<1>1. RanInOrder(<<>>, {})
  BY DEF RanInOrder
<1>2. \A h \in Hooks : RanInOrder(<<h>>, {h})
  BY DEF RanInOrder
<1> QED BY <1>1, <1>2

LEMMA InitFresh == Init => Fresh
BY DEF Init, Fresh, ItemsFresh, Ready, OwnFiles, Modes, StagedWhole, Nothing,
       Items, Files

\* A step that takes nothing but whole files from the stage, outside of the run
\* from the items on.
LEMMA Emptied ==
  ASSUME Fresh, \A f \in Files : stage'[f] \in {stage[f], None},
         \A i \in Items : ~Ready(i)', bared \subseteq bared',
         pc' # "staged", pc # "chmod"
  PROVE  Fresh'
BY ItemsAreFiles DEF Fresh, ItemsFresh, OwnFiles, Modes, StagedWhole, HooksOf

\* A step that leaves the stage alone.
LEMMA Kept ==
  ASSUME Fresh, UNCHANGED <<stage, plan, bared>>, pc' # "staged",
         pc # "chmod",
         \A i \in Items : Ready(i)' => Ready(i) /\ RanOn(i)' = RanOn(i)
  PROVE  Fresh'
BY DEF Fresh, ItemsFresh, OwnFiles, Modes, StagedWhole, HooksOf

\* A step that leaves an item, or what was said of it, as they are.
LEMMA SameItem ==
  ASSUME Fresh, NEW i \in Items, Ready(i), stage'[i] = stage[i],
         UNCHANGED plan, RanOn(i)' = RanOn(i)
  PROVE  /\ stage'[i] # None /\ stage'[i].whole /\ stage'[i].of = plan'
         /\ RanInOrder(stage'[i].by, RanOn(i)')
BY DEF Fresh, ItemsFresh

\* The copy of an item.
LEMMA ReplaceFresh == Typed /\ Fresh /\ Replace => Fresh'
<1> SUFFICES ASSUME Typed, Fresh, Replace PROVE Fresh'
  OBVIOUS
<1> DEFINE c == [of |-> cache, under |-> recipe, by |-> <<>>, whole |-> TRUE,
                 mode |-> FALSE]
<1>1. /\ stage' = [stage EXCEPT ![cur] = c] /\ pc = "copy" /\ pc' = "chmod"
      /\ UNCHANGED <<cur, plan, bared>>
  BY DEF Replace, counts
<1>2. cur \in Items /\ cur \in Files /\ stage \in Stages
  BY <1>1, ItemsAreFiles DEF Typed, TypeOK, CursorNames
<1>3. cache = plan
  BY <1>1 DEF Typed, CacheIsPlans
<1>4. /\ stage'[cur] = c /\ c # None
      /\ \A f \in Files : f # cur => stage'[f] = stage[f]
  <2>1. stage'[cur] = c /\ \A f \in Files : f # cur => stage'[f] = stage[f]
    BY <1>1, <1>2 DEF Stages
  <2>2. c \in Contents
    <3>1. <<>> \in Seq(Hooks) /\ cache \in Plans /\ recipe \in Recipes
      BY <1>1, <1>3 DEF Typed, TypeOK
    <3> QED BY <3>1 DEF Contents
  <2> QED BY <2>1, <2>2
<1>5. c.of = plan /\ c.by = <<>> /\ c.whole
  BY <1>3
<1> HIDE DEF c
<1>6. \A i \in Items : RanOn(i)' = RanOn(i) /\ RanOn(i) = {}
  BY <1>1 DEF RanOn, Ran, HooksOf, Hooks
<1>7. ItemsFresh'
  <2> SUFFICES ASSUME NEW i \in Items, Ready(i)'
               PROVE  /\ stage'[i] # None /\ stage'[i].whole
                      /\ stage'[i].of = plan' /\ RanInOrder(stage'[i].by, RanOn(i)')
    BY DEF ItemsFresh
  <2>1. CASE i = cur
    BY <1>1, <1>4, <1>5, <1>6, <2>1, FewInOrder
  <2>2. CASE i # cur
    <3>1. Ready(i)
      BY <1>1, <1>2, <2>2 DEF Ready, Items
    <3> QED BY <1>1, <1>4, <1>6, <2>2, <3>1, SameItem, ItemsAreFiles
  <2> QED BY <2>1, <2>2
<1>8. OwnFiles' /\ Modes' /\ StagedWhole'
  BY <1>1, <1>2, <1>4, ItemsAreFiles
  DEF Fresh, OwnFiles, Modes, StagedWhole, HooksOf
<1> QED BY <1>7, <1>8 DEF Fresh

\* The mode it gets.
LEMMA ChmodFresh == Typed /\ Fresh /\ Chmod => Fresh'
<1> SUFFICES ASSUME Typed, Fresh, Chmod PROVE Fresh'
  OBVIOUS
<1>1. /\ stage' = [stage EXCEPT ![cur].mode = TRUE]
      /\ pc = "chmod" /\ pc' = "extract" /\ cur' = cur + 1
      /\ bared' = bared \ {cur} /\ UNCHANGED plan
  BY DEF Chmod
<1>2. cur \in Items /\ cur \in Files /\ stage \in Stages
  BY <1>1, ItemsAreFiles DEF Typed, TypeOK, CursorNames
<1>3. Ready(cur)
  BY <1>1, <1>2 DEF Ready, Items
<1>4. stage[cur] \in Contents
  BY <1>2, <1>3 DEF Fresh, ItemsFresh, Stages
<1>5. /\ stage'[cur] # None /\ stage'[cur].whole = stage[cur].whole
      /\ stage'[cur].of = stage[cur].of /\ stage'[cur].by = stage[cur].by
      /\ stage'[cur].mode
      /\ \A f \in Files : f # cur => stage'[f] = stage[f]
  <2> DEFINE c == [stage[cur] EXCEPT !.mode = TRUE]
  <2>1. c \in Contents
    BY <1>4 DEF Contents
  <2>2. c # None /\ c.whole = stage[cur].whole /\ c.of = stage[cur].of
        /\ c.by = stage[cur].by /\ c.mode
    BY <1>4, <2>1 DEF Contents
  <2>3. stage'[cur] = c /\ \A f \in Files : f # cur => stage'[f] = stage[f]
    BY <1>1, <1>2 DEF Stages
  <2> HIDE DEF c
  <2> QED BY <2>2, <2>3
<1>6. \A i \in Items : RanOn(i)' = RanOn(i)
  BY <1>1 DEF RanOn, Ran, HooksOf
<1>7. ItemsFresh'
  <2> SUFFICES ASSUME NEW i \in Items, Ready(i)'
               PROVE  /\ stage'[i] # None /\ stage'[i].whole
                      /\ stage'[i].of = plan' /\ RanInOrder(stage'[i].by, RanOn(i)')
    BY DEF ItemsFresh
  <2>1. CASE i = cur
    BY <1>1, <1>2, <1>3, <1>5, <1>6, <2>1 DEF Fresh, ItemsFresh
  <2>2. CASE i # cur
    <3>1. Ready(i)
      BY <1>1, <1>2, <2>2 DEF Ready, Items
    <3> QED BY <1>1, <1>5, <1>6, <2>2, <3>1, SameItem, ItemsAreFiles
  <2> QED BY <2>1, <2>2
<1>8. OwnFiles' /\ Modes' /\ StagedWhole'
  BY <1>1, <1>2, <1>5, ItemsAreFiles
  DEF Fresh, OwnFiles, Modes, StagedWhole, HooksOf
<1> QED BY <1>7, <1>8 DEF Fresh

\* A hook finds its item with just the hooks before it, and adds itself.
LEMMA RunHookFresh == Typed /\ Fresh /\ RunHook => Fresh'
<1> SUFFICES ASSUME Typed, Fresh, RunHook PROVE Fresh'
  OBVIOUS
<1> DEFINE t == Target[cur]
           c == Effect(cur)
<1>1. /\ stage' = [stage EXCEPT ![t] = c] /\ pc = "hooks" /\ pc' = "marker"
      /\ UNCHANGED <<cur, plan, bared>>
  BY DEF RunHook, counts
<1>2. cur \in Hooks /\ t \in Files /\ stage \in Stages
  BY DEF RunHook, Hooks, Typed, TypeOK
<1>3. /\ stage'[t] = c /\ c \in Contents /\ c # None
      /\ \A f \in Files : f # t => stage'[f] = stage[f]
  <2>1. c \in Contents
    BY <1>1, <1>2, EffectTyped DEF Typed
  <2> QED BY <1>1, <1>2, <2>1 DEF Stages
<1>4. t \in Items =>
        /\ c.whole = stage[t].whole /\ c.of = stage[t].of
        /\ c.mode = stage[t].mode /\ c.by = Append(stage[t].by, cur)
        /\ stage[t] \in Contents
  <2>1. t \in Items => stage[t] \in Contents
    BY <1>1, <1>2 DEF Fresh, ItemsFresh, Ready, Stages
  <2> QED BY <2>1 DEF Effect, Contents
<1>5. t \notin Items => c.by = <<cur>>
  BY DEF Effect
<1>6. \A f : /\ f # t => RanOn(f)' = RanOn(f)
             /\ f = t => RanOn(f)' = RanOn(f) \cup {cur}
             /\ RanOn(f) \in SUBSET Hooks /\ \A g \in RanOn(f) : g < cur
  BY <1>1, <1>2 DEF RanOn, Ran, HooksOf, Hooks
<1> HIDE DEF t, c
<1>7. ItemsFresh'
  <2> SUFFICES ASSUME NEW i \in Items, Ready(i)'
               PROVE  /\ stage'[i] # None /\ stage'[i].whole
                      /\ stage'[i].of = plan' /\ RanInOrder(stage'[i].by, RanOn(i)')
    BY DEF ItemsFresh
  <2>1. Ready(i)
    BY <1>1 DEF Ready
  <2>2. CASE i = t
    <3>1. stage[t].whole /\ stage[t].of = plan /\ RanInOrder(stage[t].by, RanOn(t))
      BY <2>1, <2>2 DEF Fresh, ItemsFresh
    <3>2. stage[t].by \in Seq(Hooks)
      BY <1>4, <2>2 DEF Contents
    <3>3. RanInOrder(Append(stage[t].by, cur), RanOn(t) \cup {cur})
      BY <1>2, <1>6, <3>1, <3>2, NextInOrder
    <3>4. stage'[i] = c /\ plan' = plan
      BY <1>1, <1>3, <2>2
    <3>5. c.whole /\ c.of = plan /\ c.by = Append(stage[t].by, cur)
      BY <1>4, <2>2, <3>1
    <3>6. RanInOrder(c.by, RanOn(t) \cup {cur})
      BY <3>3, <3>5
    <3>7. RanOn(i)' = RanOn(t) \cup {cur}
      BY <1>6, <2>2
    <3> QED BY <1>3, <3>4, <3>5, <3>6, <3>7
  <2>3. CASE i # t
    BY <1>1, <1>3, <1>6, <2>1, <2>3, SameItem, ItemsAreFiles
  <2> QED BY <2>2, <2>3
<1>8. OwnFiles'
  <2>1. t \notin Items => cur \in HooksOf(t)
    BY <1>2 DEF HooksOf, t
  <2> QED BY <1>1, <1>2, <1>3, <1>5, <2>1 DEF Fresh, OwnFiles, HooksOf
<1>9. Modes' /\ StagedWhole'
  BY <1>1, <1>3, <1>4, ItemsAreFiles DEF Fresh, Modes, StagedWhole
<1> QED BY <1>7, <1>8, <1>9 DEF Fresh

\* A hook that is skipped is not one of an item: the item has only earlier ones.
LEMMA SkipHookFresh == Typed /\ Fresh /\ SkipHook => Fresh'
<1> SUFFICES ASSUME Typed, Fresh, SkipHook PROVE Fresh'
  OBVIOUS
<1>1. /\ pc = "hooks" /\ cur' = cur + 1 /\ UNCHANGED <<pc, stage, plan, bared>>
      /\ Applied(cur) /\ cur \in Hooks
  BY DEF SkipHook, CheckpointValid, disk, counts, Hooks, Typed, TypeOK
<1>2. Target[cur] \notin Items
  <2> SUFFICES ASSUME Target[cur] \in Items PROVE FALSE
    OBVIOUS
  <2>1. RanInOrder(stage[Target[cur]].by, RanOn(Target[cur]))
    BY <1>1 DEF Fresh, ItemsFresh, Ready
  <2>2. cur \in RanOn(Target[cur])
    BY <1>1, <2>1 DEF Applied, RanInOrder
  <2> QED BY <1>1, <2>2 DEF RanOn, Ran, Hooks
<1>3. \A i \in Items : RanOn(i)' = RanOn(i)
  BY <1>1, <1>2 DEF RanOn, Ran, HooksOf, Hooks
<1> QED BY <1>1, <1>3, Kept DEF Ready

LEMMA NextFresh == IInv /\ Fresh /\ [Next]_vars => Fresh'
<1> SUFFICES ASSUME IInv, Fresh, [Next]_vars PROVE Fresh'
  OBVIOUS
<1> USE DEF disk, counts
<1>0. Typed
  BY DEF IInv
<1>1. CASE Start \/ CacheMember \/ Prepare \/ DropHooks \/ WriteState \/ Update
           \/ DiscardState
  <2>1. /\ UNCHANGED <<stage, bared>> /\ pc' # "staged" /\ pc # "chmod"
        /\ \A i \in Items : ~Ready(i)'
    <3>1. CASE WriteState
      BY <3>1 DEF WriteState, Ready, Items
    <3>2. CASE Start \/ CacheMember \/ Prepare \/ DropHooks \/ Update
               \/ DiscardState
      BY <3>2 DEF Start, CacheMember, Prepare, DropHooks, Update, DiscardState,
         Ready
    <3> QED BY <1>1, <3>1, <3>2
  <2> QED BY <2>1, Emptied
<1>2. CASE DropStage \/ Discard \/ Commit
  <2>1. /\ \A f \in Files : stage'[f] \in {stage[f], None}
        /\ UNCHANGED bared /\ pc' # "staged" /\ pc # "chmod"
        /\ \A i \in Items : ~Ready(i)'
    BY <1>2 DEF DropStage, Discard, Commit, Nothing, Ready
  <2> QED BY <2>1, Emptied
<1>3. CASE Copy
  BY <1>3, Kept DEF Copy, Ready, RanOn, Ran
<1>4. CASE Replace
  BY <1>0, <1>4, ReplaceFresh
<1>5. CASE Chmod
  BY <1>0, <1>5, ChmodFresh
<1>6. CASE Resume
  <2>1. /\ UNCHANGED <<stage, plan, pc, bared>> /\ pc = "extract" /\ cur' = cur + 1
        /\ ResumeItemValid(cur) /\ cur \in Nat
    BY <1>0, <1>6 DEF Resume, Typed, TypeOK
  <2>2. \A i : RanOn(i)' = RanOn(i) /\ RanOn(i) = {}
    BY <2>1 DEF RanOn, Ran, HooksOf, Hooks
  <2>3. ItemsFresh'
    <3> SUFFICES ASSUME NEW i \in Items, Ready(i)'
                 PROVE  /\ stage'[i] # None /\ stage'[i].whole
                        /\ stage'[i].of = plan'
                        /\ RanInOrder(stage'[i].by, RanOn(i)')
      BY DEF ItemsFresh
    <3>1. CASE i = cur
      BY <2>1, <2>2, <3>1, FewInOrder DEF ResumeItemValid
    <3>2. CASE i # cur
      <4>1. Ready(i)
        BY <2>1, <3>2 DEF Ready, Items
      <4> QED BY <2>1, <2>2, <4>1, SameItem
    <3> QED BY <3>1, <3>2
  <2> QED BY <2>1, <2>3 DEF Fresh, OwnFiles, Modes, StagedWhole, HooksOf
<1>7. CASE Extracted
  <2>1. \A i \in Items : Ready(i) /\ RanOn(i)' = RanOn(i)
    BY <1>0, <1>7 DEF Extracted, Ready, RanOn, Ran, HooksOf, Hooks, Items, Typed,
       TypeOK
  <2> QED BY <1>7, <2>1, Kept DEF Extracted
<1>8. CASE SkipHook
  BY <1>0, <1>8, SkipHookFresh
<1>9. CASE RunHook
  BY <1>0, <1>9, RunHookFresh
<1>10. CASE WriteMarker
  <2>1. \A i \in Items : Ready(i) /\ RanOn(i)' = RanOn(i)
    BY <1>0, <1>10 DEF WriteMarker, Ready, RanOn, Ran, Typed, TypeOK
  <2> QED BY <1>10, <2>1, Kept DEF WriteMarker
<1>11. CASE HooksRun
  <2>1. \A i \in Items : Ready(i) /\ RanOn(i)' = RanOn(i)
    BY <1>0, <1>11 DEF HooksRun, Ready, RanOn, Ran, HooksOf, Hooks, Typed, TypeOK
  <2> QED BY <1>11, <2>1, Kept DEF HooksRun
<1>12. CASE Validate
  <2>1. /\ UNCHANGED <<stage, plan, bared>> /\ pc = "validate"
        /\ pc' \in {"staged", "discard"}
        /\ pc' = "staged" => Validates
    BY <1>12 DEF Validate
  <2>2. \A i \in Items : Ready(i)' => Ready(i) /\ RanOn(i)' = RanOn(i)
    BY <2>1 DEF Ready, RanOn, Ran
  <2> QED BY <2>1, <2>2 DEF Fresh, ItemsFresh, OwnFiles, Modes, StagedWhole,
             HooksOf, Validates
<1>13. CASE End
  <2>1. /\ pc' = "idle" /\ UNCHANGED cur
        /\ bared' = IF pc = "chmod" THEN bared \cup {cur} ELSE bared
    BY <1>13 DEF End
  <2>2. ASSUME NEW f \in Files, stage'[f] # None
        PROVE  /\ stage[f] # None /\ stage'[f].by = stage[f].by
               /\ stage'[f].mode = stage[f].mode
    <3>1. CASE pc \in {"drop stage", "discard"}
      BY <1>13, <2>2, <3>1 DEF End
    <3>2. CASE pc = "marker"
      <4>1. Target[cur] \in Files
        BY <1>0, <3>2 DEF Typed, CursorNames
      <4>2. stage[Target[cur]] \in Contents \cup {None}
        BY <1>0, <4>1 DEF Typed, TypeOK, Stages
      <4>3. stage' = stage \/ stage' = [stage EXCEPT ![Target[cur]] = Torn(@)]
        BY <1>13, <3>2 DEF End
      <4>4. CASE stage' = stage
        BY <2>2, <4>4
      <4>5. CASE stage' = [stage EXCEPT ![Target[cur]] = Torn(@)]
        BY <1>0, <2>2, <4>1, <4>2, <4>5 DEF Torn, Typed, TypeOK, Stages, Contents
      <4> QED BY <4>3, <4>4, <4>5
    <3> QED BY <1>13, <2>2, <3>1, <3>2 DEF End
  <2>3. ItemsFresh' /\ StagedWhole'
    BY <2>1 DEF ItemsFresh, Ready, StagedWhole
  <2>4. OwnFiles'
    BY <2>2 DEF Fresh, OwnFiles, HooksOf
  <2>5. Modes'
    BY <2>1, <2>2, ItemsAreFiles DEF Fresh, Modes
  <2> QED BY <2>3, <2>4, <2>5 DEF Fresh
<1>14. CASE UNCHANGED vars
  <2>1. UNCHANGED <<pc, cur, plan, stage, bared>>
    BY <1>14 DEF vars, disk
  <2>2. \A f : RanOn(f)' = RanOn(f)
    BY <2>1 DEF RanOn, Ran, HooksOf
  <2>3. \A i \in Items : Ready(i)' <=> Ready(i)
    BY <2>1 DEF Ready
  <2>4. ItemsFresh'
    BY <2>1, <2>2, <2>3 DEF Fresh, ItemsFresh
  <2> QED BY <2>1, <2>4 DEF Fresh, OwnFiles, Modes, StagedWhole, HooksOf
<1> QED BY <1>1, <1>2, <1>3, <1>4, <1>5, <1>6, <1>7, <1>8, <1>9, <1>10, <1>11,
           <1>12, <1>13, <1>14 DEF Next, Step

\* What goes to the commit is what a run from nothing makes of the plan, whatever
\* runs, crashes, plans and recipes came before (_resume_item_valid, run_hooks).
THEOREM StageIsFresh == Spec => []StagedIsFresh
<1>1. IInv /\ Fresh => StagedIsFresh
  <2> SUFFICES ASSUME IInv, Fresh, pc = "staged", NEW f \in Files
               PROVE  /\ stage[f] # None /\ stage[f].whole
                      /\ stage[f].under = recipe
                      /\ RanInOrder(stage[f].by, HooksOf(f))
                      /\ IF f \in Items
                         THEN stage[f].of = plan /\ (stage[f].mode \/ f \in bared)
                         ELSE Fingerprint[stage[f].of] = Fingerprint[plan]
    BY DEF StagedIsFresh
  <2>1. stage[f] # None /\ stage[f].whole
    BY DEF Fresh, StagedWhole
  <2>2. stage[f].under = recipe /\ Fingerprint[stage[f].of] = Fingerprint[plan]
    BY <2>1 DEF IInv, Ordered, StateDescribesStage, Expected
  <2>3. CASE f \in Items
    <3>1. RanOn(f) = HooksOf(f)
      BY DEF RanOn, Ran, HooksOf, Hooks
    <3> QED BY <2>1, <2>2, <2>3, <3>1 DEF Fresh, ItemsFresh, Modes, Ready
  <2>4. CASE f \notin Items
    <3>1. PICK h \in HooksOf(f) : stage[f].by = <<h>>
      BY <2>1, <2>4 DEF Fresh, OwnFiles
    <3>2. HooksOf(f) = {h}
      BY <2>4, <3>1, OwnFileAssumption DEF HooksOf
    <3> QED BY <2>1, <2>2, <2>4, <3>1, <3>2, FewInOrder DEF HooksOf
  <2> QED BY <2>3, <2>4
<1>2. Init => IInv /\ Fresh
  BY InitTyped, InitDescribed, InitFresh DEF IInv
<1>3. IInv /\ Fresh /\ [Next]_vars => (IInv /\ Fresh)'
  BY NextTyped, NextDescribed, NextFresh DEF IInv
<1> QED BY <1>1, <1>2, <1>3, PTL DEF Spec
=============================================================================
