------------------------------ MODULE Extraction ------------------------------
(***************************************************************************)
(* From the player's bundle to a validated stage (nxextract.py): the copy  *)
(* of the inner APK, state.json, the items of the plan, the hooks of the   *)
(* recipe and their checkpoints, the validation. Runs follow one another   *)
(* on one workspace; each may end at any point, by an error or a crash,    *)
(* and the next resumes what it finds.                                     *)
(***************************************************************************)
EXTENDS Naturals, Sequences

CONSTANTS
  Plans,       \* what may be selected: the payloads of the player's sources
  Fingerprint, \* plan.fingerprint: loose files enter it by their size only
  NumItems,    \* items of a plan, files 1 .. NumItems of the stage
  NumFiles,    \* and those that only hooks make
  NumHooks,
  Target,      \* the file a hook makes or changes
  Checked,     \* whether the hook has a checkpoint
  None,
  MaxFaults,   \* runs that end before their stage is validated
  MaxChanges   \* runs on another plan than the last, and updates of the recipe

Items == 1 .. NumItems
Files == 1 .. NumFiles
Hooks == 1 .. NumHooks

\* A hook changes an item in place or makes a file of its own; its checkpoint
\* validates exactly while the whole of its effect is in the stage.
ASSUME ExtractionAssumption ==
  /\ NumItems \in Nat /\ NumFiles \in Nat /\ NumHooks \in Nat
  /\ NumItems <= NumFiles
  /\ MaxFaults \in Nat /\ MaxChanges \in Nat
  /\ Fingerprint \in [Plans -> Plans]
  /\ Target \in [Hooks -> Files] /\ Checked \in [Hooks -> BOOLEAN]

\* A file of its own is one no other hook touches.
ASSUME OwnFileAssumption ==
  \A g, h \in Hooks : Target[g] = Target[h] => Target[h] \in Items \/ g = h

VARIABLES
  pc,          \* what the run does next, "idle" between two runs
  cur,         \* the item or hook it is at
  plan,        \* the selected plan
  recipe,      \* recipe.digest
  cache,       \* the plan whose APK is in source-cache, or None
  stage,       \* the files of the stage
  parts,       \* items whose <item>.nxpart is in the stage
  state,       \* state.json
  markers,     \* the recipe that hooks/<id>.json names, or None
  bared,       \* items whose copy a run did not live to give its mode
  faults, changes

disk == <<cache, stage, parts, state, markers>>
counts == <<faults, changes>>
vars == <<pc, cur, plan, recipe, disk, bared, counts>>

Recipes == 0 .. MaxChanges
Contents == [of : Plans, under : Recipes, by : Seq(Hooks), whole : BOOLEAN,
             mode : BOOLEAN]
Stages == [Files -> Contents \cup {None}]
States == [recipe : Recipes, print : Plans]

ASSUME NoneAssumption == None \notin Plans \cup Contents \cup States

Expected == [recipe |-> recipe, print |-> Fingerprint[plan]]
Nothing == [f \in Files |-> None]

\* The type invariant.
TypeOK ==
  /\ pc \in {"idle", "cache", "prepare", "drop stage", "drop hooks", "state",
             "extract", "copy", "chmod", "hooks", "marker", "validate",
             "discard", "discard state", "staged"}
  /\ cur \in Nat \ {0} /\ plan \in Plans /\ recipe \in Recipes
  /\ cache \in Plans \cup {None} /\ stage \in Stages /\ parts \subseteq Items
  /\ state \in States \cup {None}
  /\ markers \in [Hooks -> Recipes \cup {None}] /\ bared \subseteq Items
  /\ faults \in 0 .. MaxFaults /\ changes \in 0 .. MaxChanges

Init ==
  /\ pc = "idle" /\ cur = 1 /\ plan \in Plans /\ recipe = 0
  /\ cache = None /\ stage = Nothing /\ parts = {} /\ state = None
  /\ markers = [h \in Hooks |-> None] /\ bared = {} /\ faults = 0 /\ changes = 0
-----------------------------------------------------------------------------
(* Runs                                                                    *)

\* The player starts it, perhaps with other files beside it.
Start ==
  /\ pc = "idle" /\ pc' = "cache"
  /\ plan' \in Plans
  /\ changes' = IF plan' = plan THEN changes ELSE changes + 1
  /\ changes' <= MaxChanges
  /\ UNCHANGED <<cur, recipe, disk, bared, faults>>

\* An update of the port brings another recipe.
Update ==
  /\ pc = "idle" /\ changes < MaxChanges
  /\ recipe' = recipe + 1 /\ changes' = changes + 1
  /\ UNCHANGED <<pc, cur, plan, disk, bared, faults>>

\* _copy_zip_member_resume: a cached member whose size and CRC are those in the
\* bundle is kept, another is replaced as a whole.
CacheMember_Kept ==
  /\ pc = "cache" /\ pc' = "prepare"
  /\ cache' = IF cache = None THEN plan ELSE cache
  /\ UNCHANGED <<cur, plan, recipe, stage, parts, state, markers, bared,
                 counts>>
CacheMember ==
  /\ pc = "cache" /\ pc' = "prepare"
  /\ cache' = plan
  /\ UNCHANGED <<cur, plan, recipe, stage, parts, state, markers, bared,
                 counts>>
-----------------------------------------------------------------------------
(* _prepare_stage_state: stage and checkpoints of another recipe or payload *)
(* go before state.json says whose they will be.                            *)

Prepare ==
  /\ pc = "prepare"
  /\ pc' = IF state \in {None, Expected} THEN "state" ELSE "drop stage"
  /\ UNCHANGED <<cur, plan, recipe, disk, bared, counts>>

DropStage_Later ==
  /\ pc = "drop stage" /\ pc' = "drop hooks"
  /\ state' = Expected
  /\ UNCHANGED <<cur, plan, recipe, cache, stage, parts, markers, bared,
                 counts>>
DropStage ==
  /\ pc = "drop stage" /\ pc' = "drop hooks"
  /\ stage' = Nothing /\ parts' = {}
  /\ UNCHANGED <<cur, plan, recipe, cache, state, markers, bared, counts>>

DropHooks ==
  /\ pc = "drop hooks" /\ pc' = "state"
  /\ markers' = [h \in Hooks |-> None]
  /\ UNCHANGED <<cur, plan, recipe, cache, stage, parts, state, bared, counts>>

WriteState ==
  /\ pc = "state" /\ pc' = "extract"
  /\ cur' = 1 /\ state' = Expected
  /\ UNCHANGED <<plan, recipe, cache, stage, parts, markers, bared, counts>>
-----------------------------------------------------------------------------
(* extract_plan                                                            *)

\* _resume_item_valid: size and CRC, or the hash of a loose file.
ResumeItemValid(i) ==
  /\ stage[i] # None
  /\ stage[i].whole /\ stage[i].of = plan /\ stage[i].by = <<>>

\* _copy_item fills a file of its own beside the item, ...
Copy ==
  /\ pc = "extract" /\ cur <= NumItems /\ ~ResumeItemValid(cur)
  /\ parts' = parts \cup {cur} /\ pc' = "copy"
  /\ UNCHANGED <<cur, plan, recipe, cache, stage, state, markers, bared,
                 counts>>

\* ... which becomes the item by os.replace, and gets its mode only after that.
Replace ==
  /\ pc = "copy" /\ pc' = "chmod" /\ parts' = parts \ {cur}
  /\ stage' = [stage EXCEPT ![cur] =
       [of |-> cache, under |-> recipe, by |-> <<>>, whole |-> TRUE,
        mode |-> FALSE]]
  /\ UNCHANGED <<cur, plan, recipe, cache, state, markers, bared, counts>>

Chmod ==
  /\ pc = "chmod" /\ pc' = "extract" /\ cur' = cur + 1
  /\ stage' = [stage EXCEPT ![cur].mode = TRUE]
  /\ bared' = bared \ {cur}
  /\ UNCHANGED <<plan, recipe, cache, parts, state, markers, counts>>

Resume ==
  /\ pc = "extract" /\ cur <= NumItems /\ ResumeItemValid(cur)
  /\ cur' = cur + 1
  /\ UNCHANGED <<pc, plan, recipe, disk, bared, counts>>

Extracted ==
  /\ pc = "extract" /\ cur > NumItems
  /\ pc' = "hooks" /\ cur' = 1
  /\ UNCHANGED <<plan, recipe, disk, bared, counts>>
-----------------------------------------------------------------------------
(* run_hooks                                                               *)

Applied(h) ==
  LET c == stage[Target[h]]
  IN  c # None /\ c.whole /\ \E k \in 1 .. Len(c.by) : c.by[k] = h

\* _checkpoint_valid; no checks, no checkpoint.
CheckpointValid(h) == Checked[h] /\ Applied(h)

\* What the hook makes of its target: a file of its own anew, an item in place.
Effect(h) ==
  IF Target[h] \in Items
  THEN [stage[Target[h]] EXCEPT !.by = Append(@, h)]
  ELSE [of |-> plan, under |-> recipe, by |-> <<h>>, whole |-> TRUE,
        mode |-> TRUE]

SkipHook_Marked ==
  /\ pc = "hooks" /\ cur <= NumHooks
  /\ markers[cur] # None
  /\ cur' = cur + 1
  /\ UNCHANGED <<pc, plan, recipe, disk, bared, counts>>
SkipHook ==
  /\ pc = "hooks" /\ cur <= NumHooks
  /\ markers[cur] = recipe /\ CheckpointValid(cur)
  /\ cur' = cur + 1
  /\ UNCHANGED <<pc, plan, recipe, disk, bared, counts>>

RunHook ==
  /\ pc = "hooks" /\ cur <= NumHooks
  /\ ~(markers[cur] = recipe /\ CheckpointValid(cur))
  /\ stage' = [stage EXCEPT ![Target[cur]] = Effect(cur)]
  /\ pc' = "marker"
  /\ UNCHANGED <<cur, plan, recipe, cache, parts, state, markers, bared,
                 counts>>

WriteMarker ==
  /\ pc = "marker" /\ pc' = "hooks"
  /\ markers' = [markers EXCEPT ![cur] = recipe] /\ cur' = cur + 1
  /\ UNCHANGED <<plan, recipe, cache, stage, parts, state, bared, counts>>

HooksRun ==
  /\ pc = "hooks" /\ cur > NumHooks
  /\ pc' = "validate" /\ UNCHANGED <<cur, plan, recipe, disk, bared, counts>>
-----------------------------------------------------------------------------
(* install_command: validation of the stage, and what follows              *)

\* validate_recipe_outputs sees what is missing or torn, and incomplete files.
Validates == parts = {} /\ \A f \in Files : stage[f] # None /\ stage[f].whole

Validate_Kept ==
  /\ pc = "validate"
  /\ pc' = IF Validates THEN "staged" ELSE "idle"
  /\ UNCHANGED <<cur, plan, recipe, disk, bared, counts>>
Validate ==
  /\ pc = "validate"
  /\ pc' = IF Validates THEN "staged" ELSE "discard"
  /\ UNCHANGED <<cur, plan, recipe, disk, bared, counts>>

\* A stage that failed as a whole is not resumed again; its markers stay.
Discard ==
  /\ pc = "discard" /\ pc' = "discard state"
  /\ stage' = Nothing /\ parts' = {}
  /\ UNCHANGED <<cur, plan, recipe, cache, state, markers, bared, counts>>

DiscardState ==
  /\ pc = "discard state" /\ pc' = "idle"
  /\ state' = None
  /\ UNCHANGED <<cur, plan, recipe, cache, stage, parts, markers, bared,
                 counts>>

\* commit_stage and _finalize_published_transaction take the stage and the
\* cache away, or a rolled back commit leaves them; state.json and the hooks'
\* markers stay. (Transaction has the commit itself.)
Commit ==
  /\ pc = "staged" /\ pc' = "idle"
  /\ \/ stage' = Nothing /\ parts' = {} /\ cache' = None
     \/ UNCHANGED <<stage, parts, cache>>
  /\ UNCHANGED <<cur, plan, recipe, state, markers, bared, counts>>

\* What a killed hook may leave of its target.
Torn(c) == IF c = None THEN None ELSE [c EXCEPT !.whole = FALSE]

\* The run ends early, by an error or with its process, and leaves what the
\* step it was in may leave.
End ==
  /\ pc \notin {"idle", "staged"} /\ faults < MaxFaults
  /\ pc' = "idle" /\ faults' = faults + 1
  /\ IF pc \in {"drop stage", "discard"}
     THEN \E gone \in SUBSET Files :
            /\ stage' = [f \in Files |-> IF f \in gone THEN None ELSE stage[f]]
            /\ parts' \in SUBSET parts
     ELSE /\ \/ stage' = stage
             \/ /\ pc = "marker"
                /\ stage' = [stage EXCEPT ![Target[cur]] = Torn(@)]
          /\ parts' \in {parts} \cup
                        (IF pc = "copy" THEN {parts \ {cur}} ELSE {})
  /\ \E gone \in SUBSET Hooks :
       /\ pc # "drop hooks" => gone = {}
       /\ markers' = [h \in Hooks |-> IF h \in gone THEN None ELSE markers[h]]
  /\ bared' = IF pc = "chmod" THEN bared \cup {cur} ELSE bared
  /\ UNCHANGED <<cur, plan, recipe, cache, state, changes>>

Step ==
  \/ Start \/ CacheMember \/ Prepare \/ DropStage \/ DropHooks \/ WriteState
  \/ Copy \/ Replace \/ Chmod \/ Resume \/ Extracted \/ SkipHook \/ RunHook
  \/ WriteMarker \/ HooksRun \/ Validate \/ Discard \/ DiscardState \/ Commit
Next == Step \/ Update \/ End

\* The game is started again and again, and a run goes on.
Spec == Init /\ [][Next]_vars /\ WF_vars(Step)
-----------------------------------------------------------------------------

HooksOf(f) == {h \in Hooks : Target[h] = f}

\* Every one of the hooks once, in their order, and no other.
RanInOrder(by, hooks) ==
  /\ {by[k] : k \in 1 .. Len(by)} = hooks
  /\ \A j, k \in 1 .. Len(by) : j < k => by[j] < by[k]

\* A stage that is committed is what a run from nothing makes of the plan: its
\* items, with every hook of the recipe applied once and in order, however many
\* runs it took, over whatever changes of plan and recipe (_resume_item_valid,
\* the hook markers). Two things are excepted, which the code does not keep: a
\* hook's own file may stem from a plan of the same fingerprint, and an item
\* whose run ended between os.replace and chmod never gets its mode.
StagedIsFresh ==
  pc = "staged" =>
    \A f \in Files :
      /\ stage[f] # None /\ stage[f].whole /\ stage[f].under = recipe
      /\ RanInOrder(stage[f].by, HooksOf(f))
      /\ IF f \in Items
         THEN stage[f].of = plan /\ (stage[f].mode \/ f \in bared)
         ELSE Fingerprint[stage[f].of] = Fingerprint[plan]

\* Whatever is in the stage is what state.json says: between any two steps the
\* process may die, and the next run has nothing else to judge the stage by
\* (the order of _prepare_stage_state and of the discard after a validation).
StateDescribesStage ==
  \A f \in Files :
    stage[f] # None =>
      /\ state # None
      /\ stage[f].under = state.recipe /\ Fingerprint[stage[f].of] = state.print

\* Started again and again, the install gets a stage through validation, again
\* and again: a stage that cannot pass, as one with the .nxpart of a run on a
\* twin payload, is not resumed for ever (the comment at line 4644).
AlwaysStages == []<>(pc = "staged")
=============================================================================
