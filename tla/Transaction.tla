---------------------------- MODULE Transaction ----------------------------
(***************************************************************************)
(* The payload transaction of nxextract.py: how `install` replaces the     *)
(* committed paths of a game directory through a stage, a backup and a     *)
(* write-ahead journal, how it publishes the result with a sealed marker,  *)
(* and how the next run recovers what a crash or an error left behind.     *)
(*                                                                         *)
(* Every journal write, rename and deletion is an action of its own, and   *)
(* each can go wrong three ways: it raises having done nothing, it raises  *)
(* after its effect took place (rename, then the required fsync fails), or *)
(* the process dies.  What was done is durable and in order.               *)
(***************************************************************************)
EXTENDS Naturals

CONSTANTS
  N,               \* number of commit paths of the recipe, in journal order
  None,            \* no such file
  Torn,            \* a tree some entries of which are gone
  MaxFaults,       \* bound: failing steps and crashes
  MaxForces,       \* bound: runs launched with --force-source
  MaxUpgrades,     \* bound: updates of the port (new recipe or new extractor)
  UpgradeAnytime,  \* may the port be updated while a journal is on disk?
  ReadFaults       \* may reading the payload back fail with an I/O error?

ASSUME ConstantsAssumption ==
  /\ N \in Nat \ {0}
  /\ {MaxFaults, MaxForces, MaxUpgrades} \subseteq Nat
  /\ {UpgradeAnytime, ReadFaults} \subseteq BOOLEAN

ASSUME AbsentAssumption == /\ None \notin Nat
                           /\ Torn \notin Nat
                           /\ None # Torn

Paths   == 1..N
Object  == Nat \cup {None, Torn}     \* a number names the attempt that made it
Tree    == [Paths -> Object]
Empty   == [p \in Paths |-> None]
Whole(t) == \A p \in Paths : t[p] \in Nat
Present(t) == \A p \in Paths : t[p] # None

Phases == {"pending", "backup-intent", "backup-skipped", "backed-up",
           "install-intent", "installed"}

Journal == [tid : Nat, recipe : Nat, had : [Paths -> BOOLEAN],
            phase : [Paths -> Phases], published : BOOLEAN]
Marker  == [tid : Nat, recipe : Nat, tool : Nat, seal : Tree]

ASSUME NoneAssumption == None \notin Journal \cup Marker \cup Tree

VARIABLES
  live, stage, backup,   \* the committed paths, in the three directories
  journal,               \* transaction.json
  marker,                \* the installation marker
  stageFor,              \* the recipe that state.json says the stage is for
  cache,                 \* does source-cache exist?
  recipe, tool,          \* the recipe digest and extractor version installed
  pc,                    \* where the run is; "idle" when there is none
  k,                     \* the path the commit or the rollback is at
  after,                 \* who called rollback or cleanup
  cleaned,               \* cleanup_complete
  force,                 \* --force-source
  outcome,               \* the terminal result of the last run
  attempt,               \* the last fresh name: extraction and transaction
  faults, forces, upgrades,   \* counted against their bounds
  pre, post              \* history: live and stage when the journal was made

payload == <<live, stage, backup>>
disk    == <<journal, marker, stageFor, cache>>
port    == <<recipe, tool>>
counts  == <<attempt, forces, upgrades>>
history == <<pre, post>>
vars    == <<payload, disk, port, pc, k, after, cleaned, force, outcome,
             counts, faults, history>>

TypeOK ==
  /\ live \in Tree /\ stage \in Tree /\ backup \in Tree
  /\ journal \in Journal \cup {None}
  /\ marker \in Marker \cup {None}
  /\ stageFor \in Nat \cup {None}
  /\ cache \in BOOLEAN /\ cleaned \in BOOLEAN /\ force \in BOOLEAN
  /\ recipe \in Nat /\ tool \in Nat /\ attempt \in Nat
  /\ faults \in Nat /\ forces \in Nat /\ upgrades \in Nat
  /\ pc \in {"idle", "recover", "select", "adopt", "extract", "commit",
             "backup", "displace", "displaced", "install", "place", "placed",
             "marker", "published", "sync",
             "dropBackup", "dropStage", "dropCache", "dropJournal", "finish",
             "undo", "undone"}
  /\ k \in 0..N
  /\ after \in {"recover", "commit"}
  /\ outcome \in {"none", "success", "error"}
  /\ pre \in Tree /\ post \in Tree

(***************************************************************************)
(* How one step can end.                                                   *)
(***************************************************************************)

\* A step whose own check does not hold raises before it does anything.
Endings(sound) ==
  IF ~sound THEN {"raised"}
  ELSE {"ok"} \cup (IF faults < MaxFaults THEN {"raised", "late"} ELSE {})

Done(o) == o # "raised"      \* the effect took place

\* The step ends with o; an ending that its own check did not force is a fault.
Ends(o, sound) ==
  /\ o \in Endings(sound)
  /\ faults' = IF sound /\ o # "ok" THEN faults + 1 ELSE faults

Fault == faults < MaxFaults /\ faults' = faults + 1

\* A rename of path k: what the two directories are afterwards.
\* Bug: the object is copied.
Without_Copy(t, p) == t
Without(t, p) == [t EXCEPT ![p] = None]
With(t, p, object) == [t EXCEPT ![p] = object]

\* The run is over: an error is reported, or success.
Stop(result) == pc' = "idle" /\ outcome' = result

\* The next step of a run that goes on, or the error that ends it.
GoOn(o, next) == IF o = "ok" THEN pc' = next /\ UNCHANGED outcome
                             ELSE Stop("error")

\* What can be left of a tree by a deletion that did not finish.
Remnants(t) ==
  {r \in [Paths -> {t[p] : p \in Paths} \cup {Torn, None}] :
     \A p \in Paths : r[p] \in IF t[p] = None THEN {None} ELSE {t[p], Torn, None}}

\* The results of validating a tree in full: its rules are bounds on counts
\* and sizes, so a torn tree may pass, and so may data of unknown origin.
Verdicts(t) == IF ~Present(t) THEN {FALSE}
               ELSE IF Whole(t) THEN {TRUE} ELSE BOOLEAN

MarkerMatches == /\ marker # None
                 /\ marker.recipe = recipe
                 /\ marker.tool = tool
Sealed == MarkerMatches /\ marker.seal = live

\* Bug: the transaction's id does not reach the marker.
NewMarker_Anonymous(tid) == [tid |-> 0, recipe |-> recipe, tool |-> tool,
                             seal |-> live]
NewMarker(tid) == [tid |-> tid, recipe |-> recipe, tool |-> tool, seal |-> live]

Init ==
  /\ live \in [Paths -> {None, 0}]      \* an older install, or copied by hand
  /\ stage = Empty /\ backup = Empty
  /\ journal = None /\ marker = None /\ stageFor = None /\ cache = FALSE
  /\ recipe = 0 /\ tool = 0
  /\ pc = "idle" /\ k = 0 /\ after = "recover" /\ cleaned = TRUE
  /\ force = FALSE /\ outcome = "none"
  /\ attempt = 0 /\ faults = 0 /\ forces = 0 /\ upgrades = 0
  /\ pre = live /\ post = Empty

(***************************************************************************)
(* The start of a run: recovery, then the two ways of not extracting.      *)
(***************************************************************************)

\* The lock is taken and the last terminal result removed.
Launch(f) ==
  /\ pc = "idle"
  /\ f => forces < MaxForces
  /\ forces' = IF f THEN forces + 1 ELSE forces
  /\ pc' = "recover" /\ force' = f /\ outcome' = "none"
  /\ UNCHANGED <<payload, disk, port, k, after, cleaned, attempt, upgrades,
                 faults, history>>

NothingToRecover ==
  /\ pc = "recover" /\ journal = None
  /\ pc' = "select"
  /\ UNCHANGED <<payload, disk, port, k, after, cleaned, force, outcome,
                 counts, faults, history>>

\* "transaction journal belongs to another recipe"
RefuseJournal ==
  /\ pc = "recover" /\ journal # None
  /\ journal.recipe # recipe
  /\ Stop("error")
  /\ UNCHANGED <<payload, disk, port, k, after, cleaned, force, counts,
                 faults, history>>

\* Bug: recovery also wants the journal's own published flag.
OwnMarker_Flagged == /\ marker # None /\ marker.tid = journal.tid
                     /\ journal.published
OwnMarker == marker # None /\ marker.tid = journal.tid

\* The marker of this very transaction stands for the payload: finish cleanup.
FinishPublished ==
  /\ pc = "recover" /\ journal # None
  /\ journal.recipe = recipe
  /\ OwnMarker /\ Sealed
  /\ TRUE \in Verdicts(live)
  /\ pc' = "dropBackup" /\ after' = "recover"
  /\ UNCHANGED <<payload, disk, port, k, cleaned, force, outcome, counts,
                 faults, history>>

\* Bug: any journal found is rolled back.
StartUndo_Always ==
  /\ pc = "recover" /\ journal # None
  /\ journal.recipe = recipe
  /\ pc' = "undo" /\ after' = "recover" /\ k' = N
  /\ UNCHANGED <<payload, disk, port, cleaned, force, outcome, counts, faults,
                 history>>
\* Anything else is rolled back; so is a payload that could not be read.
StartUndo ==
  /\ pc = "recover" /\ journal # None
  /\ journal.recipe = recipe
  /\ \/ /\ ~(OwnMarker /\ Sealed) \/ FALSE \in Verdicts(live)
        /\ UNCHANGED faults
     \/ ReadFaults /\ OwnMarker /\ Sealed /\ Fault
  /\ pc' = "undo" /\ after' = "recover" /\ k' = N
  /\ UNCHANGED <<payload, disk, port, cleaned, force, outcome, counts, history>>

\* Bug: the seal of the marker is not compared.
FastPath_Unsealed ==
  /\ pc = "select" /\ ~force /\ MarkerMatches
  /\ Stop("success")
  /\ UNCHANGED <<payload, disk, port, k, after, cleaned, force, counts,
                 faults, history>>
\* NXE0001: the marker and its seal still describe what is live.
FastPath ==
  /\ pc = "select" /\ ~force /\ Sealed
  /\ Stop("success")
  /\ UNCHANGED <<payload, disk, port, k, after, cleaned, force, counts,
                 faults, history>>

SkipFastPath ==
  /\ pc = "select"
  /\ \/ (force \/ ~Sealed) /\ UNCHANGED faults
     \/ ReadFaults /\ ~force /\ Sealed /\ Fault
  /\ pc' = IF force THEN "extract" ELSE "adopt"
  /\ UNCHANGED <<payload, disk, port, k, after, cleaned, force, outcome,
                 counts, history>>

\* NXE0002: live data that validates in full gets a marker of its own.
Adopt(o) ==
  /\ pc = "adopt" /\ TRUE \in Verdicts(live)
  /\ Ends(o, TRUE)
  /\ attempt' = attempt + 1
  /\ marker' = IF Done(o) THEN NewMarker(attempt') ELSE marker
  /\ Stop(IF o = "ok" THEN "success" ELSE "error")
  /\ UNCHANGED <<payload, journal, stageFor, cache, port, k, after, cleaned,
                 force, forces, upgrades, history>>

\* Data may fail validation for reasons this model does not look into.
DoNotAdopt ==
  /\ pc = "adopt"
  /\ pc' = "extract"
  /\ UNCHANGED <<payload, disk, port, k, after, cleaned, force, outcome,
                 counts, faults, history>>

(***************************************************************************)
(* Extraction into the stage, which later runs resume.                     *)
(***************************************************************************)

\* What _prepare_stage_state leaves of the stage: nothing, when state.json
\* names another recipe or (`same` is FALSE) another plan.
Prepared(same) == IF same /\ stageFor \in {None, recipe} THEN stage ELSE Empty

\* Items 1..n are in the stage, resumed or new; item n + 1 is partly there.
Staged(same, n) ==
  [p \in Paths |->
     IF Prepared(same)[p] \in Nat THEN Prepared(same)[p]
     ELSE IF p <= n THEN attempt + 1
     ELSE IF p = n + 1 THEN Torn ELSE Prepared(same)[p]]

\* Extraction, hooks and the validation of the stage; n < N when it stopped.
Extract(n, same, bundle) ==
  /\ pc = "extract"
  /\ attempt' = attempt + 1
  /\ stage' = Staged(same, n)
  /\ stageFor' = recipe
  /\ cache' = (cache \/ bundle)
  /\ IF n = N THEN /\ pc' = "commit"
                   /\ UNCHANGED <<outcome, faults>>
              ELSE Fault /\ Stop("error")
  /\ UNCHANGED <<live, backup, journal, marker, port, k, after, cleaned, force,
                 forces, upgrades, history>>

\* The staged set fails validation as a whole: it is not resumed again.
RejectStage ==
  /\ pc = "commit" /\ Fault
  /\ stage' \in Remnants(stage)
  /\ stageFor' = IF stage' = Empty THEN None ELSE stageFor
  /\ Stop("error")
  /\ UNCHANGED <<live, backup, journal, marker, cache, port, k, after, cleaned,
                 force, counts, history>>

(***************************************************************************)
(* commit_stage: the journal first, then path by path live -> backup and   *)
(* stage -> live, then the marker.  From CreateJournal on, an exception    *)
(* rolls back in the same run.                                             *)
(***************************************************************************)

GoOnOrUndo(o, next) ==
  /\ UNCHANGED outcome
  /\ IF o = "ok" THEN pc' = next /\ UNCHANGED <<k, after>>
                 ELSE pc' = "undo" /\ k' = N /\ after' = "commit"

\* _journal_write replaces the whole document.
Rewritten(phases, published) ==
  [tid |-> journal.tid, recipe |-> journal.recipe, had |-> journal.had,
   phase |-> phases, published |-> published]

\* Bug: the record is serialised before the phase is assigned.
Record_Stale(phase) == journal
Record(phase) == Rewritten([journal.phase EXCEPT ![k] = phase], FALSE)

CreateJournal(o) ==
  /\ pc = "commit"
  /\ Ends(o, backup = Empty /\ journal = None /\ Present(stage))
  /\ IF Done(o)
     THEN /\ journal' = [tid |-> attempt, recipe |-> recipe,
                         had |-> [p \in Paths |-> live[p] # None],
                         phase |-> [p \in Paths |-> "pending"],
                         published |-> FALSE]
          /\ pre' = live /\ post' = stage
     ELSE UNCHANGED <<journal, history>>
  /\ k' = 1
  /\ GoOn(o, "backup")
  /\ UNCHANGED <<payload, marker, stageFor, cache, port, after, cleaned, force,
                 counts>>

\* "backup-intent", or "backup-skipped" for a path that is new.
RecordBackup(o) ==
  /\ pc = "backup"
  /\ Ends(o, journal.had[k] \/ live[k] = None)
  /\ journal' = IF ~Done(o) THEN journal
                ELSE Record(IF journal.had[k] THEN "backup-intent"
                                              ELSE "backup-skipped")
  /\ GoOnOrUndo(o, IF journal.had[k] THEN "displace" ELSE "install")
  /\ UNCHANGED <<payload, marker, stageFor, cache, port, cleaned, force,
                 counts, history>>

Displace(o) ==
  /\ pc = "displace"
  /\ Ends(o, live[k] # None /\ backup[k] = None)
  /\ IF Done(o) THEN /\ backup' = With(backup, k, live[k])
                     /\ live' = Without(live, k)
                ELSE UNCHANGED <<backup, live>>
  /\ GoOnOrUndo(o, "displaced")
  /\ UNCHANGED <<stage, disk, port, cleaned, force, counts, history>>

RecordDisplaced(o) ==
  /\ pc = "displaced"
  /\ Ends(o, TRUE)
  /\ journal' = IF Done(o) THEN Record("backed-up") ELSE journal
  /\ GoOnOrUndo(o, "install")
  /\ UNCHANGED <<payload, marker, stageFor, cache, port, cleaned, force,
                 counts, history>>

RecordInstall(o) ==
  /\ pc = "install"
  /\ Ends(o, TRUE)
  /\ journal' = IF Done(o) THEN Record("install-intent") ELSE journal
  /\ GoOnOrUndo(o, "place")
  /\ UNCHANGED <<payload, marker, stageFor, cache, port, cleaned, force,
                 counts, history>>

Place(o) ==
  /\ pc = "place"
  /\ Ends(o, stage[k] # None /\ live[k] = None)
  /\ IF Done(o) THEN /\ live' = With(live, k, stage[k])
                     /\ stage' = Without(stage, k)
                ELSE UNCHANGED <<live, stage>>
  /\ GoOnOrUndo(o, "placed")
  /\ UNCHANGED <<backup, disk, port, cleaned, force, counts, history>>

\* Also the progress update after it, which raises when the setup UI died.
RecordPlaced(o) ==
  /\ pc = "placed"
  /\ Ends(o, TRUE)
  /\ journal' = IF Done(o) THEN Record("installed") ELSE journal
  /\ UNCHANGED outcome
  /\ IF o = "ok" THEN /\ pc' = IF k < N THEN "backup" ELSE "marker"
                      /\ k' = IF k < N THEN k + 1 ELSE k
                      /\ UNCHANGED after
                 ELSE pc' = "undo" /\ k' = N /\ after' = "commit"
  /\ UNCHANGED <<payload, marker, stageFor, cache, port, cleaned, force,
                 counts, history>>

\* The live payload is validated and sealed; the marker is the publication.
PublishMarker(o) ==
  /\ pc = "marker"
  /\ Ends(o, Present(live))
  /\ marker' = IF Done(o) THEN NewMarker(journal.tid) ELSE marker
  /\ GoOnOrUndo(o, "published")
  /\ UNCHANGED <<payload, journal, stageFor, cache, port, cleaned, force,
                 counts, history>>

\* An OSError of this write is only logged.
RecordPublished(o) ==
  /\ pc = "published"
  /\ Ends(o, TRUE)
  /\ journal' = IF Done(o) THEN Rewritten(journal.phase, TRUE)
                            ELSE journal
  /\ pc' = "sync"
  /\ UNCHANGED <<payload, marker, stageFor, cache, port, k, after, cleaned,
                 force, outcome, counts, history>>

\* The last fsync of the game directory may still turn the run into exit 1.
SyncGame(o) ==
  /\ pc = "sync"
  /\ Ends(o, TRUE)
  /\ GoOn(o, "dropBackup")
  /\ after' = "commit"
  /\ UNCHANGED <<payload, disk, port, k, cleaned, force, counts, history>>

(***************************************************************************)
(* _finalize_published_transaction: no deletion here fails the run, and    *)
(* the journal goes last, only when everything else is gone.               *)
(***************************************************************************)

DropBackup ==
  /\ pc = "dropBackup"
  /\ \/ backup' = Empty /\ cleaned' = TRUE /\ UNCHANGED faults
     \/ backup' \in Remnants(backup) /\ cleaned' = FALSE /\ Fault
  /\ pc' = "dropStage"
  /\ UNCHANGED <<live, stage, disk, port, k, after, force, outcome, counts,
                 history>>

DropStage ==
  /\ pc = "dropStage"
  /\ \/ stage' = Empty /\ UNCHANGED <<cleaned, faults>>
     \/ stage' \in Remnants(stage) /\ cleaned' = FALSE /\ Fault
  /\ pc' = "dropCache"
  /\ UNCHANGED <<live, backup, disk, port, k, after, force, outcome, counts,
                 history>>

DropCache ==
  /\ pc = "dropCache"
  /\ \/ cache' = FALSE /\ UNCHANGED <<cleaned, faults>>
     \/ cache /\ UNCHANGED cache /\ cleaned' = FALSE /\ Fault
  /\ pc' = "dropJournal"
  /\ UNCHANGED <<payload, journal, marker, stageFor, port, k, after, force,
                 outcome, counts, history>>

DropJournal ==
  /\ pc = "dropJournal"
  /\ \/ cleaned /\ journal' = None /\ UNCHANGED faults
     \/ ~cleaned /\ UNCHANGED <<journal, faults>>
     \/ cleaned /\ UNCHANGED journal /\ Fault
  /\ pc' = IF after = "recover" THEN "select" ELSE "finish"
  /\ UNCHANGED <<payload, marker, stageFor, cache, port, k, after, cleaned,
                 force, outcome, counts, history>>

\* progress.done, whose guard still watches the UI, and the terminal result.
Finish(o) ==
  /\ pc = "finish"
  /\ Ends(o, TRUE)
  /\ Stop(IF o = "ok" THEN "success" ELSE "error")
  /\ UNCHANGED <<payload, disk, port, k, after, cleaned, force, counts, history>>

(***************************************************************************)
(* rollback_transaction: paths in reverse, decided by what exists and by   *)
(* had_live alone; the recorded phases are not consulted.                  *)
(***************************************************************************)

InLive   == live[k] # None
InStage  == stage[k] # None
InBackup == backup[k] # None
Had      == journal.had[k]

\* The new object is live and has to go back to the stage.
NewInLive == InLive /\ (InBackup \/ ~Had)

\* Bug: a path whose old object is in the backup only is taken for lost.
UndoSound_LiveOnly == /\ ~(NewInLive /\ InStage)
                      /\ Had => InLive
                      /\ ~Had => ~InBackup
UndoSound == /\ ~(NewInLive /\ InStage)       \* "ambiguous rollback state"
             /\ Had => InBackup \/ InLive     \* "backup is missing"
             /\ ~Had => ~InBackup             \* "unexpected backup exists"

UndoRefused ==
  /\ pc = "undo" /\ k > 0 /\ ~UndoSound
  /\ Stop("error")
  /\ UNCHANGED <<payload, disk, port, k, after, cleaned, force, counts, faults,
                 history>>

MoveAside(o) ==
  /\ pc = "undo" /\ k > 0 /\ UndoSound /\ NewInLive
  /\ Ends(o, TRUE)
  /\ IF Done(o) THEN /\ stage' = With(stage, k, live[k])
                     /\ live' = Without(live, k)
                ELSE UNCHANGED <<stage, live>>
  /\ GoOn(o, "undo")
  /\ UNCHANGED <<backup, disk, port, k, after, cleaned, force, counts, history>>

PutBack(o) ==
  /\ pc = "undo" /\ k > 0 /\ UndoSound
  /\ Had /\ InBackup /\ ~InLive
  /\ Ends(o, TRUE)
  /\ IF Done(o) THEN /\ live' = With(live, k, backup[k])
                     /\ backup' = Without(backup, k)
                ELSE UNCHANGED <<live, backup>>
  /\ GoOn(o, "undo")
  /\ UNCHANGED <<stage, disk, port, k, after, cleaned, force, counts, history>>

\* Bug: the loop ends one path early.
PathUndone_OffByOne ==
  /\ pc = "undo" /\ k > 0 /\ UndoSound
  /\ ~NewInLive /\ ~(Had /\ InBackup)
  /\ k' = k - 1
  /\ pc' = IF k <= 2 THEN "undone" ELSE "undo"
  /\ UNCHANGED <<payload, disk, port, after, cleaned, force, outcome, counts,
                 faults, history>>
PathUndone ==
  /\ pc = "undo" /\ k > 0 /\ UndoSound
  /\ ~NewInLive /\ ~(Had /\ InBackup)
  /\ k' = k - 1
  /\ pc' = IF k = 1 THEN "undone" ELSE "undo"
  /\ UNCHANGED <<payload, disk, port, after, cleaned, force, outcome, counts,
                 faults, history>>

\* The backup tree must be empty before it and then the journal are removed.
CloseUndo(o) ==
  /\ pc = "undone"
  /\ Ends(o, backup = Empty)
  /\ journal' = IF Done(o) THEN None ELSE journal
  /\ IF o = "ok" /\ after = "recover" THEN pc' = "select" /\ UNCHANGED outcome
                                      ELSE Stop("error")
  /\ UNCHANGED <<payload, marker, stageFor, cache, port, k, after, cleaned,
                 force, counts, history>>

(***************************************************************************)
(* What happens to the run from outside.                                   *)
(***************************************************************************)

\* The process dies (power, kill, an interrupt no handler catches), possibly
\* in the middle of a deletion.
Crash ==
  /\ pc # "idle" /\ Fault
  /\ pc' = "idle"
  /\ backup' \in IF pc = "dropBackup" THEN Remnants(backup) ELSE {backup}
  /\ stage' \in IF pc = "dropStage" THEN Remnants(stage) ELSE {stage}
  /\ UNCHANGED <<live, disk, port, k, after, cleaned, force, outcome, counts,
                 history>>

\* The port is updated between two runs: a new recipe, or a new extractor.
Upgrade ==
  /\ pc = "idle" /\ upgrades < MaxUpgrades
  /\ UpgradeAnytime \/ journal = None
  /\ upgrades' = upgrades + 1
  /\ \/ recipe' = recipe + 1 /\ UNCHANGED tool
     \/ tool' = tool + 1 /\ UNCHANGED recipe
  /\ outcome' = "none"
  /\ UNCHANGED <<payload, disk, pc, k, after, cleaned, force, attempt, forces,
                 faults, history>>

Recover == NothingToRecover \/ RefuseJournal \/ FinishPublished \/ StartUndo
Choose  == FastPath \/ SkipFastPath \/ DoNotAdopt \/ RejectStage
           \/ \E n \in 0..N, same, bundle \in BOOLEAN : Extract(n, same, bundle)
Cleanup == DropBackup \/ DropStage \/ DropCache \/ DropJournal
Undo    == UndoRefused \/ PathUndone

Fallible(o) ==
  \/ Adopt(o) \/ CreateJournal(o)
  \/ RecordBackup(o) \/ Displace(o) \/ RecordDisplaced(o)
  \/ RecordInstall(o) \/ Place(o) \/ RecordPlaced(o)
  \/ PublishMarker(o) \/ RecordPublished(o) \/ SyncGame(o) \/ Finish(o)
  \/ MoveAside(o) \/ PutBack(o) \/ CloseUndo(o)

RunStep == \/ Recover \/ Choose \/ Cleanup \/ Undo
           \/ \E o \in {"ok", "raised", "late"} : Fallible(o)

Next == RunStep \/ (\E f \in BOOLEAN : Launch(f)) \/ Crash \/ Upgrade

Spec == Init /\ [][Next]_vars

\* A run keeps stepping, and the player keeps starting the game.
Fairness == WF_vars(RunStep) /\ WF_vars(Launch(FALSE))

FairSpec == Spec /\ Fairness

(***************************************************************************)
(* Properties.                                                             *)
(***************************************************************************)

\* The transaction in the journal has published the payload that is live.
Published == /\ journal # None /\ OwnMarker
             /\ marker.seal = live

Untouched(p) == live[p] = pre[p] /\ backup[p] = None /\ stage[p] = post[p]
Displaced(p) == live[p] = None /\ backup[p] = pre[p] /\ stage[p] = post[p]
Placed(p)    == live[p] = post[p] /\ backup[p] = pre[p] /\ stage[p] = None

\* While a journal exists and nothing is published, every path has both its
\* old and its new object, each in exactly one directory: commit_stage and
\* rollback_transaction lose neither, wherever they are interrupted.
Conserved ==
  journal # None =>
    Published \/ \A p \in Paths : Untouched(p) \/ Displaced(p) \/ Placed(p)

\* No marker of the transaction in the journal, or a later one, was written.
Unpublished == journal # None /\ (marker = None \/ marker.tid < journal.tid)

\* Until the transaction publishes, the same holds whatever else happens:
\* updates with a journal on disk and unreadable payloads included.
UnpublishedIsConserved ==
  Unpublished => \A p \in Paths : Untouched(p) \/ Displaced(p) \/ Placed(p)

\* Nothing leaves its directory before the journal that would bring it back
\* is on disk, and the journal never claims a publication that did not happen.
WriteAhead ==
  /\ journal = None => backup = Empty
  /\ Unpublished =>
       /\ ~journal.published
       /\ \A p \in Paths :
            /\ journal.had[p] <=> pre[p] # None
            /\ backup[p] # None => journal.phase[p] # "pending"
            /\ live[p] # None /\ stage[p] = None =>
                 journal.phase[p] \in {"install-intent", "installed"}

\* What deletion left of scratch space never becomes the payload
\* (discard_path: "scratch space that survives one extra run is harmless").
ScratchIsHarmless == \A p \in Paths : live[p] # Torn

\* A run that told success left a complete payload under a marker of this
\* recipe and extractor, with its seal.
SuccessIsSealed ==
  pc = "idle" /\ outcome = "success" => Sealed /\ Present(live)

\* A journal left behind by a run that told success is one whose recovery
\* recognizes the marker, and so finishes the cleanup and rolls nothing back.
SuccessIsSettled ==
  pc = "idle" /\ outcome = "success" /\ journal # None => OwnMarker

\* When rollback removes the journal it has put everything back: the live
\* paths are those from before and "staged work was preserved".
RollbackRestores ==
  [][pc = "undone" /\ journal' = None => live = pre /\ stage = post]_vars

\* With finitely many failures the installation ends up, and stays, ready.
EventuallyReady == <>[](Sealed /\ Present(live))

(***************************************************************************)
(* The installation as the launcher sees it.                               *)
(***************************************************************************)

Undoing   == pc \in {"undo", "undone"}
Unsettled == journal # None /\ (Undoing \/ ~Published)

Promise == INSTANCE Publication WITH
             Payload   <- Tree,
             NoPayload <- None,
             current   <- IF Unsettled THEN pre ELSE live,
             pending   <- IF Unsettled THEN post ELSE None,
             told      <- pc = "idle" /\ outcome = "success"

\* Journal, backup, stage and marker together replace the payload in one step.
InstallsAtomically == Promise!Spec
=============================================================================
