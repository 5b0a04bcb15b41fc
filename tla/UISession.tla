------------------------------ MODULE UISession ------------------------------
(***************************************************************************)
(* The setup UI of one install (nxextract.py): the private directory its   *)
(* control files live in, the helper that is started, watched and stopped, *)
(* and the progress document it shows, along the run of install_command.   *)
(* The helper (the binary nxextract-ui) is external: it publishes a proof  *)
(* that it is visible, a good or a bad one, or none; it may end at any     *)
(* moment and may ignore the stop file and TERM.                           *)
(***************************************************************************)
EXTENDS Naturals

CONSTANTS
  Paths,      \* directories a runtime directory may be made under
  SharedTmp,  \* DEFAULT_UI_RUNTIME_TMP, one of them
  None,       \* no path: an unset variable, no directory
  WorkSteps,  \* progress updates of the install before its last
  MaxPolls,   \* readiness polls within READY_TIMEOUT_SECONDS
  MaxFaults   \* failing calls

ASSUME UIAssumption ==
  /\ SharedTmp \in Paths /\ None \notin Paths
  /\ WorkSteps \in Nat /\ MaxPolls \in Nat /\ MaxFaults \in Nat

VARIABLES
  cfg,        \* the options and the environment of the run
  pc,         \* where install_command stands
  tried,      \* candidates that gave no runtime directory
  dirs,       \* paths that hold a runtime directory of this run
  base,       \* the path of ui.runtime_dir, or None
  kept,       \* history: the standing directories whose removal failed
  child,      \* the helper process
  process,    \* ui.process is not None
  proof,      \* what the helper published as ui.ready
  stop_file,  \* ui.stop was written
  ready,      \* ui.ready
  polls,      \* readiness polls so far
  guard,      \* progress.guard is ui.assert_visible
  doc,        \* the state line of the progress document on disk
  path,       \* progress.path is not None
  left,       \* updates before the last
  after,      \* where ui.stop returns to
  outcome,    \* what finish published
  blame,      \* what raised
  cut,        \* where a KeyboardInterrupt came, or "no"
  rival,      \* another run, without the lock, wrote its failure
  late,       \* updates made after the helper had ended
  faults

startVars == <<tried, dirs, base, kept>>
childVars == <<child, proof>>
sessionVars == <<process, ready, polls, stop_file>>
progressVars == <<doc, path, left, late>>
endVars == <<after, outcome>>
vars == <<cfg, pc, startVars, childVars, sessionVars, progressVars, endVars,
          guard, blame, cut, rival, faults>>

\* owner-private; writable by its owner only, or sticky; anything else
Kinds == {"private", "shared", "unsafe"}
Settings == [required : BOOLEAN, binary : BOOLEAN, xdg : Paths \cup {None},
             tmpdir : Paths \cup {None}, kind : [Paths -> Kinds]]
Stopping == {"signal", "wait", "term", "kill"}
Running == {"start", "prepare", "made", "log", "spawn", "await", "recheck",
            "work", "guard", "write", "handler", "report", "finish"}

\* The type invariant, in four parts.
FlowTypeOK ==
  /\ cfg \in Settings
  /\ pc \in Running \cup Stopping \cup {"clean", "finally", "ended"}
  /\ after \in {"report", "finish", "finally", "ended"}
  /\ cut \in Running \cup Stopping \cup {"no"}

StartTypeOK ==
  /\ tried \subseteq Paths /\ dirs \subseteq Paths /\ kept \subseteq Paths
  /\ base \in Paths \cup {None}

HelperTypeOK ==
  /\ child \in {"none", "alive", "dead"} /\ proof \in {"none", "good", "bad"}
  /\ process \in BOOLEAN /\ ready \in BOOLEAN /\ stop_file \in BOOLEAN
  /\ polls \in 0 .. MaxPolls

ProgressTypeOK ==
  /\ left \in 0 .. WorkSteps /\ late \in Nat /\ faults \in 0 .. MaxFaults
  /\ guard \in BOOLEAN /\ path \in BOOLEAN /\ rival \in BOOLEAN
  /\ doc \in {"none", "working", "failed", "done"}
  /\ outcome \in {"none", "success", "error"}
  /\ blame \in {"none", "ui", "log", "work", "finish"}

TypeOK == FlowTypeOK /\ StartTypeOK /\ HelperTypeOK /\ ProgressTypeOK

Init ==
  /\ cfg \in Settings
  /\ pc = "start" /\ tried = {} /\ dirs = {} /\ kept = {} /\ base = None
  /\ child = "none" /\ proof = "none" /\ process = FALSE /\ stop_file = FALSE
  /\ ready = FALSE /\ polls = 0 /\ guard = FALSE /\ doc = "none" /\ path = TRUE
  /\ left = WorkSteps /\ after = "report" /\ outcome = "none" /\ blame = "none"
  /\ cut = "no" /\ rival = FALSE /\ late = 0 /\ faults = 0

Fails == faults < MaxFaults /\ faults' = faults + 1
Raise(who) == blame' = who /\ pc' = "handler"
-----------------------------------------------------------------------------
(* The runtime directory                                                   *)

\* XDG_RUNTIME_DIR must be private, unless TMPDIR or /tmp name it, too.
PrivateOnly(p) == p = cfg.xdg /\ p # cfg.tmpdir /\ p # SharedTmp

Trusted(p) ==
  cfg.kind[p] \in IF PrivateOnly(p) THEN {"private"} ELSE Kinds \ {"unsafe"}

Candidate ==
  LET Left(p) == p \notin tried \cup {None}
  IN  IF Left(cfg.xdg) THEN cfg.xdg
      ELSE IF Left(cfg.tmpdir) THEN cfg.tmpdir
      ELSE IF Left(SharedTmp) THEN SharedTmp ELSE None

\* A directory stays because it, or a file in it, could not be removed.
Keeps(p) == kept' = kept \cup {p} /\ UNCHANGED dirs

\* _assert_runtime_directory: the directory is still the one that was made.
DirectoryOurs == base \in dirs

\* A UI that cannot be had fails an install that requires it, and no other.
Unavailable ==
  \/ cfg.required /\ Raise("ui") /\ UNCHANGED guard
  \/ ~cfg.required /\ pc' = "work" /\ guard' = TRUE /\ UNCHANGED blame

Find ==
  /\ pc = "start"
  /\ \/ cfg.binary /\ pc' = "prepare" /\ UNCHANGED <<guard, blame>>
     \/ ~cfg.binary /\ Unavailable
  /\ UNCHANGED <<cfg, startVars, childVars, sessionVars, progressVars, endVars,
                 cut, rival, faults>>

\* mkdtemp under the first candidate that can be trusted.
MakeDirectory ==
  /\ pc = "prepare"
  /\ \/ /\ Candidate # None /\ Trusted(Candidate)
        /\ dirs' = dirs \cup {Candidate} /\ pc' = "made"
        /\ UNCHANGED <<tried, guard, blame, faults>>
     \/ /\ Candidate # None
        /\ IF Trusted(Candidate) THEN Fails ELSE UNCHANGED faults
        /\ tried' = tried \cup {Candidate}
        /\ UNCHANGED <<dirs, pc, guard, blame>>
     \/ /\ Candidate = None /\ Unavailable
        /\ UNCHANGED <<tried, dirs, faults>>
  /\ UNCHANGED <<cfg, base, kept, childVars, sessionVars, progressVars, endVars,
                 cut, rival>>

\* chmod and open it; what cannot be opened is removed again, if it can be: the
\* except clause passes over the OSError of its own rmdir (one fault for both).
OpenDirectory ==
  /\ pc = "made"
  /\ \/ Candidate \in dirs /\ base' = Candidate /\ pc' = "log"
        /\ UNCHANGED <<tried, dirs, kept, faults>>
     \/ /\ IF Candidate \in dirs THEN Fails ELSE UNCHANGED faults
        /\ \/ dirs' = dirs \ {Candidate} /\ UNCHANGED kept
           \/ Candidate \in dirs /\ Keeps(Candidate)
        /\ tried' = tried \cup {Candidate}
        /\ pc' = "prepare" /\ UNCHANGED base
  /\ UNCHANGED <<cfg, childVars, sessionVars, progressVars, endVars, guard,
                 blame,
                 cut, rival>>
-----------------------------------------------------------------------------
(* The helper's start                                                      *)

\* Nothing catches a ui.log that cannot be opened, required UI or not.
OpenLog ==
  /\ pc = "log"
  /\ \/ pc' = "spawn" /\ UNCHANGED <<blame, faults>>
     \/ Fails /\ Raise("log")
  /\ UNCHANGED <<cfg, startVars, childVars, sessionVars, progressVars, endVars,
                 guard, cut, rival>>

Spawn ==
  /\ pc = "spawn"
  /\ \/ /\ child' = "alive" /\ process' = TRUE
        /\ \/ cfg.required /\ pc' = "await" /\ UNCHANGED guard
           \/ ~cfg.required /\ pc' = "work" /\ guard' = TRUE
        /\ UNCHANGED <<blame, faults>>
     \/ Fails /\ Unavailable /\ UNCHANGED <<child, process>>
  /\ UNCHANGED <<cfg, startVars, proof, ready, polls, stop_file, progressVars,
                 endVars, cut, rival>>

\* _read_graphical_ready_proof: what is read at ui.ready, if it is there.
ProofRead == IF DirectoryOurs THEN proof ELSE "none"

\* One poll: the deadline, the helper, its proof.
Await ==
  /\ pc = "await"
  /\ \/ /\ polls = MaxPolls \/ child = "dead" \/ ProofRead = "bad"
        /\ Raise("ui") /\ UNCHANGED polls
     \/ /\ polls < MaxPolls /\ child = "alive" /\ ProofRead = "good"
        /\ pc' = "recheck" /\ UNCHANGED <<polls, blame>>
     \/ /\ polls < MaxPolls /\ child = "alive" /\ ProofRead = "none"
        /\ polls' = polls + 1 /\ UNCHANGED <<pc, blame>>
  /\ UNCHANGED <<cfg, startVars, childVars, process, ready, stop_file,
                 progressVars,
                 endVars, guard, cut, rival, faults>>

\* After 20 ms: a helper that died on its proof is refused.
Recheck ==
  /\ pc = "recheck"
  /\ \/ child = "dead" /\ Raise("ui") /\ UNCHANGED <<ready, guard>>
     \/ child = "alive" /\ ready' = TRUE /\ guard' = TRUE /\ pc' = "work"
        /\ UNCHANGED blame
  /\ UNCHANGED <<cfg, startVars, childVars, process, polls, stop_file,
                 progressVars, endVars, cut, rival, faults>>
-----------------------------------------------------------------------------
(* Progress and the work it reports                                        *)

\* atomic_write; after its first failure nothing is written any more.
Written(state) ==
  \/ path /\ doc' = state /\ UNCHANGED <<path, faults>>
  \/ path /\ path' = FALSE /\ Fails /\ UNCHANGED doc
  \/ ~path /\ UNCHANGED <<doc, path, faults>>

Work ==
  /\ pc = "work"
  /\ \/ pc' = "guard" /\ UNCHANGED <<blame, faults>>
     \/ Fails /\ Raise("work")
  /\ UNCHANGED <<cfg, startVars, childVars, sessionVars, progressVars, endVars,
                 guard, cut, rival>>

AssertVisible_Unpolled == cfg.required /\ ready => DirectoryOurs
AssertVisible ==
  cfg.required /\ ready => DirectoryOurs /\ (process => child = "alive")

Guard ==
  /\ pc = "guard"
  /\ \/ (guard => AssertVisible) /\ pc' = "write" /\ UNCHANGED blame
     \/ guard /\ ~AssertVisible /\ Raise("ui")
  /\ UNCHANGED <<cfg, startVars, childVars, sessionVars, progressVars, endVars,
                 guard, cut, rival, faults>>

\* ui.stop: with no helper, only its finally clause.
Stop(then) == after' = then /\ pc' = IF process THEN "signal" ELSE "clean"

\* progress.update, possibly throttled, and at last progress.done.
Update ==
  /\ pc = "write"
  /\ \/ /\ left > 0 /\ left' = left - 1 /\ pc' = "work"
        /\ Written("working") \/ UNCHANGED <<doc, path, faults>>
        /\ UNCHANGED after
     \/ left = 0 /\ Written("done") /\ Stop("finish") /\ UNCHANGED left
  /\ late' = IF child = "dead" THEN late + 1 ELSE late
  /\ UNCHANGED <<cfg, startVars, childVars, sessionVars, outcome, guard, blame,
                 cut,
                 rival>>

\* The error handlers: no guard, progress.fail, and the UI shows it.
Handle_Silently ==
  /\ pc = "handler"
  /\ guard' = FALSE
  /\ \/ process /\ Stop("report")
     \/ ~process /\ pc' = "report" /\ UNCHANGED after
  /\ UNCHANGED <<cfg, startVars, childVars, sessionVars, progressVars, outcome,
                 blame, cut, rival, faults>>
Handle ==
  /\ pc = "handler"
  /\ guard' = FALSE
  /\ Written("failed")
  /\ \/ process /\ Stop("report")
     \/ ~process /\ pc' = "report" /\ UNCHANGED after
  /\ UNCHANGED <<cfg, startVars, childVars, sessionVars, left, late, outcome,
                 blame,
                 cut, rival>>

Report ==
  /\ pc = "report"
  /\ outcome' = "error" /\ pc' = "finally"
  /\ UNCHANGED <<cfg, startVars, childVars, sessionVars, progressVars, after,
                 guard, blame, cut, rival, faults>>

\* finish("success"), which may itself raise, after the UI is gone.
Finish ==
  /\ pc = "finish"
  /\ \/ outcome' = "success" /\ pc' = "finally" /\ UNCHANGED <<blame, faults>>
     \/ Fails /\ Raise("finish") /\ UNCHANGED outcome
  /\ UNCHANGED <<cfg, startVars, childVars, sessionVars, progressVars, after,
                 guard, cut, rival>>

Finally ==
  /\ pc = "finally"
  /\ Stop("ended")
  /\ UNCHANGED <<cfg, startVars, childVars, sessionVars, progressVars, outcome,
                 guard, blame, cut, rival, faults>>
-----------------------------------------------------------------------------
(* ui.stop                                                                 *)

\* The stop file, unless its directory is lost or it cannot be written.
Signal ==
  /\ pc = "signal"
  /\ pc' = "wait"
  /\ \/ DirectoryOurs /\ stop_file' = TRUE /\ UNCHANGED faults
     \/ DirectoryOurs /\ Fails /\ UNCHANGED stop_file
     \/ ~DirectoryOurs /\ UNCHANGED <<stop_file, faults>>
  /\ UNCHANGED <<cfg, startVars, childVars, process, ready, polls, progressVars,
                 endVars, guard, blame, cut, rival>>

\* wait(3), terminate, wait(1), kill, wait.
NextWait_Gives == [wait |-> "term", term |-> "clean", kill |-> "kill"]
NextWait_Waits == [wait |-> "term", term |-> "term", kill |-> "kill"]
NextWait == [wait |-> "term", term |-> "kill", kill |-> "kill"]

Wait ==
  /\ pc \in {"wait", "term", "kill"}
  /\ pc' = IF child = "dead" THEN "clean" ELSE NextWait[pc]
  /\ UNCHANGED <<cfg, startVars, childVars, sessionVars, progressVars, endVars,
                 guard, blame, cut, rival, faults>>

\* The finally clause of ui.stop. The OSError of a check, an unlink or the rmdir
\* is logged and the directory stays; so it does when a helper that an
\* interrupted stop left alive publishes between the unlinks and the rmdir.
Clean ==
  /\ pc = "clean"
  /\ pc' = after
  /\ process' = FALSE /\ ready' = FALSE
  /\ \/ dirs' = dirs \ {base} /\ UNCHANGED <<kept, faults>>
     \/ DirectoryOurs /\ Fails /\ Keeps(base)
     \/ DirectoryOurs /\ child = "alive" /\ proof = "none"
        /\ UNCHANGED <<dirs, kept, faults>>
  /\ base' = None
  /\ UNCHANGED <<cfg, tried, childVars, polls, stop_file, progressVars, endVars,
                 guard, blame, cut, rival>>

\* A KeyboardInterrupt passes by the error handlers and leaves ui.stop by its
\* finally clause. (Inside the finally clauses none is modelled.)
Interrupt ==
  /\ cut = "no" /\ pc \in Running \cup Stopping
  /\ cut' = pc
  /\ \/ pc \in Stopping /\ pc' = "clean" /\ after' = "finally"
     \/ pc \in Running /\ pc' = "finally" /\ UNCHANGED after
  /\ UNCHANGED <<cfg, startVars, childVars, sessionVars, progressVars, outcome,
                 guard, blame, rival, faults>>
-----------------------------------------------------------------------------
(* The surroundings                                                        *)

Prove ==
  /\ child = "alive" /\ proof = "none" /\ DirectoryOurs
  /\ proof' \in {"good", "bad"}
  /\ UNCHANGED <<cfg, pc, startVars, child, sessionVars, progressVars, endVars,
                 guard,
                 blame, cut, rival, faults>>

Die ==
  /\ child = "alive" /\ child' = "dead"
  /\ UNCHANGED <<cfg, pc, startVars, proof, sessionVars, progressVars, endVars,
                 guard,
                 blame, cut, rival, faults>>

\* A cleaner of temporary files removes the runtime directory.
Lose ==
  /\ dirs # {} /\ Fails
  /\ dirs' = {} /\ kept' = {}
  /\ UNCHANGED <<cfg, pc, tried, base, childVars, sessionVars, progressVars,
                 endVars, guard, blame, cut, rival>>

\* A second extractor of the workspace finds the lock taken and writes its
\* failure into the same progress file.
Rival ==
  /\ ~rival /\ pc # "ended"
  /\ rival' = TRUE /\ doc' = "failed"
  /\ UNCHANGED <<cfg, pc, startVars, childVars, sessionVars, path, left, late,
                 endVars, guard, blame, cut, faults>>

\* The process is gone.
Terminated == pc = "ended" /\ UNCHANGED vars

Extractor ==
  \/ Find \/ MakeDirectory \/ OpenDirectory \/ OpenLog \/ Spawn \/ Await
  \/ Recheck \/ Work \/ Guard \/ Update \/ Handle \/ Report \/ Finish \/ Finally
  \/ Signal \/ Wait \/ Clean

Next == Extractor \/ Interrupt \/ Prove \/ Die \/ Lose \/ Rival \/ Terminated

\* The extractor runs, and KILL ends the helper.
Fairness == WF_vars(Extractor) /\ WF_vars(Die /\ pc = "kill")
Spec == Init /\ [][Next]_vars /\ Fairness
-----------------------------------------------------------------------------

\* Nothing outlives the install: neither the helper nor a runtime directory,
\* under any candidate, on any path out (UISession.stop, _cleanup_runtime and
\* the except clause of create_private_ui_runtime_directory). A directory stays
\* only when its removal was tried and failed; what else an interrupt can leave
\* is named.
NothingIsLeft ==
  pc = "ended" =>
    /\ child = "alive" => cut \in Stopping
    /\ dirs \subseteq kept \/ cut \in Stopping \cup {"made"}

\* The UI is only asked to go once the player can see how it ended, and what is
\* shown last is what finish publishes, while the document can be written; only
\* another run's failure may stand over a success (progress.done and fail come
\* before ui.stop on every path that is not interrupted).
TheEndIsShown ==
  /\ stop_file => doc \in {"failed", "done"} \/ ~path \/ cut # "no"
  /\ outcome = "error" => doc = "failed" \/ ~path
  /\ outcome = "success" => doc = "done" \/ ~path \/ rival

\* The UI binds an install that requires it, and only that. With a required UI
\* nothing is worked at before it has proven a graphical renderer, and at most
\* one update is made after it ended: the one that had passed the guard
\* (assert_visible). An optional UI never is why an install fails ("continuing
\* headless"); its log file, which nothing guards, is not part of that.
WorkIsWatched ==
  IF cfg.required
  THEN /\ pc \in {"work", "guard", "write"} => ready
       /\ ready \/ outcome = "success" => proof = "good"
       /\ late <= 1
  ELSE blame # "ui"

\* The install always comes to its end, whatever the helper does: no poll, wait
\* or retry of the UI is without a bound.
AlwaysEnds == <>(pc = "ended")
=============================================================================
