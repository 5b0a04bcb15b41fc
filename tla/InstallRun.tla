----------------------------- MODULE InstallRun -----------------------------
(***************************************************************************)
(* Launchers and extractors sharing one game directory.  Swordigo.sh takes *)
(* the instance lock, rotates the last terminal result, runs `install` as  *)
(* its child, and starts the game when exit status and result document     *)
(* agree on success.  `install` may also be run by hand, with no launcher; *)
(* the workspace lock is all that keeps such runs apart.                   *)
(*                                                                         *)
(* The payload is one value here; Transaction says why a commit may be     *)
(* seen as one step that a crash leaves half done until the next recovery. *)
(***************************************************************************)
EXTENDS Naturals

CONSTANTS
  Launchers,    \* launcher processes
  Hands,        \* runs of run-extractor.sh with no launcher
  Forced,       \* those of them with --force-source
  LockRoot,     \* [Launchers -> directory]: where a launcher's lock file is
  Nobody,
  MaxFaults     \* bound: failing steps and killed processes

Runs      == Launchers \cup Hands
Documents == [by : Runs, outcome : {"success", "error"}]

ASSUME RunsAssumption == /\ Forced \subseteq Hands
                         /\ Launchers \cap Hands = {}
                         /\ Nobody \notin Runs \cup Documents
                         /\ MaxFaults \in Nat

VARIABLES
  seat,         \* where each launcher is
  ext,          \* where each extractor run is
  exit,         \* the exit status of each extractor run
  lock,         \* who holds install.lock
  result,       \* the terminal result document
  data,         \* the payload in the game directory
  before,       \* the payload the transaction journal would bring back
  robbed,       \* history: why a run took the complete payload from a game
  faults        \* counted against MaxFaults

launcher  == <<seat, exit>>
payload   == <<data, before, robbed>>
vars      == <<seat, ext, exit, lock, result, payload, faults>>

Locked    == {"clear", "recover", "choose", "work", "unread", "commit", "publish",
              "close"}
Unlocked  == {"lock", "failing", "failed"}      \* the process runs without it
Payloads  == {"old", "mixed", "ready"}

TypeOK ==
  /\ seat \in [Launchers ->
                {"off", "rotate", "extract", "gate", "game", "orphan"}]
  /\ ext  \in [Runs -> {"idle", "done"} \cup Locked \cup Unlocked]
  /\ exit \in [Runs -> {"none", "zero", "one", "killed"}]
  /\ lock \in Runs \cup {Nobody}
  /\ result \in Documents \cup {Nobody}
  /\ data \in Payloads /\ before \in Payloads
  /\ robbed \in [Launchers -> {"never", "forced", "unread", "unexcused"}]
  /\ faults \in 0..MaxFaults
  /\ \A r \in Runs : lock = r <=> ext[r] \in Locked

Init ==
  /\ seat = [l \in Launchers |-> "off"]
  /\ ext = [r \in Runs |-> "idle"]
  /\ exit = [r \in Runs |-> "none"]
  /\ lock = Nobody
  /\ result = Nobody
  /\ data = "old" /\ before = "old"
  /\ robbed = [l \in Launchers |-> "never"]
  /\ faults = 0

Fault   == faults < MaxFaults /\ faults' = faults + 1
NoFault == UNCHANGED faults

At(r, place)   == ext[r] = place
Moves(r, next) == ext' = [ext EXCEPT ![r] = next]
Seats(l, next) == seat' = [seat EXCEPT ![l] = next]
Running(r)     == ext[r] \notin {"idle", "done"}

\* The launcher was killed under its game, which plays on: an orphan.
Plays(l) == seat[l] \in {"game", "orphan"}

\* A complete payload is taken from the games that play it, or are about to.
Robs(why) ==
  robbed' = [l \in Launchers |->
               IF data = "ready" /\ (Plays(l) \/ seat[l] = "gate") THEN why
               ELSE robbed[l]]

(***************************************************************************)
(* One extractor run.                                                      *)
(***************************************************************************)

\* Bug: the lock does not exclude.
LockFree_Always == TRUE
LockFree == lock = Nobody

TakeLock(r) ==
  /\ At(r, "lock") /\ LockFree
  /\ lock' = r
  /\ Moves(r, "clear")
  /\ UNCHANGED <<launcher, result, payload, faults>>

\* "another extraction is already active": this run fails with no lock held.
LockBusy(r) ==
  /\ At(r, "lock") /\ ~LockFree
  /\ Moves(r, "failing")
  /\ UNCHANGED <<launcher, lock, result, payload, faults>>

\* The last terminal result is removed, only after owning the lock.
\* Bug: it is left for finish() to replace.
Clear_Keeps(r) ==
  /\ At(r, "clear")
  /\ Moves(r, "recover")
  /\ UNCHANGED <<launcher, lock, result, payload, faults>>
Clear(r) ==
  /\ At(r, "clear")
  /\ result' = Nobody
  /\ Moves(r, "recover")
  /\ UNCHANGED <<launcher, lock, payload, faults>>

\* What a crash left half done is rolled back.  So is a published payload that
\* cannot be read, beside a journal its best-effort cleanup left.
Recover(r) ==
  /\ At(r, "recover")
  /\ \/ /\ data' = IF data = "mixed" THEN before ELSE data
        /\ Moves(r, "choose")
        /\ NoFault /\ UNCHANGED <<before, robbed>>
     \/ /\ data = "ready" /\ Fault
        /\ before' = "old" /\ data' = "mixed" /\ Robs("unread")
        /\ UNCHANGED ext
  /\ UNCHANGED <<launcher, lock, result>>

\* NXE0001, unless --force-source.
FastPath(r) ==
  /\ At(r, "choose") /\ r \notin Forced /\ data = "ready"
  /\ Moves(r, "publish")
  /\ UNCHANGED <<launcher, lock, result, payload, faults>>

\* A payload that cannot be read (OSError in marker_fast_valid) is not ready.
Prepare(r) ==
  /\ At(r, "choose")
  /\ IF r \in Forced \/ data # "ready" THEN NoFault /\ Moves(r, "work")
                                      ELSE Fault /\ Moves(r, "unread")
  /\ UNCHANGED <<launcher, lock, result, payload>>

\* NXE0002: data somebody copied there validates in full and gets a marker;
\* with an OSError on the way it does not, and the run goes on to commit.
Adopt(r) ==
  /\ ext[r] \in {"work", "unread"} /\ r \notin Forced
  /\ data' = "ready"
  /\ Moves(r, "publish")
  /\ UNCHANGED <<launcher, lock, result, before, robbed, faults>>

\* Extraction is over; the first committed path leaves its place.
BeginCommit(r) ==
  /\ ext[r] \in {"work", "unread"}
  /\ before' = data /\ data' = "mixed"
  /\ Robs(IF r \in Forced THEN "forced" ELSE
          IF At(r, "unread") THEN "unread" ELSE "unexcused")
  /\ Moves(r, "commit")
  /\ UNCHANGED <<launcher, lock, result, faults>>

\* The marker is published.
EndCommit(r) ==
  /\ At(r, "commit")
  /\ data' = "ready"
  /\ Moves(r, "publish")
  /\ UNCHANGED <<launcher, lock, result, before, robbed, faults>>

\* An exception: __exit__ lets the lock go before the handler runs.  A commit
\* under way is rolled back first, or the rollback fails as well; if its marker
\* was written before it raised, what comes back has lost its own.
Raise(r) ==
  /\ ext[r] \in Locked \ {"close"} /\ Fault
  /\ before' \in IF At(r, "commit") THEN {before, "old"} ELSE {before}
  /\ data' \in IF At(r, "commit") THEN {before', "mixed"} ELSE {data}
  /\ lock' = Nobody
  /\ Moves(r, "failing")
  /\ UNCHANGED <<launcher, result, robbed>>

\* finish("success", ...), inside the lock; it may raise after its effect.
Published(r) == [by |-> r, outcome |-> "success"]
Publish(r) ==
  /\ At(r, "publish")
  /\ result' = Published(r)
  /\ \/ Moves(r, "close") /\ UNCHANGED lock /\ NoFault
     \/ Moves(r, "failing") /\ lock' = Nobody /\ Fault
  /\ UNCHANGED <<launcher, payload>>

Close(r) ==
  /\ At(r, "close")
  /\ lock' = Nobody
  /\ exit' = [exit EXCEPT ![r] = "zero"]
  /\ Moves(r, "done")
  /\ UNCHANGED <<seat, result, payload, faults>>

\* The handler: progress.fail, the setup UI for up to ui_error_seconds, then
\* finish("error", ...), whose own failure is only logged.
Report(r) ==
  /\ At(r, "failing")
  /\ \/ result' = [by |-> r, outcome |-> "error"] /\ NoFault
     \/ UNCHANGED result /\ Fault
  /\ Moves(r, "failed")
  /\ UNCHANGED <<launcher, lock, payload>>

Exit(r) ==
  /\ At(r, "failed")
  /\ exit' = [exit EXCEPT ![r] = "one"]
  /\ Moves(r, "done")
  /\ UNCHANGED <<seat, lock, result, payload, faults>>

\* The kernel drops the flock of a process that dies.
\* Bug: the lock is the file's existence.
Kill_StaleLock(r) ==
  /\ Running(r) /\ Fault
  /\ exit' = [exit EXCEPT ![r] = "killed"]
  /\ Moves(r, "done")
  /\ UNCHANGED <<seat, lock, result, payload>>
Kill(r) ==
  /\ Running(r) /\ Fault
  /\ lock' = IF lock = r THEN Nobody ELSE lock
  /\ exit' = [exit EXCEPT ![r] = "killed"]
  /\ Moves(r, "done")
  /\ UNCHANGED <<seat, result, payload>>

\* Somebody runs run-extractor.sh while the launchers do what they do.
ByHand(h) ==
  /\ h \in Hands /\ At(h, "idle")
  /\ Moves(h, "lock")
  /\ UNCHANGED <<launcher, lock, result, payload, faults>>

(***************************************************************************)
(* One launcher.                                                           *)
(***************************************************************************)

\* An flock belongs to the open file: the launcher's, and its child's, which
\* inherits fd 9.  The game does not (9>&-), and an orphan holds nothing.
\* Bug: the extractor is started without it as well.
HoldsInstance_Alone(l) == seat[l] \notin {"off", "orphan"}
HoldsInstance(l) == seat[l] \notin {"off", "orphan"} \/ Running(l)

\* Bug: flock is not asked for, or its answer ignored.
InstanceFree_Always(root) == TRUE
InstanceFree(root) ==
  \A l \in Launchers : LockRoot[l] = root => ~HoldsInstance(l)

Open(l) ==
  /\ seat[l] = "off" /\ ~Running(l)
  /\ InstanceFree(LockRoot[l])
  /\ Seats(l, "rotate")
  /\ Moves(l, "idle")
  /\ exit' = [exit EXCEPT ![l] = "none"]
  /\ robbed' = [robbed EXCEPT ![l] = "never"]
  /\ UNCHANGED <<lock, result, data, before, faults>>

\* The previous result is moved aside, then the extractor runs as a child.
Rotate(l) ==
  /\ seat[l] = "rotate"
  /\ result' = Nobody
  /\ Seats(l, "extract")
  /\ Moves(l, "lock")
  /\ UNCHANGED <<exit, lock, payload, faults>>

\* "process status and terminal outcome disagree" is a refusal like any other.
Agreed(l) == /\ result # Nobody
             /\ result.outcome = "success" <=> exit[l] = "zero"

Judge(l) ==
  /\ seat[l] = "extract" /\ At(l, "done")
  /\ Seats(l, IF Agreed(l) /\ exit[l] = "zero" THEN "gate" ELSE "off")
  /\ UNCHANGED <<ext, exit, lock, result, payload, faults>>

\* The required files; some of them may exist in data that is not ready.
Gate(l) ==
  /\ seat[l] = "gate"
  /\ \/ Seats(l, "game")
     \/ data # "ready" /\ Seats(l, "off")
  /\ UNCHANGED <<ext, exit, lock, result, payload, faults>>

GameEnds(l) ==
  /\ Plays(l)
  /\ Seats(l, "off")
  /\ UNCHANGED <<ext, exit, lock, result, payload, faults>>

\* The launcher is killed; the extractor or the game goes on without it.
LauncherDies(l) ==
  /\ seat[l] \in {"rotate", "extract", "gate", "game"} /\ Fault
  /\ Seats(l, IF seat[l] = "game" THEN "orphan" ELSE "off")
  /\ UNCHANGED <<ext, exit, lock, result, payload>>

Extracts(r) ==
  \/ TakeLock(r) \/ LockBusy(r) \/ Clear(r) \/ Recover(r) \/ FastPath(r)
  \/ Prepare(r) \/ Adopt(r) \/ BeginCommit(r) \/ EndCommit(r)
  \/ Publish(r) \/ Close(r) \/ Report(r) \/ Exit(r)

Launches(l) == Open(l) \/ Rotate(l) \/ Judge(l) \/ Gate(l) \/ GameEnds(l)

Next ==
  \/ \E r \in Runs : Extracts(r) \/ Raise(r) \/ Kill(r)
  \/ \E h \in Hands : ByHand(h)
  \/ \E l \in Launchers : Launches(l) \/ LauncherDies(l)

Spec == Init /\ [][Next]_vars

\* Processes that run make progress, and the game is started again and again.
\* Nothing obliges anybody to run the extractor by hand.
Fairness == /\ \A r \in Runs : WF_vars(Extracts(r))
            /\ \A l \in Launchers : WF_vars(Launches(l))

FairSpec == Spec /\ Fairness

(***************************************************************************)
(* Properties.                                                             *)
(***************************************************************************)

\* A success document never stands beside a payload that is not complete,
\* forced runs included: Swordigo.sh and its user may believe what they read.
ResultIsTruthful ==
  result # Nobody /\ result.outcome = "success" => data = "ready"

\* No game is started on an incomplete payload, or loses a complete one under its
\* feet, but to somebody's --force-source or to a run that could not read it:
\* marker_fast_valid, try_adopt_existing and recover_transaction take an OSError
\* for a payload that is not valid.
GamePlaysReady ==
  \A l \in Launchers : Plays(l) =>
    data = "ready" \/ robbed[l] \in {"forced", "unread"}

\* "One stable lock per port ID ... [not] allow a second game to fight for
\* fb0/audio/input": while a launcher has its game, no other has a game or an
\* extractor at work.  The game a killed launcher left has no lock (9>&-) and is
\* excepted: it plays on beside the next.
OneGame ==
  \A l, m \in Launchers :
    seat[l] = "game" /\ (Plays(m) \/ Running(m)) => l = m \/ seat[m] = "orphan"

\* What a launcher's run publishes stays as long as the run is at work or the
\* launcher has yet to read it; only what is run by hand interferes.  Among
\* launchers of one lock root the instance lock sees to it, even when
\* launchers are killed and their extractors are not.
Fresh == /\ result # Nobody /\ result.by \in Launchers
         /\ lock = result.by \/ seat[result.by] = "extract"
Kept  == result' # Nobody /\ result'.by = result.by
FreshResultIsKept ==
  [][Fresh /\ result' # result =>
       Kept \/ \E h \in Hands : ext'[h] # ext[h]]_vars

\* Whatever is killed and whoever interferes, as long as it happens finitely
\* often the player always gets to play again.
AlwaysPlaysAgain == []<>(\E l \in Launchers : seat[l] = "game")
=============================================================================
