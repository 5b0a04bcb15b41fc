------------------------------ MODULE Launcher ------------------------------
(***************************************************************************)
(* Swordigo.sh around the game: traps, the game as a supervised child, and *)
(* the hand-back of the screen (pm_finish) to the frontend.                *)
(*                                                                         *)
(* Signals reach bash between any two commands and break off a `wait` at   *)
(* once.  The early traps end the script, the shutdown traps only ask the  *)
(* child to end; for the rest of a shutdown signals are ignored.           *)
(***************************************************************************)
EXTENDS Naturals

CONSTANTS
  Codes,         \* exit statuses of the game
  Signals,       \* 128 + HUP, INT and TERM
  Killed,        \* 128 + KILL
  Ticks,         \* seconds of grace; 10 in the code
  None,          \* no status yet
  MaxSignals     \* bound: signals the frontend sends

ASSUME SignalsAssumption == /\ Killed \notin Signals
                            /\ None \notin Codes \cup Signals \cup {Killed}
                            /\ Ticks \in Nat \ {0}
                            /\ MaxSignals \in Nat

VARIABLES
  pc,
  traps,         \* which handlers are installed
  child,         \* the game process
  truth,         \* the status the game ended with
  pid, start,    \* are game_pid and its start time known to the script?
  requested,     \* NXBOOTSTRAP_SHUTDOWN_REQUESTED
  termSent,      \* NXBOOTSTRAP_TERM_SENT
  count,         \* NXBOOTSTRAP_SIGNAL_COUNT
  ticks, budget, \* the two loops of a shutdown
  status,        \* what the script will exit with
  aborting,      \* NXBOOTSTRAP_ABORTING
  finished,      \* NXBOOTSTRAP_FINISHED
  handed,        \* pm_finish: "no", "begun" or "yes"
  sent           \* signals so far, against MaxSignals

game       == <<child, truth>>
known      == <<pid, start>>
shutdown   == <<requested, termSent, count, ticks, budget>>
ending     == <<aborting, finished, handed>>
scriptVars == <<pc, traps, game, known, shutdown, status, ending, sent>>

Statuses == Codes \cup Signals \cup {0, 1, Killed}

ScriptTypeOK ==
  /\ pc \in {"setup", "arm", "spawn", "pid", "capture", "recheck", "wait",
             "after", "grace", "kill", "rewait", "report", "finish", "exited"}
  /\ traps \in {"early", "shutdown", "ignored"}
  /\ child \in {"unborn", "running", "dead"}
  /\ truth \in Statuses \cup {None} /\ status \in Statuses \cup {None}
  /\ pid \in BOOLEAN /\ start \in BOOLEAN
  /\ requested \in BOOLEAN /\ termSent \in BOOLEAN
  /\ count \in 0..MaxSignals /\ sent \in 0..MaxSignals
  /\ ticks \in 0..Ticks /\ budget \in 0..MaxSignals
  /\ aborting \in BOOLEAN /\ finished \in BOOLEAN
  /\ handed \in {"no", "begun", "yes"}

ScriptInit ==
  /\ pc = "setup" /\ traps = "early"
  /\ child = "unborn" /\ truth = None
  /\ pid = FALSE /\ start = FALSE
  /\ requested = FALSE /\ termSent = FALSE /\ count = 0
  /\ ticks = 0 /\ budget = 0
  /\ status = None
  /\ aborting = FALSE /\ finished = FALSE /\ handed = "no"
  /\ sent = 0

Steps(from, to) == pc = from /\ pc' = to

(***************************************************************************)
(* nxbootstrap_finish runs pm_finish once, whoever calls it first.         *)
(***************************************************************************)

\* The script ends with `code`: finish and exit, whose EXIT trap is a no-op.
EndWith(code) ==
  /\ status' = code
  /\ pc' = IF finished THEN "exited" ELSE "finish"
  /\ finished' = TRUE
  /\ handed' = IF finished THEN handed ELSE "begun"

FinishDone ==
  /\ Steps("finish", "exited")
  /\ handed' = "yes"
  /\ UNCHANGED <<traps, game, known, shutdown, status, aborting, finished, sent>>

(***************************************************************************)
(* Before the game: preflight, extraction, gate and splash.                *)
(***************************************************************************)

SetupFails(code) ==
  /\ pc = "setup"
  /\ EndWith(code)
  /\ UNCHANGED <<traps, game, known, shutdown, aborting, sent>>

SetupDone ==
  /\ Steps("setup", "arm")
  /\ UNCHANGED <<traps, game, known, shutdown, status, ending, sent>>

Arm ==
  /\ Steps("arm", "spawn")
  /\ traps' = "shutdown"
  /\ UNCHANGED <<game, known, shutdown, status, ending, sent>>

\* The runtime START event cannot be written.
StartEventFails ==
  /\ pc = "spawn"
  /\ EndWith(1)
  /\ UNCHANGED <<traps, game, known, shutdown, aborting, sent>>

(***************************************************************************)
(* The game as a child.                                                    *)
(***************************************************************************)

Spawn ==
  /\ Steps("spawn", "pid")
  /\ child' = "running"
  /\ UNCHANGED <<traps, truth, known, shutdown, status, ending, sent>>

LearnPid ==
  /\ Steps("pid", "capture")
  /\ pid' = TRUE
  /\ UNCHANGED <<traps, game, start, shutdown, status, ending, sent>>

\* capture_child_starttime reads /proc of a process bash may have reaped.
Capture ==
  /\ Steps("capture", "recheck")
  /\ start' \in IF child = "running" THEN {TRUE} ELSE BOOLEAN
  /\ UNCHANGED <<traps, game, pid, shutdown, status, ending, sent>>

Alive == pid /\ start /\ child = "running"

\* nxbootstrap_signal_child: at most one TERM, and only to this child.
SignalChild ==
  /\ start' \in IF pid /\ ~start /\ ~termSent
                   THEN IF child = "running" THEN {TRUE} ELSE BOOLEAN
                   ELSE {start}
  /\ termSent' = (termSent \/ (pid /\ child = "running"))

\* A shutdown asked for before the pid was known is passed on now.
\* Bug: nobody looks again.
Recheck_Skipped ==
  /\ Steps("recheck", "wait")
  /\ UNCHANGED <<traps, game, known, shutdown, status, ending, sent>>
Recheck ==
  /\ Steps("recheck", "wait")
  /\ IF requested THEN SignalChild ELSE UNCHANGED <<start, termSent>>
  /\ UNCHANGED <<traps, game, pid, requested, count, ticks, budget, status,
                 ending, sent>>

WaitReturns ==
  /\ Steps("wait", "after")
  /\ child = "dead"
  /\ status' = truth
  /\ UNCHANGED <<traps, game, known, shutdown, ending, sent>>

\* With no shutdown asked for, 128+n of a living child is an interrupted wait.
After ==
  /\ pc = "after"
  /\ IF requested
     THEN pc' = "grace" /\ traps' = "ignored" /\ ticks' = Ticks
     ELSE /\ pc' = IF status > 128 /\ Alive THEN "wait" ELSE "report"
          /\ UNCHANGED <<traps, ticks>>
  /\ UNCHANGED <<game, known, requested, termSent, count, budget, status,
                 ending, sent>>

Tick ==
  /\ pc = "grace" /\ ticks > 0 /\ Alive
  /\ ticks' = ticks - 1
  /\ UNCHANGED <<pc, traps, game, known, requested, termSent, count, budget,
                 status, ending, sent>>

GraceOver ==
  /\ Steps("grace", "kill")
  /\ ticks = 0 \/ ~Alive
  /\ UNCHANGED <<traps, game, known, shutdown, status, ending, sent>>

\* Bug: the deadline is announced and nothing is killed.
KillGame_Announced ==
  /\ Steps("kill", "rewait")
  /\ budget' = count
  /\ UNCHANGED <<traps, game, known, requested, termSent, count, ticks, status,
                 ending, sent>>
KillGame ==
  /\ Steps("kill", "rewait")
  /\ IF Alive THEN child' = "dead" /\ truth' = Killed ELSE UNCHANGED game
  /\ budget' = count
  /\ UNCHANGED <<traps, known, requested, termSent, count, ticks, status,
                 ending, sent>>

\* "Each handled frontend signal can contribute one synthetic 128+n result."
\* Bug: an interrupted wait is taken for the end of the game.
Rewait_Once ==
  /\ Steps("rewait", "report")
  /\ UNCHANGED <<traps, game, known, shutdown, status, ending, sent>>
Rewait ==
  /\ pc = "rewait"
  /\ IF budget > 0 /\ status \in Signals
     THEN /\ child = "dead"
          /\ status' = truth /\ budget' = budget - 1
          /\ UNCHANGED pc
     ELSE pc' = "report" /\ UNCHANGED <<status, budget>>
  /\ UNCHANGED <<traps, game, known, requested, termSent, count, ticks,
                 ending, sent>>

\* The EXIT event, the console reset, finish and exit.
ReportExit ==
  /\ pc = "report"
  /\ EndWith(status)
  /\ UNCHANGED <<traps, game, known, shutdown, aborting, sent>>

(***************************************************************************)
(* What happens to the script from outside.                                *)
(***************************************************************************)

\* The game ends by itself, on TERM if it got one, or it crashes.
GameExits(code) ==
  /\ child = "running"
  /\ child' = "dead" /\ truth' = code
  /\ UNCHANGED <<pc, traps, known, shutdown, status, ending, sent>>

\* nxbootstrap_abort_before_game, in the middle of finish as anywhere else.
EarlySignal(sig) ==
  /\ traps = "early" /\ pc # "exited"
  /\ IF aborting THEN UNCHANGED <<pc, status, ending>>
                 ELSE aborting' = TRUE /\ EndWith(sig)
  /\ UNCHANGED <<traps, game, known, shutdown>>

\* nxbootstrap_request_shutdown; a wait it interrupts returns 128+n.
ShutdownSignal(sig) ==
  /\ traps = "shutdown" /\ pc # "exited"
  /\ count' = count + 1 /\ requested' = TRUE
  /\ SignalChild
  /\ IF pc = "wait" THEN pc' = "after" /\ status' = sig
                    ELSE UNCHANGED <<pc, status>>
  /\ UNCHANGED <<traps, game, pid, ticks, budget, ending>>

Signal(sig) ==
  /\ sent < MaxSignals /\ sent' = sent + 1
  /\ EarlySignal(sig) \/ ShutdownSignal(sig)

Script ==
  \/ SetupDone \/ Arm \/ StartEventFails \/ Spawn \/ LearnPid \/ Capture
  \/ Recheck \/ WaitReturns \/ After \/ Tick \/ GraceOver \/ KillGame \/ Rewait
  \/ ReportExit \/ FinishDone
  \/ \E code \in Codes \ {0} : SetupFails(code)

ScriptNext == \/ Script
              \/ \E code \in Codes : GameExits(code)
              \/ \E sig \in Signals : Signal(sig)

ScriptSpec == ScriptInit /\ [][ScriptNext]_scriptVars

\* The script runs on; the game may go on for ever and may ignore TERM.
FairScript == ScriptSpec /\ WF_scriptVars(Script)

\* A game that got TERM ends: SDL makes it a quit event, which ends the main
\* loop, and exit_deadline ends a teardown that hangs.
Obeys == termSent /\ \E code \in Codes : GameExits(code)

(***************************************************************************)
(* Properties.                                                             *)
(***************************************************************************)

\* Once the game was started the script ends only after it, with its status
\* and not with that of an interrupted wait, and the screen handed back,
\* whenever and however often the frontend signalled.
EndsWithTheGame ==
  pc = "exited" /\ child # "unborn" =>
    child = "dead" /\ status = truth /\ handed = "yes"

\* A shutdown asked for at any moment, before there is a game to pass it on
\* to included, ends the script if the game ends on TERM: some signal always
\* reaches it, the one that came before the script knew the game's pid too
\* (line 828).
ObeyedShutdownCompletes ==
  WF_scriptVars(Obeys) => (requested ~> pc = "exited")

\* Once the deadline runs the script ends even if the game ignores TERM.
DeadlineHolds == traps = "ignored" ~> pc = "exited"
=============================================================================
