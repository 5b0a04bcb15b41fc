-------------------------- MODULE InstallRunProofs --------------------------
(***************************************************************************)
(* The install from the player's files to the frontend: what a run selects *)
(* of them, for any files and recipes (PlanSelection); what launchers and  *)
(* runs by hand tell each other, for any number of them and of failing     *)
(* steps and killed processes (InstallRun); and what the script ends with, *)
(* however often it is signalled (Launcher).  The three models share no    *)
(* variable, and each theorem is about one of them.                        *)
(***************************************************************************)
EXTENDS InstallRun, Launcher, PlanSelection, TLAPS

\* What a run knows while it has the workspace lock: nobody told success since
\* it removed the last document, and what it is about to tell is true.
Telling ==
  \A r \in Runs :
    /\ ext[r] \in {"recover", "choose", "work", "unread", "commit"} =>
         result = Nobody \/ result.outcome = "error"
    /\ ext[r] \in {"publish", "close"} => data = "ready"
    /\ ext[r] = "work" /\ r \notin Forced => data # "ready"
    /\ ext[r] = "commit" => data = "mixed"

\* A launcher past the judgement has a payload, or was robbed of it; so has the
\* game it leaves behind when it is killed.
Judged ==
  \A l \in Launchers : seat[l] = "gate" \/ Plays(l) =>
    data = "ready" \/ robbed[l] \in {"forced", "unread"}

\* One launcher at a time has the instance lock of a directory.
Exclusive ==
  \A l, m \in Launchers :
    LockRoot[l] = LockRoot[m] /\ HoldsInstance(l) /\ HoldsInstance(m) => l = m

\* Until it publishes, a launcher's run has no document of its own there.
Rotated ==
  \A l \in Launchers :
    /\ seat[l] = "rotate" => ext[l] = "idle"
    /\ ext[l] \in {"lock"} \cup (Locked \ {"close"}) =>
         result = Nobody \/ result.by # l

IInv == TypeOK /\ ResultIsTruthful /\ Telling /\ Judged /\ Exclusive /\ Rotated

\* All launchers find their lock in one directory.
SameRoot == \A l, m \in Launchers : LockRoot[l] = LockRoot[m]

-----------------------------------------------------------------------------

LEMMA InitInv == Init => IInv
  BY RunsAssumption
     DEF Init, IInv, TypeOK, ResultIsTruthful, Telling, Judged, Exclusive,
     Rotated, HoldsInstance, Plays, Running, Locked, Unlocked, Payloads, Runs

\* Each step of the extractor keeps the invariant.
LEMMA RunInv ==
  ASSUME IInv, NEW r \in Runs, Extracts(r) \/ Raise(r) \/ Kill(r)
  PROVE  IInv'
  <1> USE RunsAssumption
      DEF IInv, TypeOK, ResultIsTruthful, Telling, Judged, Exclusive, Rotated,
      HoldsInstance, Plays, Running, Locked, Unlocked, Payloads, Documents, Runs,
      At, Moves, launcher, payload, Fault, NoFault
  <1>1. CASE TakeLock(r)
    BY <1>1 DEF TakeLock, LockFree
  <1>2. CASE LockBusy(r)
    BY <1>2 DEF LockBusy, LockFree
  <1>3. CASE Clear(r)
    BY <1>3 DEF Clear
  <1>4. CASE Recover(r)
    BY <1>4 DEF Recover, Robs
  <1>5. CASE FastPath(r)
    BY <1>5 DEF FastPath
  <1>6. CASE Prepare(r)
    BY <1>6 DEF Prepare
  <1>7. CASE Adopt(r)
    BY <1>7 DEF Adopt
  <1>8. CASE BeginCommit(r)
    BY <1>8 DEF BeginCommit, Robs
  <1>9. CASE EndCommit(r)
    BY <1>9 DEF EndCommit
  <1>10. CASE Publish(r)
    BY <1>10 DEF Publish, Published
  <1>11. CASE Close(r)
    BY <1>11 DEF Close
  <1>12. CASE Report(r)
    BY <1>12 DEF Report
  <1>13. CASE Exit(r)
    BY <1>13 DEF Exit
  <1>14. CASE Raise(r)
    BY <1>14 DEF Raise
  <1>15. CASE Kill(r)
    BY <1>15 DEF Kill
  <1> QED
    BY <1>1, <1>2, <1>3, <1>4, <1>5, <1>6, <1>7, <1>8, <1>9, <1>10, <1>11,
       <1>12, <1>13, <1>14, <1>15 DEF Extracts

\* So does each step of a launcher, its death, and a run by hand.
LEMMA LaunchInv ==
  ASSUME IInv,
         \/ \E h \in Hands : ByHand(h)
         \/ \E l \in Launchers : Launches(l) \/ LauncherDies(l)
  PROVE  IInv'
  <1> USE RunsAssumption
      DEF IInv, TypeOK, ResultIsTruthful, Telling, Judged, Exclusive, Rotated,
      HoldsInstance, Plays, Running, Locked, Unlocked, Payloads, Documents, Runs,
      At, Moves, Seats, launcher, payload, Fault, NoFault
  <1>1. ASSUME NEW h \in Hands, ByHand(h) PROVE IInv'
    BY <1>1 DEF ByHand
  <1>2. ASSUME NEW l \in Launchers, Open(l) PROVE IInv'
    BY <1>2 DEF Open, InstanceFree
  <1>3. ASSUME NEW l \in Launchers, Rotate(l) PROVE IInv'
    BY <1>3 DEF Rotate
  <1>4. ASSUME NEW l \in Launchers, Judge(l) PROVE IInv'
    BY <1>4 DEF Judge, Agreed
  <1>5. ASSUME NEW l \in Launchers, Gate(l) PROVE IInv'
    BY <1>5 DEF Gate
  <1>6. ASSUME NEW l \in Launchers, GameEnds(l) PROVE IInv'
    BY <1>6 DEF GameEnds
  <1>7. ASSUME NEW l \in Launchers, LauncherDies(l) PROVE IInv'
    BY <1>7 DEF LauncherDies
  <1> QED
    BY <1>1, <1>2, <1>3, <1>4, <1>5, <1>6, <1>7 DEF Launches

LEMMA Inductive == Spec => []IInv
  <1>1. IInv /\ UNCHANGED vars => IInv'
    BY DEF vars, payload, IInv, TypeOK, ResultIsTruthful, Telling, Judged,
       Exclusive, Rotated, HoldsInstance, Plays, Running
  <1>2. IInv /\ [Next]_vars => IInv'
    BY <1>1, RunInv, LaunchInv DEF Next
  <1> QED
    BY <1>2, InitInv, PTL DEF Spec

\* Every variable keeps its type, and the workspace lock is held by the run
\* that works under it, and by no other.
THEOREM InstallTyping == Spec => []TypeOK
  BY Inductive, PTL DEF IInv

\* Success is only ever told of a complete payload.
THEOREM TellsTheTruth == Spec => []ResultIsTruthful
  BY Inductive, PTL DEF IInv

\* The game is only started and only plays on a complete payload, through the
\* judgement, the gate and the death of its launcher, or one that a forced run
\* or a run with a read error took from it.
THEOREM PlaysReady == Spec => []GamePlaysReady
  <1>1. IInv => GamePlaysReady
    BY DEF IInv, Judged, GamePlaysReady
  <1> QED
    BY <1>1, Inductive, PTL

\* With one directory for the lock, a launcher that has its game shares the
\* directory with no other game or extractor of a launcher, though launchers are
\* killed and leave their extractors running; only a game left so plays beside.
THEOREM PlaysOnce ==
  ASSUME SameRoot
  PROVE  Spec => []OneGame
  <1>1. IInv => OneGame
    BY SameRoot DEF SameRoot, IInv, Exclusive, HoldsInstance, Plays, OneGame
  <1> QED
    BY <1>1, Inductive, PTL

\* The steps that change the document: the last one is removed, or replaced by
\* that of the run that tells its end.
LEMMA DocumentChanges ==
  ASSUME IInv, [Next]_vars, result' # result
  PROVE  \/ \E r \in Runs : Clear(r) \/ Publish(r) \/ Report(r)
         \/ \E l \in Launchers : Rotate(l)
  BY DEF vars, Next, Extracts, Launches, TakeLock, LockBusy, Recover, FastPath,
     Prepare, Adopt, BeginCommit, EndCommit, Close, Exit, Raise, Kill, ByHand,
     Open, Judge, Gate, GameEnds, LauncherDies

\* With one directory for the lock, no launcher and none of their runs touches
\* the document another launcher's run is about to be judged by.
THEOREM KeepsFreshResult ==
  ASSUME SameRoot
  PROVE  Spec => FreshResultIsKept
  <1>1. ASSUME IInv, [Next]_vars, Fresh, result' # result
        PROVE  Kept \/ \E h \in Hands : ext'[h] # ext[h]
    <2> USE RunsAssumption
        DEF IInv, TypeOK, Exclusive, Rotated, HoldsInstance, Running, Locked,
        Unlocked, Documents, Runs, At, Moves
    <2>1. /\ result.by \in Launchers /\ HoldsInstance(result.by)
          /\ result # Nobody
      BY <1>1 DEF Fresh
    <2>2. ASSUME NEW r \in Runs, Clear(r) \/ Publish(r) \/ Report(r)
          PROVE  Kept \/ \E h \in Hands : ext'[h] # ext[h]
      <3>1. CASE r \in Hands
        <4>1. \E next \in {"recover", "close", "failing", "failed"} :
                ext' = [ext EXCEPT ![r] = next] /\ ext[r] # next
          BY <2>2 DEF Clear, Publish, Report
        <4>2. ext'[r] # ext[r]
          BY <1>1, <4>1
        <4> QED
          BY <3>1, <4>2
      <3>2. CASE r \in Launchers
        <4>1. r = result.by
          BY <1>1, <2>1, <2>2, <3>2, SameRoot
            DEF SameRoot, Clear, Publish, Report
        <4>2. ~Clear(r)
          BY <1>1, <2>1, <3>2, <4>1 DEF Clear
        <4>3. \E said \in {"success", "error"} :
                result' = [by |-> r, outcome |-> said]
          BY <1>1, <2>2, <4>2 DEF Publish, Published, Report
        <4> QED
          BY <4>1, <4>3 DEF Kept
      <3> QED
        BY <3>1, <3>2
    <2>3. ASSUME NEW l \in Launchers, Rotate(l) PROVE FALSE
      <3>1. l = result.by
        BY <1>1, <2>1, <2>3, SameRoot DEF SameRoot, Rotate
      <3> QED
        BY <1>1, <2>1, <2>3, <3>1 DEF Rotate, Fresh
    <2> QED
      BY <1>1, <2>2, <2>3, DocumentChanges
  <1>2. IInv /\ [Next]_vars =>
          [Fresh /\ result' # result =>
             Kept \/ \E h \in Hands : ext'[h] # ext[h]]_vars
    BY <1>1
  <1> QED
    BY <1>2, Inductive, PTL DEF Spec, FreshResultIsKept

-----------------------------------------------------------------------------
(* The script around its game, for any exit statuses, any number of signals *)
(* and any grace.                                                          *)

Ended == child = "dead" /\ status = truth

\* No more is counted than was sent.
Counted == count <= sent

\* The early traps go before there is a game; it is born when it is spawned.
BornLate ==
  /\ traps = "early" =>
       child = "unborn" /\ pc \in {"setup", "arm", "finish", "exited"}
  /\ pc \in {"setup", "arm", "spawn"} => child = "unborn"
  /\ pc \notin {"setup", "arm", "spawn", "finish", "exited"} => child # "unborn"

\* The screen is handed back last.
HandedLast == finished => pc \in {"finish", "exited"}

\* From capture_child_starttime on a game that runs can be signalled.
Reachable ==
  /\ pc \in {"capture", "recheck", "wait", "after", "grace", "kill", "rewait"} =>
       pid
  /\ pc \in {"recheck", "wait", "after", "grace", "kill", "rewait"}
       /\ child = "running" => start

\* What `wait` told is the game's status or, for want of one, a signal that was
\* counted and will be made up for.
ToldOfTheGame ==
  /\ pc = "after" => requested \/ Ended
  /\ pc \in {"after", "grace", "kill"} =>
       Ended \/ (status \in Signals /\ count > 0)
  /\ pc = "rewait" =>
       child = "dead" /\ (status = truth \/ (status \in Signals /\ budget > 0))
  /\ pc = "report" => Ended
  /\ pc = "finish" /\ child # "unborn" => Ended

ShellInv ==
  /\ ScriptTypeOK /\ Counted /\ BornLate /\ HandedLast /\ Reachable
  /\ ToldOfTheGame /\ EndsWithTheGame

-----------------------------------------------------------------------------

LEMMA StatusFacts ==
  /\ Codes \subseteq Statuses /\ Signals \subseteq Statuses
  /\ 0 \in Statuses /\ 1 \in Statuses /\ Killed \in Statuses
  BY DEF Statuses

LEMMA ShellInit ==
  ASSUME ScriptInit
  PROVE  ShellInv
  <1>1. /\ 0 \in 0..MaxSignals /\ 0 \in 0..Ticks
        /\ FALSE \in BOOLEAN /\ None \in Statuses \cup {None}
    BY SignalsAssumption
  <1>2. ScriptTypeOK
    BY <1>1, Zenon DEF ScriptInit, ScriptTypeOK
  <1>3. Counted
    BY DEF ScriptInit, Counted
  <1>4. /\ BornLate /\ HandedLast /\ Reachable
        /\ ToldOfTheGame /\ EndsWithTheGame
    BY DEF ScriptInit, BornLate, HandedLast, Reachable, ToldOfTheGame,
           EndsWithTheGame, Ended
  <1> QED BY <1>2, <1>3, <1>4 DEF ShellInv

\* Every command of the script keeps the invariant.
LEMMA ScriptInv ==
  ASSUME ShellInv, Script
  PROVE  ShellInv'
  <1> USE StatusFacts, SignalsAssumption
      DEF ShellInv, ScriptTypeOK, Counted, BornLate, HandedLast,
      Reachable, ToldOfTheGame, EndsWithTheGame, Ended, Steps,
      game, known, shutdown, ending
  <1>1. CASE SetupDone
    BY <1>1 DEF SetupDone
  <1>2. CASE Arm
    BY <1>2 DEF Arm
  <1>3. CASE StartEventFails
    BY <1>3 DEF StartEventFails, EndWith
  <1>4. CASE Spawn
    BY <1>4 DEF Spawn
  <1>5. CASE LearnPid
    BY <1>5 DEF LearnPid
  <1>6. CASE Capture
    <2>1. /\ pc = "capture" /\ pc' = "recheck" /\ start' \in BOOLEAN
          /\ child = "running" => start'
          /\ UNCHANGED <<traps, child, truth, pid, requested, termSent, count,
                         ticks, budget, status, aborting, finished, handed,
                         sent>>
      BY <1>6 DEF Capture
    <2> QED BY <2>1
  <1>7. CASE Recheck
    <2>1. /\ pc = "recheck" /\ pc' = "wait"
          /\ start' \in BOOLEAN /\ termSent' \in BOOLEAN
          /\ child = "running" => start'
          /\ UNCHANGED <<traps, child, truth, pid, requested, count, ticks,
                         budget, status, aborting, finished, handed, sent>>
      BY <1>7 DEF Recheck, SignalChild
    <2> QED BY <2>1
  <1>8. CASE WaitReturns
    BY <1>8 DEF WaitReturns
  <1>9. CASE After
    BY <1>9 DEF After
  <1>10. CASE Tick
    BY <1>10 DEF Tick
  <1>11. CASE GraceOver
    BY <1>11 DEF GraceOver
  <1>12. CASE KillGame
    BY <1>12 DEF KillGame, Alive
  <1>13. CASE Rewait
    BY <1>13 DEF Rewait
  <1>14. CASE ReportExit
    BY <1>14 DEF ReportExit, EndWith
  <1>15. CASE FinishDone
    BY <1>15 DEF FinishDone
  <1>16. ASSUME NEW code \in Codes \ {0}, SetupFails(code) PROVE ShellInv'
    BY <1>16 DEF SetupFails, EndWith
  <1> QED
    BY <1>1, <1>2, <1>3, <1>4, <1>5, <1>6, <1>7, <1>8, <1>9, <1>10, <1>11,
       <1>12, <1>13, <1>14, <1>15, <1>16 DEF Script

\* So do the game and the frontend.
LEMMA OutsideInv ==
  ASSUME ShellInv,
         \/ \E code \in Codes : GameExits(code)
         \/ \E sig \in Signals : Signal(sig)
  PROVE  ShellInv'
  <1> USE StatusFacts, SignalsAssumption
      DEF ShellInv, ScriptTypeOK, Counted, BornLate, HandedLast,
      Reachable, ToldOfTheGame, EndsWithTheGame, Ended, Steps,
      game, known, shutdown, ending
  <1>1. ASSUME NEW code \in Codes, GameExits(code) PROVE ShellInv'
    BY <1>1 DEF GameExits
  <1>2. ASSUME NEW sig \in Signals, Signal(sig), EarlySignal(sig)
        PROVE  ShellInv'
    <2>1. sent' = sent + 1 /\ sent < MaxSignals /\ UNCHANGED <<count, budget>>
      BY <1>2 DEF Signal, EarlySignal
    <2>2. Counted' /\ count' \in 0..MaxSignals /\ sent' \in 0..MaxSignals
      BY <2>1
    <2>3. ScriptTypeOK'
      <3>1. /\ pc' \in {pc, "finish", "exited"}
            /\ status' \in Statuses \cup {None}
            /\ aborting' \in BOOLEAN /\ finished' \in BOOLEAN
            /\ handed' \in {handed, "begun"}
        BY <1>2 DEF EarlySignal, EndWith
      <3>2. UNCHANGED <<traps, game, known, shutdown>>
        BY <1>2 DEF EarlySignal
      <3> QED BY <2>2, <3>1, <3>2
    <2>4. child = "unborn" /\ pc' \in {"setup", "arm", "finish", "exited"}
      BY <1>2 DEF EarlySignal, EndWith
    <2>5. HandedLast' /\ (aborting => UNCHANGED pc)
      BY <1>2 DEF EarlySignal, EndWith
    <2>6. pc' = pc \/ pc' \in {"finish", "exited"}
      BY <1>2 DEF EarlySignal, EndWith
    <2> QED BY <1>2, <2>2, <2>3, <2>4, <2>5, <2>6 DEF EarlySignal
  <1>3. ASSUME NEW sig \in Signals, Signal(sig), ShutdownSignal(sig)
        PROVE  ShellInv'
    <2>1. /\ sent' = sent + 1 /\ sent < MaxSignals /\ count' = count + 1
          /\ start' \in BOOLEAN /\ termSent' \in BOOLEAN
          /\ start /\ child = "running" => start'
      BY <1>3 DEF Signal, ShutdownSignal, SignalChild
    <2>2. Counted' /\ ScriptTypeOK'
      BY <1>3, <2>1 DEF ShutdownSignal
    <2>3. HandedLast' /\ BornLate' /\ EndsWithTheGame' /\ Reachable'
      BY <1>3, <2>1 DEF ShutdownSignal
    <2>4. ToldOfTheGame'
      BY <1>3, <2>1 DEF ShutdownSignal
    <2> QED BY <2>2, <2>3, <2>4
  <1> QED
    BY <1>1, <1>2, <1>3 DEF Signal

LEMMA ShellInductive == ScriptSpec => []ShellInv
  <1>1. ShellInv /\ [ScriptNext]_scriptVars => ShellInv'
    <2>1. ShellInv /\ UNCHANGED scriptVars => ShellInv'
      BY DEF scriptVars, game, known, shutdown,
             ending, ShellInv, ScriptTypeOK, Counted, BornLate,
             HandedLast, Reachable, ToldOfTheGame, EndsWithTheGame,
             Ended
    <2> QED
      BY <2>1, ScriptInv, OutsideInv DEF ScriptNext
  <1> QED
    BY <1>1, ShellInit, PTL DEF ScriptSpec

\* Every variable keeps its type; the script never counts a signal that was
\* not sent.
THEOREM LauncherTyping == ScriptSpec => []ScriptTypeOK
  BY ShellInductive, PTL DEF ShellInv

\* Once the game was started the script ends only after it and with its
\* status, whatever `wait` said when signals broke it off.
THEOREM EndsAfterTheGame == ScriptSpec => []EndsWithTheGame
  BY ShellInductive, PTL DEF ShellInv

-----------------------------------------------------------------------------
(* What is selected, for any files of the player, recipes and ABIs.        *)

\* A selection has a result of every rule.
LEMMA SelectsEach ==
  ASSUME NEW rules, NEW g, NEW abi, NEW s \in Selections(rules, g, abi)
  PROVE  /\ DOMAIN s = DOMAIN rules
         /\ \A n \in DOMAIN rules : s[n] \in Choose(rules[n], g, abi)
  <1> DEFINE may == UNION {{n} \X Choose(rules[n], g, abi) :
                             n \in DOMAIN rules}
  <1>1. /\ s \in [DOMAIN rules -> {c[2] : c \in may}]
        /\ \A n \in DOMAIN rules : <<n, s[n]>> \in may
    BY DEF Selections
  <1>2. ASSUME NEW n \in DOMAIN rules, NEW x, <<n, x>> \in may
        PROVE  x \in Choose(rules[n], g, abi)
    <2>1. PICK m \in DOMAIN rules : <<n, x>> \in {m} \X Choose(rules[m], g, abi)
      BY <1>2
    <2> QED BY <2>1
  <1> HIDE DEF may
  <1> QED BY <1>1, <1>2

\* A payload has a share of every rule, ...
LEMMA OffersEach ==
  ASSUME NEW rules, NEW g, NEW abi, NEW P \in Offers(rules, g, abi)
  PROVE  /\ P # {} /\ \A i, j \in P : Fold[i.dest] = Fold[j.dest] => i = j
         /\ \E f : /\ \A n \in DOMAIN rules : f[n] \in Shares(rules[n], g, abi)
                   /\ P = UNION {f[n] : n \in DOMAIN rules}
  <1> DEFINE share == UNION {{n} \X Shares(rules[n], g, abi) :
                               n \in DOMAIN rules}
             whole == {f \in [DOMAIN rules -> {s[2] : s \in share}] :
                         \A n \in DOMAIN rules : <<n, f[n]>> \in share}
  <1>1. /\ P # {} /\ \A i, j \in P : Fold[i.dest] = Fold[j.dest] => i = j
        /\ P \in {UNION {f[n] : n \in DOMAIN rules} : f \in whole}
    BY DEF Offers
  <1>2. ASSUME NEW n \in DOMAIN rules, NEW x, <<n, x>> \in share
        PROVE  x \in Shares(rules[n], g, abi)
    <2>1. PICK m \in DOMAIN rules : <<n, x>> \in {m} \X Shares(rules[m], g, abi)
      BY <1>2
    <2> QED BY <2>1
  <1>3. PICK f \in whole : P = UNION {f[n] : n \in DOMAIN rules}
    BY <1>1
  <1>4. \A n \in DOMAIN rules : <<n, f[n]>> \in share
    OBVIOUS
  <1> HIDE DEF share, whole
  <1>5. \A n \in DOMAIN rules : f[n] \in Shares(rules[n], g, abi)
    BY <1>2, <1>4
  <1>6. \E h : /\ \A n \in DOMAIN rules : h[n] \in Shares(rules[n], g, abi)
               /\ P = UNION {h[n] : n \in DOMAIN rules}
    BY <1>3, <1>5, Zenon
  <1> QED BY <1>1, <1>6

\* ... and all such are payloads.
LEMMA EachOffers ==
  ASSUME NEW rules, NEW g, NEW abi, NEW f,
         f = [n \in DOMAIN rules |-> f[n]],
         \A n \in DOMAIN rules : f[n] \in Shares(rules[n], g, abi),
         NEW P, P = UNION {f[n] : n \in DOMAIN rules}, P # {},
         \A i, j \in P : Fold[i.dest] = Fold[j.dest] => i = j
  PROVE  P \in Offers(rules, g, abi)
  <1> DEFINE share == UNION {{n} \X Shares(rules[n], g, abi) :
                               n \in DOMAIN rules}
             whole == {h \in [DOMAIN rules -> {s[2] : s \in share}] :
                         \A n \in DOMAIN rules : <<n, h[n]>> \in share}
  <1>1. ASSUME NEW n \in DOMAIN rules
        PROVE  <<n, f[n]>> \in share /\ f[n] \in {s[2] : s \in share}
    <2>1. <<n, f[n]>> \in {n} \X Shares(rules[n], g, abi)
      OBVIOUS
    <2>2. <<n, f[n]>> \in share
      BY <2>1, Zenon
    <2>3. <<n, f[n]>>[2] = f[n]
      OBVIOUS
    <2> HIDE DEF share
    <2> QED BY <2>2, <2>3, Zenon
  <1> HIDE DEF share
  <1>2. f \in whole
    BY <1>1
  <1> HIDE DEF whole
  <1>3. P \in {UNION {h[n] : n \in DOMAIN rules} : h \in whole}
    BY <1>2
  <1> QED BY <1>3 DEF Offers, share, whole

\* Members are not loose, files are.
LEMMA MembersAreNot ==
  ASSUME NEW r, NEW g
  PROVE  \A e \in Entries(g, r) : /\ e.as = "member" /\ e.in \in g.archives
                                  /\ \E m \in Source[e.in.id].members : e.name = m[1]
  BY DEF Entries, Members, Scoped

LEMMA FilesAre ==
  ASSUME NEW r, NEW g, NEW abi
  PROVE  \A e \in FilesOf(r, g, abi) :
           /\ e.as = "file" /\ e.name = Source[e.in.id].name
           /\ e.in \in g.archives \/ \E p \in g.loose : e.in.id = p[2]
  BY DEF FilesOf, Named, Matching, Containers, LooseFiles, Whole, Scoped, Archive

\* The candidates of _choose_one are those the reference accepts.
LEMMA BestIsAcceptable ==
  ASSUME NEW r, NEW g, NEW abi
  PROVE  /\ Acceptable(r, g, abi) =
              BestMembers(r, g, abi) \cup Valid(FilesOf(r, g, abi), r, abi)
         /\ BestMembers(r, g, abi) \subseteq MembersOf(r, g)
  BY DEF Acceptable, BestMembers, Valid, Matching

Agree(es) == \A e, f \in es : e.content = f.content

\* A rule for one file: what _choose_one may come to.
LEMMA OneItem ==
  ASSUME NEW r, NEW g, NEW abi, NEW c \in ChooseOne(r, g, abi)
  PROVE  \/ c = Refused("source")
         \/ /\ c = Refused("plan")
            /\ \/ ~Agree(Acceptable(r, g, abi))
               \/ Acceptable(r, g, abi) = {} /\ r.required
         \/ c = Chosen({}) /\ Acceptable(r, g, abi) = {} /\ ~r.required
         \/ /\ Agree(Acceptable(r, g, abi))
            /\ \E e \in Acceptable(r, g, abi) :
                 /\ c = Chosen({Item(r, e, abi)})
                 /\ e.as = "file" => \A f \in Acceptable(r, g, abi) : f.as = "file"
  <1> DEFINE members == BestMembers(r, g, abi)
             whole   == Valid(FilesOf(r, g, abi), r, abi)
             all     == members \cup whole
             differ  == \E e, f \in all : e.content # f.content
  <1>1. all = Acceptable(r, g, abi)
    BY BestIsAcceptable
  <1>2. \A e \in members : e.as = "member"
    BY BestIsAcceptable, MembersAreNot DEF MembersOf
  <1>3. \A e \in whole : e.as = "file"
    BY FilesAre DEF Valid
  <1> HIDE DEF members, whole
  <1>4. \/ c = Refused("source")
        \/ c = Refused("plan") /\ (~Agree(all) \/ (all = {} /\ r.required))
        \/ c = Chosen({}) /\ all = {} /\ ~r.required
        \/ Agree(all) /\ all # {} /\
           \E e \in IF members # {} THEN members ELSE whole :
             c = Chosen({Item(r, e, abi)})
    <2>1. CASE MembersOf(r, g) # {} /\ Collide(r, g, abi)
      BY <2>1 DEF ChooseOne
    <2>2. CASE ~(MembersOf(r, g) # {} /\ Collide(r, g, abi))
      BY <2>2 DEF ChooseOne, members, whole, Agree
    <2> QED BY <2>1, <2>2
  <1>5. CASE Agree(all) /\ \E e \in IF members # {} THEN members ELSE whole :
             c = Chosen({Item(r, e, abi)})
    BY <1>1, <1>2, <1>3, <1>5
  <1> QED BY <1>1, <1>4, <1>5

(* Item i of a payload stands for item j of a plan: the same content for the *)
(* same place, and loose if that one is.                                     *)
Stands(i, j) ==
  /\ i.rule = j.rule /\ i.dest = j.dest /\ i.content = j.content
  /\ j.as = "file" => i.as = "file"
Matches(P, items) ==
  /\ \A i \in P : \E j \in items : Stands(i, j)
  /\ \A j \in items : \E i \in P : Stands(i, j)

\* Where an item is taken from.
From(g, i) == i.in \in g.archives \/ \E p \in g.loose : i.in.id = p[2]

\* What holds of a result of one rule, and of what the rule may contribute.
Fitting(r, g, abi, c) ==
  /\ \A i \in c.items : i.rule = r.id /\ From(g, i)
  /\ \A i, j \in c.items : Fold[i.dest] = Fold[j.dest] => Bare(i) = Bare(j)
  /\ {Bare(i) : i \in c.items} \in Shares(r, g, abi)

\* Every result of _choose_one without an error is a share, ...
LEMMA OneFits ==
  ASSUME NEW r, NEW g, NEW abi, NEW c \in ChooseOne(r, g, abi),
         r.kind # "entries", c.error = "none"
  PROVE  Fitting(r, g, abi, c)
  <1> DEFINE all == Acceptable(r, g, abi)
             fit == {i \in Bares(r, all, abi) : \A e \in all : e.content = i.content}
  <1>1. Shares(r, g, abi) = IF all = {} THEN {S \in {{}} : ~r.required}
                            ELSE {{i} : i \in fit}
    BY Zenon DEF Shares
  <1>2. \A e \in all :
          e.in \in g.archives \/ \E p \in g.loose : e.in.id = p[2]
    <2>1. ASSUME NEW e \in BestMembers(r, g, abi)
          PROVE  e.in \in g.archives
      <3>1. e \in Entries(g, r)
        BY BestIsAcceptable DEF MembersOf
      <3> QED BY <3>1, MembersAreNot
    <2>2. ASSUME NEW e \in Valid(FilesOf(r, g, abi), r, abi)
          PROVE  e.in \in g.archives \/ \E p \in g.loose : e.in.id = p[2]
      <3>1. e \in FilesOf(r, g, abi)
        BY DEF Valid
      <3> QED BY <3>1, FilesAre
    <2> QED BY <2>1, <2>2, BestIsAcceptable
  <1>3. CASE c = Chosen({}) /\ all = {} /\ ~r.required
    BY <1>1, <1>3 DEF Chosen, Fitting
  <1>4. CASE /\ Agree(all)
             /\ \E e \in all : c = Chosen({Item(r, e, abi)})
    <2>1. PICK e \in all : c = Chosen({Item(r, e, abi)})
      BY <1>4
    <2>2. c.items = {Item(r, e, abi)}
      BY <2>1 DEF Chosen
    <2>3. Bare(Item(r, e, abi)) \in fit
      BY <1>4 DEF Bares, Bare, Item, Agree
    <2>4. {Bare(i) : i \in c.items} = {Bare(Item(r, e, abi))}
      BY <2>2
    <2>5. {Bare(i) : i \in c.items} \in Shares(r, g, abi)
      BY <1>1, <2>3, <2>4
    <2>6. Item(r, e, abi).rule = r.id /\ Item(r, e, abi).in = e.in
      BY DEF Item
    <2> QED BY <1>2, <2>2, <2>5, <2>6 DEF Fitting, From
  <1>5. c # Refused("source") /\ c # Refused("plan")
    <2>1. Refused("source").error = "source" /\ Refused("plan").error = "plan"
      BY DEF Refused
    <2> QED BY <2>1
  <1> HIDE DEF all
  <1>6. \/ c = Chosen({}) /\ all = {} /\ ~r.required
        \/ /\ Agree(all)
           /\ \E e \in all : c = Chosen({Item(r, e, abi)})
    BY <1>5, OneItem DEF all
  <1> QED BY <1>3, <1>4, <1>6

\* ... and where it may contribute a share, it comes to that one.
LEMMA OneMatches ==
  ASSUME NEW r, NEW g, NEW abi, NEW c \in ChooseOne(r, g, abi),
         r.kind # "entries", c.error # "source", NEW S \in Shares(r, g, abi),
         \A e, f \in Acceptable(r, g, abi) :
           Destination(r, e, abi) = Destination(r, f, abi)
  PROVE  c.error = "none" /\ Matches(S, c.items)
  <1> DEFINE all == Acceptable(r, g, abi)
             fit == {i \in Bares(r, all, abi) : \A e \in all : e.content = i.content}
  <1>1. Shares(r, g, abi) = IF all = {} THEN {T \in {{}} : ~r.required}
                            ELSE {{i} : i \in fit}
    BY Zenon DEF Shares
  <1>2. CASE all = {}
    <2>1. S = {} /\ ~r.required
      BY <1>1, <1>2
    <2>2. c # Refused("source")
      BY DEF Refused
    <2>3. Agree(all)
      BY <1>2 DEF Agree
    <2>4. c = Chosen({})
      <3> HIDE DEF all
      <3> QED BY <1>2, <2>1, <2>2, <2>3, OneItem DEF all
    <2> QED BY <2>1, <2>4 DEF Chosen, Matches
  <1>3. CASE all # {}
    <2>1. PICK i \in fit : S = {i}
      BY <1>1, <1>3
    <2>2. PICK f \in all : i = Bare(Item(r, f, abi))
      BY <2>1 DEF Bares
    <2>3. Agree(all)
      BY <2>1 DEF Agree
    <2>4. c # Refused("source")
      BY DEF Refused
    <2>5. PICK e \in all : /\ c = Chosen({Item(r, e, abi)})
                           /\ e.as = "file" => \A x \in all : x.as = "file"
      BY <1>3, <2>3, <2>4, OneItem
    <2>6. Stands(Bare(Item(r, f, abi)), Item(r, e, abi))
      BY <2>3, <2>5 DEF Stands, Bare, Item, Agree
    <2>7. c.error = "none" /\ c.items = {Item(r, e, abi)}
      BY <2>5 DEF Chosen
    <2> QED BY <2>1, <2>2, <2>6, <2>7 DEF Matches
  <1> QED BY <1>2, <1>3

\* A rule for a tree: what _choose_many may come to.
LEMMA ManyItems ==
  ASSUME NEW r, NEW g, NEW abi, NEW c \in ChooseMany(r, g, abi)
  PROVE  \/ c = Refused("source")
         \/ /\ c = Refused("plan")
            /\ \/ Tree(r, g, abi) = {} /\ r.required
               \/ /\ Tree(r, g, abi) # {}
                  /\ \/ Conflict(r, g, abi)
                     \/ Cardinality(Places(r, g, abi)) \notin r.counts
         \/ c = Chosen({}) /\ Tree(r, g, abi) = {} /\ ~r.required
         \/ /\ Tree(r, g, abi) # {} /\ ~Conflict(r, g, abi)
            /\ Cardinality(Places(r, g, abi)) \in r.counts
            /\ \E items \in Takings(r, g, abi) : c = Chosen(items)
  BY DEF ChooseMany

\* The destinations of a tree are those of its bare items.
LEMMA TreePlaces ==
  ASSUME NEW r, NEW g, NEW abi
  PROVE  {i.dest : i \in Bares(r, Below(r, g, abi), abi)} = Places(r, g, abi)
  <1>1. \A e : Bare(Item(r, e, abi)).dest = Destination(r, e, abi)
    BY DEF Bare, Item
  <1>2. Bares(r, Below(r, g, abi), abi) =
          {Bare(Item(r, e, abi)) : e \in Below(r, g, abi)}
    BY DEF Bares
  <1> QED BY <1>1, <1>2 DEF Places

LEMMA TreeShares ==
  ASSUME NEW r, NEW g, NEW abi, r.kind = "entries"
  PROVE  /\ Tree(r, g, abi) = {} =>
              Shares(r, g, abi) = {S \in {{}} : ~r.required}
         /\ Tree(r, g, abi) # {} =>
              Shares(r, g, abi) = {S \in {Bares(r, Below(r, g, abi), abi)} :
                                     Cardinality(Places(r, g, abi)) \in r.counts}
  <1>1. Tree(r, g, abi) # {} =>
          Shares(r, g, abi) = {S \in {Bares(r, Below(r, g, abi), abi)} :
                                 Cardinality({i.dest : i \in S}) \in r.counts}
    BY Zenon DEF Shares
  <1>2. Tree(r, g, abi) = {} => Shares(r, g, abi) = {S \in {{}} : ~r.required}
    BY Zenon DEF Shares
  <1> QED BY <1>1, <1>2, TreePlaces

\* Without a conflict one item per destination is all of the tree.
LEMMA OnePerPlace ==
  ASSUME NEW r, NEW g, NEW abi, ~Conflict(r, g, abi),
         NEW items \in Takings(r, g, abi)
  PROVE  /\ {Bare(i) : i \in items} = Bares(r, Below(r, g, abi), abi)
         /\ \A i, j \in items : Fold[i.dest] = Fold[j.dest] => Bare(i) = Bare(j)
         /\ \A i \in items : i.rule = r.id /\ From(g, i)
  <1>1. \A e \in Below(r, g, abi) : e.as = "member" /\ e.in \in g.archives
    BY MembersAreNot DEF Below, Tree, Named, Matching
  <1>2. ASSUME NEW e \in Below(r, g, abi), NEW f \in Below(r, g, abi),
               Fold[Destination(r, e, abi)] = Fold[Destination(r, f, abi)]
        PROVE  Bare(Item(r, e, abi)) = Bare(Item(r, f, abi))
    BY <1>1, <1>2 DEF Conflict, Bare, Item
  <1>3. PICK from \in [Places(r, g, abi) -> Below(r, g, abi)] :
          /\ \A d \in Places(r, g, abi) : Destination(r, from[d], abi) = d
          /\ items = {Item(r, from[d], abi) : d \in Places(r, g, abi)}
    BY DEF Takings
  <1>4. ASSUME NEW e \in Below(r, g, abi)
        PROVE  \E i \in items : Bare(i) = Bare(Item(r, e, abi))
    <2>1. Destination(r, e, abi) \in Places(r, g, abi)
      BY DEF Places
    <2>2. from[Destination(r, e, abi)] \in Below(r, g, abi)
      BY <2>1
    <2>3. Bare(Item(r, from[Destination(r, e, abi)], abi)) = Bare(Item(r, e, abi))
      BY <1>2, <1>3, <2>1, <2>2
    <2> QED BY <1>3, <2>1, <2>3
  <1>5. ASSUME NEW i \in items
        PROVE  \E e \in Below(r, g, abi) :
                 i = Item(r, e, abi) /\ i.dest = Destination(r, e, abi)
    <2>1. PICK d \in Places(r, g, abi) : i = Item(r, from[d], abi)
      BY <1>3
    <2>2. from[d] \in Below(r, g, abi) /\ Destination(r, from[d], abi) = d
      BY <1>3, <2>1
    <2> QED BY <2>1, <2>2 DEF Item
  <1>6. {Bare(i) : i \in items} = Bares(r, Below(r, g, abi), abi)
    BY <1>4, <1>5 DEF Bares
  <1>7. \A e : Item(r, e, abi).rule = r.id /\ Item(r, e, abi).in = e.in
    BY DEF Item
  <1> QED BY <1>1, <1>2, <1>5, <1>6, <1>7 DEF From

LEMMA ManyFit ==
  ASSUME NEW r, NEW g, NEW abi, NEW c \in ChooseMany(r, g, abi),
         r.kind = "entries", c.error = "none"
  PROVE  Fitting(r, g, abi, c)
  <1>1. c # Refused("source") /\ c # Refused("plan")
    <2>1. Refused("source").error = "source" /\ Refused("plan").error = "plan"
      BY DEF Refused
    <2> QED BY <2>1
  <1>2. CASE c = Chosen({}) /\ Tree(r, g, abi) = {} /\ ~r.required
    BY <1>2, TreeShares DEF Chosen, Fitting
  <1>3. ASSUME Tree(r, g, abi) # {}, ~Conflict(r, g, abi),
               Cardinality(Places(r, g, abi)) \in r.counts,
               NEW items \in Takings(r, g, abi), c = Chosen(items)
        PROVE  Fitting(r, g, abi, c)
    <2>0. {Bare(i) : i \in items} = Bares(r, Below(r, g, abi), abi)
      BY <1>3, OnePerPlace
    <2>1. {Bare(i) : i \in items} \in Shares(r, g, abi)
      <3>1. Shares(r, g, abi) =
              {S \in {Bares(r, Below(r, g, abi), abi)} :
                 Cardinality(Places(r, g, abi)) \in r.counts}
        BY <1>3, TreeShares
      <3> QED BY <1>3, <2>0, <3>1
    <2>2. c.items = items
      BY <1>3 DEF Chosen
    <2> QED BY <1>3, <2>1, <2>2, OnePerPlace DEF Fitting
  <1> QED BY <1>1, <1>2, <1>3, ManyItems

LEMMA ManyMatch ==
  ASSUME NEW r, NEW g, NEW abi, NEW c \in ChooseMany(r, g, abi),
         r.kind = "entries", c.error # "source", NEW S \in Shares(r, g, abi),
         \A i, j \in S : Fold[i.dest] = Fold[j.dest] => i = j
  PROVE  c.error = "none" /\ Matches(S, c.items)
  <1>1. c # Refused("source")
    BY DEF Refused
  <1>2. CASE Tree(r, g, abi) = {}
    <2>1. S = {} /\ ~r.required
      BY <1>2, TreeShares
    <2>2. c = Chosen({})
      BY <1>1, <1>2, <2>1, ManyItems
    <2> QED BY <2>1, <2>2 DEF Chosen, Matches
  <1>3. CASE Tree(r, g, abi) # {}
    <2>1. /\ S = Bares(r, Below(r, g, abi), abi)
          /\ Cardinality(Places(r, g, abi)) \in r.counts
      BY <1>3, TreeShares
    <2>2. ASSUME NEW e \in Below(r, g, abi), NEW f \in Below(r, g, abi),
                 Fold[Destination(r, e, abi)] = Fold[Destination(r, f, abi)]
          PROVE  /\ Destination(r, e, abi) = Destination(r, f, abi)
                 /\ e.content = f.content
      <3> DEFINE i == Bare(Item(r, e, abi))
                 j == Bare(Item(r, f, abi))
      <3>1. i \in S /\ j \in S
        BY <2>1 DEF Bares
      <3>2. /\ i.dest = Destination(r, e, abi) /\ i.content = e.content
            /\ j.dest = Destination(r, f, abi) /\ j.content = f.content
        BY DEF Bare, Item
      <3> HIDE DEF i, j
      <3> QED BY <2>2, <3>1, <3>2
    <2>3. ~Conflict(r, g, abi)
      BY <2>2 DEF Conflict
    <2>4. PICK items \in Takings(r, g, abi) : c = Chosen(items)
      BY <1>1, <1>3, <2>1, <2>3, ManyItems
    <2>5. c.error = "none" /\ c.items = items
      BY <2>4 DEF Chosen
    <2>6. {Bare(i) : i \in items} = S
      BY <2>1, <2>3, OnePerPlace
    <2>7. \A i : Stands(Bare(i), i)
      BY DEF Stands, Bare
    <2> QED BY <2>5, <2>6, <2>7 DEF Matches
  <1> QED BY <1>2, <1>3
\* A rule fails because of the files of the group, or because it does not fit.
LEMMA SourceReason ==
  ASSUME NEW r, NEW g, NEW abi, NEW c \in Choose(r, g, abi)
  PROVE  /\ c.error \in {"none", "source", "plan"}
         /\ c.error = "source" => \E a \in g.archives : Clashes(a.id)
  <1>1. Collide(r, g, abi) => \E a \in g.archives : Clashes(a.id)
    <2> SUFFICES ASSUME Collide(r, g, abi)
                 PROVE  \E a \in g.archives : Clashes(a.id)
      OBVIOUS
    <2>1. PICK e \in Entries(g, r), f \in Entries(g, r) :
            e.in = f.in /\ Meet(e.name, f.name)
      BY DEF Collide, Matching
    <2> QED BY <2>1, MembersAreNot DEF Clashes
  <1>2. \A why : Refused(why).error = why
    BY DEF Refused
  <1>3. \A items : Chosen(items).error = "none"
    BY DEF Chosen
  <1>4. CASE r.kind = "entries"
    <2>1. c \in ChooseMany(r, g, abi)
      BY <1>4 DEF Choose
    <2>2. \/ c = Refused("source") /\ Collide(r, g, abi)
          \/ c = Refused("plan") \/ \E items : c = Chosen(items)
      BY <2>1 DEF ChooseMany
    <2> QED BY <1>1, <1>2, <1>3, <2>2
  <1>5. CASE r.kind # "entries"
    <2>1. c \in ChooseOne(r, g, abi)
      BY <1>5 DEF Choose
    <2>2. \/ c = Refused("source") /\ Collide(r, g, abi)
          \/ c = Refused("plan") \/ \E items : c = Chosen(items)
      BY <2>1 DEF ChooseOne
    <2> QED BY <1>1, <1>2, <1>3, <2>2
  <1> QED BY <1>4, <1>5

LEMMA ChooseFits ==
  ASSUME NEW r, NEW g, NEW abi, NEW c \in Choose(r, g, abi), c.error = "none"
  PROVE  Fitting(r, g, abi, c)
  BY OneFits, ManyFit DEF Choose

LEMMA ChooseMatches ==
  ASSUME NEW r, NEW g, NEW abi, NEW c \in Choose(r, g, abi),
         c.error # "source", NEW S \in Shares(r, g, abi),
         \A i, j \in S : Fold[i.dest] = Fold[j.dest] => i = j,
         r.kind # "entries" => \A e, f \in Acceptable(r, g, abi) :
           Destination(r, e, abi) = Destination(r, f, abi)
  PROVE  c.error = "none" /\ Matches(S, c.items)
  BY OneMatches, ManyMatch DEF Choose

\* What a sound selection takes is a payload.
LEMMA SoundOffers ==
  ASSUME NEW rules, DOMAIN rules \subseteq Nat, NEW g, NEW abi,
         NEW s \in Selections(rules, g, abi), Sound(rules, s), Items(s) # {}
  PROVE  /\ {Bare(i) : i \in Items(s)} \in Offers(rules, g, abi)
         /\ \A i \in Items(s) : From(g, i)
  <1> DEFINE f == [n \in DOMAIN rules |-> {Bare(i) : i \in s[n].items}]
             P == {Bare(i) : i \in Items(s)}
  <1>1. DOMAIN s = DOMAIN rules
    BY SelectsEach
  <1>2. ASSUME NEW n \in DOMAIN rules
        PROVE  Fitting(rules[n], g, abi, s[n])
    <2>1. s[n] \in Choose(rules[n], g, abi)
      BY SelectsEach
    <2>2. s[n].error = "none"
      BY <1>1 DEF Sound, Trouble
    <2> QED BY <2>1, <2>2, ChooseFits
  <1>3. ASSUME NEW m \in DOMAIN rules, NEW n \in DOMAIN rules,
               NEW i \in s[m].items, NEW j \in s[n].items,
               Fold[i.dest] = Fold[j.dest]
        PROVE  m = n
    <2>1. Keys(s[m].items) \cap Keys(s[n].items) # {}
      BY <1>3 DEF Keys
    <2>2. \A k \in DOMAIN rules : \A l \in DOMAIN rules :
            k < l => Keys(s[k].items) \cap Keys(s[l].items) = {}
      BY <1>1 DEF Sound, Trouble
    <2> QED BY <2>1, <2>2
  <1>4. \A i : Bare(i).dest = i.dest
    BY DEF Bare
  <1>5. ASSUME NEW x \in P, NEW y \in P, Fold[x.dest] = Fold[y.dest]
        PROVE  x = y
    <2>1. PICK m \in DOMAIN rules : \E i \in s[m].items : x = Bare(i)
      BY <1>1 DEF Items
    <2>2. PICK i \in s[m].items : x = Bare(i)
      BY <2>1
    <2>3. PICK n \in DOMAIN rules : \E j \in s[n].items : y = Bare(j)
      BY <1>1 DEF Items
    <2>4. PICK j \in s[n].items : y = Bare(j)
      BY <2>3
    <2>5. Fold[i.dest] = Fold[j.dest]
      BY <1>4, <1>5, <2>2, <2>4
    <2>6. m = n
      BY <1>3, <2>5
    <2> QED BY <1>2, <2>2, <2>4, <2>5, <2>6 DEF Fitting
  <1>6. P = UNION {f[n] : n \in DOMAIN rules}
    BY <1>1 DEF Items
  <1>7. P # {}
    OBVIOUS
  <1>8. \A n \in DOMAIN rules : f[n] \in Shares(rules[n], g, abi)
    BY <1>2 DEF Fitting
  <1>9. f = [n \in DOMAIN rules |-> f[n]]
    OBVIOUS
  <1>10. \A i \in Items(s) : From(g, i)
    BY <1>1, <1>2 DEF Items, Fitting
  <1> HIDE DEF f, P
  <1>11. P \in Offers(rules, g, abi)
    BY <1>5, <1>6, <1>7, <1>8, <1>9, EachOffers
  <1> QED BY <1>10, <1>11 DEF P

\* Where a group offers a payload, no attempt passes it over.
LEMMA OfferFound ==
  ASSUME NEW rules, DOMAIN rules \subseteq Nat,
         \A m, n \in DOMAIN rules : rules[m].id = rules[n].id => m = n,
         NEW g, NEW abi,
         \A n \in DOMAIN rules : rules[n].kind # "entries" =>
           \A e, f \in Acceptable(rules[n], g, abi) :
             Destination(rules[n], e, abi) = Destination(rules[n], f, abi),
         NEW s \in Selections(rules, g, abi), NEW P \in Offers(rules, g, abi)
  PROVE  /\ ~Fails(rules, s, "plan")
         /\ Sound(rules, s) => Items(s) # {} /\ Matches(P, Items(s))
  <1>1. PICK f : /\ \A n \in DOMAIN rules : f[n] \in Shares(rules[n], g, abi)
                 /\ P = UNION {f[n] : n \in DOMAIN rules}
    BY OffersEach
  <1>2. P # {} /\ \A i, j \in P : Fold[i.dest] = Fold[j.dest] => i = j
    BY OffersEach
  <1>3. DOMAIN s = DOMAIN rules
    BY SelectsEach
  <1>4. ASSUME NEW n \in DOMAIN rules, s[n].error # "source"
        PROVE  s[n].error = "none" /\ Matches(f[n], s[n].items)
    <2>1. s[n] \in Choose(rules[n], g, abi) /\ f[n] \in Shares(rules[n], g, abi)
      BY <1>1, SelectsEach
    <2>2. \A i, j \in f[n] : Fold[i.dest] = Fold[j.dest] => i = j
      BY <1>1, <1>2
    <2> QED BY <1>4, <2>1, <2>2, ChooseMatches
  <1>5. ASSUME NEW n \in DOMAIN rules, s[n].error = "none"
        PROVE  \A i \in s[n].items : i.rule = rules[n].id
    <2>1. s[n] \in Choose(rules[n], g, abi)
      BY SelectsEach
    <2>2. Fitting(rules[n], g, abi, s[n])
      BY <1>5, <2>1, ChooseFits
    <2> QED BY <2>2 DEF Fitting
  <1>6. ASSUME NEW m \in DOMAIN rules, NEW n \in DOMAIN rules, m # n,
               s[m].error = "none", s[n].error = "none"
        PROVE  Keys(s[m].items) \cap Keys(s[n].items) = {}
    <2> SUFFICES ASSUME NEW i \in s[m].items, NEW j \in s[n].items,
                        Fold[i.dest] = Fold[j.dest]
                 PROVE  FALSE
      BY DEF Keys
    <2>1. Matches(f[m], s[m].items) /\ Matches(f[n], s[n].items)
      BY <1>4, <1>6
    <2>2. PICK x \in f[m] : Stands(x, i)
      BY <2>1 DEF Matches
    <2>3. PICK y \in f[n] : Stands(y, j)
      BY <2>1 DEF Matches
    <2>4. x \in P /\ y \in P
      BY <1>1
    <2>5. x = y
      BY <1>2, <2>2, <2>3, <2>4 DEF Stands
    <2>6. rules[m].id = rules[n].id
      BY <1>5, <1>6, <2>2, <2>3, <2>5 DEF Stands
    <2> QED BY <1>6, <2>6
  <1>7. ~Fails(rules, s, "plan")
    <2> SUFFICES ASSUME NEW n \in DOMAIN rules, Trouble(rules, s, n) = "plan",
                        \A m \in DOMAIN rules : m < n =>
                          Trouble(rules, s, m) = "none"
                 PROVE  FALSE
      BY <1>3 DEF Fails
    <2>1. s[n].error = "none"
      BY <1>4 DEF Trouble
    <2>2. PICK m \in DOMAIN rules :
            m < n /\ Keys(s[m].items) \cap Keys(s[n].items) # {}
      BY <1>3, <2>1 DEF Trouble
    <2>3. s[m].error = "none"
      BY <2>2 DEF Trouble
    <2>4. m # n
      BY <2>2
    <2> QED BY <1>6, <2>1, <2>2, <2>3, <2>4
  <1>8. ASSUME Sound(rules, s)
        PROVE  Items(s) # {} /\ Matches(P, Items(s))
    <2>1. \A n \in DOMAIN rules : s[n].error = "none"
      BY <1>3, <1>8 DEF Sound, Trouble
    <2>2. \A n \in DOMAIN rules : Matches(f[n], s[n].items)
      BY <1>4, <2>1
    <2>3. Matches(P, Items(s))
      BY <1>1, <1>3, <2>2 DEF Matches, Items
    <2> QED BY <1>2, <2>3 DEF Matches
  <1> QED BY <1>7, <1>8

\* An attempt ends the run for a reason in the archives or in the recipe.
LEMMA FailsFor ==
  ASSUME NEW rules, NEW g, NEW abi, NEW s \in Selections(rules, g, abi)
  PROVE  /\ Fails(rules, s, "source") => \E a \in g.archives : Clashes(a.id)
         /\ Fails(rules, s, "recipe") =>
              \E n \in DOMAIN rules : ~UnderCommit(rules[n])
  <1>1. DOMAIN s = DOMAIN rules
    BY SelectsEach
  <1>2. \A n \in DOMAIN rules :
          /\ s[n].error \in {"none", "source", "plan"}
          /\ s[n].error = "source" => \E a \in g.archives : Clashes(a.id)
    BY SelectsEach, SourceReason
  <1>3. \A n \in DOMAIN rules :
          /\ Trouble(rules, s, n) = "source" => s[n].error = "source"
          /\ Trouble(rules, s, n) = "recipe" => ~UnderCommit(rules[n])
    BY <1>2 DEF Trouble
  <1> QED BY <1>1, <1>2, <1>3 DEF Fails

\* Plans of one fingerprint are alike, and so is what they stand for.
LEMMA SameFingerprint ==
  ASSUME NEW p, NEW q, Fingerprint(p) = Fingerprint(q),
         NEW P, Matches(P, q.items)
  PROVE  /\ \A i \in P : \E j \in {Bare(k) : k \in p.items} : Alike(i, j)
         /\ \A j \in {Bare(k) : k \in p.items} : \E i \in P : Alike(i, j)
  <1> DEFINE print(i) == <<i.rule, i.dest, Size[i.content],
                           IF i.as = "file" THEN {} ELSE {i.content}>>
  <1>1. ASSUME NEW i, NEW j, NEW k, Stands(i, j), print(j) = print(k)
        PROVE  Alike(i, Bare(k))
    <2>1. /\ j.rule = k.rule /\ j.dest = k.dest
          /\ Size[j.content] = Size[k.content]
          /\ (IF j.as = "file" THEN {} ELSE {j.content}) =
               IF k.as = "file" THEN {} ELSE {k.content}
      BY <1>1
    <2>2. \/ j.as = "file" /\ k.as = "file"
          \/ j.content = k.content
      BY <2>1
    <2> QED BY <1>1, <2>1, <2>2 DEF Stands, Alike, Bare
  <1>2. /\ Fingerprint(p) = {print(k) : k \in p.items}
        /\ Fingerprint(q) = {print(j) : j \in q.items}
    BY DEF Fingerprint
  <1> HIDE DEF print
  <1>3. ASSUME NEW j \in q.items
        PROVE  \E k \in p.items : print(j) = print(k)
    <2>1. print(j) \in {print(k) : k \in p.items}
      BY <1>2, Zenon
    <2> QED BY <2>1, Zenon
  <1>4. ASSUME NEW k \in p.items
        PROVE  \E j \in q.items : print(j) = print(k)
    <2>1. print(k) \in {print(j) : j \in q.items}
      BY <1>2, Zenon
    <2> QED BY <2>1, Zenon
  <1>5. ASSUME NEW i \in P
        PROVE  \E j \in {Bare(k) : k \in p.items} : Alike(i, j)
    <2>1. PICK j \in q.items : Stands(i, j)
      BY DEF Matches
    <2>2. PICK k \in p.items : print(j) = print(k)
      BY <1>3
    <2> QED BY <1>1, <2>1, <2>2
  <1>6. ASSUME NEW k \in p.items
        PROVE  \E i \in P : Alike(i, Bare(k))
    <2>1. PICK j \in q.items : print(j) = print(k)
      BY <1>4
    <2>2. PICK i \in P : Stands(i, j)
      BY DEF Matches
    <2> QED BY <1>1, <2>1, <2>2
  <1> QED BY <1>5, <1>6

LEMMA OtherFingerprint ==
  ASSUME NEW p, NEW q, Fingerprint(p) # Fingerprint(q)
  PROVE  {Bare(i) : i \in p.items} # {Bare(i) : i \in q.items}
  <1> DEFINE print(i) == <<i.rule, i.dest, Size[i.content],
                           IF i.as = "file" THEN {} ELSE {i.content}>>
  <1>1. \A i : print(Bare(i)) = print(i)
    BY DEF Bare
  <1>2. /\ Fingerprint(p) = {print(i) : i \in p.items}
        /\ Fingerprint(q) = {print(i) : i \in q.items}
    BY DEF Fingerprint
  <1> HIDE DEF print
  <1>3. SUFFICES ASSUME {Bare(i) : i \in p.items} = {Bare(i) : i \in q.items}
                 PROVE  Fingerprint(p) = Fingerprint(q)
    OBVIOUS
  <1>4. ASSUME NEW i \in p.items
        PROVE  \E j \in q.items : print(j) = print(i)
    BY <1>1, <1>3
  <1>5. ASSUME NEW j \in q.items
        PROVE  \E i \in p.items : print(i) = print(j)
    BY <1>1, <1>3
  <1> QED BY <1>2, <1>4, <1>5

-----------------------------------------------------------------------------
(* The inductive invariant *)

\* What is in a group was found, and is of its application.
Belongs(a) == /\ a.path \in found
              /\ a.id \in {a.path[2]} \cup Of(a.path).inner
Holds(g, a) == Belongs(a) /\ Source[a.id].package \in {g.package, Nothing}
Whence(g) ==
  /\ g.package \in {Source[f].package : f \in DOMAIN Source} \cup {Nothing}
  /\ \A a \in g.archives : Holds(g, a)
  /\ \A p \in g.loose : p \in found /\ Of(p).kind # "apk"
GroupsAreFound == \A g \in groups : Whence(g)

\* The bundles that were opened have their groups.
HasGroup(p) == \E g \in groups : PackagesIn(p) = {g.package}
BundlesAreGrouped ==
  step = "bundles" =>
    /\ left \subseteq OfKind("bundle")
    /\ \A p \in OfKind("bundle") \ left : HasGroup(p)

\* Whatever a group offers that was tried is among the plans.
Tried(g, abi) ==
  \A P \in Offers(recipe.rules, g, abi) :
    \E p \in plans : p.group = g /\ p.abi = abi /\ Matches(P, p.items)
AttemptsAreLeft ==
  step \in {"attempt", "chosen"} =>
    /\ left \subseteq groups \X ABIs
    /\ \A g \in groups : Accepted(g)
    /\ \A g \in groups, abi \in ABIs : <<g, abi>> \notin left => Tried(g, abi)

\* A plan is a payload of its group.
IsPlan(p) ==
  /\ p.group \in groups /\ p.abi \in ABIs
  /\ {Bare(i) : i \in p.items} \in Offers(recipe.rules, p.group, p.abi)
  /\ \A i \in p.items : Source[i.in.id].package \in {p.group.package, Nothing}
PlansArePayloads == \A p \in plans : IsPlan(p)

InOrder ==
  /\ recipe \in Recipes
  /\ files \subseteq Paths /\ input \subseteq Paths /\ found \subseteq Paths
  /\ step \in {"player", "scan", "companions"} => groups = {}
  /\ step \in {"player", "scan", "companions", "bundles"} => plans = {}

OneChosen ==
  step = "chosen" =>
    /\ left = {} /\ outcome \in plans
    /\ \A p, q \in plans : Fingerprint(p) = Fingerprint(q)

SelectionInv == /\ InOrder /\ GroupsAreFound /\ BundlesAreGrouped
                /\ AttemptsAreLeft /\ PlansArePayloads /\ OneChosen
                /\ RefusesForAReason

\* What is known of what was found.
LEMMA FoundKnown ==
  ASSUME found \subseteq Paths, NEW p \in found
  PROVE  /\ p[2] \in DOMAIN Source /\ Of(p).inner \subseteq DOMAIN Source
         /\ \A id \in {p[2]} \cup Of(p).inner : id \in DOMAIN Source
         /\ Of(p).kind # "apk" => Of(p).package = Nothing
  <1>1. p[2] \in DOMAIN Source
    BY SelectionAssumption DEF Paths
  <1> QED BY <1>1, SelectionAssumption DEF Of

\* A group is of what was found if what is added to it is.
LEMMA GroupIsFound ==
  ASSUME found \subseteq Paths, NEW kind, NEW archives,
         NEW package \in {Source[f].package : f \in DOMAIN Source} \cup {Nothing},
         \A a \in archives : /\ Belongs(a)
                             /\ Source[a.id].package \in {package, Nothing}
  PROVE  /\ Whence(Group(kind, package, archives))
         /\ Group(kind, package, archives).package = package
  <1> DEFINE g == Group(kind, package, archives)
  <1>1. /\ g.package = package /\ g.archives = archives \cup Companions
        /\ g.loose = Loose
    BY DEF Group
  <1>2. ASSUME NEW a \in Companions
        PROVE  Belongs(a) /\ Source[a.id].package = Nothing
    <2>1. PICK p \in found : /\ Of(p).kind = "archive"
                             /\ a.path = p /\ a.id = p[2]
      BY DEF Companions, OfKind, Archive
    <2>2. Of(p).package = Nothing
      BY <2>1, FoundKnown
    <2> QED BY <2>1, <2>2 DEF Belongs, Of
  <1>3. \A p \in Loose : p \in found /\ Of(p).kind # "apk"
    BY DEF Loose
  <1> HIDE DEF g
  <1> QED BY <1>1, <1>2, <1>3 DEF Whence, Holds, g

\* A rule for one file writes whatever it may take of the group to one place.
LEMMA OnePlace ==
  ASSUME InOrder, NEW g \in groups, Whence(g), NEW abi \in ABIs,
         NEW n \in DOMAIN recipe.rules, recipe.rules[n].kind # "entries",
         NEW e \in Acceptable(recipe.rules[n], g, abi),
         NEW f \in Acceptable(recipe.rules[n], g, abi)
  PROVE  Destination(recipe.rules[n], e, abi) =
           Destination(recipe.rules[n], f, abi)
  <1> DEFINE r == recipe.rules[n]
  <1>1. \A a \in g.archives : a.id \in DOMAIN Source
    BY FoundKnown DEF InOrder, Whence, Holds, Belongs
  <1>2. \A p \in g.loose : p[2] \in DOMAIN Source
    BY FoundKnown DEF InOrder, Whence
  <1>3. ASSUME NEW x \in Acceptable(r, g, abi)
        PROVE  x.name \in FileNames
    <2>1. CASE x \in Entries(g, r)
      <3>1. PICK m \in Source[x.in.id].members : x.name = m[1]
        BY <2>1, MembersAreNot
      <3>2. x.in.id \in DOMAIN Source
        BY <1>1, <2>1, MembersAreNot
      <3> QED BY <3>1, <3>2 DEF FileNames
    <2>2. CASE x \in FilesOf(r, g, abi)
      <3>1. x.name = Source[x.in.id].name
        BY <2>2, FilesAre
      <3>2. x.in.id \in DOMAIN Source
        BY <1>1, <1>2, <2>2, FilesAre
      <3> QED BY <3>1, <3>2 DEF FileNames
    <2>3. x \in MembersOf(r, g) \/ x \in FilesOf(r, g, abi)
      BY <1>3, BestIsAcceptable DEF Valid
    <2> QED BY <2>1, <2>2, <2>3 DEF MembersOf
  <1> HIDE DEF r
  <1>4. e.name \in FileNames /\ f.name \in FileNames
    BY <1>3 DEF r
  <1>5. recipe \in Recipes
    BY DEF InOrder
  <1> QED BY <1>4, <1>5, DestinationAssumption DEF Destination

\* What an attempt at a group may come to.
LEMMA AttemptComesTo ==
  ASSUME InOrder, NEW g \in groups, Whence(g), NEW abi \in ABIs,
         NEW s \in Selections(recipe.rules, g, abi)
  PROVE  /\ \A P \in Offers(recipe.rules, g, abi) :
              /\ ~Fails(recipe.rules, s, "plan")
              /\ Sound(recipe.rules, s) => Items(s) # {} /\ Matches(P, Items(s))
         /\ Sound(recipe.rules, s) /\ Items(s) # {} =>
              /\ {Bare(i) : i \in Items(s)} \in Offers(recipe.rules, g, abi)
              /\ \A i \in Items(s) :
                   Source[i.in.id].package \in {g.package, Nothing}
         /\ Fails(recipe.rules, s, "source") => \E p \in found : Defective(p)
         /\ Fails(recipe.rules, s, "recipe") =>
              \E n \in DOMAIN recipe.rules : ~UnderCommit(recipe.rules[n])
  <1> DEFINE rules == recipe.rules
  <1>1. /\ DOMAIN rules \subseteq Nat
        /\ \A m, n \in DOMAIN rules : rules[m].id = rules[n].id => m = n
    BY SelectionAssumption DEF InOrder
  <1>2. \A n \in DOMAIN rules : rules[n].kind # "entries" =>
          \A e, f \in Acceptable(rules[n], g, abi) :
            Destination(rules[n], e, abi) = Destination(rules[n], f, abi)
    BY OnePlace
  <1>3. ASSUME NEW i, From(g, i)
        PROVE  Source[i.in.id].package \in {g.package, Nothing}
    <2>1. CASE i.in \in g.archives
      BY <2>1 DEF Whence, Holds
    <2>2. ASSUME NEW p \in g.loose, i.in.id = p[2]
          PROVE  Source[i.in.id].package = Nothing
      BY <2>2, FoundKnown DEF InOrder, Whence, Of
    <2> QED BY <1>3, <2>1, <2>2 DEF From
  <1>4. ASSUME NEW a \in g.archives, Clashes(a.id)
        PROVE  \E p \in found : Defective(p)
    BY <1>4 DEF Whence, Holds, Belongs, Defective
  <1> HIDE DEF rules
  <1>5. ASSUME NEW P \in Offers(rules, g, abi), s \in Selections(rules, g, abi)
        PROVE  /\ ~Fails(rules, s, "plan")
               /\ Sound(rules, s) => Items(s) # {} /\ Matches(P, Items(s))
    BY <1>1, <1>2, <1>5, OfferFound
  <1>6. ASSUME Sound(rules, s), Items(s) # {}, s \in Selections(rules, g, abi)
        PROVE  /\ {Bare(i) : i \in Items(s)} \in Offers(rules, g, abi)
               /\ \A i \in Items(s) :
                    Source[i.in.id].package \in {g.package, Nothing}
    BY <1>1, <1>3, <1>6, SoundOffers
  <1>7. s \in Selections(rules, g, abi)
    BY DEF rules
  <1>8. /\ Fails(rules, s, "source") => \E a \in g.archives : Clashes(a.id)
        /\ Fails(rules, s, "recipe") =>
             \E n \in DOMAIN rules : ~UnderCommit(rules[n])
    BY <1>7, FailsFor
  <1> QED BY <1>4, <1>5, <1>6, <1>7, <1>8 DEF rules

LEMMA SelectionInitInv == SelectionInit => SelectionInv
  BY DEF SelectionInit, SelectionInv, InOrder, GroupsAreFound,
         BundlesAreGrouped, AttemptsAreLeft, PlansArePayloads, OneChosen,
         RefusesForAReason

LEMMA SelectionStutters ==
  ASSUME SelectionInv, UNCHANGED selection
  PROVE  SelectionInv'
  <1> USE DEF selection
  <1>1. InOrder' /\ OneChosen'
    BY DEF SelectionInv, InOrder, OneChosen
  <1>2. GroupsAreFound'
    BY DEF SelectionInv, GroupsAreFound, Whence, Holds, Belongs
  <1>3. BundlesAreGrouped'
    BY DEF SelectionInv, BundlesAreGrouped, OfKind, HasGroup
  <1>4. AttemptsAreLeft'
    BY DEF SelectionInv, AttemptsAreLeft, Accepted, Tried
  <1>5. PlansArePayloads'
    BY DEF SelectionInv, PlansArePayloads, IsPlan
  <1>6. RefusesForAReason'
    BY DEF SelectionInv, RefusesForAReason, Offered, TooMany, Usable
  <1> QED BY <1>1, <1>2, <1>3, <1>4, <1>5, <1>6 DEF SelectionInv

\* Before there are groups only the search can go wrong.
LEMMA BeforeGroups ==
  ASSUME InOrder', groups' = {}, plans' = {},
         \/ step' \in {"player", "scan", "companions"}
         \/ step' = "failed" /\ RefusesForAReason'
  PROVE  SelectionInv'
  BY DEF SelectionInv, GroupsAreFound, BundlesAreGrouped, AttemptsAreLeft,
         PlansArePayloads, OneChosen, RefusesForAReason

LEMMA SearchKeeps ==
  ASSUME SelectionInv,
         \/ \E p \in Paths : Put(p) \/ Name(p)
         \/ TakeInput \/ Search \/ Scan
  PROVE  SelectionInv'
  <1>1. groups' = {} /\ plans' = {} /\ recipe' = recipe
    BY DEF SelectionInv, InOrder, Put, Name, TakeInput, Search, Scan
  <1>2. InOrder'
    BY <1>1 DEF SelectionInv, InOrder, Put, Name, TakeInput, Search, Scan
  <1>3. \/ step' \in {"player", "scan", "companions"}
        \/ step' = "failed" /\ outcome' = "source" /\ TooMany(found')
    BY DEF Put, Name, TakeInput, Search, Scan, Goes, Fail
  <1>4. TooMany(found') => TooMany(found)'
    BY <1>1 DEF TooMany
  <1>5. step' = "failed" => RefusesForAReason'
    BY <1>3, <1>4 DEF RefusesForAReason
  <1> QED BY <1>1, <1>2, <1>3, <1>5, BeforeGroups

LEMMA OpenCompanionsKeeps ==
  ASSUME SelectionInv, OpenCompanions
  PROVE  SelectionInv'
  <1>1. /\ groups' = {} /\ plans' = {} /\ recipe' = recipe /\ found' = found
        /\ step = "companions"
    BY DEF SelectionInv, InOrder, OpenCompanions
  <1>2. InOrder'
    BY <1>1 DEF SelectionInv, InOrder, OpenCompanions
  <1>3. CASE step' = "bundles" /\ left' = OfKind("bundle")
    BY <1>1, <1>2, <1>3
    DEF SelectionInv, GroupsAreFound, BundlesAreGrouped, AttemptsAreLeft,
        PlansArePayloads, OneChosen, RefusesForAReason, OfKind
  <1>4. CASE /\ step' = "failed" /\ outcome' = "source"
             /\ \E p \in OfKind("archive") : Broken(p[2])
    <2>1. \E p \in found' : Defective(p)
      BY <1>1, <1>4 DEF OfKind, Defective
    <2>2. RefusesForAReason'
      BY <1>4, <2>1 DEF RefusesForAReason
    <2> QED BY <1>1, <1>2, <1>4, <2>2, BeforeGroups
  <1> QED BY <1>3, <1>4 DEF OpenCompanions, Goes, Fail

LEMMA OpenBundleKeeps ==
  ASSUME SelectionInv, NEW p \in Paths, OpenBundle(p)
  PROVE  SelectionInv'
  <1>1. /\ step = "bundles" /\ p \in left /\ plans' = plans /\ plans = {}
        /\ UNCHANGED <<files, input, recipe, found>>
    BY DEF SelectionInv, InOrder, OpenBundle
  <1>2. InOrder'
    BY <1>1 DEF SelectionInv, InOrder, OpenBundle, Goes, Fail
  <1>3. p \in found /\ Of(p).kind = "bundle"
    BY <1>1 DEF SelectionInv, BundlesAreGrouped, OfKind
  <1>4. ASSUME step' = "failed", outcome' = "source", UNCHANGED groups,
               \/ Broken(p[2]) \/ \E a \in Of(p).inner : Broken(a)
               \/ ~\E package \in PackagesIn(p) :
                     package # Nothing /\ PackagesIn(p) = {package}
        PROVE  SelectionInv'
    <2>1. Defective(p)
      BY <1>3, <1>4 DEF Defective
    <2>2. RefusesForAReason'
      BY <1>1, <1>3, <1>4, <2>1 DEF RefusesForAReason
    <2>3. GroupsAreFound'
      BY <1>1, <1>4 DEF SelectionInv, GroupsAreFound, Whence, Holds, Belongs
    <2> QED BY <1>1, <1>2, <1>4, <2>2, <2>3
            DEF SelectionInv, BundlesAreGrouped, AttemptsAreLeft,
                PlansArePayloads, OneChosen
  <1>5. ASSUME step' = "bundles", left' = left \ {p},
               NEW package \in PackagesIn(p), PackagesIn(p) = {package},
               groups' = groups \cup {BundleGroup(p, package)}
        PROVE  SelectionInv'
    <2> DEFINE own == {Archive(p, a, "apk") : a \in Of(p).inner}
                        \cup {Archive(p, p[2], "bundle")}
               g == BundleGroup(p, package)
    <2>1. ASSUME NEW a \in own
          PROVE  Belongs(a) /\ Source[a.id].package \in {package, Nothing}
      <3>1. a.path = p /\ a.id \in {p[2]} \cup Of(p).inner
        BY DEF Archive
      <3>2. Of(p).package = Nothing
        BY <1>3, FoundKnown DEF SelectionInv, InOrder
      <3>3. \A id \in Of(p).inner : Source[id].package = package
        BY <1>5 DEF PackagesIn
      <3> QED BY <1>3, <3>1, <3>2, <3>3 DEF Belongs, Of
    <2>2. package \in {Source[f].package : f \in DOMAIN Source} \cup {Nothing}
      BY <1>3, FoundKnown DEF SelectionInv, InOrder, PackagesIn
    <2> HIDE DEF own
    <2>3. Whence(g) /\ g.package = package
      BY <2>1, <2>2, GroupIsFound DEF SelectionInv, InOrder, BundleGroup, own
    <2> HIDE DEF g
    <2>4. GroupsAreFound'
      <3>1. \A h \in groups' : Whence(h)
        BY <1>5, <2>3 DEF SelectionInv, GroupsAreFound, g
      <3> QED BY <1>1, <3>1 DEF GroupsAreFound, Whence, Holds, Belongs
    <2>5. BundlesAreGrouped'
      <3>1. \A q \in OfKind("bundle") \ left' : \E h \in groups' :
              PackagesIn(q) = {h.package}
        BY <1>1, <1>5, <2>3
        DEF SelectionInv, BundlesAreGrouped, HasGroup, g
      <3>2. OfKind("bundle")' = OfKind("bundle")
        BY <1>1 DEF OfKind
      <3>3. left' \subseteq OfKind("bundle")
        BY <1>1, <1>5 DEF SelectionInv, BundlesAreGrouped
      <3> QED BY <3>1, <3>2, <3>3 DEF BundlesAreGrouped, HasGroup
    <2> QED BY <1>1, <1>2, <1>5, <2>4, <2>5
            DEF SelectionInv, AttemptsAreLeft, PlansArePayloads, OneChosen,
                RefusesForAReason
  <1> QED BY <1>4, <1>5 DEF OpenBundle, Goes, Fail

\* What an APK set or a group of companions is made of.
LEMMA DirectIsFound ==
  ASSUME found \subseteq Paths
  PROVE  /\ \A g \in ApkSets : Whence(g)
         /\ Whence(Group("companion", Nothing, {}))
         /\ \A p \in OfKind("apk") :
              \E g \in ApkSets : g.package = Of(p).package
  <1>1. ASSUME NEW p \in OfKind("apk")
        PROVE  /\ Whence(ApkSet(Of(p).package))
               /\ ApkSet(Of(p).package).package = Of(p).package
    <2> DEFINE like == {q \in OfKind("apk") : Of(q).package = Of(p).package}
               own  == {Archive(q, q[2], "apk") : q \in like}
    <2>1. ASSUME NEW a \in own
          PROVE  /\ Belongs(a)
                 /\ Source[a.id].package \in {Of(p).package, Nothing}
      <3>1. PICK q \in found : /\ Of(q).package = Of(p).package
                               /\ a.path = q /\ a.id = q[2]
        BY DEF OfKind, Archive
      <3> QED BY <3>1 DEF Belongs, Of
    <2>2. p \in found
      BY DEF OfKind
    <2>3. Of(p).package \in
            {Source[f].package : f \in DOMAIN Source} \cup {Nothing}
      BY <2>2, FoundKnown DEF Of
    <2> HIDE DEF own
    <2> QED BY <2>1, <2>3, GroupIsFound DEF ApkSet, own
  <1>2. Whence(Group("companion", Nothing, {}))
    BY GroupIsFound
  <1> QED BY <1>1, <1>2 DEF ApkSets

LEMMA GroupDirectKeeps ==
  ASSUME SelectionInv, GroupDirect
  PROVE  SelectionInv'
  <1> DEFINE all  == groups \cup ApkSets
             some == IF all = {} /\ (Companions # {} \/ Loose # {})
                     THEN {Group("companion", Nothing, {})} ELSE all
             kept == {g \in some : Accepted(g)}
  <1>1. /\ step = "bundles" /\ left = {} /\ plans' = plans /\ plans = {}
        /\ UNCHANGED <<files, input, recipe, found>>
    BY DEF SelectionInv, InOrder, GroupDirect
  <1>2. InOrder'
    BY <1>1 DEF SelectionInv, InOrder, GroupDirect, Goes, Fail
  <1>3. found \subseteq Paths /\ GroupsAreFound
    BY DEF SelectionInv, InOrder
  <1>4. \A g \in some : Whence(g)
    BY <1>3, DirectIsFound DEF GroupsAreFound
  <1>5. ASSUME kept = {}, NEW p \in found, Usable(p)
        PROVE  Of(p).kind \notin {"apk", "bundle"}
    <2>1. ASSUME NEW g \in all, Of(p).kind \in {"apk", "bundle"},
                 \/ Of(p).kind = "apk" /\ g.package = Of(p).package
                 \/ Of(p).kind = "bundle" /\ PackagesIn(p) = {g.package}
          PROVE  FALSE
      <3>1. Accepted(g)
        BY <1>5, <2>1 DEF Usable, Accepted
      <3>2. some = all
        BY <2>1
      <3> QED BY <1>5, <2>1, <3>1, <3>2
    <2>2. ASSUME Of(p).kind = "apk"
          PROVE  \E g \in all : g.package = Of(p).package
      BY <1>3, <2>2, DirectIsFound DEF OfKind
    <2>3. ASSUME Of(p).kind = "bundle"
          PROVE  \E g \in all : PackagesIn(p) = {g.package}
      BY <1>1, <2>3 DEF SelectionInv, BundlesAreGrouped, HasGroup, OfKind
    <2> QED BY <2>1, <2>2, <2>3
  <1>6. ASSUME step' = "failed", outcome' = "source", groups' = groups,
               (\E p \in OfKind("apk") : Broken(p[2])) \/ kept = {}
        PROVE  SelectionInv'
    <2>1. GroupsAreFound'
      BY <1>1, <1>3, <1>6 DEF GroupsAreFound, Whence, Holds, Belongs
    <2>2. \/ \E p \in found : Defective(p)
          \/ \A p \in found : Usable(p) => Of(p).kind \notin {"apk", "bundle"}
      <3> HIDE DEF kept
      <3> QED BY <1>5, <1>6 DEF OfKind, Defective
    <2>3. RefusesForAReason'
      BY <1>1, <1>6, <2>2 DEF RefusesForAReason, Usable
    <2> QED BY <1>1, <1>2, <1>6, <2>1, <2>3
            DEF SelectionInv, BundlesAreGrouped, AttemptsAreLeft,
                PlansArePayloads, OneChosen
  <1>7. ASSUME step' = "attempt", groups' = kept, left' = kept \X ABIs
        PROVE  SelectionInv'
    <2>1. GroupsAreFound'
      BY <1>1, <1>4, <1>7 DEF GroupsAreFound, Whence, Holds, Belongs
    <2>2. \A g \in groups' : Accepted(g)'
      BY <1>1, <1>7 DEF Accepted
    <2> HIDE DEF kept
    <2>3. AttemptsAreLeft'
      BY <1>7, <2>2 DEF AttemptsAreLeft
    <2> QED BY <1>1, <1>2, <1>7, <2>1, <2>3
            DEF SelectionInv, BundlesAreGrouped, PlansArePayloads, OneChosen,
                RefusesForAReason
  <1> QED BY <1>6, <1>7 DEF GroupDirect, Goes, Fail

LEMMA AttemptKeeps ==
  ASSUME SelectionInv, NEW g \in groups, NEW abi \in ABIs, Attempt(g, abi)
  PROVE  SelectionInv'
  <1> DEFINE rules   == recipe.rules
             plan(s) == [group |-> g, abi |-> abi, items |-> Items(s)]
  <1>1. /\ step = "attempt" /\ left' = left \ {<<g, abi>>}
        /\ UNCHANGED <<files, input, recipe, at, found, groups>>
    BY DEF Attempt
  <1>0. PICK s \in Selections(rules, g, abi) :
          \/ /\ Sound(rules, s) /\ Items(s) # {}
             /\ plans' = plans \cup {plan(s)} /\ Goes("attempt")
          \/ /\ \/ Fails(rules, s, "plan")
                \/ Sound(rules, s) /\ Items(s) = {}
             /\ Goes("attempt") /\ UNCHANGED plans
          \/ \E why \in {"source", "recipe"} :
               Fails(rules, s, why) /\ Fail(why) /\ UNCHANGED plans
    BY DEF Attempt
  <1>2. \/ /\ Sound(rules, s) /\ Items(s) # {}
           /\ plans' = plans \cup {plan(s)} /\ step' = "attempt"
        \/ /\ \/ Fails(rules, s, "plan")
              \/ Sound(rules, s) /\ Items(s) = {}
           /\ step' = "attempt" /\ plans' = plans
        \/ /\ \E why \in {"source", "recipe"} :
                Fails(rules, s, why) /\ outcome' = why
           /\ step' = "failed" /\ plans' = plans
    <2> HIDE DEF rules, plan
    <2> QED BY <1>0 DEF Goes, Fail
  <1>3. InOrder /\ Whence(g)
    BY DEF SelectionInv, GroupsAreFound
  <1>4. /\ \A P \in Offers(rules, g, abi) :
             /\ ~Fails(rules, s, "plan")
             /\ Sound(rules, s) => Items(s) # {} /\ Matches(P, Items(s))
        /\ Sound(rules, s) /\ Items(s) # {} =>
             /\ {Bare(i) : i \in Items(s)} \in Offers(rules, g, abi)
             /\ \A i \in Items(s) :
                  Source[i.in.id].package \in {g.package, Nothing}
        /\ Fails(rules, s, "source") => \E p \in found : Defective(p)
        /\ Fails(rules, s, "recipe") =>
             \E n \in DOMAIN rules : ~UnderCommit(rules[n])
    BY <1>3, AttemptComesTo
  <1>5. InOrder'
    BY <1>1, <1>2, <1>3 DEF InOrder
  <1>6. GroupsAreFound'
    BY <1>1 DEF SelectionInv, GroupsAreFound, Whence, Holds, Belongs
  <1> HIDE DEF plan
  <1>7. ASSUME Sound(rules, s), Items(s) # {}
        PROVE  /\ plan(s).group = g /\ plan(s).abi = abi
               /\ plan(s).items = Items(s) /\ IsPlan(plan(s))
    <2>1. plan(s).group = g /\ plan(s).abi = abi /\ plan(s).items = Items(s)
      BY DEF plan
    <2> QED BY <1>4, <1>7, <2>1 DEF IsPlan
  <1>8. PlansArePayloads'
    <2>1. \A p \in plans' : IsPlan(p)
      BY <1>2, <1>7 DEF SelectionInv, PlansArePayloads
    <2> QED BY <1>1, <2>1 DEF PlansArePayloads, IsPlan
  <1>9. ASSUME step' = "attempt", NEW P \in Offers(rules, g, abi)
        PROVE  \E p \in plans' :
                 p.group = g /\ p.abi = abi /\ Matches(P, p.items)
    BY <1>2, <1>4, <1>7, <1>9
  <1>10. AttemptsAreLeft'
    <2> SUFFICES ASSUME step' = "attempt"
                 PROVE  AttemptsAreLeft'
      BY <1>2 DEF AttemptsAreLeft
    <2>1. plans \subseteq plans'
      BY <1>2
    <2>2. ASSUME NEW h \in groups, NEW b \in ABIs, <<h, b>> \notin left'
          PROVE  Tried(h, b)'
      <3>1. CASE h = g /\ b = abi
        BY <1>1, <1>9, <3>1 DEF Tried
      <3>2. CASE ~(h = g /\ b = abi)
        <4>1. Tried(h, b)
          BY <1>1, <2>2, <3>2 DEF SelectionInv, AttemptsAreLeft
        <4> QED BY <1>1, <2>1, <4>1 DEF Tried
      <3> QED BY <3>1, <3>2
    <2>3. left' \subseteq groups \X ABIs /\ \A h \in groups : Accepted(h)'
      BY <1>1 DEF SelectionInv, AttemptsAreLeft, Accepted
    <2> QED BY <1>1, <2>2, <2>3 DEF AttemptsAreLeft
  <1>11. RefusesForAReason'
    <2>1. CASE /\ step' = "failed" /\ outcome' = "source"
               /\ \E p \in found : Defective(p)
      BY <1>1, <2>1 DEF RefusesForAReason
    <2>2. CASE /\ step' = "failed" /\ outcome' = "recipe"
               /\ \E n \in DOMAIN rules : ~UnderCommit(rules[n])
      BY <1>1, <2>2 DEF RefusesForAReason
    <2>3. CASE step' = "attempt"
      BY <2>3 DEF RefusesForAReason
    <2> QED BY <1>2, <1>4, <2>1, <2>2, <2>3
  <1> QED BY <1>2, <1>5, <1>6, <1>8, <1>10, <1>11
          DEF SelectionInv, BundlesAreGrouped, OneChosen

\* The plans are what the groups offer once all are tried.
LEMMA AllTried ==
  ASSUME SelectionInv, step \in {"attempt", "chosen"}, left = {},
         NEW P \in Offered
  PROVE  \E p \in plans : Matches(P, p.items)
  <1>1. PICK g \in groups, abi \in ABIs : P \in Offers(recipe.rules, g, abi)
    BY DEF Offered
  <1>2. Tried(g, abi)
    BY DEF SelectionInv, AttemptsAreLeft
  <1> QED BY <1>1, <1>2 DEF Tried

LEMMA ResolveKeeps ==
  ASSUME SelectionInv, Resolve
  PROVE  SelectionInv'
  <1>1. /\ step = "attempt" /\ left = {}
        /\ UNCHANGED <<files, input, recipe, at, found, left, groups, plans>>
    BY DEF Resolve
  <1>2. \/ plans = {} /\ step' = "failed" /\ outcome' = "plan"
        \/ /\ \E p, q \in plans : Fingerprint(p) # Fingerprint(q)
           /\ step' = "failed" /\ outcome' = "ambiguous"
        \/ /\ \A p, q \in plans : Fingerprint(p) = Fingerprint(q)
           /\ step' = "chosen" /\ outcome' \in plans
    BY DEF Resolve, Fail
  <1>3. InOrder' /\ OneChosen'
    BY <1>1, <1>2 DEF SelectionInv, InOrder, OneChosen
  <1>4. GroupsAreFound'
    BY <1>1 DEF SelectionInv, GroupsAreFound, Whence, Holds, Belongs
  <1>5. PlansArePayloads'
    BY <1>1 DEF SelectionInv, PlansArePayloads, IsPlan
  <1>6. AttemptsAreLeft'
    BY <1>1 DEF SelectionInv, AttemptsAreLeft, Accepted, Tried
  <1>7. Offered' = Offered
    BY <1>1 DEF Offered
  <1>8. plans = {} => Offered = {}
    BY <1>1, AllTried
  <1>9. ASSUME NEW p \in plans, NEW q \in plans, Fingerprint(p) # Fingerprint(q)
        PROVE  \E P, Q \in Offered : P # Q
    <2>1. IsPlan(p) /\ IsPlan(q)
      BY DEF SelectionInv, PlansArePayloads
    <2>2. \A g \in groups, abi \in ABIs :
            Offers(recipe.rules, g, abi) \subseteq Offered
      BY DEF Offered
    <2>3. /\ {Bare(i) : i \in p.items} \in Offered
          /\ {Bare(i) : i \in q.items} \in Offered
      BY <2>1, <2>2 DEF IsPlan
    <2> QED BY <1>9, <2>3, OtherFingerprint
  <1>10. RefusesForAReason'
    BY <1>2, <1>7, <1>8, <1>9 DEF RefusesForAReason
  <1> QED BY <1>1, <1>2, <1>3, <1>4, <1>5, <1>6, <1>10
          DEF SelectionInv, BundlesAreGrouped

LEMMA SelectionKeeps ==
  SelectionInv /\ [SelectionNext]_selection => SelectionInv'
  <1> SUFFICES ASSUME SelectionInv, [SelectionNext]_selection
               PROVE  SelectionInv'
    OBVIOUS
  <1>1. CASE UNCHANGED selection
    BY <1>1, SelectionStutters
  <1>2. CASE Look
    BY <1>2, SelectionStutters DEF Look
  <1> QED BY <1>1, <1>2, SearchKeeps, OpenCompanionsKeeps, OpenBundleKeeps,
             GroupDirectKeeps, AttemptKeeps, ResolveKeeps DEF SelectionNext

LEMMA SelectionIsSafe == SelectionSpec => []SelectionInv
  BY SelectionInitInv, SelectionKeeps, PTL DEF SelectionSpec

\* Whatever the player owns and wherever it is: nothing is refused but for want
\* of a payload, for two that differ, or for a file or recipe that is at fault.
THEOREM RefusalsHaveReasons == SelectionSpec => []RefusesForAReason
  <1>1. SelectionInv => RefusesForAReason
    BY DEF SelectionInv
  <1> QED BY <1>1, SelectionIsSafe, PTL

\* What is selected is a payload, and every payload the player's files offer is
\* the same, in whatever order files, groups and ABIs are tried.
THEOREM SelectsTheOnlyPayload == SelectionSpec => []TheOnlyPayload
  <1>1. SelectionInv => TheOnlyPayload
    <2> SUFFICES ASSUME SelectionInv, step = "chosen"
                 PROVE  LET mine == {Bare(i) : i \in outcome.items}
                        IN  /\ mine \in Offers(recipe.rules, outcome.group,
                                               outcome.abi)
                            /\ \A P \in Offered :
                                 /\ \A i \in P : \E j \in mine : Alike(i, j)
                                 /\ \A j \in mine : \E i \in P : Alike(i, j)
      BY Zenon DEF TheOnlyPayload
    <2>1. /\ left = {} /\ outcome \in plans
          /\ \A p, q \in plans : Fingerprint(p) = Fingerprint(q)
      BY DEF SelectionInv, OneChosen
    <2>2. {Bare(i) : i \in outcome.items} \in
            Offers(recipe.rules, outcome.group, outcome.abi)
      BY <2>1 DEF SelectionInv, PlansArePayloads, IsPlan
    <2>3. ASSUME NEW P \in Offered
          PROVE  \E q \in plans : /\ Matches(P, q.items)
                                /\ Fingerprint(outcome) = Fingerprint(q)
      BY <2>1, AllTried
    <2> QED BY <2>2, <2>3, SameFingerprint
  <1> QED BY <1>1, SelectionIsSafe, PTL

\* What is selected is of one application, one that the recipe accepts.
THEOREM SelectsOnePackage == SelectionSpec => []OnePackage
  <1>1. SelectionInv => OnePackage
    <2> SUFFICES ASSUME SelectionInv, step = "chosen"
                 PROVE  \E package \in {Source[f].package : f \in DOMAIN Source}
                                        \cup {Nothing} :
                   /\ \A i \in outcome.items :
                        Source[i.in.id].package \in {package, Nothing}
                   /\ \/ package \in recipe.packages \cup {Nothing}
                      \/ recipe.packages = {}
      BY DEF OnePackage
    <2>1. IsPlan(outcome) /\ outcome.group \in groups
      BY DEF SelectionInv, OneChosen, PlansArePayloads, IsPlan
    <2>2. Accepted(outcome.group) /\ Whence(outcome.group)
      BY <2>1 DEF SelectionInv, AttemptsAreLeft, GroupsAreFound
    <2> QED BY <2>1, <2>2 DEF IsPlan, Whence, Accepted
  <1> QED BY <1>1, SelectionIsSafe, PTL
=============================================================================
