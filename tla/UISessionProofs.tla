--------------------------- MODULE UISessionProofs ---------------------------
(***************************************************************************)
(* What UISession keeps for any candidates, any number of updates, polls   *)
(* and failing calls.                                                      *)
(***************************************************************************)
EXTENDS UISession, TLAPS

Working == {"work", "guard", "write"}
Before == {"start", "prepare", "made"}

\* ui.stop runs, or is about to clean up, and returns to then.
StopsFor(then) == pc \in Stopping \cup {"clean"} /\ after = then

\* A helper that runs is ui.process, or was given up by an interrupted stop.
HelperOwned ==
  /\ process => child # "none"
  /\ child = "alive" => process \/ cut \in Stopping
  /\ pc = "clean" /\ child = "alive" => cut \in Stopping
  /\ pc \in Stopping => process
  /\ pc \in {"report", "finish", "ended"} => ~process
  /\ pc = "finally" => ~process \/ cut # "no"
  /\ pc \in Stopping /\ after \in {"finally", "ended"} => cut # "no"

\* The one runtime directory is ui.runtime_dir, or being made; any other could
\* not be removed.
DirectoryOwned ==
  /\ \/ dirs \subseteq {base} \cup kept
     \/ pc = "made" /\ dirs \subseteq {Candidate} \cup kept
     \/ cut \in Stopping \cup {"made"}
  /\ pc \in Before \cup {"ended"} => base = None
  /\ pc = "made" => Candidate # None
  /\ pc \in {"start", "prepare"} => dirs \subseteq kept \/ cut \in Stopping \cup {"made"}

\* What the document says at each point of the way out.
DocumentFollows ==
  /\ pc = "report" \/ StopsFor("report") => doc = "failed" \/ ~path
  /\ pc = "finish" \/ StopsFor("finish") => doc = "done" \/ ~path \/ rival
  /\ rival => doc # "none"
  /\ StopsFor("finish") \/ pc = "finish" => doc \in {"done", "failed"} \/ ~path
  /\ outcome # "none" => pc \in {"finally", "ended"} \/ StopsFor("ended")
  /\ stop_file => pc \in Stopping \cup {"clean", "report", "finish", "handler",
                                        "finally", "ended"}

\* The required UI up to the last update.
Watched ==
  /\ pc \in Before \cup {"log", "spawn", "await", "recheck"} => late = 0
  /\ pc \in {"await", "recheck"} => cfg.required /\ process
  /\ pc \in Working => guard
  /\ pc = "recheck" => proof = "good"
  /\ cfg.required /\ pc \in Working =>
       /\ process
       /\ late = 0 \/ (late = 1 /\ child = "dead" /\ pc # "write")
  /\ cfg.required /\ (pc \in Working \cup {"finish"} \/ StopsFor("finish")) =>
       proof = "good"
  /\ cfg.required /\ pc \notin Working => late <= 1

IInv ==
  /\ TypeOK /\ HelperOwned /\ DirectoryOwned /\ DocumentFollows /\ Watched
  /\ NothingIsLeft /\ TheEndIsShown /\ WorkIsWatched
-----------------------------------------------------------------------------
\* The initial states satisfy the invariant.
LEMMA InitInv == Init => IInv
  <1> SUFFICES ASSUME Init PROVE IInv
    OBVIOUS
  <1>1. TypeOK
    <2>1. FlowTypeOK
      BY DEF Init, FlowTypeOK, Running, Stopping
    <2>2. StartTypeOK
      BY DEF Init, StartTypeOK
    <2>0. /\ 0 \in 0 .. MaxPolls /\ 0 \in 0 .. MaxFaults
          /\ WorkSteps \in 0 .. WorkSteps
      BY UIAssumption
    <2>3. HelperTypeOK
      BY <2>0 DEF Init, HelperTypeOK
    <2>4. ProgressTypeOK
      BY <2>0 DEF Init, ProgressTypeOK
    <2> QED BY <2>1, <2>2, <2>3, <2>4 DEF TypeOK
  <1>2. HelperOwned /\ DirectoryOwned
    BY DEF Init, HelperOwned, DirectoryOwned, Before, Stopping
  <1>3. DocumentFollows /\ Watched
    BY DEF Init, DocumentFollows, Watched, Before, Working, Stopping, StopsFor
  <1>4. NothingIsLeft /\ TheEndIsShown /\ WorkIsWatched
    BY DEF Init, NothingIsLeft, TheEndIsShown, WorkIsWatched
  <1> QED BY <1>1, <1>2, <1>3, <1>4 DEF IInv

\* A candidate is a path, or there is none.
LEMMA CandidateType == TypeOK => Candidate \in Paths \cup {None}
  <1> SUFFICES ASSUME TypeOK PROVE Candidate \in Paths \cup {None}
    OBVIOUS
  <1>1. cfg.xdg \in Paths \cup {None} /\ cfg.tmpdir \in Paths \cup {None}
    BY DEF TypeOK, FlowTypeOK, Settings
  <1> QED BY <1>1, UIAssumption DEF Candidate

\* Every step keeps it, action by action.
LEMMA StepInv == IInv /\ [Next]_vars => IInv'
  <1> SUFFICES ASSUME IInv, [Next]_vars PROVE IInv'
    OBVIOUS
  <1> USE UIAssumption
     DEF IInv, TypeOK, Running, Stopping, startVars, childVars,
        sessionVars, progressVars, endVars
  <1>0. Candidate \in Paths \cup {None}
    BY CandidateType
  <1>1. CASE Find
    <2>1. FlowTypeOK' /\ StartTypeOK'
      BY <1>0, <1>1
         DEF Find, Unavailable, Raise, FlowTypeOK, StartTypeOK, HelperOwned,
             DirectoryOwned
    <2>2. HelperTypeOK'
      BY <1>1 DEF Find, Unavailable, Raise, HelperTypeOK
    <2>3. ProgressTypeOK'
      BY <1>1 DEF Find, Unavailable, Raise, ProgressTypeOK
    <2>4. HelperOwned' /\ DirectoryOwned'
      BY <1>0, <1>1
         DEF Find, Unavailable, Raise, HelperOwned, DirectoryOwned, Before,
             Candidate, FlowTypeOK, StartTypeOK, HelperTypeOK, ProgressTypeOK
    <2>5. DocumentFollows' /\ Watched'
      BY <1>1
         DEF Find, Unavailable, Raise, DocumentFollows, Watched, HelperOwned,
             WorkIsWatched, StopsFor, Working, Before, FlowTypeOK,
             StartTypeOK, HelperTypeOK, ProgressTypeOK
    <2>6. NothingIsLeft' /\ TheEndIsShown' /\ WorkIsWatched'
      BY <1>1
         DEF Find, Unavailable, Raise, NothingIsLeft, TheEndIsShown,
             WorkIsWatched, HelperOwned, DirectoryOwned, DocumentFollows,
             Watched, Working, Before, StopsFor, FlowTypeOK, StartTypeOK,
             HelperTypeOK, ProgressTypeOK
    <2> QED BY <2>1, <2>2, <2>3, <2>4, <2>5, <2>6
  <1>2. CASE MakeDirectory
    <2>1. FlowTypeOK' /\ StartTypeOK'
      BY <1>0, <1>2
         DEF MakeDirectory, Unavailable, Raise, Fails, FlowTypeOK,
             StartTypeOK, HelperOwned, DirectoryOwned
    <2>2. HelperTypeOK'
      BY <1>2 DEF MakeDirectory, Unavailable, Raise, Fails, HelperTypeOK
    <2>3. ProgressTypeOK'
      <3>1. /\ faults' \in 0 .. MaxFaults
            /\ doc' \in {"none", "working", "failed", "done"}
        BY <1>2 DEF MakeDirectory, Unavailable, Raise, Fails, ProgressTypeOK
      <3>2. left' \in 0 .. WorkSteps /\ late' \in Nat
        BY <1>2 DEF MakeDirectory, Unavailable, Raise, Fails, ProgressTypeOK
      <3> QED
        BY <1>2, <3>1, <3>2
        DEF MakeDirectory, Unavailable, Raise, Fails, ProgressTypeOK
    <2>4. HelperOwned' /\ DirectoryOwned'
      BY <1>0, <1>2
         DEF MakeDirectory, Unavailable, Raise, Fails, HelperOwned,
             DirectoryOwned, Before, Candidate, FlowTypeOK, StartTypeOK,
             HelperTypeOK, ProgressTypeOK
    <2>5. DocumentFollows' /\ Watched'
      BY <1>2
         DEF MakeDirectory, Unavailable, Raise, Fails, DocumentFollows,
             Watched, HelperOwned, WorkIsWatched, StopsFor, Working, Before,
             FlowTypeOK, StartTypeOK, HelperTypeOK, ProgressTypeOK
    <2>6. NothingIsLeft' /\ TheEndIsShown' /\ WorkIsWatched'
      BY <1>2
         DEF MakeDirectory, Unavailable, Raise, Fails, NothingIsLeft,
             TheEndIsShown, WorkIsWatched, HelperOwned, DirectoryOwned,
             DocumentFollows, Watched, Working, Before, StopsFor, FlowTypeOK,
             StartTypeOK, HelperTypeOK, ProgressTypeOK
    <2> QED BY <2>1, <2>2, <2>3, <2>4, <2>5, <2>6
  <1>3. CASE OpenDirectory
    <2>1. FlowTypeOK' /\ StartTypeOK'
      BY <1>0, <1>3
         DEF OpenDirectory, Keeps, Fails, FlowTypeOK, StartTypeOK, HelperOwned,
             DirectoryOwned
    <2>2. HelperTypeOK'
      BY <1>3 DEF OpenDirectory, Keeps, Fails, HelperTypeOK
    <2>3. ProgressTypeOK'
      <3>1. /\ faults' \in 0 .. MaxFaults
            /\ doc' \in {"none", "working", "failed", "done"}
        BY <1>3 DEF OpenDirectory, Keeps, Fails, ProgressTypeOK
      <3>2. left' \in 0 .. WorkSteps /\ late' \in Nat
        BY <1>3 DEF OpenDirectory, Keeps, Fails, ProgressTypeOK
      <3> QED BY <1>3, <3>1, <3>2 DEF OpenDirectory, Keeps, Fails, ProgressTypeOK
    <2>4. HelperOwned' /\ DirectoryOwned'
      BY <1>0, <1>3
         DEF OpenDirectory, Keeps, Fails, HelperOwned, DirectoryOwned, Before,
             Candidate, FlowTypeOK, StartTypeOK, HelperTypeOK, ProgressTypeOK
    <2>5. DocumentFollows' /\ Watched'
      BY <1>3
         DEF OpenDirectory, Keeps, Fails, DocumentFollows, Watched, HelperOwned,
             WorkIsWatched, StopsFor, Working, Before, FlowTypeOK,
             StartTypeOK, HelperTypeOK, ProgressTypeOK
    <2>6. NothingIsLeft' /\ TheEndIsShown' /\ WorkIsWatched'
      BY <1>3
         DEF OpenDirectory, Keeps, Fails, NothingIsLeft, TheEndIsShown,
             WorkIsWatched, HelperOwned, DirectoryOwned, DocumentFollows,
             Watched, Working, Before, StopsFor, FlowTypeOK, StartTypeOK,
             HelperTypeOK, ProgressTypeOK
    <2> QED BY <2>1, <2>2, <2>3, <2>4, <2>5, <2>6
  <1>4. CASE OpenLog
    <2>1. FlowTypeOK' /\ StartTypeOK'
      BY <1>0, <1>4
         DEF OpenLog, Raise, Fails, FlowTypeOK, StartTypeOK, HelperOwned,
             DirectoryOwned
    <2>2. HelperTypeOK'
      BY <1>4 DEF OpenLog, Raise, Fails, HelperTypeOK
    <2>3. ProgressTypeOK'
      <3>1. /\ faults' \in 0 .. MaxFaults
            /\ doc' \in {"none", "working", "failed", "done"}
        BY <1>4 DEF OpenLog, Raise, Fails, ProgressTypeOK
      <3>2. left' \in 0 .. WorkSteps /\ late' \in Nat
        BY <1>4 DEF OpenLog, Raise, Fails, ProgressTypeOK
      <3> QED BY <1>4, <3>1, <3>2 DEF OpenLog, Raise, Fails, ProgressTypeOK
    <2>4. HelperOwned' /\ DirectoryOwned'
      BY <1>0, <1>4
         DEF OpenLog, Raise, Fails, HelperOwned, DirectoryOwned, Before,
             Candidate, FlowTypeOK, StartTypeOK, HelperTypeOK, ProgressTypeOK
    <2>5. DocumentFollows' /\ Watched'
      BY <1>4
         DEF OpenLog, Raise, Fails, DocumentFollows, Watched, HelperOwned,
             WorkIsWatched, StopsFor, Working, Before, FlowTypeOK,
             StartTypeOK, HelperTypeOK, ProgressTypeOK
    <2>6. NothingIsLeft' /\ TheEndIsShown' /\ WorkIsWatched'
      BY <1>4
         DEF OpenLog, Raise, Fails, NothingIsLeft, TheEndIsShown,
             WorkIsWatched, HelperOwned, DirectoryOwned, DocumentFollows,
             Watched, Working, Before, StopsFor, FlowTypeOK, StartTypeOK,
             HelperTypeOK, ProgressTypeOK
    <2> QED BY <2>1, <2>2, <2>3, <2>4, <2>5, <2>6
  <1>5. CASE Spawn
    <2>1. FlowTypeOK' /\ StartTypeOK'
      BY <1>0, <1>5
         DEF Spawn, Unavailable, Raise, Fails, FlowTypeOK, StartTypeOK,
             HelperOwned, DirectoryOwned
    <2>2. HelperTypeOK'
      BY <1>5 DEF Spawn, Unavailable, Raise, Fails, HelperTypeOK
    <2>3. ProgressTypeOK'
      <3>1. /\ faults' \in 0 .. MaxFaults
            /\ doc' \in {"none", "working", "failed", "done"}
        BY <1>5 DEF Spawn, Unavailable, Raise, Fails, ProgressTypeOK
      <3>2. left' \in 0 .. WorkSteps /\ late' \in Nat
        BY <1>5 DEF Spawn, Unavailable, Raise, Fails, ProgressTypeOK
      <3> QED
        BY <1>5, <3>1, <3>2 DEF Spawn, Unavailable, Raise, Fails, ProgressTypeOK
    <2>4. HelperOwned' /\ DirectoryOwned'
      BY <1>0, <1>5
         DEF Spawn, Unavailable, Raise, Fails, HelperOwned, DirectoryOwned,
             Before, Candidate, FlowTypeOK, StartTypeOK, HelperTypeOK,
             ProgressTypeOK
    <2>5. DocumentFollows' /\ Watched'
      BY <1>5
         DEF Spawn, Unavailable, Raise, Fails, DocumentFollows, Watched,
             HelperOwned, WorkIsWatched, StopsFor, Working, Before,
             FlowTypeOK, StartTypeOK, HelperTypeOK, ProgressTypeOK
    <2>6. NothingIsLeft' /\ TheEndIsShown' /\ WorkIsWatched'
      BY <1>5
         DEF Spawn, Unavailable, Raise, Fails, NothingIsLeft, TheEndIsShown,
             WorkIsWatched, HelperOwned, DirectoryOwned, DocumentFollows,
             Watched, Working, Before, StopsFor, FlowTypeOK, StartTypeOK,
             HelperTypeOK, ProgressTypeOK
    <2> QED BY <2>1, <2>2, <2>3, <2>4, <2>5, <2>6
  <1>6. CASE Await
    <2>1. FlowTypeOK' /\ StartTypeOK'
      BY <1>0, <1>6
         DEF Await, Raise, ProofRead, DirectoryOurs, FlowTypeOK, StartTypeOK,
             HelperOwned, DirectoryOwned
    <2>2. HelperTypeOK'
      BY <1>6 DEF Await, Raise, ProofRead, DirectoryOurs, HelperTypeOK
    <2>3. ProgressTypeOK'
      BY <1>6 DEF Await, Raise, ProofRead, DirectoryOurs, ProgressTypeOK
    <2>4. HelperOwned' /\ DirectoryOwned'
      BY <1>0, <1>6
         DEF Await, Raise, ProofRead, DirectoryOurs, HelperOwned,
             DirectoryOwned, Before, Candidate, FlowTypeOK, StartTypeOK,
             HelperTypeOK, ProgressTypeOK
    <2>5. DocumentFollows' /\ Watched'
      BY <1>6
         DEF Await, Raise, ProofRead, DirectoryOurs, DocumentFollows, Watched,
             HelperOwned, WorkIsWatched, StopsFor, Working, Before,
             FlowTypeOK, StartTypeOK, HelperTypeOK, ProgressTypeOK
    <2>6. NothingIsLeft' /\ TheEndIsShown' /\ WorkIsWatched'
      BY <1>6
         DEF Await, Raise, ProofRead, DirectoryOurs, NothingIsLeft,
             TheEndIsShown, WorkIsWatched, HelperOwned, DirectoryOwned,
             DocumentFollows, Watched, Working, Before, StopsFor, FlowTypeOK,
             StartTypeOK, HelperTypeOK, ProgressTypeOK
    <2> QED BY <2>1, <2>2, <2>3, <2>4, <2>5, <2>6
  <1>7. CASE Recheck
    <2>1. FlowTypeOK' /\ StartTypeOK'
      BY <1>0, <1>7
         DEF Recheck, Raise, FlowTypeOK, StartTypeOK, HelperOwned,
             DirectoryOwned
    <2>2. HelperTypeOK'
      BY <1>7 DEF Recheck, Raise, HelperTypeOK
    <2>3. ProgressTypeOK'
      BY <1>7 DEF Recheck, Raise, ProgressTypeOK
    <2>4. HelperOwned' /\ DirectoryOwned'
      BY <1>0, <1>7
         DEF Recheck, Raise, HelperOwned, DirectoryOwned, Before, Candidate,
             FlowTypeOK, StartTypeOK, HelperTypeOK, ProgressTypeOK
    <2>5. DocumentFollows' /\ Watched'
      BY <1>7
         DEF Recheck, Raise, DocumentFollows, Watched, HelperOwned,
             WorkIsWatched, StopsFor, Working, Before, FlowTypeOK,
             StartTypeOK, HelperTypeOK, ProgressTypeOK
    <2>6. NothingIsLeft' /\ TheEndIsShown' /\ WorkIsWatched'
      BY <1>7
         DEF Recheck, Raise, NothingIsLeft, TheEndIsShown, WorkIsWatched,
             HelperOwned, DirectoryOwned, DocumentFollows, Watched, Working,
             Before, StopsFor, FlowTypeOK, StartTypeOK, HelperTypeOK,
             ProgressTypeOK
    <2> QED BY <2>1, <2>2, <2>3, <2>4, <2>5, <2>6
  <1>8. CASE Work
    <2>1. FlowTypeOK' /\ StartTypeOK'
      BY <1>0, <1>8
         DEF Work, Raise, Fails, FlowTypeOK, StartTypeOK, HelperOwned,
             DirectoryOwned
    <2>2. HelperTypeOK'
      BY <1>8 DEF Work, Raise, Fails, HelperTypeOK
    <2>3. ProgressTypeOK'
      <3>1. /\ faults' \in 0 .. MaxFaults
            /\ doc' \in {"none", "working", "failed", "done"}
        BY <1>8 DEF Work, Raise, Fails, ProgressTypeOK
      <3>2. left' \in 0 .. WorkSteps /\ late' \in Nat
        BY <1>8 DEF Work, Raise, Fails, ProgressTypeOK
      <3> QED BY <1>8, <3>1, <3>2 DEF Work, Raise, Fails, ProgressTypeOK
    <2>4. HelperOwned' /\ DirectoryOwned'
      BY <1>0, <1>8
         DEF Work, Raise, Fails, HelperOwned, DirectoryOwned, Before,
             Candidate, FlowTypeOK, StartTypeOK, HelperTypeOK, ProgressTypeOK
    <2>5. DocumentFollows' /\ Watched'
      BY <1>8
         DEF Work, Raise, Fails, DocumentFollows, Watched, HelperOwned,
             WorkIsWatched, StopsFor, Working, Before, FlowTypeOK,
             StartTypeOK, HelperTypeOK, ProgressTypeOK
    <2>6. NothingIsLeft' /\ TheEndIsShown' /\ WorkIsWatched'
      BY <1>8
         DEF Work, Raise, Fails, NothingIsLeft, TheEndIsShown, WorkIsWatched,
             HelperOwned, DirectoryOwned, DocumentFollows, Watched, Working,
             Before, StopsFor, FlowTypeOK, StartTypeOK, HelperTypeOK,
             ProgressTypeOK
    <2> QED BY <2>1, <2>2, <2>3, <2>4, <2>5, <2>6
  <1>9. CASE Guard
    <2>1. FlowTypeOK' /\ StartTypeOK'
      BY <1>0, <1>9
         DEF Guard, Raise, AssertVisible, DirectoryOurs, FlowTypeOK,
             StartTypeOK, HelperOwned, DirectoryOwned
    <2>2. HelperTypeOK'
      BY <1>9 DEF Guard, Raise, AssertVisible, DirectoryOurs, HelperTypeOK
    <2>3. ProgressTypeOK'
      BY <1>9 DEF Guard, Raise, AssertVisible, DirectoryOurs, ProgressTypeOK
    <2>4. HelperOwned' /\ DirectoryOwned'
      BY <1>0, <1>9
         DEF Guard, Raise, AssertVisible, DirectoryOurs, HelperOwned,
             DirectoryOwned, Before, Candidate, FlowTypeOK, StartTypeOK,
             HelperTypeOK, ProgressTypeOK
    <2>5. DocumentFollows' /\ Watched'
      BY <1>9
         DEF Guard, Raise, AssertVisible, DirectoryOurs, DocumentFollows,
             Watched, HelperOwned, WorkIsWatched, StopsFor, Working, Before,
             FlowTypeOK, StartTypeOK, HelperTypeOK, ProgressTypeOK
    <2>6. NothingIsLeft' /\ TheEndIsShown' /\ WorkIsWatched'
      BY <1>9
         DEF Guard, Raise, AssertVisible, DirectoryOurs, NothingIsLeft,
             TheEndIsShown, WorkIsWatched, HelperOwned, DirectoryOwned,
             DocumentFollows, Watched, Working, Before, StopsFor, FlowTypeOK,
             StartTypeOK, HelperTypeOK, ProgressTypeOK
    <2> QED BY <2>1, <2>2, <2>3, <2>4, <2>5, <2>6
  <1>10. CASE Update
    <2>1. FlowTypeOK' /\ StartTypeOK'
      BY <1>0, <1>10
         DEF Update, Written, Fails, Stop, FlowTypeOK, StartTypeOK,
             HelperOwned, DirectoryOwned
    <2>2. HelperTypeOK'
      BY <1>10 DEF Update, Written, Fails, Stop, HelperTypeOK
    <2>3. ProgressTypeOK'
      <3>1. /\ faults' \in 0 .. MaxFaults
            /\ doc' \in {"none", "working", "failed", "done"}
        BY <1>10 DEF Update, Written, Fails, Stop, ProgressTypeOK
      <3>2. left' \in 0 .. WorkSteps /\ late' \in Nat
        BY <1>10 DEF Update, Written, Fails, Stop, ProgressTypeOK
      <3> QED
        BY <1>10, <3>1, <3>2 DEF Update, Written, Fails, Stop, ProgressTypeOK
    <2>4. HelperOwned' /\ DirectoryOwned'
      BY <1>0, <1>10
         DEF Update, Written, Fails, Stop, HelperOwned, DirectoryOwned,
             Before, Candidate, FlowTypeOK, StartTypeOK, HelperTypeOK,
             ProgressTypeOK
    <2>5. DocumentFollows' /\ Watched'
      BY <1>10
         DEF Update, Written, Fails, Stop, DocumentFollows, Watched,
             HelperOwned, WorkIsWatched, StopsFor, Working, Before,
             FlowTypeOK, StartTypeOK, HelperTypeOK, ProgressTypeOK
    <2>6. NothingIsLeft' /\ TheEndIsShown' /\ WorkIsWatched'
      BY <1>10
         DEF Update, Written, Fails, Stop, NothingIsLeft, TheEndIsShown,
             WorkIsWatched, HelperOwned, DirectoryOwned, DocumentFollows,
             Watched, Working, Before, StopsFor, FlowTypeOK, StartTypeOK,
             HelperTypeOK, ProgressTypeOK
    <2> QED BY <2>1, <2>2, <2>3, <2>4, <2>5, <2>6
  <1>11. CASE Handle
    <2>1. FlowTypeOK' /\ StartTypeOK'
      BY <1>0, <1>11
         DEF Handle, Written, Fails, Stop, FlowTypeOK, StartTypeOK,
             HelperOwned, DirectoryOwned
    <2>2. HelperTypeOK'
      BY <1>11 DEF Handle, Written, Fails, Stop, HelperTypeOK
    <2>3. ProgressTypeOK'
      <3>1. /\ faults' \in 0 .. MaxFaults
            /\ doc' \in {"none", "working", "failed", "done"}
        BY <1>11 DEF Handle, Written, Fails, Stop, ProgressTypeOK
      <3>2. left' \in 0 .. WorkSteps /\ late' \in Nat
        BY <1>11 DEF Handle, Written, Fails, Stop, ProgressTypeOK
      <3> QED
        BY <1>11, <3>1, <3>2 DEF Handle, Written, Fails, Stop, ProgressTypeOK
    <2>4. HelperOwned' /\ DirectoryOwned'
      BY <1>0, <1>11
         DEF Handle, Written, Fails, Stop, HelperOwned, DirectoryOwned,
             Before, Candidate, FlowTypeOK, StartTypeOK, HelperTypeOK,
             ProgressTypeOK
    <2>5. DocumentFollows' /\ Watched'
      BY <1>11
         DEF Handle, Written, Fails, Stop, DocumentFollows, Watched,
             HelperOwned, WorkIsWatched, StopsFor, Working, Before,
             FlowTypeOK, StartTypeOK, HelperTypeOK, ProgressTypeOK
    <2>6. NothingIsLeft' /\ TheEndIsShown' /\ WorkIsWatched'
      BY <1>11
         DEF Handle, Written, Fails, Stop, NothingIsLeft, TheEndIsShown,
             WorkIsWatched, HelperOwned, DirectoryOwned, DocumentFollows,
             Watched, Working, Before, StopsFor, FlowTypeOK, StartTypeOK,
             HelperTypeOK, ProgressTypeOK
    <2> QED BY <2>1, <2>2, <2>3, <2>4, <2>5, <2>6
  <1>12. CASE Report
    <2>1. FlowTypeOK' /\ StartTypeOK'
      BY <1>0, <1>12
         DEF Report, FlowTypeOK, StartTypeOK, HelperOwned, DirectoryOwned
    <2>2. HelperTypeOK'
      BY <1>12 DEF Report, HelperTypeOK
    <2>3. ProgressTypeOK'
      BY <1>12 DEF Report, ProgressTypeOK
    <2>4. HelperOwned' /\ DirectoryOwned'
      BY <1>0, <1>12
         DEF Report, HelperOwned, DirectoryOwned, Before, Candidate,
             FlowTypeOK, StartTypeOK, HelperTypeOK, ProgressTypeOK
    <2>5. DocumentFollows' /\ Watched'
      BY <1>12
         DEF Report, DocumentFollows, Watched, HelperOwned, WorkIsWatched,
             StopsFor, Working, Before, FlowTypeOK, StartTypeOK, HelperTypeOK,
             ProgressTypeOK
    <2>6. NothingIsLeft' /\ TheEndIsShown' /\ WorkIsWatched'
      BY <1>12
         DEF Report, NothingIsLeft, TheEndIsShown, WorkIsWatched, HelperOwned,
             DirectoryOwned, DocumentFollows, Watched, Working, Before,
             StopsFor, FlowTypeOK, StartTypeOK, HelperTypeOK, ProgressTypeOK
    <2> QED BY <2>1, <2>2, <2>3, <2>4, <2>5, <2>6
  <1>13. CASE Finish
    <2>1. FlowTypeOK' /\ StartTypeOK'
      BY <1>0, <1>13
         DEF Finish, Raise, Fails, FlowTypeOK, StartTypeOK, HelperOwned,
             DirectoryOwned
    <2>2. HelperTypeOK'
      BY <1>13 DEF Finish, Raise, Fails, HelperTypeOK
    <2>3. ProgressTypeOK'
      <3>1. /\ faults' \in 0 .. MaxFaults
            /\ doc' \in {"none", "working", "failed", "done"}
        BY <1>13 DEF Finish, Raise, Fails, ProgressTypeOK
      <3>2. left' \in 0 .. WorkSteps /\ late' \in Nat
        BY <1>13 DEF Finish, Raise, Fails, ProgressTypeOK
      <3> QED BY <1>13, <3>1, <3>2 DEF Finish, Raise, Fails, ProgressTypeOK
    <2>4. HelperOwned' /\ DirectoryOwned'
      BY <1>0, <1>13
         DEF Finish, Raise, Fails, HelperOwned, DirectoryOwned, Before,
             Candidate, FlowTypeOK, StartTypeOK, HelperTypeOK, ProgressTypeOK
    <2>5. DocumentFollows' /\ Watched'
      BY <1>13
         DEF Finish, Raise, Fails, DocumentFollows, Watched, HelperOwned,
             WorkIsWatched, StopsFor, Working, Before, FlowTypeOK,
             StartTypeOK, HelperTypeOK, ProgressTypeOK
    <2>6. NothingIsLeft' /\ TheEndIsShown' /\ WorkIsWatched'
      BY <1>13
         DEF Finish, Raise, Fails, NothingIsLeft, TheEndIsShown,
             WorkIsWatched, HelperOwned, DirectoryOwned, DocumentFollows,
             Watched, Working, Before, StopsFor, FlowTypeOK, StartTypeOK,
             HelperTypeOK, ProgressTypeOK
    <2> QED BY <2>1, <2>2, <2>3, <2>4, <2>5, <2>6
  <1>14. CASE Finally
    <2>1. FlowTypeOK' /\ StartTypeOK'
      BY <1>0, <1>14
         DEF Finally, Stop, FlowTypeOK, StartTypeOK, HelperOwned, DirectoryOwned
    <2>2. HelperTypeOK'
      BY <1>14 DEF Finally, Stop, HelperTypeOK
    <2>3. ProgressTypeOK'
      BY <1>14 DEF Finally, Stop, ProgressTypeOK
    <2>4. HelperOwned' /\ DirectoryOwned'
      BY <1>0, <1>14
         DEF Finally, Stop, HelperOwned, DirectoryOwned, Before, Candidate,
             FlowTypeOK, StartTypeOK, HelperTypeOK, ProgressTypeOK
    <2>5. DocumentFollows' /\ Watched'
      BY <1>14
         DEF Finally, Stop, DocumentFollows, Watched, HelperOwned,
             WorkIsWatched, StopsFor, Working, Before, FlowTypeOK,
             StartTypeOK, HelperTypeOK, ProgressTypeOK
    <2>6. NothingIsLeft' /\ TheEndIsShown' /\ WorkIsWatched'
      BY <1>14
         DEF Finally, Stop, NothingIsLeft, TheEndIsShown, WorkIsWatched,
             HelperOwned, DirectoryOwned, DocumentFollows, Watched, Working,
             Before, StopsFor, FlowTypeOK, StartTypeOK, HelperTypeOK,
             ProgressTypeOK
    <2> QED BY <2>1, <2>2, <2>3, <2>4, <2>5, <2>6
  <1>15. CASE Signal
    <2>1. FlowTypeOK' /\ StartTypeOK'
      BY <1>0, <1>15
         DEF Signal, Fails, DirectoryOurs, FlowTypeOK, StartTypeOK,
             HelperOwned, DirectoryOwned
    <2>2. HelperTypeOK'
      BY <1>15 DEF Signal, Fails, DirectoryOurs, HelperTypeOK
    <2>3. ProgressTypeOK'
      <3>1. /\ faults' \in 0 .. MaxFaults
            /\ doc' \in {"none", "working", "failed", "done"}
        BY <1>15 DEF Signal, Fails, DirectoryOurs, ProgressTypeOK
      <3>2. left' \in 0 .. WorkSteps /\ late' \in Nat
        BY <1>15 DEF Signal, Fails, DirectoryOurs, ProgressTypeOK
      <3> QED
        BY <1>15, <3>1, <3>2 DEF Signal, Fails, DirectoryOurs, ProgressTypeOK
    <2>4. HelperOwned' /\ DirectoryOwned'
      BY <1>0, <1>15
         DEF Signal, Fails, DirectoryOurs, HelperOwned, DirectoryOwned,
             Before, Candidate, FlowTypeOK, StartTypeOK, HelperTypeOK,
             ProgressTypeOK
    <2>5. DocumentFollows' /\ Watched'
      BY <1>15
         DEF Signal, Fails, DirectoryOurs, DocumentFollows, Watched,
             HelperOwned, WorkIsWatched, StopsFor, Working, Before,
             FlowTypeOK, StartTypeOK, HelperTypeOK, ProgressTypeOK
    <2>6. NothingIsLeft' /\ TheEndIsShown' /\ WorkIsWatched'
      BY <1>15
         DEF Signal, Fails, DirectoryOurs, NothingIsLeft, TheEndIsShown,
             WorkIsWatched, HelperOwned, DirectoryOwned, DocumentFollows,
             Watched, Working, Before, StopsFor, FlowTypeOK, StartTypeOK,
             HelperTypeOK, ProgressTypeOK
    <2> QED BY <2>1, <2>2, <2>3, <2>4, <2>5, <2>6
  <1>16. CASE Wait
    <2>1. FlowTypeOK' /\ StartTypeOK'
      BY <1>0, <1>16
         DEF Wait, NextWait, FlowTypeOK, StartTypeOK, HelperOwned,
             DirectoryOwned
    <2>2. HelperTypeOK'
      BY <1>16 DEF Wait, NextWait, HelperTypeOK
    <2>3. ProgressTypeOK'
      BY <1>16 DEF Wait, NextWait, ProgressTypeOK
    <2>4. HelperOwned' /\ DirectoryOwned'
      BY <1>0, <1>16
         DEF Wait, NextWait, HelperOwned, DirectoryOwned, Before, Candidate,
             FlowTypeOK, StartTypeOK, HelperTypeOK, ProgressTypeOK
    <2>5. DocumentFollows' /\ Watched'
      BY <1>16
         DEF Wait, NextWait, DocumentFollows, Watched, HelperOwned,
             WorkIsWatched, StopsFor, Working, Before, FlowTypeOK,
             StartTypeOK, HelperTypeOK, ProgressTypeOK
    <2>6. NothingIsLeft' /\ TheEndIsShown' /\ WorkIsWatched'
      BY <1>16
         DEF Wait, NextWait, NothingIsLeft, TheEndIsShown, WorkIsWatched,
             HelperOwned, DirectoryOwned, DocumentFollows, Watched, Working,
             Before, StopsFor, FlowTypeOK, StartTypeOK, HelperTypeOK,
             ProgressTypeOK
    <2> QED BY <2>1, <2>2, <2>3, <2>4, <2>5, <2>6
  <1>17. CASE Clean
    <2>1. FlowTypeOK' /\ StartTypeOK'
      BY <1>0, <1>17
         DEF Clean, Keeps, Fails, DirectoryOurs, FlowTypeOK, StartTypeOK, HelperOwned,
             DirectoryOwned
    <2>2. HelperTypeOK'
      BY <1>17 DEF Clean, Keeps, Fails, DirectoryOurs, HelperTypeOK
    <2>3. ProgressTypeOK'
      BY <1>17 DEF Clean, Keeps, Fails, DirectoryOurs, ProgressTypeOK
    <2>4. HelperOwned' /\ DirectoryOwned'
      BY <1>0, <1>17
         DEF Clean, Keeps, Fails, DirectoryOurs, HelperOwned, DirectoryOwned, Before,
             Candidate, FlowTypeOK, StartTypeOK, HelperTypeOK, ProgressTypeOK
    <2>5. DocumentFollows' /\ Watched'
      BY <1>17
         DEF Clean, Keeps, Fails, DirectoryOurs, DocumentFollows, Watched, HelperOwned,
             WorkIsWatched, StopsFor, Working, Before, FlowTypeOK,
             StartTypeOK, HelperTypeOK, ProgressTypeOK
    <2>6. NothingIsLeft' /\ TheEndIsShown' /\ WorkIsWatched'
      BY <1>17
         DEF Clean, Keeps, Fails, DirectoryOurs, NothingIsLeft, TheEndIsShown,
             WorkIsWatched, HelperOwned, DirectoryOwned, DocumentFollows,
             Watched, Working, Before, StopsFor, FlowTypeOK, StartTypeOK,
             HelperTypeOK, ProgressTypeOK
    <2> QED BY <2>1, <2>2, <2>3, <2>4, <2>5, <2>6
  <1>18. CASE Interrupt
    <2>1. FlowTypeOK' /\ StartTypeOK'
      BY <1>0, <1>18
         DEF Interrupt, FlowTypeOK, StartTypeOK, HelperOwned, DirectoryOwned
    <2>2. HelperTypeOK'
      BY <1>18 DEF Interrupt, HelperTypeOK
    <2>3. ProgressTypeOK'
      BY <1>18 DEF Interrupt, ProgressTypeOK
    <2>4. HelperOwned' /\ DirectoryOwned'
      BY <1>0, <1>18
         DEF Interrupt, HelperOwned, DirectoryOwned, Before, Candidate,
             FlowTypeOK, StartTypeOK, HelperTypeOK, ProgressTypeOK
    <2>5. DocumentFollows' /\ Watched'
      BY <1>18
         DEF Interrupt, DocumentFollows, Watched, HelperOwned, WorkIsWatched,
             StopsFor, Working, Before, FlowTypeOK, StartTypeOK, HelperTypeOK,
             ProgressTypeOK
    <2>6. NothingIsLeft' /\ TheEndIsShown' /\ WorkIsWatched'
      BY <1>18
         DEF Interrupt, NothingIsLeft, TheEndIsShown, WorkIsWatched,
             HelperOwned, DirectoryOwned, DocumentFollows, Watched, Working,
             Before, StopsFor, FlowTypeOK, StartTypeOK, HelperTypeOK,
             ProgressTypeOK
    <2> QED BY <2>1, <2>2, <2>3, <2>4, <2>5, <2>6
  <1>19. CASE Prove
    <2>1. FlowTypeOK' /\ StartTypeOK'
      BY <1>0, <1>19
         DEF Prove, DirectoryOurs, FlowTypeOK, StartTypeOK, HelperOwned,
             DirectoryOwned
    <2>2. HelperTypeOK'
      BY <1>19 DEF Prove, DirectoryOurs, HelperTypeOK
    <2>3. ProgressTypeOK'
      BY <1>19 DEF Prove, DirectoryOurs, ProgressTypeOK
    <2>4. HelperOwned' /\ DirectoryOwned'
      BY <1>0, <1>19
         DEF Prove, DirectoryOurs, HelperOwned, DirectoryOwned, Before,
             Candidate, FlowTypeOK, StartTypeOK, HelperTypeOK, ProgressTypeOK
    <2>5. DocumentFollows' /\ Watched'
      BY <1>19
         DEF Prove, DirectoryOurs, DocumentFollows, Watched, HelperOwned,
             WorkIsWatched, StopsFor, Working, Before, FlowTypeOK,
             StartTypeOK, HelperTypeOK, ProgressTypeOK
    <2>6. NothingIsLeft' /\ TheEndIsShown' /\ WorkIsWatched'
      BY <1>19
         DEF Prove, DirectoryOurs, NothingIsLeft, TheEndIsShown,
             WorkIsWatched, HelperOwned, DirectoryOwned, DocumentFollows,
             Watched, Working, Before, StopsFor, FlowTypeOK, StartTypeOK,
             HelperTypeOK, ProgressTypeOK
    <2> QED BY <2>1, <2>2, <2>3, <2>4, <2>5, <2>6
  <1>20. CASE Die
    <2>1. FlowTypeOK' /\ StartTypeOK'
      BY <1>0, <1>20
         DEF Die, FlowTypeOK, StartTypeOK, HelperOwned, DirectoryOwned
    <2>2. HelperTypeOK'
      BY <1>20 DEF Die, HelperTypeOK
    <2>3. ProgressTypeOK'
      BY <1>20 DEF Die, ProgressTypeOK
    <2>4. HelperOwned' /\ DirectoryOwned'
      BY <1>0, <1>20
         DEF Die, HelperOwned, DirectoryOwned, Before, Candidate, FlowTypeOK,
             StartTypeOK, HelperTypeOK, ProgressTypeOK
    <2>5. DocumentFollows' /\ Watched'
      BY <1>20
         DEF Die, DocumentFollows, Watched, HelperOwned, WorkIsWatched,
             StopsFor, Working, Before, FlowTypeOK, StartTypeOK, HelperTypeOK,
             ProgressTypeOK
    <2>6. NothingIsLeft' /\ TheEndIsShown' /\ WorkIsWatched'
      BY <1>20
         DEF Die, NothingIsLeft, TheEndIsShown, WorkIsWatched, HelperOwned,
             DirectoryOwned, DocumentFollows, Watched, Working, Before,
             StopsFor, FlowTypeOK, StartTypeOK, HelperTypeOK, ProgressTypeOK
    <2> QED BY <2>1, <2>2, <2>3, <2>4, <2>5, <2>6
  <1>21. CASE Lose
    <2>1. FlowTypeOK' /\ StartTypeOK'
      BY <1>0, <1>21
         DEF Lose, Fails, FlowTypeOK, StartTypeOK, HelperOwned, DirectoryOwned
    <2>2. HelperTypeOK'
      BY <1>21 DEF Lose, Fails, HelperTypeOK
    <2>3. ProgressTypeOK'
      <3>1. /\ faults' \in 0 .. MaxFaults
            /\ doc' \in {"none", "working", "failed", "done"}
        BY <1>21 DEF Lose, Fails, ProgressTypeOK
      <3>2. left' \in 0 .. WorkSteps /\ late' \in Nat
        BY <1>21 DEF Lose, Fails, ProgressTypeOK
      <3> QED BY <1>21, <3>1, <3>2 DEF Lose, Fails, ProgressTypeOK
    <2>4. HelperOwned' /\ DirectoryOwned'
      BY <1>0, <1>21
         DEF Lose, Fails, HelperOwned, DirectoryOwned, Before, Candidate,
             FlowTypeOK, StartTypeOK, HelperTypeOK, ProgressTypeOK
    <2>5. DocumentFollows' /\ Watched'
      BY <1>21
         DEF Lose, Fails, DocumentFollows, Watched, HelperOwned,
             WorkIsWatched, StopsFor, Working, Before, FlowTypeOK,
             StartTypeOK, HelperTypeOK, ProgressTypeOK
    <2>6. NothingIsLeft' /\ TheEndIsShown' /\ WorkIsWatched'
      BY <1>21
         DEF Lose, Fails, NothingIsLeft, TheEndIsShown, WorkIsWatched,
             HelperOwned, DirectoryOwned, DocumentFollows, Watched, Working,
             Before, StopsFor, FlowTypeOK, StartTypeOK, HelperTypeOK,
             ProgressTypeOK
    <2> QED BY <2>1, <2>2, <2>3, <2>4, <2>5, <2>6
  <1>22. CASE Rival
    <2>1. FlowTypeOK' /\ StartTypeOK'
      BY <1>0, <1>22
         DEF Rival, FlowTypeOK, StartTypeOK, HelperOwned, DirectoryOwned
    <2>2. HelperTypeOK'
      BY <1>22 DEF Rival, HelperTypeOK
    <2>3. ProgressTypeOK'
      BY <1>22 DEF Rival, ProgressTypeOK
    <2>4. HelperOwned' /\ DirectoryOwned'
      BY <1>0, <1>22
         DEF Rival, HelperOwned, DirectoryOwned, Before, Candidate,
             FlowTypeOK, StartTypeOK, HelperTypeOK, ProgressTypeOK
    <2>5. DocumentFollows' /\ Watched'
      BY <1>22
         DEF Rival, DocumentFollows, Watched, HelperOwned, WorkIsWatched,
             StopsFor, Working, Before, FlowTypeOK, StartTypeOK, HelperTypeOK,
             ProgressTypeOK
    <2>6. NothingIsLeft' /\ TheEndIsShown' /\ WorkIsWatched'
      BY <1>22
         DEF Rival, NothingIsLeft, TheEndIsShown, WorkIsWatched, HelperOwned,
             DirectoryOwned, DocumentFollows, Watched, Working, Before,
             StopsFor, FlowTypeOK, StartTypeOK, HelperTypeOK, ProgressTypeOK
    <2> QED BY <2>1, <2>2, <2>3, <2>4, <2>5, <2>6
  <1>23. CASE Terminated
    <2>1. FlowTypeOK' /\ StartTypeOK'
      BY <1>0, <1>23
         DEF Terminated, vars, FlowTypeOK, StartTypeOK, HelperOwned,
             DirectoryOwned
    <2>2. HelperTypeOK'
      BY <1>23 DEF Terminated, vars, HelperTypeOK
    <2>3. ProgressTypeOK'
      BY <1>23 DEF Terminated, vars, ProgressTypeOK
    <2>4. HelperOwned' /\ DirectoryOwned'
      BY <1>0, <1>23
         DEF Terminated, vars, HelperOwned, DirectoryOwned, Before, Candidate,
             FlowTypeOK, StartTypeOK, HelperTypeOK, ProgressTypeOK
    <2>5. DocumentFollows' /\ Watched'
      BY <1>23
         DEF Terminated, vars, DocumentFollows, Watched, HelperOwned,
             WorkIsWatched, StopsFor, Working, Before, FlowTypeOK,
             StartTypeOK, HelperTypeOK, ProgressTypeOK
    <2>6. NothingIsLeft' /\ TheEndIsShown' /\ WorkIsWatched'
      BY <1>23
         DEF Terminated, vars, NothingIsLeft, TheEndIsShown, WorkIsWatched,
             HelperOwned, DirectoryOwned, DocumentFollows, Watched, Working,
             Before, StopsFor, FlowTypeOK, StartTypeOK, HelperTypeOK,
             ProgressTypeOK
    <2> QED BY <2>1, <2>2, <2>3, <2>4, <2>5, <2>6
  <1>24. CASE UNCHANGED vars
    BY <1>24
       DEF vars, FlowTypeOK, StartTypeOK, HelperTypeOK, ProgressTypeOK,
           HelperOwned, DirectoryOwned, DocumentFollows, Watched,
             NothingIsLeft, TheEndIsShown, WorkIsWatched, Candidate, StopsFor
  <1> QED
    BY <1>1, <1>2, <1>3, <1>4, <1>5, <1>6, <1>7, <1>8, <1>9, <1>10, <1>11,
       <1>12, <1>13, <1>14, <1>15, <1>16, <1>17, <1>18, <1>19, <1>20, <1>21,
       <1>22, <1>23, <1>24
    DEF Next, Extractor

\* So it holds always.
LEMMA Inductive == Spec => []IInv
  BY InitInv, StepInv, PTL DEF Spec

\* The types of the session's variables.
THEOREM SessionTyping == Spec => []TypeOK
  <1>1. IInv => TypeOK
    BY DEF IInv
  <1> QED BY <1>1, Inductive, PTL

\* No way out of install_command leaves a helper, or a runtime directory that it
\* did not try to remove, but those an interrupt can.
THEOREM LeavesNothing == Spec => []NothingIsLeft
  <1>1. IInv => NothingIsLeft
    BY DEF IInv
  <1> QED BY <1>1, Inductive, PTL

\* The player is told how it ended before the UI is asked to go, and what is
\* shown last is what finish publishes.
THEOREM ShowsTheEnd == Spec => []TheEndIsShown
  <1>1. IInv => TheEndIsShown
    BY DEF IInv
  <1> QED BY <1>1, Inductive, PTL

\* A required UI is watched through the whole work, an optional one never
\* decides.
THEOREM WatchesWork == Spec => []WorkIsWatched
  <1>1. IInv => WorkIsWatched
    BY DEF IInv
  <1> QED BY <1>1, Inductive, PTL
=============================================================================
