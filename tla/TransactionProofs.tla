------------------------- MODULE TransactionProofs -------------------------
(***************************************************************************)
(* Theorems about Transaction, for every number of paths and every bound:  *)
(*   - the types, conservation before publication and the write-ahead      *)
(*     rule, and what a told success means, in every environment;          *)
(*   - conservation, exact rollback, recovery after a success and the      *)
(*     refinement of Publication in a calm one: the port is not updated    *)
(*     under a journal and the payload can be read back (Calm).            *)
(***************************************************************************)
EXTENDS Transaction, TLAPS

(***************************************************************************)
(* Type correctness.  A journal record is updated only by steps that       *)
(* commit_stage reaches after it wrote one, so the types need that fact.   *)
(***************************************************************************)

Committing == {"backup", "displace", "displaced", "install", "place", "placed",
               "marker", "published", "sync"}

JournalHeld == pc \in Committing \cup {"undo", "undone"} => journal # None
CursorInRange ==
  pc \in Committing => k \in 1..N

TypeInv == TypeOK /\ JournalHeld /\ CursorInRange

USE DEF Paths, Object, Tree

\* What commit_stage writes first is a journal.
LEMMA NewJournalType ==
  ASSUME NEW tid \in Nat, NEW digest \in Nat, NEW had \in [Paths -> BOOLEAN],
         NEW phases \in [Paths -> Phases]
  PROVE  [tid |-> tid, recipe |-> digest, had |-> had, phase |-> phases,
          published |-> FALSE] \in Journal
  BY DEF Journal

\* The records written are journals and markers, and neither is "absent".
LEMMA RecordTypes ==
  ASSUME TypeOK
  PROVE  /\ \A phase \in Phases : journal # None => Record(phase) \in Journal
         /\ \A tid \in Nat : NewMarker(tid) \in Marker
         /\ None \notin Journal /\ None \notin Marker
  <1>1. ASSUME NEW phase \in Phases, journal # None
        PROVE  Record(phase) \in Journal
    <2>1. journal \in Journal
      BY <1>1 DEF TypeOK
    <2>2. [journal.phase EXCEPT ![k] = phase] \in [Paths -> Phases]
      BY <2>1 DEF Journal
    <2>3. /\ journal.tid \in Nat /\ journal.recipe \in Nat
          /\ journal.had \in [Paths -> BOOLEAN]
      BY <2>1 DEF Journal
    <2> QED BY <2>2, <2>3 DEF Record, Rewritten, Journal
  <1>2. \A tid \in Nat : NewMarker(tid) \in Marker
    BY DEF TypeOK, NewMarker, Marker
  <1> QED BY <1>1, <1>2, NoneAssumption

LEMMA EmptyType == Empty \in Tree
  BY DEF Empty

LEMMA TypeInit == Init => TypeInv
  <1> SUFFICES ASSUME Init PROVE TypeInv
    OBVIOUS
  <1>1. live \in Tree /\ stage \in Tree /\ backup \in Tree
    <2>1. live \in [Paths -> {None, 0}]
      BY DEF Init
    <2>2. \A p \in Paths : live[p] \in Object
      BY <2>1
    <2>3. live \in Tree
      BY <2>1, <2>2
    <2> QED BY <2>3, EmptyType DEF Init
  <1>2. pre \in Tree /\ post \in Tree /\ 0 \in 0..N
    BY <1>1, EmptyType, ConstantsAssumption DEF Init
  <1>3. TypeOK
    BY <1>1, <1>2 DEF Init, TypeOK
  <1>4. JournalHeld /\ CursorInRange
    BY DEF Init, JournalHeld, CursorInRange, Committing
  <1> QED BY <1>3, <1>4 DEF TypeInv

\* Faults are counted, and 0..N holds both ends of a rollback.
LEMMA CountFaults ==
  ASSUME TypeOK
  PROVE  /\ Fault => faults' \in Nat
         /\ \A o, sound : Ends(o, sound) => faults' \in Nat
         /\ N \in 0..N /\ 1 \in 1..N /\ N \in Nat
  BY ConstantsAssumption DEF TypeOK, Fault, Ends

\* An interrupted deletion leaves a tree.
LEMMA RemnantsType ==
  ASSUME NEW t \in Tree
  PROVE  Remnants(t) \subseteq Tree
  BY DEF Remnants

LEMMA TypeStep == TypeInv /\ [Next]_vars => TypeInv'
  <1> SUFFICES ASSUME TypeInv, [Next]_vars PROVE TypeInv'
    OBVIOUS
  <1> USE DEF TypeInv, TypeOK, JournalHeld, CursorInRange, Committing, payload, disk,
              port, counts, history
  <1>0. /\ Fault => faults' \in Nat
        /\ \A o, sound : Ends(o, sound) => faults' \in Nat
        /\ N \in 0..N /\ 1 \in 1..N /\ N \in Nat
    BY CountFaults
  <1>1. ASSUME NEW f \in BOOLEAN, Launch(f) PROVE TypeInv'
    BY <1>1 DEF Launch
  <1>2. CASE NothingToRecover
    BY <1>2 DEF NothingToRecover
  <1>3. CASE RefuseJournal
    BY <1>3 DEF RefuseJournal, Stop
  <1>4. CASE FinishPublished
    BY <1>4 DEF FinishPublished
  <1>5. CASE StartUndo
    BY <1>5, <1>0 DEF StartUndo
  <1>6. CASE FastPath
    BY <1>6 DEF FastPath, Stop
  <1>7. CASE SkipFastPath
    BY <1>7, <1>0 DEF SkipFastPath
  <1>8. CASE DoNotAdopt
    BY <1>8 DEF DoNotAdopt
  <1>9. CASE RejectStage
    <2>1. stage' \in Tree
      BY <1>9 DEF RejectStage, Remnants
    <2> QED BY <1>9, <2>1, <1>0 DEF RejectStage, Stop
  <1>10. ASSUME NEW n \in 0..N, NEW same \in BOOLEAN, NEW bundle \in BOOLEAN,
                Extract(n, same, bundle)
         PROVE  TypeInv'
    <2>1. Prepared(same) \in Tree
      BY EmptyType DEF Prepared
    <2>2. Staged(same, n) \in Tree
      BY <2>1 DEF Staged
    <2> QED BY <1>10, <2>2, <1>0 DEF Extract, Stop
  <1>11. CASE DropBackup
    <2>1. backup' \in Tree
      <3>1. Remnants(backup) \subseteq Tree
        BY RemnantsType
      <3> QED BY <1>11, <3>1, EmptyType DEF DropBackup
    <2>2. faults' \in Nat /\ cleaned' \in BOOLEAN
      BY <1>11, <1>0 DEF DropBackup
    <2>3. /\ pc' \notin Committing \cup {"undo", "undone"}
          /\ pc' \in {"dropStage", "dropCache"}
      BY <1>11 DEF DropBackup
    <2> QED BY <1>11, <2>1, <2>2, <2>3 DEF DropBackup
  <1>12. CASE DropStage
    <2>1. stage' \in Tree
      <3>1. Remnants(stage) \subseteq Tree
        BY RemnantsType
      <3> QED BY <1>12, <3>1, EmptyType DEF DropStage
    <2>2. faults' \in Nat /\ cleaned' \in BOOLEAN
      BY <1>12, <1>0 DEF DropStage
    <2>3. /\ pc' \notin Committing \cup {"undo", "undone"}
          /\ pc' \in {"dropStage", "dropCache"}
      BY <1>12 DEF DropStage
    <2> QED BY <1>12, <2>1, <2>2, <2>3 DEF DropStage
  <1>13. CASE DropCache
    <2>1. faults' \in Nat /\ cleaned' \in BOOLEAN /\ cache' \in BOOLEAN
      BY <1>13, <1>0 DEF DropCache
    <2>2. pc' \notin Committing \cup {"undo", "undone"}
      BY <1>13 DEF DropCache
    <2> QED BY <1>13, <2>1, <2>2 DEF DropCache
  <1>14. CASE DropJournal
    BY <1>14, <1>0 DEF DropJournal
  <1>15. CASE UndoRefused
    BY <1>15 DEF UndoRefused, Stop
  <1>16. CASE PathUndone
    BY <1>16, <1>0 DEF PathUndone
  <1>17. CASE Crash
    <2>1. backup' \in Tree /\ stage' \in Tree
      BY <1>17 DEF Crash, Remnants
    <2> QED BY <1>17, <2>1, <1>0 DEF Crash
  <1>18. CASE Upgrade
    BY <1>18 DEF Upgrade
  <1>19. CASE UNCHANGED vars
    BY <1>19 DEF vars
  <1>20. ASSUME NEW o \in {"ok", "raised", "late"}, Fallible(o) PROVE TypeInv'
    <2>0. faults' \in Nat
      BY <1>20, <1>0 DEF Fallible, Adopt, CreateJournal, RecordBackup, Displace,
         RecordDisplaced, RecordInstall, Place, RecordPlaced, PublishMarker,
         RecordPublished, SyncGame, Finish, MoveAside, PutBack, CloseUndo
    <2>1. CASE Adopt(o)
      <3>1. marker' \in Marker \cup {None}
        BY <2>1, RecordTypes DEF Adopt, NewMarker, Marker
      <3> QED BY <2>1, <3>1, <2>0 DEF Adopt, Stop
    <2>2. CASE CreateJournal(o)
      <3> DEFINE phases == [p \in Paths |-> "pending"]
                 had == [p \in Paths |-> live[p] # None]
      <3>0. phases \in [Paths -> Phases] /\ had \in [Paths -> BOOLEAN]
        BY DEF Phases
      <3>1. Done(o) => journal' \in Journal
        <4>1. Done(o) => journal' = [tid |-> attempt, recipe |-> recipe,
                                     had |-> had, phase |-> phases,
                                     published |-> FALSE]
          BY <2>2 DEF CreateJournal
        <4> HIDE DEF phases, had
        <4>2. attempt \in Nat /\ recipe \in Nat
          OBVIOUS
        <4>3. [tid |-> attempt, recipe |-> recipe, had |-> had,
               phase |-> phases, published |-> FALSE] \in Journal
          BY <3>0, <4>2, NewJournalType
        <4> QED BY <4>1, <4>3
      <3>4. journal' \in Journal \cup {None} /\ (~Done(o) => journal' = journal)
        BY <2>2, <3>1 DEF CreateJournal
      <3>2. o = "ok" => Done(o)
        BY DEF Done
      <3>3. pre' \in Tree /\ post' \in Tree
        BY <2>2 DEF CreateJournal
      <3>5. pc' = "backup" => journal' # None
        BY <2>2, <3>1, <3>2, RecordTypes DEF CreateJournal, GoOn, Stop
      <3>6. pc' \in {"backup", "idle"} /\ k' = 1
        BY <2>2 DEF CreateJournal, GoOn, Stop
      <3>7. outcome' \in {"none", "success", "error"}
        BY <2>2 DEF CreateJournal, GoOn, Stop
      <3>8. TypeOK'
        BY <2>2, <3>3, <3>4, <3>6, <3>7, <2>0, <1>0 DEF CreateJournal
      <3> QED BY <3>5, <3>6, <3>8, <1>0
    <2>3. CASE RecordBackup(o)
      <3>1. journal' \in Journal /\ journal' # None
        BY <2>3, RecordTypes DEF RecordBackup, Phases
      <3>2. pc' \in Committing \cup {"undo"} /\ k' \in 1..N
        BY <2>3, <1>0 DEF RecordBackup, GoOnOrUndo
      <3>3. TypeOK'
        BY <2>3, <3>1, <3>2, <2>0 DEF RecordBackup, GoOnOrUndo
      <3> QED BY <3>1, <3>2, <3>3
    <2>4. CASE Displace(o)
      <3>1. live[k] \in Object /\ stage[k] \in Object /\ backup[k] \in Object
        BY <2>4, <1>0 DEF Displace
      <3>2. live' \in Tree /\ stage' \in Tree /\ backup' \in Tree
        BY <2>4, <3>1 DEF Displace, Without, With
      <3> QED BY <2>4, <3>2, <2>0, <1>0 DEF Displace, GoOnOrUndo
    <2>5. CASE RecordDisplaced(o)
      <3>1. journal' \in Journal /\ journal' # None
        BY <2>5, RecordTypes DEF RecordDisplaced, Phases
      <3> QED BY <2>5, <3>1, <2>0, <1>0 DEF RecordDisplaced, GoOnOrUndo
    <2>6. CASE RecordInstall(o)
      <3>1. journal' \in Journal /\ journal' # None
        BY <2>6, RecordTypes DEF RecordInstall, Phases
      <3> QED BY <2>6, <3>1, <2>0, <1>0 DEF RecordInstall, GoOnOrUndo
    <2>7. CASE Place(o)
      <3>1. live[k] \in Object /\ stage[k] \in Object /\ backup[k] \in Object
        BY <2>7, <1>0 DEF Place
      <3>2. live' \in Tree /\ stage' \in Tree /\ backup' \in Tree
        BY <2>7, <3>1 DEF Place, Without, With
      <3> QED BY <2>7, <3>2, <2>0, <1>0 DEF Place, GoOnOrUndo
    <2>8. CASE RecordPlaced(o)
      <3>1. journal' \in Journal /\ journal' # None
        BY <2>8, RecordTypes DEF RecordPlaced, Phases
      <3> QED BY <2>8, <3>1, <2>0, <1>0 DEF RecordPlaced
    <2>9. CASE PublishMarker(o)
      <3>1. marker' \in Marker \cup {None}
        BY <2>9, RecordTypes DEF PublishMarker, Journal
      <3> QED BY <2>9, <3>1, <2>0, <1>0 DEF PublishMarker, GoOnOrUndo
    <2>10. CASE RecordPublished(o)
      <3>1. journal' \in Journal /\ journal' # None
        <4>1. journal \in Journal /\ journal # None
          BY <2>10 DEF RecordPublished
        <4>2. Rewritten(journal.phase, TRUE) \in Journal
          BY <4>1 DEF Rewritten, Journal
        <4> QED BY <2>10, <4>1, <4>2, RecordTypes DEF RecordPublished
      <3> QED BY <2>10, <3>1, <2>0 DEF RecordPublished
    <2>11. CASE SyncGame(o)
      BY <2>11, <2>0 DEF SyncGame, GoOn, Stop
    <2>12. CASE Finish(o)
      BY <2>12, <2>0 DEF Finish, Stop
    <2>13. CASE MoveAside(o)
      <3>1. live[k] \in Object /\ stage[k] \in Object /\ backup[k] \in Object
        BY <2>13, <1>0 DEF MoveAside
      <3>2. live' \in Tree /\ stage' \in Tree /\ backup' \in Tree
        BY <2>13, <3>1 DEF MoveAside, Without, With
      <3> QED BY <2>13, <3>2, <2>0, <1>0 DEF MoveAside, GoOn, Stop
    <2>14. CASE PutBack(o)
      <3>1. live[k] \in Object /\ stage[k] \in Object /\ backup[k] \in Object
        BY <2>14, <1>0 DEF PutBack
      <3>2. live' \in Tree /\ stage' \in Tree /\ backup' \in Tree
        BY <2>14, <3>1 DEF PutBack, Without, With
      <3> QED BY <2>14, <3>2, <2>0, <1>0 DEF PutBack, GoOn, Stop
    <2>15. CASE CloseUndo(o)
      BY <2>15, <2>0 DEF CloseUndo, Stop
    <2> QED
      BY <1>20, <2>1, <2>2, <2>3, <2>4, <2>5, <2>6, <2>7, <2>8, <2>9, <2>10, <2>11, <2>12, <2>13, <2>14, <2>15
      DEF Fallible
  <1> QED
    BY <1>1, <1>2, <1>3, <1>4, <1>5, <1>6, <1>7, <1>8, <1>9, <1>10, <1>11, <1>12, <1>13, <1>14, <1>15, <1>16, <1>17, <1>18, <1>19, <1>20
    DEF Next, RunStep, Recover, Choose, Cleanup, Undo

\* Every variable keeps its type: the journal and the marker are always whole
\* documents, and the cursor of commit and rollback never leaves the list.
THEOREM TypeCorrect == Spec => []TypeOK
  <1>1. TypeInv /\ [Next]_vars => TypeInv'
    BY TypeStep
  <1>2. Spec => []TypeInv
    BY TypeInit, <1>1, PTL DEF Spec
  <1> QED BY <1>2, PTL DEF TypeInv

(***************************************************************************)
(* Conservation before publication, for every environment: updates with a  *)
(* journal on disk and unreadable payloads included.                       *)
(*                                                                         *)
(* It is not inductive: what a step may do to a path depends on how far    *)
(* the commit has got (WaitingPaths, CursorRecorded), and the steps that   *)
(* touch stage and backup without looking at the journal are harmless only *)
(* because no unpublished journal can exist when they run (NoneWaiting).   *)
(***************************************************************************)

PathConserved(p) ==
  /\ Untouched(p) \/ Displaced(p) \/ Placed(p)
  /\ post[p] # None
  /\ journal.had[p] <=> pre[p] # None
  /\ backup[p] # None => journal.phase[p] # "pending"
  /\ live[p] # None /\ stage[p] = None =>
       journal.phase[p] \in {"install-intent", "installed"}

AllConserved ==
  Unpublished => ~journal.published /\ \A p \in Paths : PathConserved(p)

\* The paths from the cursor on have not been installed yet.
WaitingPaths ==
  /\ pc \in {"backup", "displace", "displaced", "install", "place", "placed"}
  /\ Unpublished
  => \A p \in Paths :
       p > k \/ (p = k /\ pc # "placed") => stage[p] = post[p]

\* What the journal says of the path at the cursor when it is renamed.
CursorRecorded ==
  /\ pc = "displace" => journal.had[k] /\ journal.phase[k] # "pending"
  /\ pc = "place" => journal.phase[k] = "install-intent"

\* Steps that extract, publish or clean up run with no unpublished journal.
NoneWaiting ==
  pc \in {"select", "adopt", "extract", "commit", "published", "sync",
          "dropBackup", "dropStage", "dropCache", "dropJournal", "finish"} =>
    ~Unpublished

\* The journal goes after the backup, and its transaction has been named.
BackupGone ==
  /\ journal = None => backup = Empty
  /\ pc \in {"dropStage", "dropCache", "dropJournal"} /\ cleaned => backup = Empty
JournalNamed == journal # None => journal.tid <= attempt

ConservationInv ==
  /\ TypeInv
  /\ AllConserved /\ WaitingPaths /\ CursorRecorded /\ NoneWaiting
  /\ BackupGone /\ JournalNamed

\* A step that leaves the documents and directories alone keeps what was said
\* of them.
LEMMA Frame ==
  ASSUME UNCHANGED <<live, stage, backup, journal, marker, pre, post>>
  PROVE  /\ Unpublished' <=> Unpublished
         /\ \A p : PathConserved(p)' <=> PathConserved(p)
         /\ AllConserved => AllConserved'
  BY DEF Unpublished, PathConserved, AllConserved, Untouched, Displaced, Placed

Rest == WaitingPaths /\ CursorRecorded /\ NoneWaiting /\ BackupGone /\ JournalNamed

LEMMA ConservationInit == Init => ConservationInv
  BY TypeInit DEF Init, ConservationInv, AllConserved, WaitingPaths,
     CursorRecorded, NoneWaiting, BackupGone, JournalNamed, Unpublished

\* The steps that only move the control: recovery's decisions, the choice
\* between fast path, adoption and extraction, and the end of a run.
LEMMA QuietStep ==
  ASSUME ConservationInv,
         \/ \E f \in BOOLEAN : Launch(f)
         \/ Recover \/ FastPath \/ SkipFastPath \/ DoNotAdopt \/ DropCache
         \/ Undo \/ Upgrade \/ UNCHANGED vars
         \/ \E o \in {"ok", "raised", "late"} : SyncGame(o) \/ Finish(o)
  PROVE  AllConserved' /\ Rest'
  <1>1. UNCHANGED <<live, stage, backup, journal, marker, pre, post, attempt>>
    BY DEF Launch, Recover, NothingToRecover, RefuseJournal, FinishPublished,
       StartUndo, FastPath, SkipFastPath, DoNotAdopt, DropCache, Undo,
       UndoRefused, PathUndone, Upgrade, SyncGame, Finish, vars, payload, disk,
       counts, history
  <1>2. AllConserved'
    BY <1>1, Frame DEF ConservationInv
  <1>3. pc' \notin {"backup", "displace", "displaced", "install", "place", "placed"} \/
        UNCHANGED <<pc, k>>
    BY DEF Launch, Recover, NothingToRecover, RefuseJournal, FinishPublished,
       StartUndo, FastPath, SkipFastPath, DoNotAdopt, DropCache, Undo,
       UndoRefused, PathUndone, Upgrade, SyncGame, Finish, vars, Stop, GoOn
  <1>4. WaitingPaths' /\ CursorRecorded'
    BY <1>1, <1>3, Frame DEF ConservationInv, WaitingPaths, CursorRecorded
  <1>5. NoneWaiting'
    <2>1. FinishPublished => ~Unpublished
      <3>1. journal # None /\ marker # None => journal.tid \in Nat /\ marker.tid \in Nat
        BY DEF ConservationInv, TypeInv, TypeOK, Journal, Marker
      <3> QED BY <3>1 DEF FinishPublished, OwnMarker, Unpublished
    <2>2. NothingToRecover => ~Unpublished
      BY DEF NothingToRecover, Unpublished
    <2>3. \/ pc' \in {"idle", "recover", "undo", "undone"}
          \/ FinishPublished \/ NothingToRecover \/ UNCHANGED pc
          \/ pc \in {"select", "adopt", "dropCache", "sync"}
      BY DEF Launch, Recover, RefuseJournal, StartUndo, FastPath, SkipFastPath,
         DoNotAdopt, DropCache, Undo, UndoRefused, PathUndone, Upgrade, SyncGame,
         Finish, vars, Stop, GoOn
    <2> QED BY <1>1, <2>1, <2>2, <2>3, Frame DEF ConservationInv, NoneWaiting
  <1>6. BackupGone' /\ JournalNamed'
    <2>1. \/ pc' \notin {"dropStage", "dropCache", "dropJournal"}
          \/ DropCache \/ UNCHANGED <<pc, cleaned>>
      BY DEF Launch, Recover, NothingToRecover, RefuseJournal, FinishPublished,
         StartUndo, FastPath, SkipFastPath, DoNotAdopt, Undo, UndoRefused,
         PathUndone, Upgrade, SyncGame, Finish, vars, Stop, GoOn
    <2>2. DropCache => pc = "dropCache" /\ (cleaned' = cleaned \/ cleaned' = FALSE)
      BY DEF DropCache
    <2> QED BY <1>1, <2>1, <2>2 DEF ConservationInv, BackupGone, JournalNamed
  <1> QED BY <1>2, <1>4, <1>5, <1>6 DEF Rest

\* Where no unpublished journal is left, only the documents' own facts remain.
LEMMA Settled ==
  ASSUME ~Unpublished'
  PROVE  AllConserved' /\ WaitingPaths' /\ NoneWaiting'
  BY DEF AllConserved, WaitingPaths, NoneWaiting

\* A path whose objects and record a step does not touch.
LEMMA SamePath ==
  ASSUME NEW p, live'[p] = live[p], stage'[p] = stage[p], backup'[p] = backup[p],
         UNCHANGED history, journal'.had[p] = journal.had[p],
         journal'.phase[p] = journal.phase[p]
  PROVE  PathConserved(p)' <=> PathConserved(p)
  BY DEF PathConserved, Untouched, Displaced, Placed, history

\* A journal rewritten with a new phase is the same journal otherwise.
LEMMA Rewriting ==
  ASSUME TypeInv, journal # None, UNCHANGED marker,
         NEW phases \in [Paths -> Phases], NEW published \in BOOLEAN,
         journal' = Rewritten(phases, published)
  PROVE  /\ journal' # None /\ (Unpublished' <=> Unpublished)
         /\ journal'.tid = journal.tid /\ journal'.had = journal.had
         /\ journal'.phase = phases /\ journal'.published = published
  <1>1. journal \in Journal
    BY DEF TypeInv, TypeOK
  <1>2. journal' \in Journal
    BY <1>1 DEF Rewritten, Journal
  <1>3. journal' # None
    BY <1>2, RecordTypes DEF TypeInv
  <1> QED BY <1>3 DEF Rewritten, Unpublished

\* Extraction, adoption and cleanup run with nothing unpublished on disk.
LEMMA SettledStep ==
  ASSUME ConservationInv,
         \/ \E n \in 0..N, same, bundle \in BOOLEAN : Extract(n, same, bundle)
         \/ RejectStage \/ DropBackup \/ DropStage \/ DropJournal
         \/ \E o \in {"ok", "raised", "late"} : Adopt(o)
  PROVE  AllConserved' /\ Rest'
  <1>1. ~Unpublished
    BY DEF ConservationInv, NoneWaiting, Extract, RejectStage, DropBackup,
       DropStage, DropJournal, Adopt
  <1>2. journal # None => journal.tid \in Nat /\ journal.tid <= attempt
    BY DEF ConservationInv, JournalNamed, TypeInv, TypeOK, Journal
  <1>3. attempt \in Nat
    BY DEF ConservationInv, TypeInv, TypeOK
  <1>4. CASE \E o \in {"ok", "raised", "late"} : Adopt(o)
    <2>1. UNCHANGED <<journal, backup>> /\ attempt' = attempt + 1 /\ pc' = "idle"
      BY <1>4 DEF Adopt, Stop, payload
    <2>2. marker' = marker \/ marker' = NewMarker(attempt + 1)
      BY <1>4 DEF Adopt
    <2>3. marker' = NewMarker(attempt + 1) => marker'.tid = attempt + 1 /\ marker' # None
      <3>1. NewMarker(attempt + 1) # None
        BY <1>3, RecordTypes DEF ConservationInv, TypeInv
      <3> QED BY <3>1 DEF NewMarker
    <2>4. ~Unpublished'
      BY <1>1, <1>2, <1>3, <2>1, <2>2, <2>3 DEF Unpublished
    <2> QED BY <1>2, <1>3, <2>1, <2>4, Settled
            DEF Rest, ConservationInv, CursorRecorded, BackupGone, JournalNamed
  <1>5. CASE \E n \in 0..N, same, bundle \in BOOLEAN : Extract(n, same, bundle)
    <2>1. /\ UNCHANGED <<journal, marker, backup>> /\ attempt' = attempt + 1
          /\ pc' \in {"commit", "idle"}
      BY <1>5 DEF Extract, Stop
    <2>2. ~Unpublished'
      BY <1>1, <2>1 DEF Unpublished
    <2> QED BY <1>2, <1>3, <2>1, <2>2, Settled
            DEF Rest, ConservationInv, CursorRecorded, BackupGone, JournalNamed
  <1>6. CASE RejectStage \/ DropBackup \/ DropStage
    <2>1. /\ UNCHANGED <<journal, marker, attempt>>
          /\ pc' \in {"idle", "dropStage", "dropCache"}
      BY <1>6 DEF RejectStage, DropBackup, DropStage, Stop, disk, counts
    <2>2. ~Unpublished'
      BY <1>1, <2>1 DEF Unpublished
    <2>3. BackupGone'
      <3>1. CASE RejectStage
        BY <3>1 DEF RejectStage, Stop, ConservationInv, BackupGone
      <3>2. CASE DropBackup
        <4>1. backup = Empty => backup' = Empty
          BY <3>2 DEF DropBackup, Remnants, Empty
        <4> QED BY <3>2, <4>1, <2>1 DEF DropBackup, ConservationInv, BackupGone
      <3>3. CASE DropStage
        <4>1. cleaned' = cleaned \/ cleaned' = FALSE
          BY <3>3 DEF DropStage
        <4> QED BY <3>3, <4>1, <2>1 DEF DropStage, ConservationInv, BackupGone
      <3> QED BY <1>6, <3>1, <3>2, <3>3
    <2> QED BY <2>1, <2>2, <2>3, Settled
            DEF Rest, ConservationInv, CursorRecorded, JournalNamed
  <1>7. CASE DropJournal
    <2>1. /\ UNCHANGED <<marker, attempt, backup>> /\ pc' \in {"select", "finish"}
          /\ journal' = journal \/ (journal' = None /\ cleaned /\ pc = "dropJournal")
      BY <1>7 DEF DropJournal, payload, counts
    <2>2. ~Unpublished'
      BY <1>1, <2>1 DEF Unpublished
    <2>3. BackupGone'
      BY <2>1 DEF ConservationInv, BackupGone
    <2> QED BY <2>1, <2>2, <2>3, Settled
            DEF Rest, ConservationInv, CursorRecorded, JournalNamed
  <1> QED BY <1>4, <1>5, <1>6, <1>7

LEMMA CrashStep == ConservationInv /\ Crash => AllConserved' /\ Rest'
  <1> SUFFICES ASSUME ConservationInv, Crash PROVE AllConserved' /\ Rest'
    OBVIOUS
  <1>1. UNCHANGED <<live, journal, marker, pre, post, attempt, k>> /\ pc' = "idle"
    BY DEF Crash, disk, counts, history
  <1>2. Unpublished' <=> Unpublished
    BY <1>1 DEF Unpublished
  <1>3. AllConserved'
    <2>1. CASE pc \in {"dropBackup", "dropStage"}
      BY <1>2, <2>1, Settled DEF ConservationInv, NoneWaiting
    <2>2. CASE pc \notin {"dropBackup", "dropStage"}
      <3>1. UNCHANGED <<stage, backup>>
        BY <2>2 DEF Crash
      <3> QED BY <1>1, <3>1, Frame DEF ConservationInv
    <2> QED BY <2>1, <2>2
  <1>4. BackupGone'
    <2>1. backup = Empty => backup' = Empty
      BY DEF Crash, Remnants, Empty
    <2> QED BY <1>1, <2>1 DEF ConservationInv, BackupGone
  <1> QED BY <1>1, <1>3, <1>4 DEF ConservationInv, Rest, WaitingPaths,
             CursorRecorded, NoneWaiting, JournalNamed

LEMMA CreateStep ==
  ASSUME ConservationInv, NEW o \in {"ok", "raised", "late"}, CreateJournal(o)
  PROVE  AllConserved' /\ Rest'
  <1>1. UNCHANGED <<live, stage, backup, marker, attempt>> /\ pc' \in {"backup", "idle"}
    BY DEF CreateJournal, payload, counts, GoOn, Stop
  <1>2. CASE ~Done(o)
    <2>1. UNCHANGED <<journal, pre, post>> /\ pc' = "idle"
      BY <1>2 DEF CreateJournal, history, GoOn, Stop, Done
    <2>2. AllConserved'
      BY <1>1, <2>1, Frame DEF ConservationInv
    <2> QED BY <1>1, <2>1, <2>2 DEF ConservationInv, Rest, WaitingPaths,
               CursorRecorded, NoneWaiting, BackupGone, JournalNamed
  <1>3. CASE Done(o)
    <2>1. backup = Empty /\ Present(stage)
      BY <1>3 DEF CreateJournal, Ends, Endings, Done
    <2>2. /\ journal'.tid = attempt /\ journal'.published = FALSE
          /\ journal'.had = [p \in Paths |-> live[p] # None]
          /\ journal'.phase = [p \in Paths |-> "pending"]
          /\ pre' = live /\ post' = stage
      BY <1>3 DEF CreateJournal
    <2>3. ASSUME NEW p \in Paths PROVE PathConserved(p)'
      BY <1>1, <2>1, <2>2 DEF PathConserved, Untouched, Present, Empty
    <2>4. AllConserved'
      BY <2>2, <2>3 DEF AllConserved
    <2>5. WaitingPaths'
      BY <1>1, <2>2 DEF WaitingPaths
    <2>6. JournalNamed'
      BY <1>1, <2>2 DEF JournalNamed, ConservationInv, TypeInv, TypeOK
    <2> QED BY <1>1, <2>1, <2>4, <2>5, <2>6
            DEF Rest, CursorRecorded, NoneWaiting, BackupGone
  <1> QED BY <1>2, <1>3

\* The steps that only rewrite the journal with the next phase of path k.
LEMMA RecordStep ==
  ASSUME ConservationInv, NEW o \in {"ok", "raised", "late"},
         \/ RecordBackup(o) \/ RecordDisplaced(o) \/ RecordInstall(o)
         \/ RecordPlaced(o)
  PROVE  AllConserved' /\ Rest'
  <1>1. /\ UNCHANGED <<live, stage, backup, marker, attempt, pre, post>>
        /\ journal # None /\ k \in Paths /\ N \in Nat
        /\ pc \in {"backup", "displaced", "install", "placed"}
    BY ConstantsAssumption
    DEF RecordBackup, RecordDisplaced, RecordInstall, RecordPlaced, payload,
        counts, history, ConservationInv, TypeInv, JournalHeld, CursorInRange,
        Committing
  <1>2. CASE ~Done(o)
    <2>1. UNCHANGED journal /\ pc' = "undo"
      BY <1>2 DEF RecordBackup, RecordDisplaced, RecordInstall, RecordPlaced,
                  GoOnOrUndo, Done
    <2>2. AllConserved'
      BY <1>1, <2>1, Frame DEF ConservationInv
    <2> QED BY <1>1, <2>1, <2>2 DEF ConservationInv, Rest, WaitingPaths,
               CursorRecorded, NoneWaiting, BackupGone, JournalNamed
  <1>3. CASE Done(o)
    <2>1. PICK phase \in Phases :
            /\ journal' = Record(phase)
            /\ RecordBackup(o) => phase \in {"backup-intent", "backup-skipped"}
            /\ RecordDisplaced(o) => phase = "backed-up"
            /\ RecordInstall(o) => phase = "install-intent"
            /\ RecordPlaced(o) => phase = "installed"
      <3>1. CASE RecordBackup(o)
        <4> DEFINE ph == IF journal.had[k] THEN "backup-intent" ELSE "backup-skipped"
        <4>1. journal' = Record(ph) /\ ph \in {"backup-intent", "backup-skipped"}
          BY <1>3, <3>1 DEF RecordBackup
        <4>2. pc = "backup"
          BY <3>1 DEF RecordBackup
        <4> HIDE DEF ph
        <4> QED BY <4>1, <4>2 DEF RecordDisplaced, RecordInstall, RecordPlaced,
                                  Phases
      <3>2. CASE RecordDisplaced(o)
        BY <1>3, <3>2 DEF RecordBackup, RecordDisplaced, RecordInstall,
                          RecordPlaced, Phases
      <3>3. CASE RecordInstall(o)
        BY <1>3, <3>3 DEF RecordBackup, RecordDisplaced, RecordInstall,
                          RecordPlaced, Phases
      <3>4. CASE RecordPlaced(o)
        BY <1>3, <3>4 DEF RecordBackup, RecordDisplaced, RecordInstall,
                          RecordPlaced, Phases
      <3> QED BY <3>1, <3>2, <3>3, <3>4
    <2>2. journal \in Journal
      BY <1>1 DEF ConservationInv, TypeInv, TypeOK
    <2> DEFINE phases == [journal.phase EXCEPT ![k] = phase]
    <2>3. phases \in [Paths -> Phases] /\ phases[k] = phase
          /\ \A p \in Paths : p # k => phases[p] = journal.phase[p]
      BY <1>1, <2>2 DEF Journal
    <2>4. /\ journal' # None /\ (Unpublished' <=> Unpublished)
          /\ journal'.tid = journal.tid /\ journal'.had = journal.had
          /\ journal'.phase = phases /\ journal'.published = FALSE
      <3>1. journal' = Rewritten(phases, FALSE)
        BY <2>1 DEF Record
      <3> HIDE DEF phases
      <3> QED BY <1>1, <2>3, <3>1, Rewriting DEF ConservationInv
    <2> HIDE DEF phases
    <2>5. ASSUME Unpublished, NEW p \in Paths PROVE PathConserved(p)'
      <3>1. PathConserved(p)
        BY <2>5 DEF ConservationInv, AllConserved
      <3>2. CASE p # k
        BY <1>1, <2>3, <2>4, <3>1, <3>2, SamePath DEF history
      <3>3. CASE p = k
        <4>1. pc \in {"backup", "displaced", "install"} => stage[k] # None
          <5>2. pc \in {"backup", "displaced", "install"} => stage[k] = post[k]
            BY <1>1, <2>5 DEF ConservationInv, WaitingPaths
          <5> QED BY <3>1, <3>3, <5>2 DEF PathConserved
        <4>2. phase # "pending"
          BY <2>1 DEF RecordBackup, RecordDisplaced, RecordInstall, RecordPlaced
        <4>3. pc = "placed" => phase = "installed"
          BY <2>1 DEF RecordBackup, RecordDisplaced, RecordInstall, RecordPlaced
        <4> QED BY <1>1, <2>3, <2>4, <3>1, <3>3, <4>1, <4>2, <4>3
                DEF PathConserved, Untouched, Displaced, Placed
      <3> QED BY <3>2, <3>3
    <2>6. AllConserved'
      BY <2>4, <2>5 DEF AllConserved
    <2>7. WaitingPaths'
      <3>1. CASE pc' \in {"backup", "displace", "install", "place"}
        <4>1. pc \in {"backup", "displaced", "install"} => k' = k
          BY <3>1 DEF RecordBackup, RecordDisplaced, RecordInstall, RecordPlaced,
                      GoOnOrUndo
        <4>2. pc = "placed" => k' = k + 1
          BY <3>1 DEF RecordBackup, RecordDisplaced, RecordInstall, RecordPlaced,
                      GoOnOrUndo
        <4>3. pc \in {"backup", "displaced", "install"} => WaitingPaths'
          BY <1>1, <2>4, <4>1 DEF ConservationInv, WaitingPaths
        <4>4. pc = "placed" => WaitingPaths'
          BY <1>1, <2>4, <4>2 DEF ConservationInv, WaitingPaths
        <4> QED BY <1>1, <4>3, <4>4
      <3>2. pc' \notin {"displaced", "placed"}
        BY DEF RecordBackup, RecordDisplaced, RecordInstall, RecordPlaced, GoOnOrUndo
      <3> QED BY <3>1, <3>2 DEF WaitingPaths
    <2>8. CursorRecorded'
      <3>1. pc' = "displace" => RecordBackup(o) /\ k' = k /\ journal.had[k]
        BY DEF RecordBackup, RecordDisplaced, RecordInstall, RecordPlaced, GoOnOrUndo
      <3>2. pc' = "place" => RecordInstall(o) /\ k' = k
        BY DEF RecordBackup, RecordDisplaced, RecordInstall, RecordPlaced, GoOnOrUndo
      <3> QED BY <2>1, <2>3, <2>4, <3>1, <3>2 DEF CursorRecorded
    <2>9. NoneWaiting'
      <3>1. pc' \in {"displace", "install", "place", "backup", "marker", "undo"}
        BY DEF RecordBackup, RecordDisplaced, RecordInstall, RecordPlaced, GoOnOrUndo
      <3> QED BY <3>1 DEF NoneWaiting
    <2>10. BackupGone' /\ JournalNamed'
      <3>1. pc' \in {"displace", "install", "place", "backup", "marker", "undo"}
        BY DEF RecordBackup, RecordDisplaced, RecordInstall, RecordPlaced, GoOnOrUndo
      <3> QED BY <1>1, <2>4, <3>1 DEF ConservationInv, BackupGone, JournalNamed
    <2> QED BY <2>6, <2>7, <2>8, <2>9, <2>10 DEF Rest
  <1> QED BY <1>2, <1>3

\* The two renames of the commit.
LEMMA RenameStep ==
  ASSUME ConservationInv, NEW o \in {"ok", "raised", "late"},
         Displace(o) \/ Place(o)
  PROVE  AllConserved' /\ Rest'
  <1>1. /\ UNCHANGED <<journal, marker, attempt, pre, post>>
        /\ journal # None /\ k \in Paths
        /\ pc' \in {"displaced", "placed", "undo"}
        /\ Unpublished' <=> Unpublished
    BY DEF Displace, Place, disk, counts, history, GoOnOrUndo, ConservationInv,
           TypeInv, JournalHeld, CursorInRange, Committing, Unpublished
  <1>2. CASE ~Done(o)
    <2>1. UNCHANGED <<live, stage, backup>> /\ pc' = "undo"
      BY <1>2 DEF Displace, Place, GoOnOrUndo, Done
    <2>2. AllConserved'
      BY <1>1, <2>1, Frame DEF ConservationInv
    <2> QED BY <1>1, <2>1, <2>2 DEF ConservationInv, Rest, WaitingPaths,
               CursorRecorded, NoneWaiting, BackupGone, JournalNamed
  <1>3. CASE Done(o)
    <2>1. live \in Tree /\ stage \in Tree /\ backup \in Tree
      BY DEF ConservationInv, TypeInv, TypeOK
    <2>2. ASSUME NEW p \in Paths, p # k
          PROVE  /\ live'[p] = live[p] /\ stage'[p] = stage[p]
                 /\ backup'[p] = backup[p]
      BY <1>3, <2>1, <2>2 DEF Displace, Place, With, Without
    <2>3. ASSUME Unpublished, NEW p \in Paths PROVE PathConserved(p)'
      <3>1. PathConserved(p)
        BY <2>3 DEF ConservationInv, AllConserved
      <3>2. CASE p # k
        BY <1>1, <2>2, <3>1, <3>2, SamePath DEF history
      <3>3. CASE p = k /\ Displace(o)
        <4>1. live[k] # None /\ backup[k] = None
          BY <1>3, <3>3 DEF Displace, Ends, Endings, Done
        <4>2. live'[k] = None /\ backup'[k] = live[k] /\ stage'[k] = stage[k]
          BY <1>1, <1>3, <2>1, <3>3 DEF Displace, With, Without
        <4>3. journal.had[k] /\ journal.phase[k] # "pending"
          BY <3>3 DEF Displace, ConservationInv, CursorRecorded
        <4> QED BY <1>1, <3>1, <3>3, <4>1, <4>2, <4>3
                DEF PathConserved, Untouched, Displaced, Placed
      <3>4. CASE p = k /\ Place(o)
        <4>1. stage[k] # None /\ live[k] = None
          BY <1>3, <3>4 DEF Place, Ends, Endings, Done
        <4>2. live'[k] = stage[k] /\ stage'[k] = None /\ backup'[k] = backup[k]
          BY <1>1, <1>3, <2>1, <3>4 DEF Place, With, Without
        <4>3. journal.phase[k] = "install-intent"
          BY <3>4 DEF Place, ConservationInv, CursorRecorded
        <4> QED BY <1>1, <3>1, <3>4, <4>1, <4>2, <4>3
                DEF PathConserved, Untouched, Displaced, Placed
      <3> QED BY <3>2, <3>3, <3>4
    <2>4. AllConserved'
      BY <1>1, <2>3 DEF AllConserved, ConservationInv
    <2>5. WaitingPaths'
      <3>1. CASE Displace(o)
        BY <1>1, <3>1 DEF Displace, GoOnOrUndo, ConservationInv, WaitingPaths
      <3>2. CASE Place(o)
        <4>1. pc' = "placed" => k' = k
          BY <3>2 DEF Place, GoOnOrUndo
        <4>2. pc = "place"
          BY <3>2 DEF Place
        <4>3. \A p \in Paths : p > k => p # k
          BY <1>1
        <4> QED BY <1>1, <2>2, <3>2, <4>1, <4>2, <4>3
                DEF Place, GoOnOrUndo, ConservationInv, WaitingPaths
      <3> QED BY <3>1, <3>2
    <2> QED BY <1>1, <2>4, <2>5 DEF Rest, ConservationInv, CursorRecorded,
               NoneWaiting, BackupGone, JournalNamed
  <1> QED BY <1>2, <1>3

\* The two renames of the rollback.
LEMMA UndoRenameStep ==
  ASSUME ConservationInv, NEW o \in {"ok", "raised", "late"},
         MoveAside(o) \/ PutBack(o)
  PROVE  AllConserved' /\ Rest'
  <1>1. /\ UNCHANGED <<journal, marker, attempt, pre, post>>
        /\ journal # None /\ k \in Paths
        /\ pc' \in {"undo", "idle"}
        /\ Unpublished' <=> Unpublished
    <2>1. /\ UNCHANGED <<journal, marker, attempt, pre, post>>
          /\ pc = "undo" /\ k > 0 /\ pc' \in {"undo", "idle"}
      BY DEF MoveAside, PutBack, disk, counts, history, GoOn, Stop
    <2>2. journal # None /\ k \in 0..N
      BY <2>1 DEF ConservationInv, TypeInv, TypeOK, JournalHeld
    <2>3. k \in Paths
      BY <2>1, <2>2, ConstantsAssumption
    <2> QED BY <2>1, <2>2, <2>3 DEF Unpublished
  <1>2. CASE ~Done(o)
    <2>1. UNCHANGED <<live, stage, backup>>
      BY <1>2 DEF MoveAside, PutBack
    <2>2. AllConserved'
      BY <1>1, <2>1, Frame DEF ConservationInv
    <2> QED BY <1>1, <2>1, <2>2 DEF ConservationInv, Rest, WaitingPaths,
               CursorRecorded, NoneWaiting, BackupGone, JournalNamed
  <1>3. CASE Done(o)
    <2>1. live \in Tree /\ stage \in Tree /\ backup \in Tree
      BY DEF ConservationInv, TypeInv, TypeOK
    <2>2. ASSUME NEW p \in Paths, p # k
          PROVE  /\ live'[p] = live[p] /\ stage'[p] = stage[p]
                 /\ backup'[p] = backup[p]
      BY <1>3, <2>1, <2>2 DEF MoveAside, PutBack, With, Without
    <2>3. ASSUME Unpublished, NEW p \in Paths PROVE PathConserved(p)'
      <3>1. PathConserved(p)
        BY <2>3 DEF ConservationInv, AllConserved
      <3>2. CASE p # k
        BY <1>1, <2>2, <3>1, <3>2, SamePath DEF history
      <3>3. CASE p = k /\ MoveAside(o)
        <4>1. live[k] # None /\ stage[k] = None /\ (backup[k] # None \/ ~journal.had[k])
          BY <3>3 DEF MoveAside, UndoSound, NewInLive, InLive, InStage, InBackup, Had
        <4>2. live'[k] = None /\ stage'[k] = live[k] /\ backup'[k] = backup[k]
          BY <1>1, <1>3, <2>1, <3>3 DEF MoveAside, With, Without
        <4> QED BY <1>1, <3>1, <3>3, <4>1, <4>2
                DEF PathConserved, Untouched, Displaced, Placed
      <3>4. CASE p = k /\ PutBack(o)
        <4>1. live[k] = None /\ backup[k] # None
          BY <3>4 DEF PutBack, InLive, InBackup
        <4>2. live'[k] = backup[k] /\ backup'[k] = None /\ stage'[k] = stage[k]
          BY <1>1, <1>3, <2>1, <3>4 DEF PutBack, With, Without
        <4> QED BY <1>1, <3>1, <3>4, <4>1, <4>2
                DEF PathConserved, Untouched, Displaced, Placed
      <3> QED BY <3>2, <3>3, <3>4
    <2>4. AllConserved'
      BY <1>1, <2>3 DEF AllConserved, ConservationInv
    <2> QED BY <1>1, <2>4 DEF Rest, ConservationInv, WaitingPaths,
               CursorRecorded, NoneWaiting, BackupGone, JournalNamed
  <1> QED BY <1>2, <1>3

\* The marker names the transaction; only then does the journal say published.
LEMMA PublishStep ==
  ASSUME ConservationInv, NEW o \in {"ok", "raised", "late"},
         PublishMarker(o) \/ RecordPublished(o)
  PROVE  AllConserved' /\ Rest'
  <1>1. /\ UNCHANGED <<live, stage, backup, attempt, pre, post>>
        /\ pc' \in {"published", "undo", "sync"}
        /\ journal \in Journal /\ journal # None
    BY DEF PublishMarker, RecordPublished, payload, counts, history, GoOnOrUndo,
           ConservationInv, TypeInv, TypeOK, JournalHeld, Committing
  <1>2. CASE PublishMarker(o) /\ ~Done(o)
    <2>1. UNCHANGED <<journal, marker>> /\ pc' = "undo"
      BY <1>2 DEF PublishMarker, GoOnOrUndo, Done
    <2>2. AllConserved'
      BY <1>1, <2>1, Frame DEF ConservationInv
    <2> QED BY <1>1, <2>1, <2>2 DEF ConservationInv, Rest, WaitingPaths,
               CursorRecorded, NoneWaiting, BackupGone, JournalNamed
  <1>3. CASE PublishMarker(o) /\ Done(o)
    <2>1. journal' = journal /\ marker' = NewMarker(journal.tid)
      BY <1>3 DEF PublishMarker
    <2>2. journal.tid \in Nat
      BY <1>1 DEF Journal
    <2>3. marker' # None /\ marker'.tid = journal.tid
      <3>1. NewMarker(journal.tid) # None
        BY <2>2, RecordTypes DEF ConservationInv, TypeInv
      <3> QED BY <2>1, <3>1 DEF NewMarker
    <2>4. ~Unpublished'
      BY <2>1, <2>2, <2>3 DEF Unpublished
    <2> QED BY <1>1, <2>1, <2>4, Settled
            DEF ConservationInv, Rest, CursorRecorded, BackupGone, JournalNamed
  <1>4. CASE RecordPublished(o)
    <2>1. ~Unpublished
      BY <1>4 DEF RecordPublished, ConservationInv, NoneWaiting
    <2>2. CASE journal' = journal
      <3>1. ~Unpublished'
        BY <1>4, <2>1, <2>2 DEF RecordPublished, Unpublished
      <3> QED BY <1>1, <2>2, <3>1, Settled
              DEF ConservationInv, Rest, CursorRecorded, BackupGone, JournalNamed
    <2>3. CASE journal' = Rewritten(journal.phase, TRUE)
      <3>1. journal.phase \in [Paths -> Phases] /\ UNCHANGED marker
        BY <1>1, <1>4 DEF Journal, RecordPublished
      <3>2. /\ journal' # None /\ (Unpublished' <=> Unpublished)
            /\ journal'.tid = journal.tid
        BY <1>1, <2>3, <3>1, Rewriting DEF ConservationInv
      <3>3. ~Unpublished'
        BY <2>1, <3>2
      <3> QED BY <1>1, <3>2, <3>3, Settled
              DEF ConservationInv, Rest, CursorRecorded, BackupGone, JournalNamed
    <2> QED BY <1>4, <2>2, <2>3 DEF RecordPublished
  <1> QED BY <1>2, <1>3, <1>4

\* The journal of a rolled-back transaction goes only after its backup.
LEMMA CloseUndoStep ==
  ASSUME ConservationInv, NEW o \in {"ok", "raised", "late"}, CloseUndo(o)
  PROVE  AllConserved' /\ Rest'
  <1>1. /\ UNCHANGED <<live, stage, backup, marker, attempt, pre, post>>
        /\ pc' \in {"select", "idle"} /\ (~Done(o) => pc' = "idle")
    BY DEF CloseUndo, payload, counts, history, Stop, Done
  <1>2. CASE ~Done(o)
    <2>1. AllConserved' /\ UNCHANGED journal
      BY <1>1, <1>2, Frame DEF ConservationInv, CloseUndo
    <2> QED BY <1>1, <1>2, <2>1 DEF ConservationInv, Rest, WaitingPaths,
               CursorRecorded, NoneWaiting, BackupGone, JournalNamed
  <1>3. CASE Done(o)
    <2>1. journal' = None /\ backup = Empty
      BY <1>3 DEF CloseUndo, Ends, Endings, Done
    <2>2. ~Unpublished'
      BY <2>1 DEF Unpublished
    <2> QED BY <1>1, <2>1, <2>2, Settled
            DEF Rest, CursorRecorded, BackupGone, JournalNamed
  <1> QED BY <1>2, <1>3

LEMMA ConservationStep == ConservationInv /\ [Next]_vars => ConservationInv'
  <1> SUFFICES ASSUME ConservationInv, [Next]_vars PROVE ConservationInv'
    OBVIOUS
  <1>1. TypeInv'
    BY TypeStep DEF ConservationInv
  <1>2. AllConserved' /\ Rest'
    <2>1. CASE \E o \in {"ok", "raised", "late"} : Fallible(o)
      <3>1. PICK o \in {"ok", "raised", "late"} : Fallible(o)
        BY <2>1
      <3>2. CASE Adopt(o)
        BY <3>2, SettledStep
      <3>3. CASE CreateJournal(o)
        BY <3>3, CreateStep
      <3>4. CASE RecordBackup(o) \/ RecordDisplaced(o) \/ RecordInstall(o)
                 \/ RecordPlaced(o)
        BY <3>4, RecordStep
      <3>5. CASE Displace(o) \/ Place(o)
        BY <3>5, RenameStep
      <3>6. CASE PublishMarker(o) \/ RecordPublished(o)
        BY <3>6, PublishStep
      <3>7. CASE SyncGame(o) \/ Finish(o)
        BY <3>7, QuietStep
      <3>8. CASE MoveAside(o) \/ PutBack(o)
        BY <3>8, UndoRenameStep
      <3>9. CASE CloseUndo(o)
        BY <3>9, CloseUndoStep
      <3> QED BY <3>1, <3>2, <3>3, <3>4, <3>5, <3>6, <3>7, <3>8, <3>9 DEF Fallible
    <2>2. CASE Recover \/ FastPath \/ SkipFastPath \/ DoNotAdopt \/ DropCache
               \/ Undo \/ Upgrade \/ UNCHANGED vars \/ \E f \in BOOLEAN : Launch(f)
      BY <2>2, QuietStep
    <2>3. CASE (\E n \in 0..N, same, bundle \in BOOLEAN : Extract(n, same, bundle))
               \/ RejectStage \/ DropBackup \/ DropStage \/ DropJournal
      BY <2>3, SettledStep
    <2>4. CASE Crash
      BY <2>4, CrashStep
    <2> QED BY <2>1, <2>2, <2>3, <2>4 DEF Next, RunStep, Choose, Cleanup
  <1> QED BY <1>1, <1>2 DEF ConservationInv, Rest

LEMMA ConservationAlways == Spec => []ConservationInv
  BY ConservationInit, ConservationStep, PTL DEF Spec

\* Until a transaction publishes, commit_stage and rollback_transaction keep
\* both objects of every path, for every number of paths, every number of
\* failures and crashes, and every environment.
THEOREM UnpublishedConserved == Spec => []UnpublishedIsConserved
  <1>1. ConservationInv => UnpublishedIsConserved
    BY DEF ConservationInv, AllConserved, PathConserved, UnpublishedIsConserved
  <1> QED BY <1>1, ConservationAlways, PTL

\* The write-ahead rule, with the same generality.
THEOREM JournalWritesAhead == Spec => []WriteAhead
  <1>1. ConservationInv => WriteAhead
    BY DEF ConservationInv, AllConserved, PathConserved, BackupGone, WriteAhead
  <1> QED BY <1>1, ConservationAlways, PTL


(***************************************************************************)
(* What success means, for every environment.  From the marker on, a run   *)
(* touches neither the marker nor what is live until it tells the result.  *)
(***************************************************************************)

Sealing == {"published", "sync", "dropBackup", "dropStage", "dropCache",
            "dropJournal", "finish"}

RunSilent      == pc # "idle" => outcome = "none"
MarkerComplete == marker # None => Present(marker.seal)
SealedFrom     == pc \in Sealing => Sealed

SealInv == RunSilent /\ MarkerComplete /\ SealedFrom /\ SuccessIsSealed

LEMMA SealInit == Init => SealInv
  BY DEF Init, SealInv, RunSilent, MarkerComplete, SealedFrom, SuccessIsSealed,
     Sealing

\* A marker that was just written is the seal of what is live.
LEMMA FreshMarker ==
  ASSUME TypeInv, NEW tid \in Nat, Present(live), marker' = NewMarker(tid),
         UNCHANGED <<live, recipe, tool>>
  PROVE  /\ marker' # None /\ Present(marker'.seal) /\ Present(live)'
         /\ Sealed' /\ marker'.tid = tid
  <1>1. NewMarker(tid) # None
    BY RecordTypes DEF TypeInv
  <1> QED BY <1>1 DEF NewMarker, Sealed, MarkerMatches, Present

\* As long as marker, live tree and port stay, so does what the seal says.
LEMMA SameSeal ==
  ASSUME UNCHANGED <<live, marker, recipe, tool>>
  PROVE  /\ Sealed' <=> Sealed
         /\ Present(live)' <=> Present(live)
         /\ MarkerComplete' <=> MarkerComplete
  BY DEF Sealed, MarkerMatches, Present, MarkerComplete

LEMMA SealStep == TypeInv /\ SealInv /\ [Next]_vars => SealInv'
  <1> SUFFICES ASSUME TypeInv, SealInv, [Next]_vars PROVE SealInv'
    OBVIOUS
  <1>1. Sealed => Present(live)
    BY DEF SealInv, MarkerComplete, Sealed, MarkerMatches
  <1>2. CASE \E o \in {"ok", "raised", "late"} : Adopt(o)
    <2>1. PICK o \in {"ok", "raised", "late"} : Adopt(o)
      BY <1>2
    <2>2. Present(live) /\ UNCHANGED <<live, recipe, tool>> /\ attempt + 1 \in Nat
      <3>1. TRUE \in Verdicts(live) => Present(live)
        BY DEF Verdicts
      <3>2. attempt + 1 \in Nat
        BY DEF TypeInv, TypeOK
      <3> QED BY <2>1, <3>1, <3>2 DEF Adopt, payload, port
    <2>3. CASE Done(o)
      <3>1. marker' = NewMarker(attempt + 1)
        BY <2>1, <2>3 DEF Adopt
      <3>2. Sealed' /\ Present(live)' /\ MarkerComplete'
        BY <2>2, <3>1, FreshMarker DEF MarkerComplete
      <3> QED BY <2>1, <3>2 DEF Adopt, Stop, SealInv, RunSilent, SealedFrom,
                 SuccessIsSealed, Sealing
    <2>4. CASE ~Done(o)
      <3>1. UNCHANGED marker /\ pc' = "idle" /\ outcome' = "error"
        BY <2>1, <2>4 DEF Adopt, Stop, Done
      <3> QED BY <2>2, <3>1, SameSeal DEF SealInv, RunSilent, SealedFrom,
                 SuccessIsSealed, Sealing
    <2> QED BY <2>3, <2>4
  <1>3. CASE \E o \in {"ok", "raised", "late"} : PublishMarker(o)
    <2>1. PICK o \in {"ok", "raised", "late"} : PublishMarker(o)
      BY <1>3
    <2>2. /\ UNCHANGED <<live, recipe, tool, outcome>> /\ pc = "marker"
          /\ pc' = IF o = "ok" THEN "published" ELSE "undo"
          /\ marker' = IF Done(o) THEN NewMarker(journal.tid) ELSE marker
      BY <2>1 DEF PublishMarker, GoOnOrUndo, payload, port
    <2>3. CASE Done(o)
      <3>1. Present(live)
        BY <2>1, <2>3 DEF PublishMarker, Ends, Endings, Done
      <3>2. journal.tid \in Nat
        BY <2>2 DEF TypeInv, TypeOK, JournalHeld, Committing, Journal
      <3>3. Sealed' /\ MarkerComplete'
        BY <2>2, <2>3, <3>1, <3>2, FreshMarker DEF MarkerComplete
      <3> QED BY <2>2, <3>3 DEF SealInv, RunSilent, SealedFrom, SuccessIsSealed
    <2>4. CASE ~Done(o)
      <3>1. UNCHANGED marker /\ pc' = "undo"
        BY <2>2, <2>4 DEF Done
      <3> QED BY <2>2, <3>1, SameSeal DEF SealInv, RunSilent, SealedFrom,
                 SuccessIsSealed, Sealing
    <2> QED BY <2>3, <2>4
  <1>4. CASE \E o \in {"ok", "raised", "late"} :
               Displace(o) \/ Place(o) \/ MoveAside(o) \/ PutBack(o)
    <2>1. /\ UNCHANGED marker
          /\ pc' \in {"displaced", "placed", "undo", "idle"}
          /\ pc \notin {"idle"}
          /\ pc' # "idle" => UNCHANGED outcome
          /\ pc' = "idle" => outcome' = "error"
      BY <1>4 DEF Displace, Place, MoveAside, PutBack, GoOn, GoOnOrUndo, Stop, disk
    <2> QED BY <2>1 DEF SealInv, RunSilent, MarkerComplete, SealedFrom,
               SuccessIsSealed, Sealing
  <1>5. CASE Upgrade
    <2>1. UNCHANGED marker /\ pc' = "idle" /\ outcome' = "none"
      BY <1>5 DEF Upgrade, disk
    <2> QED BY <2>1 DEF SealInv, RunSilent, MarkerComplete, SealedFrom,
               SuccessIsSealed, Sealing
  <1>6. CASE ~Upgrade /\ ~\E o \in {"ok", "raised", "late"} :
               \/ Adopt(o) \/ PublishMarker(o) \/ Displace(o) \/ Place(o)
               \/ MoveAside(o) \/ PutBack(o)
    <2>1. /\ UNCHANGED <<live, marker, recipe, tool>>
          /\ \/ pc' = "recover" /\ outcome' = "none"
             \/ pc' = "idle" /\ outcome' = "error"
             \/ pc' = "idle" /\ outcome' = "success" /\ Sealed
             \/ pc # "idle" /\ pc' = "idle" /\ UNCHANGED outcome
             \/ UNCHANGED <<pc, outcome>>
             \/ pc # "idle" /\ UNCHANGED outcome
                /\ (pc' \in Sealing => pc \in Sealing \/ Sealed)
      <3>1. CASE \E o \in {"ok", "raised", "late"} :
                   \/ CreateJournal(o) \/ RecordBackup(o) \/ RecordDisplaced(o)
                   \/ RecordInstall(o) \/ RecordPlaced(o) \/ CloseUndo(o)
        <4>1. PICK o \in {"ok", "raised", "late"} :
                \/ CreateJournal(o) \/ RecordBackup(o) \/ RecordDisplaced(o)
                \/ RecordInstall(o) \/ RecordPlaced(o) \/ CloseUndo(o)
          BY <3>1
        <4>2. CASE CreateJournal(o) \/ CloseUndo(o)
          BY <4>2 DEF CreateJournal, CloseUndo, GoOn, Stop, payload, port,
             Sealing
        <4>3. CASE \/ RecordBackup(o) \/ RecordDisplaced(o)
                   \/ RecordInstall(o) \/ RecordPlaced(o)
          BY <4>3 DEF RecordBackup, RecordDisplaced, RecordInstall,
             RecordPlaced, GoOnOrUndo, payload, port, Sealing
        <4> QED BY <4>1, <4>2, <4>3
      <3>2. CASE \E o \in {"ok", "raised", "late"} :
                   RecordPublished(o) \/ SyncGame(o) \/ Finish(o)
        BY <3>2 DEF RecordPublished, SyncGame, Finish, GoOn, Stop, payload, disk,
           port, Sealing, SealInv, SealedFrom
      <3>3. CASE Recover \/ Cleanup \/ Undo
        BY <3>3 DEF Recover, NothingToRecover, RefuseJournal, FinishPublished,
           StartUndo, Cleanup, DropBackup, DropStage, DropCache, DropJournal,
           Undo, UndoRefused, PathUndone, Stop, payload, disk, port, Sealing
      <3>4. CASE Choose
        BY <3>4 DEF Choose, FastPath, SkipFastPath, DoNotAdopt, RejectStage,
           Extract, Stop, payload, disk, port, Sealing
      <3>5. CASE Crash \/ UNCHANGED vars \/ \E f \in BOOLEAN : Launch(f)
        BY <3>5 DEF Crash, Launch, vars, payload, disk, port
      <3> QED BY <1>6, <3>1, <3>2, <3>3, <3>4, <3>5 DEF Next, RunStep, Fallible
    <2> QED BY <1>1, <2>1, SameSeal DEF SealInv, RunSilent, SealedFrom,
               SuccessIsSealed, Sealing
  <1> QED BY <1>2, <1>3, <1>4, <1>5, <1>6

LEMMA SealAlways == Spec => [](TypeInv /\ SealInv)
  <1>1. TypeInv /\ SealInv /\ [Next]_vars => (TypeInv /\ SealInv)'
    BY TypeStep, SealStep
  <1> QED BY TypeInit, SealInit, <1>1, PTL DEF Spec

\* A success that was told is a complete payload under the seal of a marker of
\* this recipe and extractor, for every environment: whatever fails, crashes,
\* cannot be read or is updated (install_command's three ways to succeed).
THEOREM SuccessSealed == Spec => []SuccessIsSealed
  BY SealAlways, PTL DEF SealInv

(***************************************************************************)
(* The transaction from its journal to its end, as long as the port is not *)
(* updated under a journal and the payload can be read back.               *)
(*                                                                         *)
(* Conservation until the marker says what the commit leaves behind.       *)
(* After it either the journal's payload is live in full (Settling), or    *)
(* the run that wrote the marker failed and undoes what it did, for which  *)
(* each path must still have both its objects (Recoverable).               *)
(***************************************************************************)

Calm == ~UpgradeAnytime /\ ~ReadFaults

Looping == {"backup", "displace", "displaced", "install", "place", "placed"}
AllHere == \A p \in Paths : Untouched(p) \/ Displaced(p) \/ Placed(p)

\* A marker is older than the transaction that is about to be named.
MarkerNamed == marker # None => /\ marker.tid <= attempt
                                /\ pc = "commit" => marker.tid < attempt
StageReady == pc = "commit" => Whole(stage)

\* What the journal says: its own recipe, what there was, what there will be.
JournalTells ==
  journal # None =>
    /\ journal.recipe = recipe
    /\ \A p \in Paths : /\ post[p] \in Nat /\ pre[p] # Torn
                        /\ journal.had[p] <=> pre[p] # None

\* A journal that is not waiting for its marker has it.
Owned == journal # None /\ ~Unpublished =>
           OwnMarker /\ MarkerMatches /\ marker.seal = post

\* The loop runs before the marker, up to the cursor.
NotYet == pc \in Looping \cup {"marker"} => Unpublished
InstalledTo ==
  /\ pc \in Looping =>
       \A p \in Paths : p < k \/ (p = k /\ pc = "placed") => Placed(p)
  /\ pc = "marker" => \A p \in Paths : Placed(p)

\* Whatever touches stage, backup or marker outside of it has the payload live.
Settling ==
  /\ pc \in {"select", "extract", "commit"} \cup Sealing /\ journal # None =>
       live = post
  /\ pc = "adopt" => journal = None

\* Recovery finds the payload, or all it takes to go back.
Recoverable == journal # None => (live = post /\ ~Undoing) \/ AllHere

\* The rollback is through with the paths above its cursor.
UndoneFrom ==
  Undoing => \A p \in Paths : p > k \/ pc = "undone" => Untouched(p)

Papers  == JournalTells /\ Owned /\ ScratchIsHarmless
Control == /\ MarkerNamed /\ StageReady /\ NotYet /\ InstalledTo /\ Settling
           /\ Recoverable /\ UndoneFrom /\ SuccessIsSettled
CalmInv == ConservationInv /\ SealInv /\ Papers /\ Control

USE DEF Looping, Sealing, Undoing

LEMMA CalmInit == Init => CalmInv
  <1> SUFFICES ASSUME Init PROVE CalmInv
    OBVIOUS
  <1>1. ConservationInv /\ SealInv
    BY ConservationInit, SealInit
  <1>2. Papers
    BY AbsentAssumption
    DEF Init, Papers, JournalTells, Owned, ScratchIsHarmless
  <1>3. Control
    BY DEF Init, Control, MarkerNamed, StageReady, NotYet, InstalledTo, Settling,
       Recoverable, UndoneFrom, SuccessIsSettled
  <1> QED BY <1>1, <1>2, <1>3 DEF CalmInv

\* Before its marker, a transaction has everything.
LEMMA Unfinished ==
  ASSUME ConservationInv, Unpublished
  PROVE  AllHere
  BY DEF ConservationInv, AllConserved, PathConserved, AllHere

\* Names are numbers.
LEMMA Numbers ==
  ASSUME TypeInv
  PROVE  /\ attempt \in Nat
         /\ marker # None => marker.tid \in Nat
         /\ journal # None => journal.tid \in Nat
         /\ N \in Nat \ {0} /\ k \in 0..N
  BY ConstantsAssumption DEF TypeInv, TypeOK, Marker, Journal

\* As long as the documents stay, so does what they say.
LEMMA SamePapers ==
  ASSUME UNCHANGED <<journal, marker, recipe, tool, pre, post>>
  PROVE  /\ JournalTells => JournalTells'
         /\ Owned => Owned'
         /\ UNCHANGED live => (Papers => Papers')
         /\ Unpublished' <=> Unpublished
         /\ OwnMarker' <=> OwnMarker
  BY DEF Papers, JournalTells, Owned, ScratchIsHarmless, Unpublished, OwnMarker,
     MarkerMatches

\* Where the marker has been written, or no journal is left.
LEMMA Own ==
  ASSUME CalmInv, journal # None, ~Unpublished
  PROVE  OwnMarker /\ MarkerMatches /\ marker.seal = post
  BY DEF CalmInv, Papers, Owned

\* A step of a run that is not committing, or its end: what it touches of stage
\* and backup is not needed any more.
LEMMA Quiet ==
  ASSUME CalmInv, UNCHANGED <<live, journal, marker, recipe, tool, pre, post>>,
         attempt' \in Nat, attempt' >= attempt,
         UNCHANGED <<stage, backup>> \/ journal = None \/ live = post,
         pc' \in {"idle", "select", "adopt", "extract"} \cup Sealing,
         pc' # "idle" /\ journal # None => live = post /\ pc' # "adopt",
         pc' = "idle" /\ outcome' = "success" /\ journal # None => OwnMarker
  PROVE  Papers' /\ Control'
  <1>1. Papers'
    BY SamePapers DEF CalmInv
  <1>2. MarkerNamed'
    BY Numbers DEF CalmInv, Control, MarkerNamed, ConservationInv
  <1>3. Recoverable'
    BY DEF CalmInv, Control, Recoverable, AllHere, Untouched, Displaced, Placed
  <1>4. SuccessIsSettled'
    BY SamePapers DEF SuccessIsSettled
  <1> QED BY <1>1, <1>2, <1>3, <1>4
          DEF Control, StageReady, NotYet, InstalledTo, Settling, UndoneFrom

\* A failed step turns the commit back.
LEMMA Turned ==
  ASSUME TypeInv, pc' = "undo", k' = N, AllHere', MarkerNamed'
  PROVE  Control'
  <1>1. \A p \in Paths : ~(p > k')
    BY ConstantsAssumption
  <1>2. UndoneFrom'
    BY <1>1 DEF UndoneFrom
  <1> QED BY <1>2 DEF Control, StageReady, NotYet, InstalledTo, Settling,
             Recoverable, SuccessIsSettled

\* A run starts, the port is updated, or nothing happens.
LEMMA OutsideStep ==
  ASSUME Calm, CalmInv,
         Upgrade \/ UNCHANGED vars \/ \E f \in BOOLEAN : Launch(f)
  PROVE  Papers' /\ Control'
  <1>1. CASE UNCHANGED vars
    <2>1. Papers'
      BY <1>1, SamePapers DEF vars, payload, disk, port, history, CalmInv
    <2>2. Control'
      BY <1>1 DEF vars, payload, disk, port, counts, history, CalmInv, Control,
         MarkerNamed, StageReady, NotYet, InstalledTo, Settling, Recoverable,
         UndoneFrom, SuccessIsSettled, AllHere, Untouched, Displaced, Placed,
         Unpublished, OwnMarker, Whole
    <2> QED BY <2>1, <2>2
  <1>2. CASE \E f \in BOOLEAN : Launch(f)
    <2>1. /\ UNCHANGED <<live, stage, backup, journal, marker, recipe, tool, pre,
                         post, attempt>>
          /\ pc' = "recover" /\ outcome' = "none"
      BY <1>2 DEF Launch, payload, disk, port, history
    <2>2. Papers'
      BY <2>1, SamePapers DEF CalmInv
    <2>3. MarkerNamed' /\ Recoverable'
      BY <2>1 DEF CalmInv, Control, MarkerNamed, Recoverable, AllHere, Untouched,
         Displaced, Placed
    <2> QED BY <2>1, <2>2, <2>3 DEF Control, StageReady, NotYet, InstalledTo,
               Settling, UndoneFrom, SuccessIsSettled
  <1>3. CASE Upgrade
    <2>1. /\ UNCHANGED <<live, stage, backup, marker, attempt>>
          /\ journal' = None /\ pc' = "idle" /\ outcome' = "none"
      BY <1>3 DEF Upgrade, Calm, payload, disk
    <2>2. Papers'
      BY <2>1 DEF CalmInv, Papers, JournalTells, Owned, ScratchIsHarmless
    <2>3. MarkerNamed'
      BY <2>1 DEF CalmInv, Control, MarkerNamed
    <2> QED BY <2>1, <2>2, <2>3 DEF Control, StageReady, NotYet, InstalledTo,
               Settling, Recoverable, UndoneFrom, SuccessIsSettled
  <1> QED BY <1>1, <1>2, <1>3

\* What recovery decides: a payload that is live is never rolled back.
LEMMA RecoverStep ==
  ASSUME Calm, CalmInv, Recover
  PROVE  Papers' /\ Control'
  <1>1. /\ UNCHANGED <<live, stage, backup, journal, marker, recipe, tool, pre,
                       post, attempt>>
        /\ pc = "recover"
    BY DEF Recover, NothingToRecover, RefuseJournal, FinishPublished, StartUndo,
       payload, disk, port, counts, history
  <1>2. Papers'
    BY <1>1, SamePapers DEF CalmInv
  <1>3. MarkerNamed \/ pc' = "commit" => MarkerNamed' \/ pc' = "commit"
    BY <1>1 DEF MarkerNamed
  <1>4. CASE NothingToRecover
    BY <1>1, <1>2, <1>4 DEF NothingToRecover, CalmInv, Control, MarkerNamed,
       StageReady, NotYet, InstalledTo, Settling, Recoverable, UndoneFrom,
       SuccessIsSettled
  <1>5. CASE RefuseJournal
    <2>1. FALSE
      BY <1>5 DEF RefuseJournal, CalmInv, Papers, JournalTells
    <2> QED BY <2>1
  <1>6. CASE FinishPublished
    <2>1. ~Unpublished
      BY <1>6, Numbers DEF FinishPublished, OwnMarker, Unpublished, CalmInv,
         ConservationInv
    <2>2. live = post
      BY <1>6, <2>1 DEF FinishPublished, CalmInv, Papers, Owned, Sealed
    <2> QED BY <1>1, <1>2, <1>6, <2>2 DEF FinishPublished, CalmInv, Control,
               MarkerNamed, StageReady, NotYet, InstalledTo, Settling,
               Recoverable, UndoneFrom, SuccessIsSettled
  <1>7. CASE StartUndo
    <2>1. ~(OwnMarker /\ Sealed) \/ FALSE \in Verdicts(live)
      BY <1>7 DEF StartUndo, Calm
    <2>2. journal # None /\ pc' = "undo" /\ k' = N
      BY <1>7 DEF StartUndo
    <2>3. AllHere
      <3>1. CASE Unpublished
        BY <3>1, Unfinished DEF CalmInv
      <3>2. CASE ~Unpublished
        <4>1. OwnMarker /\ MarkerMatches /\ marker.seal = post
          BY <2>2, <3>2 DEF CalmInv, Papers, Owned
        <4>2. live # post
          <5>1. Sealed <=> live = post
            BY <4>1 DEF Sealed
          <5>2. live = post => Whole(live) /\ Present(live)
            BY <2>2, AbsentAssumption DEF CalmInv, Papers, JournalTells, Whole, Present
          <5> QED BY <2>1, <4>1, <5>1, <5>2 DEF Verdicts
        <4> QED BY <2>2, <4>2 DEF CalmInv, Control, Recoverable
      <3> QED BY <3>1, <3>2
    <2>4. AllHere' /\ MarkerNamed'
      BY <1>1, <2>2, <2>3 DEF AllHere, Untouched, Displaced, Placed, CalmInv,
         Control, MarkerNamed
    <2> QED BY <1>2, <2>2, <2>4, Turned DEF CalmInv, ConservationInv
  <1> QED BY <1>4, <1>5, <1>6, <1>7 DEF Recover

\* The fast path and the way past it: with a journal on disk the payload it
\* published is what is live, so there is nothing to adopt.
LEMMA SelectStep ==
  ASSUME Calm, CalmInv, FastPath \/ SkipFastPath \/ DoNotAdopt
  PROVE  Papers' /\ Control'
  <1>1. /\ UNCHANGED <<live, stage, backup, journal, marker, recipe, tool, pre,
                       post, attempt>>
        /\ pc \in {"select", "adopt"}
    BY DEF FastPath, SkipFastPath, DoNotAdopt, payload, disk, port, counts, history
  <1>2. journal # None => ~Unpublished
    BY <1>1 DEF CalmInv, ConservationInv, NoneWaiting
  <1>3. journal # None => live = post /\ OwnMarker /\ Sealed /\ pc # "adopt"
    BY <1>1, <1>2, Own DEF CalmInv, Control, Settling, Sealed
  <1>4. attempt \in Nat
    BY Numbers DEF CalmInv, ConservationInv
  <1>5. CASE FastPath
    BY <1>1, <1>3, <1>4, <1>5, Quiet DEF FastPath, Stop
  <1>6. CASE SkipFastPath
    <2>1. pc' \in {"adopt", "extract"} /\ (pc' = "adopt" => ~Sealed)
      BY <1>6 DEF SkipFastPath, Calm
    <2> QED BY <1>1, <1>3, <1>4, <2>1, Quiet
  <1>7. CASE DoNotAdopt
    <2>1. pc' = "extract" /\ pc = "adopt"
      BY <1>7 DEF DoNotAdopt
    <2> QED BY <1>1, <1>3, <1>4, <2>1, Quiet
  <1> QED BY <1>5, <1>6, <1>7

\* A marker for what was found live: no journal is there that could miss it.
LEMMA AdoptStep ==
  ASSUME CalmInv, NEW o \in {"ok", "raised", "late"}, Adopt(o)
  PROVE  Papers' /\ Control'
  <1>1. /\ UNCHANGED <<live, journal>> /\ attempt' = attempt + 1 /\ pc' = "idle"
        /\ marker' = marker \/ marker' = NewMarker(attempt + 1)
        /\ pc = "adopt"
    BY DEF Adopt, Stop, payload
  <1>2. journal = None
    BY <1>1 DEF CalmInv, Control, Settling
  <1>3. Papers'
    BY <1>1, <1>2 DEF CalmInv, Papers, JournalTells, Owned, ScratchIsHarmless
  <1>4. MarkerNamed'
    <2>1. attempt \in Nat /\ (marker # None => marker.tid \in Nat)
      BY Numbers DEF CalmInv, ConservationInv
    <2>2. NewMarker(attempt + 1).tid = attempt + 1
      BY DEF NewMarker
    <2> QED BY <1>1, <2>1, <2>2 DEF CalmInv, Control, MarkerNamed
  <1> QED BY <1>1, <1>2, <1>3, <1>4
          DEF Control, StageReady, NotYet, InstalledTo, Settling, Recoverable,
              UndoneFrom, SuccessIsSettled

\* A stage that goes to the commit is complete.
LEMMA ExtractStep ==
  ASSUME CalmInv, NEW n \in 0..N, NEW same \in BOOLEAN, NEW bundle \in BOOLEAN,
         Extract(n, same, bundle)
  PROVE  Papers' /\ Control'
  <1>1. /\ UNCHANGED <<live, backup, journal, marker, recipe, tool, pre, post>>
        /\ attempt' = attempt + 1 /\ stage' = Staged(same, n) /\ pc = "extract"
        /\ IF n = N THEN pc' = "commit" ELSE pc' = "idle" /\ outcome' = "error"
    BY DEF Extract, Stop, port, history
  <1>2. journal # None => live = post
    BY <1>1 DEF CalmInv, Control, Settling
  <1>3. attempt \in Nat /\ (marker # None => marker.tid \in Nat) /\ N \in Nat
    BY Numbers DEF CalmInv, ConservationInv
  <1>4. CASE n # N
    <2>1. attempt' \in Nat /\ attempt' >= attempt
      BY <1>1, <1>3
    <2> QED BY <1>1, <1>2, <1>4, <2>1, Quiet
  <1>5. CASE n = N
    <2>1. Papers'
      BY <1>1, SamePapers DEF CalmInv
    <2>2. StageReady'
      <3>1. Whole(Staged(same, N))
        <4>1. \A p \in Paths : Staged(same, N)[p] \in Nat
          BY <1>3 DEF Staged
        <4> QED BY <4>1 DEF Whole
      <3> QED BY <1>1, <1>5, <3>1 DEF StageReady, Whole
    <2>3. MarkerNamed'
      BY <1>1, <1>3 DEF CalmInv, Control, MarkerNamed
    <2> QED BY <1>1, <1>2, <1>5, <2>1, <2>2, <2>3
            DEF Control, NotYet, InstalledTo, Settling, Recoverable, UndoneFrom,
                SuccessIsSettled
  <1> QED BY <1>4, <1>5

\* Deletions and failures outside of the commit: the payload of the journal is
\* live, or there is no journal.
LEMMA CleanStep ==
  ASSUME CalmInv,
         \/ RejectStage \/ Crash \/ UndoRefused
         \/ DropBackup \/ DropStage \/ DropCache \/ DropJournal
         \/ \E o \in {"ok", "raised", "late"} : SyncGame(o) \/ Finish(o)
  PROVE  Papers' /\ Control'
  <1>1. /\ UNCHANGED <<live, marker, recipe, tool, pre, post, attempt>>
        /\ pc # "idle"
        /\ UNCHANGED journal \/ DropJournal
    BY DEF RejectStage, Crash, UndoRefused, DropBackup, DropStage, DropCache,
       DropJournal, SyncGame, Finish, payload, disk, port, counts, history
  <1>2. attempt \in Nat
    BY Numbers DEF CalmInv, ConservationInv
  <1>3. outcome = "none"
    BY <1>1 DEF CalmInv, SealInv, RunSilent
  <1>4. pc \in {"commit"} \cup Sealing /\ journal # None => live = post /\ OwnMarker
    <2>1. pc \in {"commit"} \cup Sealing => ~Unpublished
      BY DEF CalmInv, ConservationInv, NoneWaiting
    <2> QED BY <2>1, Own DEF CalmInv, Control, Settling
  <1>5. CASE UNCHANGED journal
    <2>1. /\ pc' \in {"idle", "select"} \cup Sealing
          /\ UNCHANGED <<stage, backup>> \/ pc \in {"commit"} \cup Sealing
          /\ pc' # "idle" => pc \in Sealing
          /\ pc' = "idle" /\ outcome' = "success" => pc \in Sealing
      <3>1. CASE Crash
        <4>1. pc' = "idle" /\ outcome' = "none"
          BY <1>3, <3>1 DEF Crash
        <4>2. pc \notin {"dropBackup", "dropStage"} => UNCHANGED <<stage, backup>>
          BY <3>1 DEF Crash
        <4> QED BY <4>1, <4>2
      <3>2. CASE RejectStage \/ UndoRefused
        BY <3>2 DEF RejectStage, UndoRefused, Stop, payload
      <3>3. CASE DropBackup \/ DropStage \/ DropCache \/ DropJournal
        BY <1>3, <3>3 DEF DropBackup, DropStage, DropCache, DropJournal, payload
      <3>4. CASE \E o \in {"ok", "raised", "late"} : SyncGame(o) \/ Finish(o)
        BY <3>4 DEF SyncGame, Finish, GoOn, Stop, payload
      <3> QED BY <3>1, <3>2, <3>3, <3>4
    <2> QED BY <1>1, <1>2, <1>4, <1>5, <2>1, Quiet
  <1>6. CASE DropJournal /\ journal' = None
    <2>1. pc' \in {"select", "finish"}
      BY <1>6 DEF DropJournal
    <2>2. Papers'
      BY <1>1, <1>6 DEF CalmInv, Papers, JournalTells, Owned, ScratchIsHarmless
    <2>3. MarkerNamed'
      BY <1>1, <2>1 DEF CalmInv, Control, MarkerNamed
    <2> QED BY <1>6, <2>1, <2>2, <2>3
            DEF Control, StageReady, NotYet, InstalledTo, Settling, Recoverable,
                UndoneFrom, SuccessIsSettled
  <1> QED BY <1>1, <1>5, <1>6 DEF DropJournal

\* The journal: from here on there is an unpublished transaction that has
\* everything.
LEMMA BeginStep ==
  ASSUME CalmInv, NEW o \in {"ok", "raised", "late"}, CreateJournal(o)
  PROVE  Papers' /\ Control'
  <1>1. /\ UNCHANGED <<live, stage, backup, marker, recipe, tool, attempt>>
        /\ pc = "commit" /\ k' = 1
        /\ \/ pc' = "backup"
           \/ pc' = "idle" /\ outcome' = "error"
        /\ ~Done(o) => pc' = "idle" /\ outcome' = "error"
    BY DEF CreateJournal, payload, port, counts, GoOn, Stop, Done
  <1>2. attempt \in Nat /\ (marker # None => marker.tid \in Nat)
    BY Numbers DEF CalmInv, ConservationInv
  <1>3. CASE ~Done(o)
    <2>1. UNCHANGED <<journal, pre, post>>
      BY <1>3 DEF CreateJournal, history
    <2> QED BY <1>1, <1>2, <1>3, <2>1, Quiet
  <1>4. CASE Done(o)
    <2>1. backup = Empty /\ Whole(stage) /\ pre' = live /\ post' = stage
      BY <1>1, <1>4 DEF CreateJournal, Ends, Endings, Done, CalmInv, Control,
         StageReady
    <2>2. /\ journal'.tid = attempt /\ journal'.recipe = recipe
          /\ \A p \in Paths : journal'.had[p] <=> live[p] # None
      <3>1. /\ journal'.tid = attempt /\ journal'.recipe = recipe
            /\ journal'.had = [p \in Paths |-> live[p] # None]
        BY <1>4 DEF CreateJournal
      <3> QED BY <3>1
    <2>3. JournalTells' /\ ScratchIsHarmless'
      BY <1>1, <2>1, <2>2
      DEF CalmInv, Papers, JournalTells, ScratchIsHarmless, Whole
    <2>4. AllHere'
      BY <1>1, <2>1 DEF AllHere, Untouched, Empty
    <2>5. journal' # None => Unpublished'
      BY <1>1, <1>2, <2>2 DEF Unpublished, CalmInv, Control, MarkerNamed
    <2>6. pc' = "backup" => journal' # None
      <3>1. TypeInv'
        BY TypeStep DEF CalmInv, ConservationInv, Next, RunStep, Fallible
      <3> QED BY <3>1 DEF TypeInv, JournalHeld, Committing
    <2>7. InstalledTo'
      BY <1>1 DEF InstalledTo
    <2>8. MarkerNamed'
      BY <1>1 DEF CalmInv, Control, MarkerNamed
    <2> QED BY <1>1, <2>3, <2>4, <2>5, <2>6, <2>7, <2>8
            DEF Papers, Owned, Control, StageReady, NotYet, Settling, Recoverable,
                UndoneFrom, SuccessIsSettled
  <1> QED BY <1>3, <1>4

\* One more record of the commit.
LEMMA RecordingStep ==
  ASSUME CalmInv, NEW o \in {"ok", "raised", "late"},
         \/ RecordBackup(o) \/ RecordDisplaced(o) \/ RecordInstall(o)
         \/ RecordPlaced(o)
  PROVE  Papers' /\ Control'
  <1>1. /\ UNCHANGED <<live, stage, backup, marker, recipe, tool, attempt, pre,
                       post>>
        /\ pc \in {"backup", "displaced", "install", "placed"}
    BY DEF RecordBackup, RecordDisplaced, RecordInstall, RecordPlaced, payload,
       port, counts, history
  <1>2. /\ TypeInv /\ journal # None /\ journal \in Journal
        /\ k \in 1..N /\ N \in Nat
    BY <1>1, Numbers
    DEF CalmInv, ConservationInv, TypeInv, TypeOK, JournalHeld, CursorInRange,
        Committing
  <1>3. Unpublished /\ AllHere
    BY <1>1, Unfinished DEF CalmInv, Control, NotYet
  <1>4. \/ UNCHANGED journal
        \/ \E phase \in Phases : journal' = Record(phase)
    BY DEF RecordBackup, RecordDisplaced, RecordInstall, RecordPlaced, Phases
  <1>5. /\ journal' # None /\ Unpublished' /\ journal'.recipe = journal.recipe
        /\ journal'.had = journal.had
    <2>1. CASE UNCHANGED journal
      BY <1>1, <1>2, <1>3, <2>1 DEF Unpublished
    <2>2. CASE \E phase \in Phases : journal' = Record(phase)
      BY <1>1, <1>2, <1>3, <2>2, RecordTypes
      DEF Record, Rewritten, Unpublished, TypeInv
    <2> QED BY <1>4, <2>1, <2>2
  <1>6. Papers'
    BY <1>1, <1>2, <1>5
    DEF CalmInv, Papers, JournalTells, Owned, ScratchIsHarmless
  <1>7. AllHere' /\ (\A p \in Paths : Placed(p)' <=> Placed(p))
    BY <1>1, <1>3 DEF AllHere, Untouched, Displaced, Placed
  <1>8. CASE pc' = "undo"
    <2>1. k' = N
      BY <1>8 DEF RecordBackup, RecordDisplaced, RecordInstall, RecordPlaced,
         GoOnOrUndo
    <2>2. MarkerNamed'
      BY <1>1, <1>8 DEF CalmInv, Control, MarkerNamed
    <2> QED BY <1>2, <1>6, <1>7, <1>8, <2>1, <2>2, Turned
  <1>9. CASE pc' # "undo"
    <2>1. \/ pc' \in {"displace", "install", "place"} /\ k' = k
          \/ pc = "placed" /\ k < N /\ pc' = "backup" /\ k' = k + 1
          \/ pc = "placed" /\ k >= N /\ pc' = "marker"
      <3>1. CASE RecordPlaced(o)
        BY <1>2, <1>9, <3>1 DEF RecordPlaced
      <3>2. CASE RecordBackup(o) \/ RecordDisplaced(o) \/ RecordInstall(o)
        BY <1>9, <3>2 DEF RecordBackup, RecordDisplaced, RecordInstall, GoOnOrUndo
      <3> QED BY <3>1, <3>2
    <2>2. \A p \in Paths : p < k \/ (p = k /\ pc = "placed") => Placed(p)
      BY <1>1 DEF CalmInv, Control, InstalledTo
    <2>3. InstalledTo'
      BY <1>2, <1>7, <2>1, <2>2 DEF InstalledTo
    <2>4. MarkerNamed'
      BY <1>1, <2>1 DEF CalmInv, Control, MarkerNamed
    <2> QED BY <1>5, <1>6, <1>7, <2>1, <2>3, <2>4
            DEF Control, StageReady, NotYet, Settling, Recoverable, UndoneFrom,
                SuccessIsSettled
  <1> QED BY <1>8, <1>9

\* The two renames of the commit move one path, and put only the new object live.
LEMMA MovingStep ==
  ASSUME CalmInv, NEW o \in {"ok", "raised", "late"}, Displace(o) \/ Place(o)
  PROVE  Papers' /\ Control'
  <1>1. /\ UNCHANGED <<journal, marker, recipe, tool, attempt, pre, post>>
        /\ pc \in {"displace", "place"}
        /\ \/ pc' = "undo" /\ k' = N
           \/ Done(o) /\ k' = k /\ pc = "displace" /\ pc' = "displaced"
           \/ Done(o) /\ k' = k /\ pc = "place" /\ pc' = "placed"
    BY DEF Displace, Place, disk, port, counts, history, GoOnOrUndo, Done
  <1>2. /\ TypeInv /\ journal # None /\ k \in 1..N
        /\ live \in Tree /\ stage \in Tree /\ backup \in Tree
    BY <1>1 DEF CalmInv, ConservationInv, TypeInv, TypeOK, JournalHeld,
       CursorInRange, Committing
  <1>3. Unpublished /\ Unpublished'
    BY <1>1, SamePapers DEF CalmInv, Control, NotYet
  <1>4. AllHere'
    <2>1. AllConserved'
      BY RenameStep DEF CalmInv
    <2> QED BY <1>3, <2>1 DEF AllConserved, PathConserved, AllHere
  <1>5. \A p \in Paths : p # k => live'[p] = live[p] /\ stage'[p] = stage[p]
                                  /\ backup'[p] = backup[p]
    BY <1>2 DEF Displace, Place, With, Without
  <1>6. JournalTells' /\ Owned'
    BY <1>1, SamePapers DEF CalmInv, Papers
  <1>7. \A p \in Paths : live'[p] # Torn
    <2>1. \A p \in Paths : post'[p] # Torn /\ pre'[p] # Torn /\ None # Torn
      BY <1>1, <1>2, AbsentAssumption DEF CalmInv, Papers, JournalTells
    <2> QED BY <1>4, <2>1 DEF AllHere, Untouched, Displaced, Placed
  <1>8. MarkerNamed'
    BY <1>1 DEF CalmInv, Control, MarkerNamed
  <1>9. CASE pc' = "undo"
    BY <1>1, <1>2, <1>4, <1>6, <1>7, <1>8, <1>9, Turned DEF Papers, ScratchIsHarmless
  <1>10. CASE pc' # "undo"
    <2>1. \A p \in Paths : p < k => Placed(p)
      BY <1>1 DEF CalmInv, Control, InstalledTo
    <2>2. \A p \in Paths : p < k => Placed(p)'
      BY <1>1, <1>2, <1>5, <2>1 DEF Placed
    <2>3. pc' = "placed" => Placed(k)'
      <3>1. pc' = "placed" => stage'[k] = None
        BY <1>1, <1>2, <1>10 DEF Place, Displace, Without
      <3>2. post'[k] # None
        BY <1>1, <1>2, AbsentAssumption DEF CalmInv, Papers, JournalTells
      <3> QED BY <1>1, <1>2, <1>4, <1>10, <3>1, <3>2 DEF AllHere, Untouched, Displaced, Placed
    <2>4. InstalledTo'
      BY <1>1, <1>10, <2>2, <2>3 DEF InstalledTo
    <2> QED BY <1>1, <1>3, <1>4, <1>6, <1>7, <1>8, <1>10, <2>4
            DEF Papers, ScratchIsHarmless, Control, StageReady, NotYet, Settling,
                Recoverable, UndoneFrom, SuccessIsSettled
  <1> QED BY <1>9, <1>10

\* The marker seals the journal's payload, all of which is live.
LEMMA MarkingStep ==
  ASSUME CalmInv, NEW o \in {"ok", "raised", "late"}, PublishMarker(o)
  PROVE  Papers' /\ Control'
  <1>1. /\ UNCHANGED <<live, stage, backup, journal, recipe, tool, attempt, pre,
                       post>>
        /\ pc = "marker"
        /\ \/ pc' = "undo" /\ k' = N
           \/ Done(o) /\ pc' = "published"
        /\ marker' = IF Done(o) THEN NewMarker(journal.tid) ELSE marker
    BY DEF PublishMarker, payload, port, counts, history, GoOnOrUndo, Done
  <1>2. /\ TypeInv /\ TypeOK /\ journal # None /\ journal.tid \in Nat
        /\ live \in Tree /\ post \in Tree
    BY <1>1, Numbers
    DEF CalmInv, ConservationInv, TypeInv, TypeOK, JournalHeld, Committing
  <1>3. \A p \in Paths : Placed(p)
    BY <1>1 DEF CalmInv, Control, InstalledTo
  <1>4. live = post
    <2>1. \A p \in Paths : live[p] = post[p]
      BY <1>3 DEF Placed
    <2>2. live = [p \in Paths |-> live[p]] /\ post = [p \in Paths |-> post[p]]
      BY <1>2
    <2> QED BY <2>1, <2>2, Zenon
  <1>5. AllHere'
    BY <1>1, <1>3 DEF AllHere, Placed
  <1>6. JournalTells' /\ ScratchIsHarmless'
    BY <1>1 DEF CalmInv, Papers, JournalTells, ScratchIsHarmless
  <1>7. Owned' /\ MarkerNamed'
    <2>1. CASE ~Done(o)
      BY <1>1, <2>1, SamePapers DEF CalmInv, Papers, Control, MarkerNamed
    <2>2. CASE Done(o)
      <3>1. marker' # None
        BY <1>1, <1>2, <2>2, RecordTypes
      <3>2. /\ marker'.tid = journal.tid /\ marker'.recipe = recipe
            /\ marker'.tool = tool /\ marker'.seal = live
        BY <1>1, <2>2 DEF NewMarker
      <3>3. journal.tid <= attempt
        BY <1>2 DEF CalmInv, ConservationInv, JournalNamed
      <3> QED BY <1>1, <1>4, <3>1, <3>2, <3>3
              DEF Owned, OwnMarker, MarkerMatches, MarkerNamed
    <2> QED BY <2>1, <2>2
  <1>8. CASE pc' = "undo"
    BY <1>1, <1>2, <1>5, <1>6, <1>7, <1>8, Turned DEF Papers
  <1>9. CASE pc' = "published"
    BY <1>1, <1>4, <1>6, <1>7, <1>9
    DEF Papers, Control, StageReady, NotYet, InstalledTo, Settling, Recoverable,
        UndoneFrom, SuccessIsSettled
  <1> QED BY <1>1, <1>8, <1>9

\* The journal's own flag changes nothing that recovery looks at.
LEMMA FlagStep ==
  ASSUME CalmInv, NEW o \in {"ok", "raised", "late"}, RecordPublished(o)
  PROVE  Papers' /\ Control'
  <1>1. /\ UNCHANGED <<live, stage, backup, marker, recipe, tool, attempt, pre,
                       post>>
        /\ pc = "published" /\ pc' = "sync"
        /\ journal' = journal \/ journal' = Rewritten(journal.phase, TRUE)
    BY DEF RecordPublished, payload, port, counts, history
  <1>2. journal # None /\ ~Unpublished /\ live = post
    BY <1>1 DEF CalmInv, ConservationInv, TypeInv, JournalHeld, Committing,
       NoneWaiting, Control, Settling
  <1>3. OwnMarker /\ MarkerMatches /\ marker.seal = post
    BY <1>2, Own
  <1>4. /\ journal'.tid = journal.tid /\ journal'.recipe = journal.recipe
        /\ journal'.had = journal.had
    BY <1>1 DEF Rewritten
  <1>5. Papers'
    BY <1>1, <1>2, <1>3, <1>4
    DEF CalmInv, Papers, JournalTells, Owned, OwnMarker, MarkerMatches,
        ScratchIsHarmless
  <1>6. MarkerNamed'
    BY <1>1 DEF CalmInv, Control, MarkerNamed
  <1> QED BY <1>1, <1>2, <1>5, <1>6
          DEF Control, StageReady, NotYet, InstalledTo, Settling, Recoverable,
              UndoneFrom, SuccessIsSettled

\* The rollback undoes one rename of the path at its cursor.
LEMMA UndoingStep ==
  ASSUME CalmInv, NEW o \in {"ok", "raised", "late"}, MoveAside(o) \/ PutBack(o)
  PROVE  Papers' /\ Control'
  <1>1. /\ UNCHANGED <<journal, marker, recipe, tool, attempt, pre, post, k>>
        /\ pc = "undo" /\ k > 0
        /\ pc' = "undo" \/ (pc' = "idle" /\ outcome' = "error")
    BY DEF MoveAside, PutBack, disk, port, counts, history, GoOn, Stop
  <1>2. /\ TypeInv /\ journal # None /\ k \in Paths
        /\ live \in Tree /\ stage \in Tree /\ backup \in Tree
    <2>1. TypeInv /\ k \in 0..N
      BY DEF CalmInv, ConservationInv, TypeInv, TypeOK
    <2>2. k \in Paths
      BY <1>1, <2>1, ConstantsAssumption
    <2> QED BY <1>1, <2>1, <2>2 DEF TypeInv, TypeOK, JournalHeld
  <1>3. AllHere
    BY <1>1, <1>2 DEF CalmInv, Control, Recoverable
  <1>4. /\ \A p \in Paths : post[p] # None /\ pre[p] # Torn
        /\ journal.had[k] <=> pre[k] # None
    BY <1>2, AbsentAssumption DEF CalmInv, Papers, JournalTells
  <1>5. \A p \in Paths : p # k => live'[p] = live[p] /\ stage'[p] = stage[p]
                                  /\ backup'[p] = backup[p]
    BY <1>2 DEF MoveAside, PutBack, With, Without
  <1>6. (Untouched(k) \/ Displaced(k) \/ Placed(k))' /\ live'[k] # Torn
    <2>0. Untouched(k) \/ Displaced(k) \/ Placed(k)
      BY <1>2, <1>3 DEF AllHere
    <2>1. live[k] # Torn
      BY <1>2 DEF CalmInv, Papers, ScratchIsHarmless
    <2>2. CASE ~Done(o)
      BY <1>1, <2>0, <2>1, <2>2 DEF MoveAside, PutBack, Untouched, Displaced, Placed
    <2>3. CASE Done(o) /\ MoveAside(o)
      <3>1. live[k] # None /\ stage[k] = None /\ (backup[k] # None \/ ~journal.had[k])
        BY <2>3 DEF MoveAside, UndoSound, NewInLive, InLive, InStage, InBackup, Had
      <3>2. live'[k] = None /\ stage'[k] = live[k] /\ backup'[k] = backup[k]
        BY <1>1, <1>2, <2>3 DEF MoveAside, With, Without
      <3> QED BY <1>1, <1>2, <1>4, <2>0, <3>1, <3>2, AbsentAssumption
              DEF Untouched, Displaced, Placed
    <2>4. CASE Done(o) /\ PutBack(o)
      <3>1. live[k] = None /\ backup[k] # None
        BY <2>4 DEF PutBack, InLive, InBackup
      <3>2. live'[k] = backup[k] /\ backup'[k] = None /\ stage'[k] = stage[k]
        BY <1>1, <1>2, <2>4 DEF PutBack, With, Without
      <3> QED BY <1>1, <1>2, <1>4, <2>0, <3>1, <3>2 DEF Untouched, Displaced, Placed
    <2> QED BY <2>2, <2>3, <2>4
  <1>7. AllHere'
    BY <1>1, <1>3, <1>5, <1>6 DEF AllHere, Untouched, Displaced, Placed
  <1>8. UndoneFrom'
    <2>1. \A p \in Paths : p > k => p # k /\ Untouched(p)
      BY <1>1, <1>2 DEF CalmInv, Control, UndoneFrom
    <2> QED BY <1>1, <1>5, <2>1 DEF UndoneFrom, Untouched
  <1>9. Papers'
    <2>1. ScratchIsHarmless'
      BY <1>5, <1>6 DEF CalmInv, Papers, ScratchIsHarmless
    <2> QED BY <1>1, <2>1, SamePapers DEF CalmInv, Papers
  <1>10. MarkerNamed'
    BY <1>1 DEF CalmInv, Control, MarkerNamed
  <1> QED BY <1>1, <1>7, <1>8, <1>9, <1>10
          DEF Control, StageReady, NotYet, InstalledTo, Settling, Recoverable,
              SuccessIsSettled

\* A path with nothing left to rename is as it was before the commit.
LEMMA UndonePathStep ==
  ASSUME CalmInv, PathUndone
  PROVE  Papers' /\ Control'
  <1>1. /\ UNCHANGED <<live, stage, backup, journal, marker, recipe, tool, attempt,
                       pre, post>>
        /\ pc = "undo" /\ k > 0 /\ k' = k - 1
        /\ pc' = IF k = 1 THEN "undone" ELSE "undo"
    BY DEF PathUndone, payload, disk, port, counts, history
  <1>2. journal # None /\ k \in Paths
    <2>1. k \in 0..N /\ journal # None
      BY <1>1 DEF CalmInv, ConservationInv, TypeInv, TypeOK, JournalHeld
    <2> QED BY <1>1, <2>1, ConstantsAssumption
  <1>3. AllHere
    BY <1>1, <1>2 DEF CalmInv, Control, Recoverable
  <1>4. Untouched(k)
    <2>1. /\ live[k] # None => backup[k] = None /\ journal.had[k]
          /\ ~(journal.had[k] /\ backup[k] # None)
      BY DEF PathUndone, NewInLive, InLive, InBackup, Had
    <2>2. post[k] # None /\ (journal.had[k] <=> pre[k] # None)
      BY <1>2, AbsentAssumption DEF CalmInv, Papers, JournalTells
    <2> QED BY <1>2, <1>3, <2>1, <2>2 DEF AllHere, Untouched, Displaced, Placed
  <1>5. UndoneFrom'
    <2>1. \A p \in Paths : p > k - 1 \/ (k = 1) => p > k \/ p = k
      BY <1>2, ConstantsAssumption
    <2>2. \A p \in Paths : p > k => Untouched(p)
      BY <1>1 DEF CalmInv, Control, UndoneFrom
    <2> QED BY <1>1, <1>4, <2>1, <2>2 DEF UndoneFrom, Untouched
  <1>6. AllHere' /\ Papers'
    BY <1>1, <1>3, SamePapers DEF AllHere, Untouched, Displaced, Placed, CalmInv
  <1>7. MarkerNamed'
    BY <1>1 DEF CalmInv, Control, MarkerNamed
  <1> QED BY <1>1, <1>5, <1>6, <1>7
          DEF Control, StageReady, NotYet, InstalledTo, Settling, Recoverable,
              SuccessIsSettled

\* The rollback removes its journal, or fails.
LEMMA ClosingStep ==
  ASSUME CalmInv, NEW o \in {"ok", "raised", "late"}, CloseUndo(o)
  PROVE  Papers' /\ Control'
  <1>1. /\ UNCHANGED <<live, stage, backup, marker, recipe, tool, attempt, pre, post>>
        /\ journal' = IF Done(o) THEN None ELSE journal
        /\ \/ pc' = "select" /\ Done(o)
           \/ pc' = "idle" /\ outcome' = "error"
    BY DEF CloseUndo, payload, port, counts, history, Stop, Done
  <1>2. CASE ~Done(o)
    <2>1. attempt \in Nat
      BY Numbers DEF CalmInv, ConservationInv
    <2> QED BY <1>1, <1>2, <2>1, Quiet
  <1>3. CASE Done(o)
    <2>1. Papers'
      BY <1>1, <1>3 DEF CalmInv, Papers, JournalTells, Owned, ScratchIsHarmless
    <2>2. MarkerNamed'
      BY <1>1 DEF CalmInv, Control, MarkerNamed
    <2> QED BY <1>1, <1>3, <2>1, <2>2
            DEF Control, StageReady, NotYet, InstalledTo, Settling, Recoverable,
                UndoneFrom, SuccessIsSettled
  <1> QED BY <1>2, <1>3

LEMMA CalmStep == Calm /\ CalmInv /\ [Next]_vars => CalmInv'
  <1> SUFFICES ASSUME Calm, CalmInv, [Next]_vars PROVE CalmInv'
    OBVIOUS
  <1>1. ConservationInv' /\ SealInv'
    BY ConservationStep, SealStep DEF CalmInv, ConservationInv
  <1>2. Papers' /\ Control'
    <2>1. CASE \E o \in {"ok", "raised", "late"} : Fallible(o)
      <3>1. PICK o \in {"ok", "raised", "late"} : Fallible(o)
        BY <2>1
      <3>2. CASE Adopt(o)
        BY <3>2, AdoptStep
      <3>3. CASE CreateJournal(o)
        BY <3>3, BeginStep
      <3>4. CASE RecordBackup(o) \/ RecordDisplaced(o) \/ RecordInstall(o)
                 \/ RecordPlaced(o)
        BY <3>4, RecordingStep
      <3>5. CASE Displace(o) \/ Place(o)
        BY <3>5, MovingStep
      <3>6. CASE PublishMarker(o)
        BY <3>6, MarkingStep
      <3>7. CASE RecordPublished(o)
        BY <3>7, FlagStep
      <3>8. CASE SyncGame(o) \/ Finish(o)
        BY <3>8, CleanStep
      <3>9. CASE MoveAside(o) \/ PutBack(o)
        BY <3>9, UndoingStep
      <3>10. CASE CloseUndo(o)
        BY <3>10, ClosingStep
      <3> QED BY <3>1, <3>2, <3>3, <3>4, <3>5, <3>6, <3>7, <3>8, <3>9, <3>10
              DEF Fallible
    <2>2. CASE Recover
      BY <2>2, RecoverStep
    <2>3. CASE FastPath \/ SkipFastPath \/ DoNotAdopt
      BY <2>3, SelectStep
    <2>4. CASE \E n \in 0..N, same, bundle \in BOOLEAN : Extract(n, same, bundle)
      BY <2>4, ExtractStep
    <2>5. CASE RejectStage \/ Crash \/ UndoRefused \/ Cleanup
      BY <2>5, CleanStep DEF Cleanup
    <2>6. CASE PathUndone
      BY <2>6, UndonePathStep
    <2>7. CASE Upgrade \/ UNCHANGED vars \/ \E f \in BOOLEAN : Launch(f)
      BY <2>7, OutsideStep
    <2> QED BY <2>1, <2>2, <2>3, <2>4, <2>5, <2>6, <2>7
            DEF Next, RunStep, Choose, Undo
  <1> QED BY <1>1, <1>2 DEF CalmInv

LEMMA CalmAlways ==
  ASSUME Calm
  PROVE  Spec => []CalmInv
  <1>1. CalmInv /\ [Next]_vars => CalmInv'
    BY CalmStep
  <1> QED BY CalmInit, <1>1, PTL DEF Spec

\* While a journal exists and nothing is published, no object of any path is
\* lost: commit_stage and rollback_transaction, whoever runs them.
THEOREM NothingIsLost ==
  ASSUME Calm
  PROVE  Spec => []Conserved
  <1>1. CalmInv => Conserved
    <2> SUFFICES ASSUME CalmInv, journal # None
                 PROVE  Published \/ AllHere
      BY DEF Conserved, AllHere
    <2>1. CASE Unpublished
      BY <2>1, Unfinished DEF CalmInv
    <2>2. CASE ~Unpublished
      <3>1. OwnMarker /\ marker.seal = post
        BY <2>2, Own
      <3>2. live = post \/ AllHere
        BY DEF CalmInv, Control, Recoverable
      <3> QED BY <3>1, <3>2 DEF Published
    <2> QED BY <2>1, <2>2
  <1> QED BY <1>1, CalmAlways, PTL

\* What an interrupted deletion left (discard_path) never becomes live.
THEOREM ScratchHarmless ==
  ASSUME Calm
  PROVE  Spec => []ScratchIsHarmless
  <1>1. CalmInv => ScratchIsHarmless
    BY DEF CalmInv, Papers
  <1> QED BY <1>1, CalmAlways, PTL

\* After a success, recover_transaction of the next run finds its own marker in
\* whatever journal is left, and so never rolls back what was told installed.
THEOREM SuccessSettled ==
  ASSUME Calm
  PROVE  Spec => []SuccessIsSettled
  <1>1. CalmInv => SuccessIsSettled
    BY DEF CalmInv, Control
  <1> QED BY <1>1, CalmAlways, PTL

\* rollback_transaction removes its journal only when every path, and the whole
\* stage, is what it was when commit_stage began.
THEOREM RollbackIsExact ==
  ASSUME Calm
  PROVE  Spec => RollbackRestores
  <1>1. CalmInv /\ pc = "undone" => live = pre /\ stage = post
    <2> SUFFICES ASSUME CalmInv, pc = "undone" PROVE live = pre /\ stage = post
      OBVIOUS
    <2>1. \A p \in Paths : live[p] = pre[p] /\ stage[p] = post[p]
      BY DEF CalmInv, Control, UndoneFrom, Untouched
    <2>2. live \in Tree /\ pre \in Tree /\ stage \in Tree /\ post \in Tree
      BY DEF CalmInv, ConservationInv, TypeInv, TypeOK
    <2>3. /\ live = [p \in Paths |-> live[p]] /\ pre = [p \in Paths |-> pre[p]]
          /\ stage = [p \in Paths |-> stage[p]] /\ post = [p \in Paths |-> post[p]]
      BY <2>2
    <2> QED BY <2>1, <2>3, Zenon
  <1> QED BY <1>1, CalmAlways, PTL DEF RollbackRestores

(***************************************************************************)
(* The refinement: under the invariant above, journal, backup, stage and   *)
(* marker together keep the promise of Publication.                        *)
(***************************************************************************)

Told    == pc = "idle" /\ outcome = "success"
PostIsLive == live = post
Resting == pc \in {"select", "adopt", "extract", "commit"} \cup Sealing

\* A run that is neither committing nor rolling back stands on one payload.
LEMMA Rested == CalmInv /\ Resting => ~Unsettled
  <1> SUFFICES ASSUME CalmInv, journal # None, Resting PROVE Published /\ ~Undoing
    BY DEF Unsettled
  <1>1. ~Unpublished
    BY DEF CalmInv, ConservationInv, NoneWaiting, Resting
  <1>2. pc # "adopt" => live = post
    BY DEF CalmInv, Control, Settling, Resting
  <1>3. pc # "adopt" /\ ~Undoing
    BY DEF CalmInv, Control, Settling, Resting
  <1> QED BY <1>1, <1>2, <1>3, Own DEF Published

\* Before its marker, and while it rolls back, a transaction is pending.
LEMMA Pending == CalmInv /\ (Unpublished \/ Undoing) => Unsettled
  <1> SUFFICES ASSUME CalmInv, Unpublished \/ Undoing PROVE Unsettled
    OBVIOUS
  <1>1. journal # None
    BY DEF Unpublished, CalmInv, ConservationInv, TypeInv, JournalHeld
  <1>2. CASE Undoing
    BY <1>1, <1>2 DEF Unsettled
  <1>3. CASE Unpublished
    <2>1. ~OwnMarker
      BY <1>1, <1>3, Numbers DEF Unpublished, OwnMarker, CalmInv, ConservationInv
    <2> QED BY <1>1, <2>1 DEF Unsettled, Published
  <1> QED BY <1>2, <1>3

\* What is published is the payload that was pending.
LEMMA PublishedPayload == CalmInv /\ Published => PostIsLive
  <1> SUFFICES ASSUME CalmInv, Published PROVE live = post
    BY DEF PostIsLive
  <1>1. journal # None /\ ~Unpublished
    BY Numbers DEF Published, OwnMarker, Unpublished, CalmInv, ConservationInv
  <1> QED BY <1>1, Own DEF Published

\* A payload is not the absence of one.
LEMMA Payloads ==
  ASSUME CalmInv
  PROVE  /\ live \in Tree /\ pre \in Tree /\ post \in Tree
         /\ post # None /\ None \notin Tree
  BY NoneAssumption DEF CalmInv, ConservationInv, TypeInv, TypeOK

\* The steps of the promise, by what becomes of the pending payload.
LEMMA Stays ==
  ASSUME Unsettled' <=> Unsettled, Told' <=> Told,
         IF Unsettled THEN UNCHANGED <<pre, post>> ELSE UNCHANGED live
  PROVE  [Promise!Next]_Promise!vars
  BY DEF Promise!vars, Told

LEMMA Tells ==
  ASSUME ~Unsettled, ~Unsettled', UNCHANGED live
  PROVE  [Promise!Next]_Promise!vars
  <1>1. CASE Told'
    BY <1>1 DEF Promise!Next, Promise!Tell, Told
  <1>2. CASE ~Told'
    BY <1>2 DEF Promise!Next, Promise!Forget, Told
  <1> QED BY <1>1, <1>2

LEMMA Forgets ==
  ASSUME Unsettled' <=> Unsettled, ~Told', UNCHANGED <<live, pre, post>>
  PROVE  [Promise!Next]_Promise!vars
  BY DEF Promise!Next, Promise!Forget, Told

LEMMA Publishes ==
  ASSUME CalmInv, Unsettled, ~Unsettled', live' = post, Told' <=> Told
  PROVE  [Promise!Next]_Promise!vars
  BY Payloads DEF Promise!Next, Promise!Publish, Told

LEMMA Abandons ==
  ASSUME CalmInv, Unsettled, ~Unsettled', live' = pre, Told' <=> Told
  PROVE  [Promise!Next]_Promise!vars
  BY Payloads DEF Promise!Next, Promise!Abandon, Told

LEMMA Begins ==
  ASSUME CalmInv', ~Unsettled, Unsettled', pre' = live, ~Told', post' \in Tree
  PROVE  [Promise!Next]_Promise!vars
  BY DEF Promise!Next, Promise!Begin, Told

\* Documents that stay say the same, unless a rollback starts or ends.
LEMMA SameDocuments ==
  ASSUME UNCHANGED <<live, journal, marker>>, Undoing' <=> Undoing
  PROVE  Unsettled' <=> Unsettled
  BY DEF Unsettled, Published, OwnMarker

LEMMA PromiseStep ==
  Calm /\ CalmInv /\ CalmInv' /\ [Next]_vars => [Promise!Next]_Promise!vars
  <1> SUFFICES ASSUME Calm, CalmInv, CalmInv', [Next]_vars
               PROVE  [Promise!Next]_Promise!vars
    OBVIOUS
  <1>0. /\ Resting' => ~Unsettled'
        /\ Unpublished' \/ Undoing' => Unsettled'
        /\ Published' => live' = post'
    <2>1. CalmInv' /\ Resting' => ~Unsettled'
      BY Rested, PTL
    <2>2. CalmInv' /\ (Unpublished' \/ Undoing') => Unsettled'
      BY Pending, PTL
    <2>3. CalmInv' /\ Published' => live' = post'
      <3>1. CalmInv' /\ Published' => PostIsLive'
        BY PublishedPayload, PTL
      <3> QED BY <3>1 DEF PostIsLive
    <2> QED BY <2>1, <2>2, <2>3
  <1>1. CASE \E f \in BOOLEAN : Launch(f)
    <2>1. /\ UNCHANGED <<live, journal, marker, pre, post>>
          /\ pc = "idle" /\ pc' = "recover"
      BY <1>1 DEF Launch, payload, disk, history
    <2> QED BY <2>1, SameDocuments, Forgets DEF Told
  <1>2. CASE Upgrade
    <2>1. /\ UNCHANGED <<live, journal, marker, pre, post>>
          /\ UNCHANGED pc /\ outcome' = "none"
      BY <1>2 DEF Upgrade, payload, disk, history
    <2> QED BY <2>1, SameDocuments, Forgets DEF Told
  <1>3. CASE UNCHANGED vars
    <2>1. UNCHANGED <<live, journal, marker, pre, post, pc, outcome>>
      BY <1>3 DEF vars, payload, disk, history
    <2> QED BY <2>1, SameDocuments, Stays DEF Told
  <1>4. CASE NothingToRecover \/ RefuseJournal \/ FinishPublished
    <2>1. /\ UNCHANGED <<live, journal, marker, pre, post>>
          /\ pc = "recover" /\ pc' \notin {"undo", "undone"} /\ ~Told'
      BY <1>4 DEF NothingToRecover, RefuseJournal, FinishPublished, Stop, payload,
         disk, history, Told
    <2> QED BY <2>1, SameDocuments, Forgets
  <1>5. CASE StartUndo
    <2>1. /\ UNCHANGED <<live, journal, marker, pre, post>>
          /\ pc = "recover" /\ pc' = "undo" /\ journal # None
          /\ ~(OwnMarker /\ Sealed) \/ FALSE \in Verdicts(live)
      BY <1>5 DEF StartUndo, Calm, payload, disk, history
    <2>2. ~Published
      <3> SUFFICES ASSUME Published PROVE FALSE
        OBVIOUS
      <3>1. live = post /\ ~Unpublished
        BY PublishedPayload, Numbers
        DEF PostIsLive, Published, OwnMarker, Unpublished, CalmInv, ConservationInv
      <3>2. OwnMarker /\ Sealed
        BY <2>1, <3>1, Own DEF Sealed
      <3>3. Whole(live) /\ Present(live)
        BY <2>1, <3>1, AbsentAssumption
        DEF CalmInv, Papers, JournalTells, Whole, Present
      <3> QED BY <2>1, <3>2, <3>3 DEF Verdicts
    <2>3. Unsettled /\ Unsettled'
      BY <1>0, <2>1, <2>2 DEF Unsettled
    <2> QED BY <2>1, <2>3, Stays DEF Told
  <1>6. CASE \/ FastPath \/ SkipFastPath \/ DoNotAdopt \/ RejectStage \/ Cleanup
             \/ \E n \in 0..N, same, bundle \in BOOLEAN : Extract(n, same, bundle)
             \/ \E o \in {"ok", "raised", "late"} :
                  Adopt(o) \/ RecordPublished(o) \/ SyncGame(o) \/ Finish(o)
    <2>1. UNCHANGED live /\ Resting /\ (Resting' \/ pc' = "idle")
      BY <1>6 DEF FastPath, SkipFastPath, DoNotAdopt, RejectStage, Cleanup,
         DropBackup, DropStage, DropCache, DropJournal, Extract, Adopt,
         RecordPublished, SyncGame, Finish, GoOn, Stop, payload, Resting
    <2>2. ~Unsettled
      BY <2>1, Rested
    <2>3. ~Unsettled'
      <3>1. CASE Resting'
        BY <1>0, <3>1
      <3>2. CASE pc' = "idle" /\ ~\E o \in {"ok", "raised", "late"} : Adopt(o)
        <4>1. UNCHANGED <<journal, marker>>
          BY <1>6, <3>2 DEF FastPath, SkipFastPath, DoNotAdopt, RejectStage, Cleanup,
             DropBackup, DropStage, DropCache, DropJournal, Extract,
             RecordPublished, SyncGame, Finish, disk
        <4>2. ~Undoing /\ ~Undoing'
          BY <2>1, <3>2 DEF Resting
        <4> QED BY <2>1, <2>2, <4>1, <4>2, SameDocuments
      <3>3. CASE \E o \in {"ok", "raised", "late"} : Adopt(o)
        <4>1. journal' = None
          BY <3>3 DEF Adopt, CalmInv, Control, Settling
        <4> QED BY <4>1 DEF Unsettled
      <3> QED BY <2>1, <3>1, <3>2, <3>3
    <2> QED BY <2>1, <2>2, <2>3, Tells
  <1>7. CASE \E o \in {"ok", "raised", "late"} : CreateJournal(o)
    <2>1. PICK o \in {"ok", "raised", "late"} : CreateJournal(o)
      BY <1>7
    <2>2. /\ UNCHANGED <<live, marker, attempt>> /\ pc = "commit"
          /\ pc' \in {"backup", "idle"} /\ ~Told'
      BY <2>1 DEF CreateJournal, payload, counts, GoOn, Stop, Told
    <2>3. ~Unsettled
      BY <2>2, Rested DEF Resting
    <2>4. CASE ~Done(o)
      <3>1. UNCHANGED <<journal, pre, post>>
        BY <2>1, <2>4 DEF CreateJournal, history
      <3> QED BY <2>2, <3>1, SameDocuments, Forgets
    <2>5. CASE Done(o)
      <3>1. journal'.tid = attempt /\ pre' = live /\ post' = stage
        BY <2>1, <2>5 DEF CreateJournal
      <3>2. journal' # None => Unsettled'
        BY <1>0, <2>2, <3>1 DEF Unpublished, CalmInv, Control, MarkerNamed
      <3>3. journal' = None => ~Unsettled'
        BY DEF Unsettled
      <3>4. post' \in Tree
        BY <3>1 DEF CalmInv, ConservationInv, TypeInv, TypeOK
      <3> QED BY <2>2, <2>3, <3>1, <3>2, <3>3, <3>4, Begins, Tells
    <2> QED BY <2>4, <2>5
  <1>8. CASE \E o \in {"ok", "raised", "late"} :
               \/ RecordBackup(o) \/ Displace(o) \/ RecordDisplaced(o)
               \/ RecordInstall(o) \/ Place(o) \/ RecordPlaced(o)
    <2>1. /\ UNCHANGED <<pre, post>> /\ pc \in Looping
          /\ pc' \in Looping \cup {"marker", "undo"}
      BY <1>8 DEF RecordBackup, Displace, RecordDisplaced, RecordInstall, Place,
         RecordPlaced, GoOnOrUndo, history
    <2>2. Unsettled
      BY <2>1, Pending DEF CalmInv, Control, NotYet
    <2>3. Unsettled'
      BY <1>0, <2>1 DEF CalmInv, Control, NotYet
    <2> QED BY <2>1, <2>2, <2>3, Stays DEF Told
  <1>9. CASE \E o \in {"ok", "raised", "late"} : PublishMarker(o)
    <2>1. /\ UNCHANGED <<live, pre, post>> /\ pc = "marker"
          /\ pc' \in {"published", "undo"}
      BY <1>9 DEF PublishMarker, GoOnOrUndo, payload, history
    <2>2. Unsettled
      BY <2>1, Pending DEF CalmInv, Control, NotYet
    <2>3. CASE pc' = "undo"
      BY <1>0, <2>1, <2>2, <2>3, Stays DEF Told
    <2>4. CASE pc' = "published"
      <3>1. ~Unsettled'
        BY <1>0, <2>4 DEF Resting
      <3>2. \A p \in Paths : live[p] = post[p]
        BY <2>1 DEF CalmInv, Control, InstalledTo, Placed
      <3>3. live = [p \in Paths |-> live[p]] /\ post = [p \in Paths |-> post[p]]
        BY Payloads
      <3>4. live' = post
        BY <2>1, <3>2, <3>3, Zenon
      <3> QED BY <2>1, <2>2, <2>4, <3>1, <3>4, Publishes DEF Told
    <2> QED BY <2>1, <2>3, <2>4
  <1>10. CASE Undoing /\ ~\E o \in {"ok", "raised", "late"} : CloseUndo(o) /\ Done(o)
    <2>1. /\ UNCHANGED <<pre, post>> /\ journal' = journal
          /\ Undoing' \/ (pc' = "idle" /\ ~Told')
      <3>1. CASE \E o \in {"ok", "raised", "late"} : MoveAside(o) \/ PutBack(o)
        BY <3>1 DEF MoveAside, PutBack, GoOn, Stop, disk, history, Told
      <3>2. CASE \E o \in {"ok", "raised", "late"} : CloseUndo(o)
        BY <1>10, <3>2 DEF CloseUndo, Done, Stop, history, Told
      <3>3. CASE Undo
        BY <3>3 DEF Undo, UndoRefused, PathUndone, Stop, disk, history, Told
      <3>4. CASE Crash
        BY <3>4 DEF Crash, disk, history, Told, CalmInv, SealInv, RunSilent
      <3>5. CASE UNCHANGED vars
        BY <1>10, <3>5 DEF vars, disk, history
      <3>6. \/ \E o \in {"ok", "raised", "late"} : MoveAside(o) \/ PutBack(o) \/ CloseUndo(o)
            \/ Undo \/ Crash \/ UNCHANGED vars
        BY <1>10 DEF Next, RunStep, Fallible, Recover, NothingToRecover,
           RefuseJournal, FinishPublished, StartUndo, Choose, FastPath,
           SkipFastPath, DoNotAdopt, RejectStage, Extract, Cleanup, DropBackup,
           DropStage, DropCache, DropJournal, Launch, Upgrade, Adopt,
           CreateJournal, RecordBackup, Displace, RecordDisplaced, RecordInstall,
           Place, RecordPlaced, PublishMarker, RecordPublished, SyncGame, Finish
      <3> QED BY <3>1, <3>2, <3>3, <3>4, <3>5, <3>6
    <2>2. Unsettled /\ ~Told
      BY <1>10, Pending DEF Told
    <2>3. ~Told'
      BY <2>1 DEF Told
    <2>4. CASE Unsettled'
      BY <2>1, <2>2, <2>3, <2>4, Stays
    <2>5. CASE ~Unsettled'
      <3>1. Published'
        BY <2>1, <2>2, <2>5 DEF Unsettled
      <3> QED BY <1>0, <2>1, <2>2, <2>3, <2>5, <3>1, Publishes
    <2> QED BY <2>4, <2>5
  <1>11. CASE \E o \in {"ok", "raised", "late"} : CloseUndo(o) /\ Done(o)
    <2>1. UNCHANGED live /\ pc = "undone" /\ journal' = None /\ ~Told'
      BY <1>11 DEF CloseUndo, Stop, payload, Told, Done
    <2>2. \A p \in Paths : live[p] = pre[p]
      BY <2>1 DEF CalmInv, Control, UndoneFrom, Untouched
    <2>3. live = [p \in Paths |-> live[p]] /\ pre = [p \in Paths |-> pre[p]]
      BY Payloads
    <2>4. live' = pre
      BY <2>1, <2>2, <2>3, Zenon
    <2>5. Unsettled /\ ~Unsettled' /\ ~Told
      BY <2>1, Pending DEF Unsettled, Told
    <2> QED BY <2>1, <2>4, <2>5, Abandons
  <1>12. CASE Crash /\ ~Undoing
    <2>1. UNCHANGED <<live, journal, marker, pre, post>> /\ pc' = "idle" /\ ~Told'
      BY <1>12 DEF Crash, disk, history, Told, CalmInv, SealInv, RunSilent
    <2> QED BY <1>12, <2>1, SameDocuments, Forgets
  <1> QED BY <1>1, <1>2, <1>3, <1>4, <1>5, <1>6, <1>7, <1>8, <1>9, <1>10, <1>11, <1>12
          DEF Next, RunStep, Fallible, Recover, Choose, Undo, UndoRefused,
              PathUndone, MoveAside, PutBack, CloseUndo

\* The installation refines Publication: for a launcher that reads only what is
\* live and what was told, the payload is replaced in one step or not at all.
THEOREM InstallAtomic ==
  ASSUME Calm
  PROVE  Spec => InstallsAtomically
  <1>1. Init => Promise!Init
    <2> SUFFICES ASSUME Init PROVE Promise!Init
      OBVIOUS
    <2>1. CalmInv /\ journal = None /\ outcome = "none"
      BY CalmInit DEF Init
    <2> QED BY <2>1, Payloads DEF Promise!Init, Unsettled
  <1>2. CalmInv /\ CalmInv' /\ [Next]_vars => [Promise!Next]_Promise!vars
    BY PromiseStep
  <1> QED BY <1>1, <1>2, CalmAlways, PTL DEF Spec, InstallsAtomically, Promise!Spec
=============================================================================
