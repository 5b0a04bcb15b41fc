# Verification of the Swordigo port

This directory holds the TLA+ models of the port of Swordigo to handheld Linux
consoles: the launcher `Swordigo.sh`, the installer `nxextract.py` and the ELF
loader under `src/`. The modules are translated from the code and are checked
with TLC on small instances; their safety properties and refinements are also
proved with TLAPS, for every value of the constants.

- [The system](#the-system)
- [Components, and what makes each correct](#components-and-what-makes-each-correct)
- [Modules](#modules)
- [Runs](#runs)
- [Where the code and its comments disagree](#where-the-code-and-its-comments-disagree)
- [Proofs](#proofs)
- [What is not modelled](#what-is-not-modelled)
- [Plan](#plan)

## The system

A frontend starts `Swordigo.sh`. The script sets its traps, takes the instance
lock, makes sure that the game's data are installed, and supervises the game as
its child until it can hand the screen back. The data come from the user's own
APK: `nxextract.py install`, a child of the script, finds it among the user's
files, extracts it into a stage under the eyes of a setup UI, and replaces the
payload in the game directory by a transaction with a journal and a marker. The game is a closed Android library that the loader maps
into its own process; the loader gives it JNI, files, threads, OpenGL ES and
music.

    frontend --signals--> Swordigo.sh --exit status, result document-- nxextract.py
                             |   (fd 9: instance lock, inherited)       |  install.lock
                             |                                          |  journal, marker,
                             v  TERM, KILL, wait                        v  stage, backup
                          loader (main.c) <------- payload -------- game directory
                             |  JNI, GL, pthread, AL
                             v
                          libswordigo.so (closed)

The hard behaviour is in five places.

1. The installer may die at any instruction and is started again, perhaps
   after an update of the port, and everything it does later rests on what it
   finds on disk.
2. Several launchers and extractors may run at once and share two locks, one
   result document and one game directory; a killed launcher leaves its
   extractor behind with the launcher's lock.
3. Signals reach the script between any two commands, and bash's `wait` ends
   early on each.
4. Which of the user's files make the payload must not depend on their names,
   their directories or their number, and a setup screen that fails, hangs or
   dies must stop neither the install nor its report.
5. In the loader, the music thread, the OpenAL mixer and the game interleave;
   the game's threads share mutexes that are made at their first use; one
   graphics driver is given copies of the game's buffers whose addresses go stale
   as the game reallocates them; and the pad may go away with its buttons held.

## Components, and what makes each correct

| Component | State | Operations | Correct when | Models |
|---|---|---|---|---|
| Payload transaction (`nxextract.py` 3521-4035) | committed paths in live, stage, backup; `transaction.json`; marker; stage state; cache | `commit_stage`, `rollback_transaction`, `recover_transaction`, cleanup, fast path, adoption, extraction | no old or new object is ever lost or duplicated; the payload changes in one step; what is published stays; each failure is recovered | `Transaction`, `Publication`, `TransactionProofs` |
| Install command, workspace lock, result (`nxextract.py` 4530-4720) | `install.lock`, `nxextract-result.json` | lock, clear result, install, handlers, finish | a success document means a complete payload; nobody changes a document somebody still needs | `InstallRun`, `InstallRunProofs` |
| Launcher: instance lock, extraction phase, gate | fd 9, rotated result, exit status | lock, rotate, run, judge | one game; never on an incomplete payload | `InstallRun`, `InstallRunProofs` |
| Launcher: traps and supervision (`Swordigo.sh` 1-57, 769-861) | handlers, child pid and start time, counters | signal handlers, wait, grace, kill, rewait, report | ends after the game and with its status; the screen goes back | `Launcher`, `InstallRunProofs` |
| Music player (`music_player.c`) | requests, open track, AL source and its queue | load, play, pause, stop, loop, tick | plays what was asked, nothing else; a pause holds | `MusicPlayer`, `MusicPlayerProofs` |
| Buffer bridge (`gl_latebind.c` 83-533) | bindings, copies, array pointers | buffer calls, pointers, draws | indistinguishable from a driver with buffer objects; no freed memory read | `BufferBridge`, `ClientArrays`, `BufferBridgeProofs` |
| Extraction, resume, hooks (`nxextract.py` 2945-3072, 3184-3521, 4437-4464, 4605-4665) | source cache, stage tree, `state.json`, hook markers | open the bundle, prepare the stage, copy items, run hooks, validate, discard | a resumed stage equals a fresh one; no stage is refused for ever | `Extraction`, `ExtractionProofs` |
| Setup UI session (`nxextract.py` 3866-4300) | runtime directory, helper process, proof, stop file | find a directory, start, await the proof, watch, stop | nothing outlives the install; its end is shown; a required UI is seen | `UISession`, `UISessionProofs` |
| Progress document (`nxextract.py` 1332-1430) | state line, guard | update, done, fail | agrees with the outcome | `UISession` |
| Source discovery and plan selection (`nxextract.py` 1838-2925) | none | discover, group, plan, resolve | the one payload the files offer, or a refusal with a reason | `PlanSelection`, `InstallRunProofs` |
| Pad input (`main.c` 296-869) | pad, remembered buttons, keys, triggers | events, `update_pad`, `update_cursor` | touches in order; nothing stays pressed behind what is held | `TouchInput`, `TouchInputProofs` |
| pthread bridge (`pthread_bridge.c`) | guest slots, host mutexes, `g_lock`, once controls | init, lock, unlock, destroy, once | the game sees bionic's mutexes and once | `PthreadBridge`, `GuestSync`, `PthreadBridgeProofs` |
| GL provider repair, frame proof, JNI table, crash handler | small | | | planned last |
| ELF loader, imports, build, vendored release tool | | | | no protocol to check |

`PROJECT.json` lists every component with its sources, and under `hazards` each
place where the code can go wrong in a way that a test would hardly reach, with
the properties that watch it. Four have none: there the code does go wrong, the
properties that would see it except the case or fail, and their notes and the
weaknesses below say which.

## Modules

### Publication, Transaction, MCTransaction

`Transaction` is the installer as a machine over durable state. A commit path
is `1..N`; what a directory holds at a path is `None`, `Torn` (a tree some
entries of which are gone) or the number of the attempt that made it. The
variables `live`, `stage`, `backup`, `journal`, `marker`, `stageFor` and `cache`
are files; `pc`, `k`, `after`, `cleaned`, `force` are where the process is, and
mean nothing once `pc = "idle"`. `pre` and `post` are history: live and stage when
the journal was written.

Every durable step of the code is an action. One that can raise takes a
parameter `o`: `"ok"`; `"raised"`, nothing happened; `"late"`, it took effect and
raised afterwards, as `durable_rename` does when the `fsync` after it fails. An
error in the commit leads to the rollback (`GoOnOrUndo`), one in the rollback or
the cleanup to the end of the run, exactly as the `try` blocks say. `Crash` ends
the process between any two steps and in the middle of a deletion. `Upgrade` is
an update of the port between two runs, to another recipe or another extractor.
`Verdicts` is payload validation: a whole tree passes, an incomplete one fails, a
torn one may do either, since the rules are bounds on counts and sizes.

Assumed of the machine: `os.replace` is atomic, and what was done is durable in
the order it was done. The code calls `fsync` for this; a file system that
reorders renames is outside the model.

`Publication` is what the launcher is promised: one payload, replaced in one
step or not at all, and success told only while nothing is pending.
`InstallsAtomically` says that `Transaction` implements it; the current payload is
`pre` while a journal is unsettled and `live` otherwise.

| Action | Code |
|---|---|
| `Launch`, `NothingToRecover`, `RefuseJournal`, `FinishPublished`, `StartUndo` | `recover_transaction` and the journal's validation |
| `FastPath`, `SkipFastPath`, `Adopt`, `DoNotAdopt`, `RejectStage`, `Extract` | the branches of `install_command` |
| `CreateJournal`, `RecordBackup`, `Displace`, `RecordDisplaced`, `RecordInstall`, `Place`, `RecordPlaced`, `PublishMarker`, `RecordPublished`, `SyncGame` | `commit_stage`, in order |
| `DropBackup`, `DropStage`, `DropCache`, `DropJournal` | `_finalize_published_transaction` |
| `UndoRefused`, `MoveAside`, `PutBack`, `PathUndone`, `CloseUndo` | `rollback_transaction` |

### PlanSelection, MCPlanSelection

From `--input` or the search directories to a plan, one action per function and,
where a function loops over directories, bundles or attempts, per turn. A file is
a record of what the code can find out about it: its kind by content, its package,
its members, whether it can be opened. A pattern is the set of names it matches, a
template the function from a name to its destination, and a content is valid for
a rule and an ABI or not. What the code tells apart only by size is told apart
only by `Size`.

The search directories, the patterns of a rule, the rules and the ABIs are lists
whose order decides something, and they keep it. Any other list of the code (the
files of a directory, the bundles, the groups, the candidates of one content) is
a set here, of which the actions take a member in any order: the order in which the
code sorts these is one of them. `Selections` is what all rules of a recipe may come
to for one group and ABI, a result of `ChooseOne` or `ChooseMany` each.

The reference the run checks against does not follow the code: `Shares` is what a
rule may contribute, `Offers` what a group of archives offers under an ABI, a share of
every rule with no two items for one place, and `Offered` is what all of them do.
`TheOnlyPayload` says that what is selected is offered and that nothing different is.

| Action | Code |
|---|---|
| `TakeInput`, `Search`, `Scan` | `discover_inputs` |
| `OpenCompanions`, `OpenBundle`, `GroupDirect` | `build_candidate_groups` |
| `Attempt` | one turn of `resolve_plan`, with `build_plan_for`, `_choose_one`, `_choose_many` |
| `Resolve` | the choice among the plans |

### Extraction, ExtractionProofs, MCExtraction

What happens between a plan and a stage that may be committed, over runs that die
or fail at any step (`End`), with other files of the player or another recipe
in between. On disk are the extracted inner APK (`cache`), the files of the stage
(`stage`, with what made each), the `.nxpart` of a copy that was cut (`parts`),
`state.json` and the hook markers. A hook changes one file; its checkpoint holds
while the whole of its effect is there, which is what the code asks of a recipe
(a hook without a checkpoint runs again in every run). An item's content is its
plan, so that two plans of one fingerprint (`Fingerprint`) leave stages that differ.

| Action | Code |
|---|---|
| `Start`, `Update` | a run of `install_command` finds its plan; other files, another recipe |
| `CacheMember` | `_copy_zip_member_resume`: a bundle's inner APK, by size and CRC |
| `Prepare`, `DropStage`, `DropHooks`, `WriteState` | `_prepare_stage_state`, in order |
| `Resume`, `Copy`, `Replace`, `Chmod` | `_resume_item_valid`, `_copy_item` |
| `SkipHook`, `RunHook`, `WriteMarker` | `run_hooks` |
| `Validate`, `Discard`, `DiscardState` | validation of the stage, and what a refused one leaves |
| `Commit` | the stage goes to `Transaction` |

`StagedIsFresh` compares what reaches the commit with what one run from nothing
would have made. It excepts two things, which the code does not keep: see below.

### UISession, UISessionProofs, MCUISession

One install and its helper `nxextract-ui`. `cfg` is the run's option and
environment: `XDG_RUNTIME_DIR`, `TMPDIR`, what kind of directory each path is, and
whether the UI is required. The extractor walks `prepare`, `made`, `log`, `spawn`,
`await`, `recheck`, `work`, `guard`, `write` and the handlers; a stop is `signal`, the three timeouts
`wait`, `term` and `kill`, and `clean`. The
helper is external (`Prove` a good or a bad proof, `Die`), and so are a cleaner of
temporary files (`Lose`) and another run's failure (`Rival`). Time is the polls left
of `READY_TIMEOUT_SECONDS`. `Interrupt` is the KeyboardInterrupt, which no handler
of `install_command` takes. Removing a directory may fail, in `OpenDirectory` as in
`Clean`: the code passes over the `OSError` or logs it, and the directory stays. `kept` is
history, the directories for which this was so; `NothingIsLeft` lets no other stay.

| Action | Code |
|---|---|
| `Find`, `MakeDirectory`, `OpenDirectory` | `_find_binary`; `create_private_ui_runtime_directory` and the trust in each candidate |
| `OpenLog`, `Spawn`, `Await`, `Recheck` | `start`, its polls for the proof and its second look at helper and proof |
| `Work`, `Guard`, `Update` | `progress.update` with `assert_visible` before it |
| `Handle`, `Report`, `Finish`, `Finally` | the handlers and the end of `install_command` |
| `Signal`, `Wait`, `Clean` | `stop` and `_cleanup_runtime` |

### InstallRun, InstallRunProofs, MCInstallRun

Processes on one game directory. A launcher walks `off`, `rotate`, `extract`, `gate`,
`game`, or leaves an `orphan`; an extractor walks the stages of `install_command`, with
`install.lock` held in those of `Locked`. The payload is one of `old`, `mixed`, `ready`,
and `before` is what the journal would bring back: the commit is one step to
`mixed` and one to `ready`, which `InstallsAtomically` above allows. `ready` means
sealed, and a rollback restores files, never a marker: when a forced run over a ready
payload fails after writing its own marker, what comes back is `old` (`Raise`), and
the next run adopts or extracts again, as `Transaction` does from `Sealed`. An extractor
can be killed, raise, or be run by hand, some with `--force-source`. `LockRoot` gives each
launcher the directory of its instance lock; the run gives both the same.

A launcher can be killed at any point. Its extractor inherited fd 9 and keeps the
instance lock; its game was started with `9>&-` and becomes an `orphan`, which plays on
and holds nothing, so that the next launcher starts another game beside it.

An `OSError` while a ready payload is read makes the code take it for one that is not
valid, and costs a fault here. In the fast path it sends a run without `--force-source`
to `unread` (`Prepare`), from where it adopts the payload or commits over it. In the recovery
(`Recover`) it rolls the payload back if a journal was kept; whether one was is left open,
so the model may roll back where the code finds no journal. `robbed` is history: why a run
took the complete payload away from a game or a launcher about to start one.
`GamePlaysReady` allows `forced` and `unread` and no other reason.

| Action | Code |
|---|---|
| `TakeLock`, `LockBusy`, `Clear`, `Recover`, `FastPath`, `Prepare`, `Adopt` | `install_command` under `WorkspaceLock`, in order, with `marker_fast_valid` and `try_adopt_existing` |
| `BeginCommit`, `EndCommit`, `Publish`, `Close` | the commit, `finish("success")`, the end |
| `Raise`, `Report`, `Exit`, `Kill` | the handlers, without the lock; the end by a signal |
| `Open`, `Rotate`, `Judge`, `Gate`, `GameEnds`, `LauncherDies` | `Swordigo.sh` |

### Launcher, MCLauncher

The script around the game. `pc` names the next command, `traps` which of the
three handlers are set, and each `Signal` is handled at once, as bash does between
commands, or breaks off the `wait` (`WaitReturns`). The child ends when it likes,
or on TERM, as `Obeys` says. `truth` is the status the game really ended with.
Process identity is `pid` and `start`: a TERM reaches the child only when both are
known, as `nxbootstrap_child_alive` compares the start time.

### MusicPlayer, MusicPlayerProofs, MCMusicPlayer

A tick of `stream_thread` is the sequence `Wake`, `HonourLoad`, `Start`, `PauseEdge`, `Count`,
`Recycle` (once a buffer), `Requeue`, one action for each look at the AL source, since `Mix`, the source that
plays its queue, may come between any two. The game's calls need the lock and so
come only while the thread sleeps; `music_deinit` sets its flag without it. The
queue holds the buffers with the track each was decoded from, so that a buffer of
the old track is told from one of the new. `asked` and `stranded` are history.

What the model shows about `music_stop` is worth knowing: after a track failed to
open, `s_open` is 0 and `music_stop` leaves the old track's buffers playing.
`PlaysAsAsked` excepts them by `stranded`. Likewise `music_play` after a track was
decoded to its end waits for the next load: `Chosen` asks for something left to
decode. And a decode that comes up empty takes its buffer out of the rotation
until the track is started anew.

### ClientArrays, BufferBridge, BufferBridgeProofs, MCBufferBridge

`ClientArrays` is OpenGL ES 1.1 as the game knows it: buffers by name, arrays that
take their source from the buffer bound when their pointer was set, and draws
that read what the buffers hold then. Where GL leaves a draw undefined anything
may be drawn.

`BufferBridge` is the code: the list of copies with its moves (`Forget`), a heap of
`Blocks` from which `malloc` takes any free one, the state of each array, and the
pointers the driver was last given. `DrawsWhatGLWould` says it implements
`ClientArrays`, with what a buffer holds read through the list and the heap.
A draw that reads a freed block reads `Garbage`; one that reads a block reused by
another buffer reads that buffer's cells, and the refinement catches it.
Assumed: GL calls come from one thread, the game binds only names it generated,
and uses its own memory only with no array buffer bound. Calls for other targets
and the bridge switched off go straight to the driver and are not modelled.

### GuestSync, PthreadBridge, PthreadBridgeProofs, MCPthreadBridge

`GuestSync` is what the game's library may rely on: a mutex has one holder, who may
take it again, and the initializer of a `pthread_once` runs once and to its end
before anyone goes on.

`PthreadBridge` is the code over the host's recursive mutexes. `slot` is the guest's
storage of a mutex: zero, the magic number of a static initializer, or a host
mutex of `heap`, which the allocator may hand out again once it is freed. A call
walks from `look` (the unlocked read of `mtx_real`) over `glock` and `body` (the
work under `g_lock`) and `reread` to `host`. `Run` leaves the call of `b_once` for the
initializer, in which the thread makes further calls, and `Initialized` comes back to
it. The guest is a lawful bionic program, as the module's head says; only what
`imports.c` (438-442) hands out is modelled.

| Action | Code |
|---|---|
| `Look`, `Make`, `Reread` | `mtx_real` |
| `HostLock`, `HostUnlock` | `b_mutex_lock`, `b_mutex_unlock` |
| `CallInit`, `Store` | `b_mutex_init`, which allocates before it takes the lock |
| `CallDestroy`, `Clear` | `b_mutex_destroy` |
| `CallOnce`, `Wait`, `Poll`, `Run`, `Initialized`, `Mark`, `Pass` | `b_once` |

### TouchInput, TouchInputProofs, MCTouchInput

One frame of the main loop is events, `update_pad`, `update_cursor`, and the game.
Between two frames the player may hold anything else, and the pad may be plugged
in, fail to open, be mapped anew or go away. `pad_prev`, `left_prev`, `r2_prev` and
`click_prev` are what the code remembers of the frame before; `down` and `walking`
are what the game has been told, and `sent` the touches of the last step.
A touch is named by what sends it, a button or the cursor. Axes are cut at their
thresholds: a trigger is low, in its hysteresis, or high. One button without and
one with the cursor's finger, one key and one direction stand for the others, which
the code treats alike and apart from each other.

## Runs

| Run | Question | Bounds |
|---|---|---|
| `transaction` | Is the payload replaced in one step or not at all, is nothing lost, and does it end up ready? Updates come only between transactions | 2 paths, 2 faults, 1 forced run, 1 update; 575,000 states |
| `transaction_hostile` | What holds when updates come at any time and reading the payload may fail | 3 faults, 1 update; 1.8 million states |
| `upgrade_torn` | A claim that fails then | 2 paths |
| `install_run` | Two launchers, a run by hand and a forced one: is what they tell each other true, does a live launcher's game run alone, and is a game always started again? | 2 faults (failing steps, read errors, kills); 372,000 states |
| `launcher` | Signals at any moment: whose status is reported, is the screen handed back, does the script end? | 3 signals, the 10 ticks of grace of the code |
| `music` | Is what plays what was asked for, and is what was asked for played? | 3 tracks, one broken; 2 buffers, tracks of 3, 2 empty decodes; 452,000 states |
| `buffer_bridge` | Is the bridge told from a driver with buffer objects, and does a draw read freed memory? | 1 array and the index buffer over 2 buffers of up to 2 cells, 3 blocks, 2 values; symmetry; 72,000 states |
| `pthread_bridge` | Does the game see bionic's mutexes and once, is no host mutex leaked or used after it was freed, and does every call come back? | 2 threads, 2 mutexes starting zero or magic, locked up to twice; 1 once; 2 objects; 66,000 states |
| `selection` | Is what is selected the one payload the files offer, does every refusal have its reason, does it come from one application? | up to 3 of 12 files in 2 directories or named, 3 recipes, 2 ABIs; 302,000 states |
| `extraction` | Is a stage that took several runs the one a single run would make, and does every sequence of runs get there? | 3 payloads, 2 of one fingerprint; 2 items, 3 hooks; 3 runs that die, 2 changes; 292,000 states |
| `ui_session` | Does the install end, show its end, bind a required UI and leave nothing behind that could be removed? | 2 directories, all settings that differ in meaning; 1 poll, 2 failing calls; 1 interrupt; 1.2 million states |
| `touch_input` | Are touches ordered and is nothing left pressed, whatever happens to the pad? | 2 buttons, every input, both kinds of pad; 185,000 states |

Why the bounds are enough. Three files are a bundle or an APK with a companion and a
rival, or three splits; among the twelve are two builds, another application, an
APK without a package, two patches of one size, a broken archive, a bundle of two
packages, and directories and names that differ in case; each of the outcomes and each kind of
rule occurs. Three dying runs and two changes leave a stage of another
payload, half dropped, to a third run; two hooks on one file are the fewest that
can be applied out of order or twice. One poll and one update already put each
event before, between and after; two failing calls make one in the work and one in
the handler. Two commit paths are the fewest with one installed
while another waits, and paths do not interact except through their order. Two
faults make an error in a commit and one in its rollback, or a failed cleanup and
a crash in the next run; `transaction_hostile` adds a third. Two launchers, one
plain and one forced run by hand are every kind of process once, and the kind
that competes with itself twice. Three signals are one in each phase, or three in
the last, where the script ignores them. `NumBuffers` is 4 in the code; 2 is the
least with a queue that is partly played and partly refilled, and a track of 3
ends in the middle of a refill. Of three tracks two can be opened, so that one
follows another while its buffers are still queued. Three blocks for two buffers leave one to allocate before the
old one is freed, as `glBufferData` does. Names, values and blocks are
symmetric in `BufferBridge`: they are only compared. One array is enough for
how a pointer goes stale; that one array's failure stops a draw with several is
read off the `\A` of `Valid` and not run. Two threads and two mutexes are the fewest
with a first use raced by another thread and one mutex held while another is
taken, by an initializer too; two objects for two mutexes make the allocator give
a freed one out again at once. Buttons do not interact, so two show what one
alone may hide; the proofs hold for any number of both. Data that would be numbers
without end in the code (attempt numbers) are bounded through the runs that
make them.

Fairness. `Transaction`: a run keeps executing and the game is launched again and
again without `--force-source`. `InstallRun`: each running process makes progress
and launchers are started again; nobody need run anything by hand or kill
anything. `Launcher`: the script's commands are executed, and the
game owes nothing, nor does the frontend. That the game ends after TERM, which `main.c`
promises by its own exit deadline, is a premise of `ObeyedShutdownCompletes` alone. `MusicPlayer`: the thread is scheduled, the source plays
on, and, because the thread sleeps 10 ms between ticks that take far less while a
buffer lasts some 180 ms (`music_player.c:214`), buffers also end while it sleeps.
Without this last assumption a source could play out its whole queue within each
tick, and each tick would start it again on the same buffers. `PthreadBridge`:
threads run, and a host mutex and `g_lock`, which are free again and again, are got
at last (strong fairness: the host's mutexes are not fair by themselves, but no
thread spins on them); the game lets go of what it holds and ends its
initializers. `UISession`: the extractor runs on, and a helper that got KILL dies; it
owes no proof and no reaction to TERM. `Extraction`: the install is started again and
again and a run goes on unless it dies. `TouchInput` and `PlanSelection` claim nothing
that needs fairness.

Deadlock is checked except where the system may really stop: the script exits, and
the music player is torn down.

## Where the code and its comments disagree

One run ends in a counterexample; `PROJECT.json` has the lines.

- An update of the extractor while a published journal is on disk makes recovery
  roll the published payload back, from a backup that may be partly deleted
  (`upgrade_torn`). Comments promise that such leftovers are harmless.

Weaknesses that the models or the source show and that have no run of their own:

- An update of the recipe while a published journal is on disk makes every later
  run refuse the journal: `EventuallyReady` fails once `UpgradeAnytime` is set.
- The instance lock is in `XDG_RUNTIME_DIR` or in `/tmp`, depending on who starts
  the launcher (`Swordigo.sh:453`): with two directories in `LockRoot`, `OneGame` fails.
- A launcher that is killed under its game frees the instance lock while the game plays
  on, since the game is started with `9>&-` (`Swordigo.sh:811-829`): the next launcher starts
  a second game, which the comment at 451 means to exclude. `OneGame` excepts the orphan.
- An `OSError` while a ready payload is checked counts as "not ready" (`nxextract.py:4383`,
  4400): a run without `--force-source`, by hand or of the next launcher beside an orphan, then
  commits over the payload of a running game. `GamePlaysReady` names this (`unread`).
- With `ReadFaults` in the bounds of `transaction`, one read error while recovery reads
  the published payload back makes it roll that payload back, as an update does
  (`ScratchIsHarmless` fails), and with a third fault adoption may replace the marker
  by which a kept journal would be recognized (`SuccessIsSettled` fails).
- A run that does not get the workspace lock ends in `progress.fail` and `finish("error")`
  (`nxextract.py:4695`), which replaces the document of the run that holds it, although a comment
  (4540-4542) has such a run change nothing. `TheEndIsShown` excepts the progress
  document of a rival; `FreshResultIsKept` speaks of what a launcher has still to read.
- A signal between the traps and `wait` (`Swordigo.sh:812-829`) sends TERM but starts no
  deadline: a game that ignores TERM is then waited for until a second signal.
  `DeadlineHolds` begins where the handlers ignore signals.
- A signal inside the hand-back of the screen after a setup that failed by itself
  ends the script with the hand-back half done (`EarlySignal`).
- The pid of the game may have been reused when TERM or KILL is sent (`Swordigo.sh:795`),
  since the check and the kill are two commands.
- The music's start request is consumed while only the previous track's buffers
  are queued (`music_player.c:176`; the comment at 170 promises a retry), so a decoder with nothing ready
  is not asked again: `EventuallyPlays` speaks of games in which no decode came up empty.
- `fill_buffer` never leaves its loop on a looped track without audio
  (`music_player.c:84`), with the lock held.
- The cursor overlay leaves the vertex pointer on its own stack (`main.c:561`).
- The 129th JNI method name gets the identity of the first (`jni_fake.c:104`).
- LB and the cursor are both finger 9 (`main.c:312` and `:708`): with both held, the
  game sees the finger begin twice, jump between them, and end with the first let
  go. `TouchesAreOrdered` speaks of what each of them sends.
- While there is no pad, buttons and keys that were held stay down for the game
  until a pad is back (`main.c:820`), unlike the cursor: `ButtonsFollow` and
  `NobodyWalksAlone` speak of frames with a pad.
- `b_mutex_destroy` frees the magic number of a statically initialized mutex that was
  never used (`pthread_bridge.c:92`); the model's game destroys what it has used.

Of the installer's other parts:

- An optional UI still makes the install fail when its `ui.log` cannot be
  opened, and an install whose payload is committed is reported as failed when a
  required UI dies before `progress.done`.
- A runtime directory whose removal fails stays for good: the error is logged
  (`nxextract.py:4106-4124`) or passed over (316-322), and nobody tries again.
- The end of the extractor by SIGTERM or SIGKILL leaves its UI behind; so does an
  interrupt within `stop` (`NothingIsLeft` excepts it).
- An item whose run ended between `os.replace` and `chmod` never gets its mode
  (`bared`), and a file that a hook made alone may stem from another plan of the same
  fingerprint: the two exceptions of `StagedIsFresh`. Swordigo's own recipe has
  neither modes nor hooks.
- Hook markers outlive the stage that validation discarded, so a checkpoint must
  recognise the whole effect of its hook; the model's do.
- The `.nxpart` of a killed copy may stay in the stage of a later plan of equal
  fingerprint; only the validation of the tree catches it.
- One stray file in the game data directory keeps the search from looking into
  the game directory itself; one broken archive, or one selection that is not portable,
  ends the whole selection and not only its group.
- Files are compared by size where the archive gives no CRC: two APKs, each taken
  whole by a container rule, count as one payload when their sizes agree, and a
  loose file never equals a member. A destination with `{basename}` makes equal
  files of two names different payloads (`DestinationAssumption` excludes it). Several builds of one package side by side are one set.

## Proofs

`TransactionProofs` proves, for every `N`, every bound and both switches:

- `TypeCorrect`: `Spec => []TypeOK`. The strengthening `TypeInv` adds that a journal
  exists wherever the commit and the rollback use one, and that the cursor `k` is a path there.
- `UnpublishedConserved`: `Spec => []UnpublishedIsConserved`. Until its marker is
  written, each path of a transaction has its old and new object each in exactly
  one directory, whatever raises, crashes, is updated or is unreadable.
- `JournalWritesAhead`: `Spec => []WriteAhead`. Nothing leaves its directory before
  the journal that would bring it back is on disk.

The invariant is `ConservationInv`. Conservation alone is not inductive: that the
next `Displace` finds its path untouched follows from `WaitingPaths` (the paths the
loop has not reached are untouched); that the recorded phase of the path at the
cursor is the one of the step from `CursorRecorded`; that a recovery may trust
`had` from the write-ahead part of `AllConserved`; that a new journal starts with an
empty backup from `NoneWaiting` and `BackupGone`; and that a marker cannot be taken
for that of a later transaction from `JournalNamed`. One lemma treats each kind of
step: those that touch no path (`QuietStep`), those that record (`RecordStep`), the
two renames of the commit (`RenameStep`), those of the rollback (`UndoRenameStep`),
publication, the end of a rollback, and a crash.

- `SuccessSealed`: `Spec => []SuccessIsSealed`. A run that tells success leaves the
  payload of its marker's seal. `SealInv` follows the outcome through the steps: a run
  says nothing before its end, a marker seals a complete tree, and from publication or
  the fast path on the payload is the sealed one.

The other promises need `Calm`: no update with a journal on disk (`UpgradeAnytime`) and a
payload that can be read (`ReadFaults`). Without it they are false: a recovery that cannot
recognize its own marker, because the extractor is another one or the payload
cannot be read, rolls a published payload back (`upgrade_torn`, and the section above).
`transaction` runs under `Calm`, `transaction_hostile` without it. Under `Calm`:

- `NothingIsLost` (`Conserved`), `ScratchHarmless` (`ScratchIsHarmless`), `SuccessSettled`
  (`SuccessIsSettled`) and `RollbackIsExact` (`RollbackRestores`);
- `InstallAtomic`: `Spec => InstallsAtomically`, the refinement of `Publication`.

Their invariant is `CalmInv`, which adds to the two above what the papers say and where
the process is. The papers: the journal tells truly what each path had
(`JournalTells`), and a journal that does not wait for its marker has it, with `post` as its
seal (`Owned`). The process: the loop has placed the paths before its cursor (`InstalledTo`),
whatever touches stage, backup or marker outside of it has the payload live (`Settling`),
the rollback is through above its cursor (`UndoneFrom`). `Recoverable` ties the two: whenever
there is a journal, either its payload is live in full or every path still
has both objects. For the refinement, `Unsettled` journals map to `pre` and all else to
`live`. A step that settles a journal has `live = post`, which is `Publish`, or `live = pre`,
which is `Abandon`; one that opens a journal is `Begin`; every other step leaves the current
payload alone (`Publishes`, `Abandons`, `Begins` and `Stays`; `PromiseStep` sorts the steps).

The assumptions are those named in `Transaction`: at least one path, natural
bounds, and absent and torn objects distinct from each other and from objects.

`PthreadBridgeProofs` proves, for any threads, mutexes, once controls and objects:

- `Typing`: `Spec => []TypeOK`.
- `LiveObject`: `Spec => []UsesTheLiveObject`.
- `BionicSync`: `Spec => ActsLikeBionic`, the refinement of `GuestSync`, under the
  identity on `held`, `inside`, `once` and `past`.

The invariant is `IInv` of the module, which TLC can check as well. That two threads
do not hold one mutex rests on `Holding`: what the guest holds is what the host
says of the slot's object. This survives a call only because what the call found
out stays true until it uses it (`Working`), which needs that an object sits in
one slot (`Slots`), that a thread is where its call says (`Where`), and that one
thread at a time runs an initializer (`Running`). One lemma for each part shows that every
step keeps it; `HostCall` collects what a call knows when it reaches the host.
Assumed are the constants' conditions in `BridgeAssumption`.

- `NoLeak`: `Spec => []NothingLeaks`. The property counts, the invariant `Accounted`
  does not: every object on the heap has a place (`HasPlace`), a slot or an init that is
  about to store it, and only mutexes in use or under destruction have an object at all
  (`InUse`), so that no store writes over one. That the place is only one is `Slots`
  again, and the two cardinalities follow.

`BufferBridgeProofs` proves both properties of `BufferBridge`, for any names, arrays, blocks,
contents and patches:

- `CopiesOwned`: `Spec => []CopiesAreOwned`.
- `DrawsLikeGL`: `Spec => DrawsWhatGLWould`, the refinement of `ClientArrays`.

The first half of the module is lemmas on the list of buffers: what `Find` finds after
an entry is added (`CreatedList`), given another copy, or removed by moving the last one
into its place. On them rests `BufferInv`: one entry for each name and only for names in
use (`Listing`); every array was set from a buffer that is still there, from a deleted
one, or from the game's memory (`Pointing`); no two buffers share a copy, and the
allocated blocks are the copies (`Owned`). `Owned` is what makes `free` and `memcpy`
harmless to others, and so makes a block's cells those of the GL buffer. Then one lemma
for each call shows the step of `ClientArrays` that it is; a draw uses that the pointers
handed to the driver were just refreshed. `BufferAssumption` says that names, places and
what stands for none of them are told apart.

`TouchInputProofs` proves all five properties of `TouchInput` for any set of
buttons. Its invariant says that the game's fingers are those the last frame
remembers (`FingersRemembered`), that what is remembered was read after the pad was
last changed (`ButtonsRead`, `ClickRead`, `KeyAsked`). The only assumption is that no button is
called "cursor".

`InstallRunProofs` proves three machines of one install, which share no variable. Of
the selection it proves, for any files, bundles, recipes, directories and ABIs:

- `SelectsTheOnlyPayload`: `SelectionSpec => []TheOnlyPayload`;
- `RefusalsHaveReasons`: `SelectionSpec => []RefusesForAReason`;
- `SelectsOnePackage`: `SelectionSpec => []OnePackage`.

The first part is about operators: a result of `ChooseOne` or `ChooseMany` without an
error is a share of its rule (`ChooseFits`), and where a rule has a share at all, every
result is that one, up to the archive an item is taken from (`ChooseMatches`: two
candidates either have one content or are refused, and one item per destination is
all of a tree without conflicts). Over the rules it follows that a sound selection is a
payload (`SoundOffers`), and that an attempt at a group with a payload finds it
(`OfferFound`). The invariant `SelectionInv` carries this through the search: what is in a
group was found and is of its application (`GroupsAreFound`), the bundles that were
opened have groups (`BundlesAreGrouped`), whatever a group offers that was tried is among
the plans (`AttemptsAreLeft`) and nothing else is (`PlansArePayloads`). So plans of one
fingerprint are all that is offered, up to what a fingerprint does not see
(`SameFingerprint`); `plans = {}` means that nothing is; and two fingerprints mean two
payloads (`OtherFingerprint`). Assumed are the shape of files and recipes
(`SelectionAssumption`: only APKs have a package, rules have ids of their own, lists are
numbered) and, for the plan that is not missed, `DestinationAssumption`: a rule for one
file writes it to one place.

Of the traps and the supervision it proves `LauncherTyping` and `EndsAfterTheGame`
(`EndsWithTheGame`): the script ends with the game's status, after the game. `Reachable`
says which traps and which child go with each command, `BornLate` that the early traps
are gone before there is a child, and `ToldOfTheGame` that from the hand-back on the child
is dead and `status` is its own.

Of the install it proves `InstallTyping`, `TellsTheTruth`, `PlaysReady`, `PlaysOnce` and
`KeepsFreshResult`, for any launchers and runs by hand. A result is truthful because who
is about to write it holds the lock and has looked (`Telling`); a game plays a ready
payload because the launcher looked, and only a forced run or one that could not read the
payload takes it away: `Judged` says so of orphans too, for every reason recorded in
`robbed`; a
document is fresh because the last one was rotated away (`Rotated`) by the one launcher
that holds the instance lock (`Exclusive`). `PlaysOnce` and `KeepsFreshResult` assume
`SameRoot`: all launchers find their instance lock in the same directory. What `PlaysOnce`
excepts, the game of a killed launcher, the model does reach.

`MusicPlayerProofs` proves `MusicTyping`, `NothingUnasked` and `PauseKept`, for any tracks and
any number of buffers. The queue never holds a buffer twice or more than there are
(`QueueFits`, with the lemmas `Primes`, `Rotates` and `Refills` on sequences); a source
that plays was asked for (`AskedFor`); a tick past its pause edge finds the source
silent (`Silent`).

`ExtractionProofs` proves `ExtractionTyping` and `StageIsDescribed`: between any two
steps, whatever is in the stage was made under the recipe and from a plan of the
fingerprint in `state.json`. `Ordered` is the order that makes it so: the stage is empty
when `state.json` is removed or comes to say something else, and it says what is
expected when files are written. `StageIsFresh` adds `StagedIsFresh`: a stage that goes
to the commit is what one run from nothing makes. What the hooks have done to an item
can be told from the cursor (`ItemsFresh`): an item goes to them only as it was copied,
since a resumed one must have its size and CRC, and each hook finds exactly those before
it applied. A hook's own file needs nothing but that hook (`OwnFiles`), which assumes
that two hooks share a target only if it is an item (`OwnFileAssumption`); a recipe with
two hooks that make one file would leave the last one's.

`UISessionProofs` proves `SessionTyping`, `LeavesNothing`, `ShowsTheEnd` and `WatchesWork` for
any paths, polls and failing calls. Its invariant says who owns the helper and the
directory at each step of the session (`HelperOwned`, `DirectoryOwned`: a directory is in
use, about to be removed, or in `kept`), what the
progress document has been told (`DocumentFollows`), and that work under a required UI
begins with a proof (`Watched`).

The type invariants of these modules are proved and so are not among the properties of the
runs; that of `BufferBridge` is a conjunct of `CopiesAreOwned`, and proved with it.

`SealInv`, `CalmInv`, `Fresh`, `Accounted`, `BufferInv` and `SelectionInv` were checked by TLC on the
instances of the runs before they were proved: it finds in seconds the step that a
conjunct does not survive.

Only model-checked: liveness (`EventuallyReady`, `AlwaysPlaysAgain`,
`ObeyedShutdownCompletes`, `DeadlineHolds`, `EventuallyPlays`, `CallsReturn`,
`AlwaysEnds`, `AlwaysStages`), which depends on fairness and is out of the prover's
reach.

## What is not modelled

- Contents: archives, recipe rules, binary parsers, JSON, the display of
  progress. A validation is its verdict.
- The log file, the percentages and texts of the progress document, and the checks
  of free space, each of which is one more way to fail at a step that may fail.
- How a recipe's patterns and templates are matched and filled in: they are sets
  and functions.
- Journals of versions 1.2.0 to 1.2.5.
- In the launcher: discovery of paths, PortMaster, splash, console settings.
- In the loader: everything but the music player, the buffer bridge, the pthread
  bridge, the pad and the end on TERM. The ELF loader and import tables are
  sequential data processing.
- The memory model: `PthreadBridge` is sequentially consistent. The unlocked read of
  a slot is a data race in C; on AArch64 a thread may see the pointer before the
  mutex it points to.
- Condition variables, rwlocks and trylock of the bridge, which the game is not given.
- Touch screen, mouse and debug taps, which pass straight through.
- Reuse of a process id within one clock tick, and file systems that do not keep
  the order of synced operations.

## Plan

Done: the transaction with its abstract specification; the selection of a plan and
the extraction that lead to it; the setup UI; the processes around it; the launcher's
supervision; the music player; the buffer bridge; the pthread bridge and the pad.

Next, in this order:

1. Journals of older versions as further initial states of `Transaction`, where
   what a path had is guessed.
2. `GlFix` (the one re-execution under its marker), the frame proof, the JNI table
   with its 128 slots and the crash handler.
3. `Extraction` composed with `Transaction` through the stage it leaves.

Every safety property and refinement of the runs is a theorem. Left to prove: what
the next modules bring. That the payload of `InstallRun` (old, mixed, ready) abstracts
the one of `Transaction` is argued from `InstallsAtomically` and `Sealed`, not proved: a
refinement that forgets which payload it is says little, and one that keeps it is
`InstallsAtomically` itself.
