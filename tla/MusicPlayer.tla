---------------------------- MODULE MusicPlayer ----------------------------
(***************************************************************************)
(* src/src/music_player.c: the game asks for tracks, play, pause and stop; *)
(* a thread of the loader looks at the requests every ten milliseconds,    *)
(* decodes the track and feeds an OpenAL source, which plays its queue of  *)
(* buffers on its own.  The requests and every tick run under one lock, so *)
(* requests fall between ticks; the source goes on at any moment.          *)
(*                                                                         *)
(* A track is a number of buffers' worth of sound.  A decode may come up   *)
(* empty although the track has more.  Names no track has, and volume,     *)
(* change nothing here.  The loader starts and ends the player once.       *)
(***************************************************************************)
EXTENDS Naturals, Integers, Sequences

CONSTANTS
  Tracks,
  Broken,       \* tracks that cannot be opened
  NumBuffers,
  TrackLen,     \* bound: buffers a track fills
  MaxStalls,    \* bound: decodes that come up empty before the end
  None

ASSUME PlayerAssumption ==
  /\ Broken \subseteq Tracks /\ None \notin Tracks
  /\ NumBuffers \in Nat \ {0} /\ TrackLen \in Nat \ {0} /\ MaxStalls \in Nat

VARIABLES
  phase,        \* off, on, joining, down
  pc,           \* what the thread does next in its tick
  todo,         \* processed buffers it still has to refill
  pending,      \* s_pending_path
  wantPlay, wantPause, loop,
  track,        \* the open track; None while s_open is 0
  left,         \* what is left to decode of it
  source,       \* AL_SOURCE_STATE
  queue,        \* the source's buffers, each with the track it holds
  done,         \* how many of them a source that is not stopped has played
  asked,        \* history: play was called, and neither stop nor the end came
  stranded,     \* history: a failed open left the old track's buffers queued
  stalls

game == <<pending, wantPlay, wantPause, loop>>
al   == <<source, queue, done>>
history == <<asked, stranded>>
vars == <<phase, pc, todo, game, track, left, al, history, stalls>>

Init ==
  /\ phase = "off" /\ pc = "sleep" /\ todo = 0
  /\ pending = None /\ wantPlay = FALSE /\ wantPause = FALSE /\ loop = FALSE
  /\ track = None /\ left = 0
  /\ source = "initial" /\ queue = <<>> /\ done = 0
  /\ asked = FALSE /\ stranded = FALSE /\ stalls = 0

(***************************************************************************)
(* Decoder and source.                                                     *)
(***************************************************************************)

\* fill_buffer, for up to n buffers of a track with l left: how many it fills.
Filled(l, n) == IF loop \/ n <= l THEN n ELSE l
Decodes(l, n) ==
  {Filled(l, n)} \cup IF stalls < MaxStalls THEN 0..Filled(l, n) - 1 ELSE {}
Decoded(l, n, got) ==
  /\ left' = IF got <= l THEN l - got ELSE (l - got) % TrackLen
  /\ stalls' = IF got < Filled(l, n) THEN stalls + 1 ELSE stalls

Stopped == IF source = "initial" THEN source ELSE "stopped"

\* A stopped source has played all it holds.
Processed == IF source = "stopped" THEN Len(queue) ELSE done

\* The queue prime_and_play leaves.
Primed(t, got) == [i \in 1..got |-> [buf |-> i, track |-> t]]

PrimeAndPlay(t, l, got) ==
  /\ queue' = Primed(t, got) /\ done' = 0
  /\ source' = IF got > 0 THEN "playing" ELSE Stopped
  /\ Decoded(l, NumBuffers, got)
  /\ stranded' = FALSE

\* The source reaches the end of a buffer.
Mix ==
  /\ source = "playing"
  /\ IF done + 1 = Len(queue) THEN source' = "stopped" /\ done' = 0
     ELSE done' = done + 1 /\ UNCHANGED source
  /\ UNCHANGED <<phase, pc, todo, game, track, left, queue, history, stalls>>

(***************************************************************************)
(* A tick of stream_thread.                                                *)
(***************************************************************************)

Wake ==
  /\ pc = "sleep" /\ phase \in {"on", "joining"}
  /\ pc' = IF phase = "on" THEN "load" ELSE "ended"
  /\ UNCHANGED <<phase, todo, game, track, left, al, history, stalls>>

\* Whether or not it opens, the old track is closed.
HonourLoad ==
  /\ pc = "load" /\ pc' = "start"
  /\ pending' = None
  /\ IF pending = None THEN UNCHANGED <<track, left, al, stranded, stalls>>
     ELSE IF pending \in Broken
     THEN /\ track' = None
          /\ stranded' = (stranded \/ queue # <<>>)
          /\ UNCHANGED <<left, al, stalls>>
     ELSE /\ track' = pending
          /\ IF wantPlay
             THEN \E got \in Decodes(TrackLen, NumBuffers) :
                    PrimeAndPlay(pending, TrackLen, got)
             ELSE left' = TrackLen /\ UNCHANGED <<al, stranded, stalls>>
  /\ UNCHANGED <<phase, todo, wantPlay, wantPause, loop, asked>>

Start ==
  /\ pc = "start" /\ pc' = "pauseEdge"
  /\ IF ~wantPlay \/ track = None
     THEN UNCHANGED <<wantPlay, left, al, stranded, stalls>>
     ELSE IF source \in {"playing", "paused"}
     THEN wantPlay' = FALSE /\ UNCHANGED <<left, al, stranded, stalls>>
     ELSE \E got \in Decodes(left, NumBuffers) :
            PrimeAndPlay(track, left, got) /\ wantPlay' = (got = 0)
  /\ UNCHANGED <<phase, todo, pending, wantPause, loop, track, asked>>

PauseEdge ==
  /\ pc = "pauseEdge" /\ pc' = "count"
  /\ source' = CASE track # None /\ wantPause /\ source = "playing" -> "paused"
                 [] track # None /\ ~wantPause /\ source = "paused" -> "playing"
                 [] OTHER -> source
  /\ UNCHANGED <<phase, todo, game, track, left, queue, done, history, stalls>>

\* Mutant: buffers are recycled during a pause, too.
Feeds_Always == track # None

Feeds == track # None /\ ~wantPause

Count ==
  /\ pc = "count"
  /\ IF Feeds THEN pc' = "recycle" /\ todo' = Processed
     ELSE pc' = "sleep" /\ UNCHANGED todo
  /\ UNCHANGED <<phase, game, track, left, al, history, stalls>>

\* A buffer nothing was decoded for leaves the queue.
Recycle ==
  /\ pc = "recycle" /\ todo > 0
  /\ todo' = todo - 1
  /\ \E got \in Decodes(left, 1) :
       /\ queue' = Tail(queue) \o [i \in 1..got |-> [buf |-> Head(queue).buf, track |-> track]]
       /\ Decoded(left, 1, got)
  /\ done' = IF source = "stopped" THEN done ELSE done - 1
  /\ UNCHANGED <<phase, pc, game, track, source, asked, stranded>>

\* Mutant: an underrun is not noticed.
Restarts_Never == FALSE

Restarts == source = "stopped" /\ queue # <<>>

Requeue ==
  /\ pc = "recycle" /\ todo = 0 /\ pc' = "sleep"
  /\ source' = IF Restarts THEN "playing" ELSE source
  /\ asked' = IF queue = <<>> /\ left = 0 THEN wantPlay ELSE asked
  /\ stranded' = (stranded /\ queue # <<>>)
  /\ UNCHANGED <<phase, todo, game, track, left, queue, done, stalls>>

Tick == Wake \/ HonourLoad \/ Start \/ PauseEdge \/ Count \/ Recycle \/ Requeue

(***************************************************************************)
(* Calls.                                                                  *)
(***************************************************************************)

\* Without the decoder library the player stays off and every call returns.
InitPlayer ==
  /\ phase = "off" /\ phase' = "on"
  /\ UNCHANGED <<pc, todo, game, track, left, al, history, stalls>>

\* The lock is free and the player on.
Free == phase = "on" /\ pc = "sleep"

Load(t) ==
  /\ Free /\ pending' = t
  /\ UNCHANGED <<phase, pc, todo, wantPlay, wantPause, loop, track, left, al,
                 history, stalls>>

Play ==
  /\ Free /\ wantPlay' = TRUE /\ wantPause' = FALSE /\ asked' = TRUE
  /\ UNCHANGED <<phase, pc, todo, pending, loop, track, left, al, stranded, stalls>>

Pause ==
  /\ Free /\ wantPause' = TRUE
  /\ UNCHANGED <<phase, pc, todo, pending, wantPlay, loop, track, left, al,
                 history, stalls>>

\* Mutant: the request survives the stop.
Withdrawn_Kept == wantPlay

Withdrawn == FALSE

Stop ==
  /\ Free /\ wantPlay' = Withdrawn /\ asked' = FALSE
  /\ IF track = None THEN UNCHANGED <<al, stranded>>
     ELSE source' = Stopped /\ queue' = <<>> /\ done' = 0 /\ stranded' = FALSE
  /\ UNCHANGED <<phase, pc, todo, pending, wantPause, loop, track, left, stalls>>

SetLoop(on) ==
  /\ Free /\ loop' = on
  /\ UNCHANGED <<phase, pc, todo, pending, wantPlay, wantPause, track, left, al,
                 history, stalls>>

\* music_deinit tells the thread to end without the lock, and waits for it.
Deinit ==
  /\ phase = "on" /\ phase' = "joining"
  /\ UNCHANGED <<pc, todo, game, track, left, al, history, stalls>>

Joined == pc = "ended"

Teardown ==
  /\ phase = "joining" /\ Joined
  /\ phase' = "down" /\ track' = None
  /\ source' = "gone" /\ queue' = <<>> /\ done' = 0
  /\ UNCHANGED <<pc, todo, game, left, history, stalls>>

Game == \/ \E t \in Tracks : Load(t)
        \/ \E on \in BOOLEAN : SetLoop(on)
        \/ Play \/ Pause \/ Stop
        \/ InitPlayer \/ Deinit

Next == Mix \/ Tick \/ Game \/ Teardown

Spec == Init /\ [][Next]_vars

\* The thread is scheduled and the source plays on.  As the thread sleeps
\* nearly all the time ("~10ms; buffers hold ~180ms each"), buffers also end
\* while it does, and not only ever within a tick.  The game owes nothing.
FairSpec == Spec /\ WF_vars(Tick) /\ WF_vars(Mix) /\ SF_vars(Mix /\ pc = "sleep")

(***************************************************************************)
(* Properties.                                                             *)
(***************************************************************************)

\* Every variable stays in its type, a buffer is queued at most once, and a
\* source that plays has something left to play (prime_and_play fills all the
\* buffers, so none may be queued then).
TypeOK ==
  /\ phase \in {"off", "on", "joining", "down"}
  /\ pc \in {"sleep", "load", "start", "pauseEdge", "count", "recycle", "ended"}
  /\ todo \in 0..NumBuffers
  /\ pending \in Tracks \cup {None} /\ track \in (Tracks \ Broken) \cup {None}
  /\ wantPlay \in BOOLEAN /\ wantPause \in BOOLEAN /\ loop \in BOOLEAN
  /\ left \in 0..TrackLen /\ stalls \in 0..MaxStalls
  /\ asked \in BOOLEAN /\ stranded \in BOOLEAN
  /\ source \in {"initial", "playing", "paused", "stopped", "gone"}
  /\ queue \in Seq([buf : 1..NumBuffers, track : Tracks \ Broken])
  /\ \A i, j \in DOMAIN queue : queue[i].buf = queue[j].buf => i = j
  /\ done \in 0..NumBuffers
  /\ source \in {"playing", "paused"} => done < Len(queue)

\* Music plays only if the game asked since it last stopped it or the music
\* ended; buffers that a failed open left behind excepted, which music_stop
\* does not reach (music_stop, stream_thread).
PlaysAsAsked == source = "playing" /\ ~stranded => asked

\* From its pause edge on, a tick leaves the source silent while the game
\* wants a pause: not even an underrun starts it again (stream_thread).
PauseHolds ==
  [][wantPause /\ track # None /\ pc' # pc /\ pc \in {"pauseEdge", "count", "recycle"}
       => source' # "playing"]_vars

\* What the game last asked for, and what is heard.
Chosen(t)  == IF pending = None THEN track = t /\ left > 0 ELSE pending = t
Hears(t)   == source = "playing" /\ queue[done + 1].track = t
Changes(t) == ~asked \/ wantPause \/ phase # "on" \/ pending \notin {None, t}
              \/ (pending = None /\ track # t)

Waiting(t) == t \notin Broken /\ wantPlay /\ Chosen(t) /\ ~Changes(t)

\* A track that play was called for, and that is not decoded to its end, is
\* heard unless the game asks otherwise first, however load, play and pause
\* fall between the ticks and whatever buffers the source still has queued, as
\* long as the decoder has something ready: if it has not, the request may
\* already be consumed (stream_thread).
EventuallyPlays ==
  \A t \in Tracks : Waiting(t) ~> (Hears(t) \/ Changes(t) \/ stalls # 0)
=============================================================================
