------------------------- MODULE MusicPlayerProofs -------------------------
(***************************************************************************)
(* What the music player does for any tracks, any number of buffers, and   *)
(* any number of empty decodes.                                            *)
(***************************************************************************)
EXTENDS MusicPlayer, TLAPS

Buffers == [buf : 1..NumBuffers, track : Tracks \ Broken]
Once(q) == \A i, j \in DOMAIN q : q[i].buf = q[j].buf => i = j

\* The queue fits the buffers; only a source that plays or pauses is part way
\* through it, and a tick refills no more than was played.
QueueFits ==
  /\ Len(queue) <= NumBuffers
  /\ source \notin {"playing", "paused"} => done = 0
  /\ pc = "recycle" => track # None /\ ~wantPause /\ todo <= Processed

\* Whatever is queued was asked for, or was left behind by a failed open.
AskedFor ==
  /\ wantPlay => asked
  /\ queue # <<>> /\ ~stranded => asked
  /\ queue # <<>> /\ track = None => stranded

\* Past the pause edge nothing plays through a pause.
Silent == pc = "count" /\ wantPause /\ track # None => source # "playing"

IInv == TypeOK /\ QueueFits /\ AskedFor /\ Silent

-----------------------------------------------------------------------------

\* What is left after a decode is a part of a track.
LEMMA DecodeBound ==
  ASSUME NEW l \in 0..TrackLen, NEW n \in 0..NumBuffers, stalls \in 0..MaxStalls,
         NEW got \in Decodes(l, n), Decoded(l, n, got)
  PROVE  got \in 0..n /\ left' \in 0..TrackLen /\ stalls' \in 0..MaxStalls
  <1> USE PlayerAssumption
  <1>1. Filled(l, n) \in 0..n
    BY DEF Filled
  <1>2. got \in 0..n /\ (got < Filled(l, n) => stalls < MaxStalls)
    BY <1>1 DEF Decodes
  <1>3. (l - got) % TrackLen \in 0..TrackLen
    BY <1>2
  <1> QED
    BY <1>2, <1>3 DEF Decoded

\* prime_and_play keeps what there is to say about the queue.
LEMMA Primes ==
  ASSUME NEW t \in Tracks \ Broken, NEW got \in 0..NumBuffers,
         queue' = Primed(t, got)
  PROVE  /\ queue' \in Seq(Buffers) /\ Len(queue') = got /\ Once(queue')
  <1>1. queue' = [i \in 1..got |-> [buf |-> i, track |-> t]]
    BY DEF Primed
  <1>2. \A i \in 1..got : [buf |-> i, track |-> t] \in Buffers
    BY PlayerAssumption DEF Buffers
  <1>3. queue' \in Seq(Buffers) /\ Len(queue') = got
    BY <1>1, <1>2
  <1> QED
    BY <1>1, <1>3 DEF Once

\* A first buffer that leaves the queue, or goes to its end, leaves every buffer
\* once in it.
LEMMA Rotates ==
  ASSUME NEW q, NEW new, NEW length \in Nat \ {0}, NEW got \in 0..1, Once(q),
         DOMAIN q = 1..length, DOMAIN new = 1..(length - 1 + got),
         \A i \in 1..length - 1 : new[i] = q[i + 1],
         got = 1 => new[length].buf = q[1].buf
  PROVE  Once(new)
  <1> DEFINE was(k) == IF k <= length - 1 THEN k + 1 ELSE 1
  <1>1. ASSUME NEW i \in DOMAIN new
        PROVE  was(i) \in 1..length /\ new[i].buf = q[was(i)].buf
    <2>1. i \in 1..length - 1 \/ (got = 1 /\ i = length)
      OBVIOUS
    <2> QED
      BY <2>1
  <1>2. ASSUME NEW i \in DOMAIN new, NEW j \in DOMAIN new,
               new[i].buf = new[j].buf
        PROVE  i = j
    <2>1. \A k, l \in 1..length : q[k].buf = q[l].buf => k = l
      BY DEF Once
    <2>2. was(i) = was(j)
      BY <1>1, <1>2, <2>1
    <2> QED BY <2>2
  <1> QED
    BY <1>2 DEF Once

\* So does the refill of the first buffer.
LEMMA Refills ==
  ASSUME NEW q \in Seq(Buffers), Once(q), q # <<>>,
         NEW t \in Tracks \ Broken, NEW got \in 0..1,
         NEW r, r = [i \in 1..got |-> [buf |-> Head(q).buf, track |-> t]]
  PROVE  /\ Tail(q) \o r \in Seq(Buffers)
         /\ Len(Tail(q) \o r) = Len(q) - 1 + got
         /\ Once(Tail(q) \o r)
  <1>1. Head(q) = q[1] /\ Head(q) \in Buffers
    OBVIOUS
  <1>2. [buf |-> Head(q).buf, track |-> t] \in Buffers
    BY <1>1 DEF Buffers
  <1>3. /\ r \in Seq(Buffers) /\ Len(r) = got
        /\ got = 1 => r[1].buf = q[1].buf
    BY <1>1, <1>2
  <1>4. /\ Tail(q) \o r \in Seq(Buffers) /\ Len(q) \in Nat \ {0}
        /\ Len(Tail(q) \o r) = Len(q) - 1 + got
        /\ \A i \in 1..Len(q) - 1 : (Tail(q) \o r)[i] = q[i + 1]
        /\ got = 1 => (Tail(q) \o r)[Len(q)] = r[1]
    BY <1>3
  <1>5. /\ DOMAIN q = 1..Len(q)
        /\ DOMAIN (Tail(q) \o r) = 1..(Len(q) - 1 + got)
    BY <1>4
  <1> QED
    BY <1>3, <1>4, <1>5, Rotates

LEMMA InitInv == Init => IInv
  <1> SUFFICES ASSUME Init PROVE IInv
    OBVIOUS
  <1>1. /\ 0 \in 0..NumBuffers /\ 0 \in 0..TrackLen /\ 0 \in 0..MaxStalls
        /\ FALSE \in BOOLEAN /\ None \in Tracks \cup {None}
        /\ None \in (Tracks \ Broken) \cup {None}
    BY PlayerAssumption
  <1>2. /\ queue \in Seq([buf : 1..NumBuffers, track : Tracks \ Broken])
        /\ \A i, j \in DOMAIN queue : queue[i].buf = queue[j].buf => i = j
    BY DEF Init
  <1>3. source = "initial"
    BY DEF Init
  <1>4. TypeOK
    BY <1>1, <1>2, <1>3, Zenon DEF Init, TypeOK
  <1>5. QueueFits /\ AskedFor /\ Silent
    BY PlayerAssumption DEF Init, QueueFits, AskedFor, Silent
  <1> QED BY <1>4, <1>5 DEF IInv

\* prime_and_play with a request to play leaves the source in order.
LEMMA PrimeInv ==
  ASSUME IInv, NEW t \in Tracks \ Broken, NEW l \in 0..TrackLen,
         NEW got \in Decodes(l, NumBuffers), PrimeAndPlay(t, l, got), wantPlay
  PROVE  /\ got \in 0..NumBuffers
         /\ left' \in 0..TrackLen /\ stalls' \in 0..MaxStalls
         /\ source' \in {"initial", "playing", "stopped"}
         /\ queue' \in Seq(Buffers) /\ Once(queue') /\ Len(queue') = got
         /\ done' = 0 /\ stranded' = FALSE /\ asked
         /\ source' = "playing" => got > 0
  <1>1. NumBuffers \in 0..NumBuffers /\ stalls \in 0..MaxStalls
    BY PlayerAssumption DEF IInv, TypeOK
  <1>2. Decoded(l, NumBuffers, got) /\ queue' = Primed(t, got)
    BY DEF PrimeAndPlay
  <1>3. got \in 0..NumBuffers /\ left' \in 0..TrackLen /\ stalls' \in 0..MaxStalls
    BY <1>1, <1>2, DecodeBound
  <1>4. queue' \in Seq(Buffers) /\ Len(queue') = got /\ Once(queue')
    BY <1>2, <1>3, Primes
  <1> QED
    BY <1>3, <1>4 DEF PrimeAndPlay, Stopped, IInv, AskedFor

\* The type of all but the queue, and what is left to show of the queue.
Scalars ==
  /\ phase \in {"off", "on", "joining", "down"}
  /\ pc \in {"sleep", "load", "start", "pauseEdge", "count", "recycle", "ended"}
  /\ todo \in 0..NumBuffers
  /\ pending \in Tracks \cup {None} /\ track \in (Tracks \ Broken) \cup {None}
  /\ wantPlay \in BOOLEAN /\ wantPause \in BOOLEAN /\ loop \in BOOLEAN
  /\ left \in 0..TrackLen /\ stalls \in 0..MaxStalls
  /\ asked \in BOOLEAN /\ stranded \in BOOLEAN
  /\ source \in {"initial", "playing", "paused", "stopped", "gone"}
  /\ done \in 0..NumBuffers
  /\ source \in {"playing", "paused"} => done < Len(queue)

LEMMA TypeParts ==
  /\ TypeOK <=> Scalars /\ queue \in Seq(Buffers) /\ Once(queue)
  /\ TypeOK' <=> Scalars' /\ queue' \in Seq(Buffers) /\ Once(queue')
  BY DEF TypeOK, Scalars, Buffers, Once

\* Opening a track, or a late start, in order.
LEMMA PrimedInv ==
  ASSUME IInv, NEW t \in Tracks \ Broken, NEW l \in 0..TrackLen,
         NEW got \in Decodes(l, NumBuffers), PrimeAndPlay(t, l, got), wantPlay,
         track' = t, pc' \in {"start", "pauseEdge"}, pending' \in {pending, None},
         wantPlay' \in BOOLEAN, UNCHANGED <<phase, todo, wantPause, loop, asked>>
  PROVE  IInv'
  <1>1. /\ got \in 0..NumBuffers
        /\ left' \in 0..TrackLen /\ stalls' \in 0..MaxStalls
        /\ source' \in {"initial", "playing", "stopped"}
        /\ queue' \in Seq(Buffers) /\ Once(queue') /\ Len(queue') = got
        /\ done' = 0 /\ stranded' = FALSE /\ asked
        /\ source' = "playing" => got > 0
    BY PrimeInv
  <1>2. TypeOK'
    <2>1. Scalars
      BY TypeParts DEF IInv
    <2>2. Scalars'
      <3>1. /\ asked' \in BOOLEAN /\ stranded' \in BOOLEAN
            /\ wantPause' \in BOOLEAN /\ loop' \in BOOLEAN
        BY <1>1, <2>1 DEF Scalars
      <3>2. /\ done' \in 0..NumBuffers
            /\ source' \in {"playing", "paused"} => done' < Len(queue')
        BY <1>1, PlayerAssumption
      <3>3. /\ phase' \in {"off", "on", "joining", "down"}
            /\ todo' \in 0..NumBuffers
            /\ pending' \in Tracks \cup {None}
            /\ track' \in (Tracks \ Broken) \cup {None}
        BY <2>1 DEF Scalars
      <3> QED
        BY <1>1, <3>1, <3>2, <3>3 DEF Scalars
    <2> QED BY <1>1, <2>2, TypeParts
  <1>3. QueueFits' /\ AskedFor' /\ Silent'
    BY <1>1, PlayerAssumption DEF QueueFits, AskedFor, Silent
  <1> QED BY <1>2, <1>3 DEF IInv

\* A buffer is refilled, or drops out.
LEMMA RecycleInv == IInv /\ Recycle => IInv'
  <1> SUFFICES ASSUME IInv, Recycle PROVE IInv'
    OBVIOUS
  <1>1. /\ Scalars /\ queue \in Seq(Buffers) /\ Once(queue)
        /\ QueueFits /\ AskedFor
    BY TypeParts DEF IInv
  <1>2. PICK got \in Decodes(left, 1) :
          /\ queue' = Tail(queue) \o
                        [i \in 1..got |->
                           [buf |-> Head(queue).buf, track |-> track]]
          /\ Decoded(left, 1, got)
    BY DEF Recycle
  <1>3. got \in 0..1 /\ left' \in 0..TrackLen /\ stalls' \in 0..MaxStalls
    BY <1>1, <1>2, DecodeBound, PlayerAssumption DEF Scalars
  <1>4. /\ pc = "recycle" /\ pc' = "recycle" /\ todo > 0 /\ todo' = todo - 1
        /\ done' = IF source = "stopped" THEN done ELSE done - 1
        /\ UNCHANGED <<phase, game, track, source, asked, stranded>>
    BY DEF Recycle
  <1>5. queue # <<>> /\ track \in Tracks \ Broken /\ todo <= Processed
    BY <1>1, <1>4 DEF Scalars, QueueFits, Processed
  <1>6. /\ queue' \in Seq(Buffers) /\ Once(queue')
        /\ Len(queue') = Len(queue) - 1 + got
    <2> DEFINE refill == [i \in 1..got |-> [buf |-> Head(queue).buf, track |-> track]]
    <2>1. /\ Tail(queue) \o refill \in Seq(Buffers) /\ Once(Tail(queue) \o refill)
          /\ Len(Tail(queue) \o refill) = Len(queue) - 1 + got
      BY <1>1, <1>3, <1>5, Refills
    <2> QED BY <1>2, <2>1
  <1>7. Len(queue) \in Nat \ {0}
    BY <1>1, <1>5
  <1>8. /\ todo' \in 0..NumBuffers /\ done' \in 0..NumBuffers
        /\ Len(queue') <= NumBuffers
        /\ source \in {"playing", "paused"} => done' < Len(queue')
        /\ source \notin {"playing", "paused"} => done' = 0
        /\ todo' <= IF source = "stopped" THEN Len(queue') ELSE done'
    <2>1. /\ todo \in 0..NumBuffers /\ done \in 0..NumBuffers
          /\ NumBuffers \in Nat /\ Len(queue) <= NumBuffers
          /\ source \notin {"playing", "paused"} => done = 0
          /\ source \in {"playing", "paused"} => done < Len(queue)
          /\ todo <= IF source = "stopped" THEN Len(queue) ELSE done
      BY <1>1, <1>4, PlayerAssumption DEF Scalars, QueueFits, Processed
    <2>2. Len(queue') \in {Len(queue), Len(queue) - 1}
      BY <1>3, <1>6, <1>7
    <2> QED BY <1>4, <1>7, <2>1, <2>2
  <1>9. Scalars'
    BY <1>1, <1>3, <1>4, <1>8 DEF Scalars, game
  <1>10. TypeOK'
    BY <1>6, <1>9, TypeParts
  <1>11. QueueFits' /\ AskedFor' /\ Silent'
    BY <1>1, <1>4, <1>5, <1>8 DEF QueueFits, AskedFor, Silent, Processed, game
  <1> QED BY <1>10, <1>11 DEF IInv

\* Each step of a tick keeps the invariant.
LEMMA TickInv == IInv /\ Tick => IInv'
  <1> SUFFICES ASSUME IInv, Tick PROVE IInv'
    OBVIOUS
  <1> USE PlayerAssumption
      DEF IInv, TypeOK, Buffers, Once, QueueFits, AskedFor, Silent, Processed,
      game, al, history
  <1>1. CASE Wake
    BY <1>1 DEF Wake
  <1>2. CASE HonourLoad
    <2>1. CASE pending = None
      BY <1>2, <2>1 DEF HonourLoad
    <2>4. CASE pending \in Broken
      <3>1. /\ pc' = "start" /\ pending' = None /\ track' = None
            /\ stranded' = (stranded \/ queue # <<>>)
            /\ UNCHANGED <<phase, todo, wantPlay, wantPause, loop, asked, left,
                           stalls, source, queue, done>>
        BY <1>2, <2>4 DEF HonourLoad
      <3>2. TypeOK'
        BY <3>1
      <3>3. QueueFits' /\ AskedFor' /\ Silent'
        BY <3>1
      <3> QED BY <3>2, <3>3
    <2>2. CASE pending \notin Broken \cup {None} /\ ~wantPlay
      BY <1>2, <2>2 DEF HonourLoad
    <2>3. CASE pending \notin Broken \cup {None} /\ wantPlay
      <3>1. PICK got \in Decodes(TrackLen, NumBuffers) :
              PrimeAndPlay(pending, TrackLen, got)
        BY <1>2, <2>3 DEF HonourLoad
      <3>2. pending \in Tracks \ Broken /\ TrackLen \in 0..TrackLen
        BY <2>3
      <3>3. /\ pc' = "start" /\ pending' = None /\ track' = pending
            /\ UNCHANGED <<phase, todo, wantPlay, wantPause, loop, asked>>
        BY <1>2, <2>3 DEF HonourLoad
      <3>4. wantPlay' \in BOOLEAN
        BY <3>3
      <3> QED
        BY <2>3, <3>1, <3>2, <3>3, <3>4, PrimedInv
    <2> QED BY <2>1, <2>2, <2>3, <2>4
  <1>3. CASE Start
    <2>1. CASE ~wantPlay \/ track = None
      <3>1. /\ pc' = "pauseEdge"
            /\ UNCHANGED <<phase, todo, pending, wantPause, loop, track, asked,
                           wantPlay, left, stranded, stalls, source, queue,
                           done>>
        BY <1>3, <2>1 DEF Start
      <3>2. TypeOK'
        BY <3>1
      <3>3. QueueFits' /\ AskedFor' /\ Silent'
        BY <3>1
      <3> QED BY <3>2, <3>3
    <2>3. CASE wantPlay /\ track # None /\ source \in {"playing", "paused"}
      BY <1>3, <2>3 DEF Start
    <2>2. CASE wantPlay /\ track # None /\ source \notin {"playing", "paused"}
      <3>1. PICK got \in Decodes(left, NumBuffers) :
              PrimeAndPlay(track, left, got) /\ wantPlay' = (got = 0)
        BY <1>3, <2>2 DEF Start
      <3>2. /\ pc' = "pauseEdge" /\ wantPlay' \in BOOLEAN
            /\ UNCHANGED <<phase, todo, pending, wantPause, loop, track, asked>>
        BY <1>3, <3>1 DEF Start
      <3>3. track \in Tracks \ Broken /\ left \in 0..TrackLen /\ track' = track
        BY <2>2, <3>2
      <3> QED
        BY <2>2, <3>1, <3>2, <3>3, PrimedInv
    <2> QED BY <2>1, <2>2, <2>3
  <1>4. CASE PauseEdge
    BY <1>4 DEF PauseEdge
  <1>5. CASE Count
    BY <1>5 DEF Count, Feeds
  <1>6. CASE Recycle
    BY <1>6, RecycleInv
  <1>7. CASE Requeue
    BY <1>7 DEF Requeue, Restarts
  <1> QED
    BY <1>1, <1>2, <1>3, <1>4, <1>5, <1>6, <1>7 DEF Tick

\* So do the game's calls, the source and the end of the player.
LEMMA CallInv == IInv /\ (Mix \/ Game \/ Teardown) => IInv'
  <1> SUFFICES ASSUME IInv, Mix \/ Game \/ Teardown PROVE IInv'
    OBVIOUS
  <1> USE PlayerAssumption
      DEF IInv, TypeOK, Buffers, Once, QueueFits, AskedFor, Silent, Processed,
      game, al, history, Free
  <1>1. CASE Mix
    BY <1>1 DEF Mix
  <1>2. ASSUME NEW t \in Tracks, Load(t) PROVE IInv'
    BY <1>2 DEF Load
  <1>3. ASSUME NEW on \in BOOLEAN, SetLoop(on) PROVE IInv'
    BY <1>3 DEF SetLoop
  <1>4. CASE Play
    BY <1>4 DEF Play
  <1>5. CASE Pause
    BY <1>5 DEF Pause
  <1>6. CASE Stop
    <2>1. CASE track = None
      BY <1>6, <2>1 DEF Stop, Withdrawn
    <2>2. CASE track # None
      <3>1. /\ wantPlay' = FALSE /\ asked' = FALSE /\ stranded' = FALSE
            /\ source' \in {"initial", "stopped"} /\ queue' = <<>> /\ done' = 0
            /\ pc = "sleep"
            /\ UNCHANGED <<phase, pc, todo, pending, wantPause, loop, track,
                          left, stalls>>
        BY <1>6, <2>2 DEF Stop, Withdrawn, Stopped
      <3>2. queue' \in Seq(Buffers) /\ Len(queue') = 0 /\ DOMAIN queue' = {}
        BY <3>1
      <3>3. TypeOK'
        <4>1. /\ queue' \in Seq([buf : 1..NumBuffers, track : Tracks \ Broken])
              /\ \A i, j \in DOMAIN queue' : queue'[i].buf = queue'[j].buf => i = j
          BY <3>1
        <4>2. 0 \in 0..NumBuffers /\ source' \notin {"playing", "paused"}
          BY <3>1
        <4> QED BY <3>1, <4>1, <4>2
      <3>4. QueueFits' /\ AskedFor' /\ Silent'
        BY <3>1, <3>2
      <3> QED BY <3>3, <3>4
    <2> QED BY <2>1, <2>2
  <1>7. CASE InitPlayer
    BY <1>7 DEF InitPlayer
  <1>9. CASE Deinit
    BY <1>9 DEF Deinit
  <1>8. CASE Teardown
    BY <1>8 DEF Teardown, Joined
  <1> QED
    BY <1>1, <1>2, <1>3, <1>4, <1>5, <1>6, <1>7, <1>8, <1>9 DEF Game

LEMMA StepInv == IInv /\ [Next]_vars => IInv'
  <1>1. IInv /\ UNCHANGED vars => IInv'
    BY DEF vars, game, al, history, IInv, TypeOK, QueueFits, AskedFor, Silent,
       Processed
  <1> QED
    BY <1>1, TickInv, CallInv DEF Next

LEMMA Inductive == Spec => []IInv
  BY InitInv, StepInv, PTL DEF Spec

\* Every variable keeps its type, no buffer is queued twice, and a source that
\* plays has something left to play.
THEOREM MusicTyping == Spec => []TypeOK
  BY Inductive, PTL DEF IInv

\* Nothing plays that was not asked for, but for what a failed open stranded.
THEOREM NothingUnasked == Spec => []PlaysAsAsked
  <1>1. IInv => PlaysAsAsked
    <2> SUFFICES ASSUME IInv, source = "playing", ~stranded PROVE asked
      BY DEF PlaysAsAsked
    <2>1. queue # <<>>
      BY DEF IInv, TypeOK
    <2> QED BY <2>1 DEF IInv, AskedFor
  <1> QED BY <1>1, Inductive, PTL

\* From its pause edge on, no tick leaves the source playing through a pause.
THEOREM PauseKept == Spec => PauseHolds
  <1> DEFINE A == wantPause /\ track # None /\ pc' # pc
                    /\ pc \in {"pauseEdge", "count", "recycle"}
                    => source' # "playing"
  <1>1. ASSUME IInv, [Next]_vars PROVE A
    <2> SUFFICES ASSUME wantPause, track # None, pc' # pc,
                        pc \in {"pauseEdge", "count", "recycle"}
                 PROVE  source' # "playing"
      OBVIOUS
    <2>1. PauseEdge \/ Count \/ Requeue
      BY <1>1 DEF Next, vars, Tick, Mix, Game, Teardown, Load, SetLoop, Play,
         Pause, Stop, InitPlayer, Deinit, Wake, HonourLoad, Start, Recycle, Free
    <2> QED
      BY <1>1, <2>1 DEF IInv, QueueFits, Silent, PauseEdge, Count, Requeue, al
  <1>2. IInv /\ [Next]_vars => [A]_vars
    BY <1>1
  <1> QED
    BY <1>2, Inductive, PTL DEF Spec, PauseHolds
=============================================================================
