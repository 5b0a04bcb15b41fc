---------------------------- MODULE TouchInput -----------------------------
(***************************************************************************)
(* src/src/main.c: the game takes touches and three keys; the player holds *)
(* a pad.  Each frame polls the events, turns the pad's buttons into       *)
(* touches on the game's own buttons and its left stick into keys          *)
(* (update_pad), and its right stick, R2 and R3 into a finger on the       *)
(* screen (update_cursor).  The pad may go away, come back or be mapped    *)
(* anew between two frames.                                                *)
(*                                                                         *)
(* A pad is "full" or "lite": one without a right stick, whose left stick  *)
(* moves the cursor while L2 is held.  A trigger is low, high, or in the   *)
(* band between its two thresholds.  One key and one direction stand for   *)
(* three; START, RB, SELECT and the visibility of the game's own buttons   *)
(* change nothing here.  Touch screen and mouse use fingers of their own;  *)
(* debug taps are left out.  What one source (a button, the cursor) sends  *)
(* is followed by itself: LB and the cursor are both finger 9 to the game, *)
(* so there the touches of two such sequences may mix.                     *)
(***************************************************************************)
EXTENDS Naturals

CONSTANTS Buttons    \* of button_map, each with a finger of its own

ASSUME ButtonAssumption == "cursor" \notin Buttons

Sources == Buttons \cup {"cursor"}
Kinds   == {"full", "lite"}
Levels  == {"low", "mid", "high"}

\* What the player holds.
Inputs == [buttons : SUBSET Buttons, dpad : BOOLEAN, stick : BOOLEAN,
           r3 : BOOLEAN, r2 : Levels, l2 : Levels]
Rest == [buttons |-> {}, dpad |-> FALSE, stick |-> FALSE,
         r3 |-> FALSE, r2 |-> "low", l2 |-> "low"]

VARIABLES
  pc,           \* events, pad, cursor, game
  plugged,      \* the pad there is
  pad,          \* g_pad
  input,        \* what SDL says of it
  pad_prev, left_prev, r2_prev, click_prev,
  modifier_prev, modifier_held,
  keyboard,     \* sharedKeyboard() is there
  down,         \* the game: which sources have a finger down
  walking,      \* the game: the key is down
  sent          \* the touches of the last step, by source

prevs    == <<pad_prev, left_prev, r2_prev, click_prev>>
modifier == <<modifier_prev, modifier_held>>
game     == <<keyboard, down, walking, sent>>
vars == <<pc, plugged, pad, input, prevs, modifier, game>>

Quiet == [s \in Sources |-> "none"]

Init ==
  /\ pc = "events"
  /\ plugged \in Kinds \cup {"none"} /\ pad = "none" /\ input = Rest
  /\ pad_prev = {} /\ left_prev = FALSE /\ r2_prev = FALSE /\ click_prev = FALSE
  /\ modifier_prev = FALSE /\ modifier_held = FALSE
  /\ keyboard = FALSE /\ down = {} /\ walking = FALSE /\ sent = Quiet

(***************************************************************************)
(* Touches.                                                                *)
(***************************************************************************)

\* drive_button, and the cursor's finger: held now, held in the last frame.
Phase(now, was) ==
  CASE now /\ was  -> "moved"
    [] now /\ ~was -> "began"
    [] ~now /\ was -> "ended"
    [] OTHER       -> "none"

\* The touches s |-> f[s] of the sources in S reach the game.
Emits(S, f) ==
  /\ sent' = [s \in Sources |-> IF s \in S THEN f[s] ELSE "none"]
  /\ down' = (down \cup {s \in S : f[s] = "began"}) \ {s \in S : f[s] = "ended"}

(***************************************************************************)
(* Events.                                                                 *)
(***************************************************************************)

\* pad_refresh_topology: the modifier is let go.
Refresh == modifier_prev' = FALSE /\ modifier_held' = FALSE

Silent == sent' = Quiet /\ UNCHANGED <<keyboard, down, walking>>

\* A pad is plugged in; opening it may fail, and update_pad tries again.
Added(k) ==
  /\ pc = "events" /\ plugged = "none"
  /\ plugged' = k
  /\ \/ pad' = k /\ Refresh
     \/ UNCHANGED <<pad, modifier>>
  /\ Silent /\ UNCHANGED <<pc, input, prevs>>

\* Mutant: what was held is forgotten.
Removed_Forgets ==
  /\ pc = "events" /\ pad # "none"
  /\ plugged' = "none" /\ pad' = "none" /\ input' = Rest
  /\ Refresh /\ pad_prev' = {}
  /\ Silent /\ UNCHANGED <<pc, left_prev, r2_prev, click_prev>>

Removed ==
  /\ pc = "events" /\ pad # "none"
  /\ plugged' = "none" /\ pad' = "none" /\ input' = Rest
  /\ Refresh
  /\ Silent /\ UNCHANGED <<pc, prevs>>

\* A pad that could not be opened goes away unseen.
Vanished ==
  /\ pc = "events" /\ pad = "none" /\ plugged # "none"
  /\ plugged' = "none" /\ input' = Rest
  /\ Silent /\ UNCHANGED <<pc, pad, prevs, modifier>>

Remapped(k) ==
  /\ pc = "events" /\ pad # "none"
  /\ plugged' = k /\ pad' = k
  /\ Refresh
  /\ Silent /\ UNCHANGED <<pc, input, prevs>>

\* The queue is empty; the frame goes by what the player holds now.
Polled(i) ==
  /\ pc = "events" /\ pc' = "pad"
  /\ plugged = "none" => i = Rest
  /\ input' = i
  /\ Silent /\ UNCHANGED <<plugged, pad, prevs, modifier>>

(***************************************************************************)
(* The pad.                                                                *)
(***************************************************************************)

\* There is none, or it cannot be opened: update_pad returns early.
NoPad ==
  /\ pc = "pad" /\ pc' = "cursor"
  /\ pad = "none"
  /\ modifier_held' = FALSE
  /\ Silent /\ UNCHANGED <<plugged, pad, input, prevs, modifier_prev>>

\* cursor_modifier_down on pad p.
ModifierDown(p) ==
  /\ p = "lite"
  /\ input.l2 = "high" \/ (modifier_prev /\ input.l2 = "mid")

\* Mutant: the stick moves the hero and the cursor.
LeftNow_Shared(p) == input.dpad \/ input.stick

\* left_now: the left stick is the cursor's while the modifier is held.
LeftNow(p) == input.dpad \/ (input.stick /\ ~ModifierDown(p))

\* drive_key: a change is lost while the game has no keyboard.
DriveKey(now, was) ==
  walking' = IF now # was /\ keyboard THEN now ELSE walking

\* update_pad on pad p, which it opens first if there is none.
UpdatePad(p) ==
  /\ pc = "pad" /\ pc' = "cursor"
  /\ p = plugged /\ p # "none" /\ pad' = p
  /\ modifier_held' = ModifierDown(p)
  /\ modifier_prev' = IF p = "lite" THEN ModifierDown(p) ELSE modifier_prev
  /\ Emits(Buttons, [b \in Buttons |-> Phase(b \in input.buttons, b \in pad_prev)])
  /\ pad_prev' = input.buttons
  /\ DriveKey(LeftNow(p), left_prev)
  /\ left_prev' = LeftNow(p)
  /\ UNCHANGED <<plugged, input, r2_prev, click_prev, keyboard>>

(***************************************************************************)
(* The cursor.                                                             *)
(***************************************************************************)

R2 == pad # "none" /\ (input.r2 = "high" \/ (r2_prev /\ input.r2 = "mid"))
Click == R2 \/ (pad # "none" /\ input.r3)

\* Mutant: update_cursor returns early without a pad, as update_pad does.
UpdateCursor_NeedsPad ==
  /\ pc = "cursor" /\ pc' = "game"
  /\ IF pad = "none" THEN Silent /\ UNCHANGED <<r2_prev, click_prev>>
     ELSE /\ Emits({"cursor"}, [s \in {"cursor"} |-> Phase(Click, click_prev)])
          /\ r2_prev' = R2 /\ click_prev' = Click
          /\ UNCHANGED <<keyboard, walking>>
  /\ UNCHANGED <<plugged, pad, input, pad_prev, left_prev, modifier>>

UpdateCursor ==
  /\ pc = "cursor" /\ pc' = "game"
  /\ Emits({"cursor"}, [s \in {"cursor"} |-> Phase(Click, click_prev)])
  /\ r2_prev' = R2 /\ click_prev' = Click
  /\ UNCHANGED <<plugged, pad, input, pad_prev, left_prev, modifier, keyboard,
                 walking>>

\* The game runs, and may make its keyboard; the frame is over.
Game ==
  /\ pc = "game" /\ pc' = "events"
  /\ keyboard' \in {keyboard, TRUE}
  /\ sent' = Quiet
  /\ UNCHANGED <<plugged, pad, input, prevs, modifier, down, walking>>

-----------------------------------------------------------------------------

Next ==
  \/ \E k \in Kinds : Added(k) \/ Remapped(k) \/ UpdatePad(k)
  \/ Removed \/ Vanished \/ NoPad \/ UpdateCursor \/ Game
  \/ \E i \in Inputs : Polled(i)

Spec == Init /\ [][Next]_vars

-----------------------------------------------------------------------------
(***************************************************************************)
(* Properties.                                                             *)
(***************************************************************************)

\* The type invariant.
TypeOK ==
  /\ pc \in {"events", "pad", "cursor", "game"}
  /\ plugged \in Kinds \cup {"none"} /\ pad \in {plugged, "none"}
  /\ input \in Inputs
  /\ pad_prev \subseteq Buttons
  /\ {left_prev, r2_prev, click_prev, modifier_prev, modifier_held} \subseteq BOOLEAN
  /\ keyboard \in BOOLEAN /\ walking \in BOOLEAN
  /\ down \subseteq Sources
  /\ sent \in [Sources -> {"none", "began", "moved", "ended"}]

\* The touches that one button or the cursor makes are began, moved, ended,
\* in this order and over again, however often the pad comes and goes in
\* between: the game never sees a finger begin twice or move in the air.
TouchesAreOrdered ==
  [][\A s \in Sources :
       /\ sent'[s] = "began" => s \notin down
       /\ sent'[s] \in {"moved", "ended"} => s \in down]_vars

\* At the end of a frame with a pad, a game button is pressed exactly if the
\* pad's button is, also for one let go or pressed while there was no pad.
ButtonsFollow ==
  pc = "game" /\ pad # "none" => down \cap Buttons = input.buttons

\* R3 or R2 is the finger: it is down while one of them is pressed, up when
\* both are let go, and up when the pad is gone.
CursorFollows ==
  pc = "game" =>
    /\ pad # "none" /\ (input.r3 \/ input.r2 = "high") => "cursor" \in down
    /\ pad = "none" \/ (~input.r3 /\ input.r2 = "low") => "cursor" \notin down

\* The hero walks only if told to by what is held now: the stick does not
\* count while L2 makes it the cursor's, and no key stays down behind.
NobodyWalksAlone ==
  pc = "game" /\ pad # "none" /\ walking =>
    input.dpad \/ (input.stick /\ ~(pad = "lite" /\ input.l2 = "high"))
=============================================================================
