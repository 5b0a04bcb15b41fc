-------------------------- MODULE TouchInputProofs --------------------------
(***************************************************************************)
(* What TouchInput does for any set of game buttons.                       *)
(***************************************************************************)
EXTENDS TouchInput, TLAPS

\* The game's fingers are what the last frame with a pad remembers.
FingersRemembered ==
  /\ down \cap Buttons = pad_prev
  /\ "cursor" \in down <=> click_prev

\* After update_pad, what is remembered is what is held.
ButtonsRead == pc \in {"cursor", "game"} /\ pad # "none" => pad_prev = input.buttons

\* After update_cursor, so is the click.
ClickRead ==
  pc = "game" =>
    /\ pad # "none" /\ (input.r3 \/ input.r2 = "high") => click_prev
    /\ pad = "none" \/ (~input.r3 /\ input.r2 = "low") => ~click_prev

\* The key is down only if it was asked for, by what was read last.
KeyAsked ==
  /\ walking => left_prev /\ keyboard
  /\ pc \in {"cursor", "game"} /\ pad # "none" /\ left_prev =>
       input.dpad \/ (input.stick /\ ~(pad = "lite" /\ input.l2 = "high"))

IInv == TypeOK /\ FingersRemembered /\ ButtonsRead /\ ClickRead /\ KeyAsked

-----------------------------------------------------------------------------

\* drive_button and the cursor: the fingers of S end up as now says, and no
\* others change.
LEMMA PhaseFollows ==
  ASSUME NEW S \in SUBSET Sources, NEW now \in SUBSET Sources,
         NEW f, f = [s \in S |-> Phase(s \in now, s \in down)],
         Emits(S, f)
  PROVE  \A s : s \in down' <=> IF s \in S THEN s \in now ELSE s \in down
  BY DEF Emits, Phase

\* Init establishes the invariant.
LEMMA InitInv == Init => IInv
  <1> SUFFICES ASSUME Init PROVE IInv
    OBVIOUS
  <1>1. Rest \in Inputs
    BY DEF Rest, Inputs, Levels
  <1>2. TypeOK
    BY <1>1 DEF Init, TypeOK, Quiet, Kinds
  <1>3. FingersRemembered /\ ButtonsRead /\ ClickRead /\ KeyAsked
    BY DEF Init, FingersRemembered, ButtonsRead, ClickRead, KeyAsked
  <1> QED BY <1>2, <1>3 DEF IInv

\* Every step keeps it.
LEMMA StepInv == IInv /\ [Next]_vars => IInv'
  <1> SUFFICES ASSUME IInv, [Next]_vars PROVE IInv'
    OBVIOUS
  <1> USE ButtonAssumption DEF IInv
  <1>1. ASSUME NEW k \in Kinds, Added(k) PROVE IInv'
    <2>1. /\ plugged' = k /\ pad' \in {k, "none"} /\ pc = "events" /\ pad = "none"
          /\ modifier_prev' \in BOOLEAN /\ modifier_held' \in BOOLEAN
      BY <1>1 DEF Added, Refresh, modifier, TypeOK
    <2>2. /\ sent' = Quiet
          /\ UNCHANGED <<pc, input, prevs, keyboard, down, walking>>
      BY <1>1 DEF Added, Silent
    <2> QED
      BY <2>1, <2>2
         DEF prevs, TypeOK, FingersRemembered, ButtonsRead, ClickRead,
         KeyAsked, Quiet
  <1>2. ASSUME NEW k \in Kinds, Remapped(k) PROVE IInv'
    BY <1>2 DEF Remapped, Silent, Refresh, prevs, TypeOK, FingersRemembered,
       ButtonsRead, ClickRead, KeyAsked, Quiet, Kinds, Sources
  <1>3. CASE Removed
    BY <1>3 DEF Removed, Silent, Refresh, prevs, TypeOK, FingersRemembered,
       ButtonsRead, ClickRead, KeyAsked, Quiet, Kinds, Sources,
       Rest, Inputs, Levels
  <1>4. CASE Vanished
    BY <1>4 DEF Vanished, Silent, prevs, modifier, TypeOK, FingersRemembered,
       ButtonsRead, ClickRead, KeyAsked, Quiet, Kinds, Sources,
       Rest, Inputs, Levels
  <1>5. CASE NoPad
    BY <1>5 DEF NoPad, Silent, prevs, TypeOK, FingersRemembered,
       ButtonsRead, ClickRead, KeyAsked, Quiet, Kinds, Sources
  <1>6. CASE Game
    BY <1>6 DEF Game, prevs, modifier, TypeOK, FingersRemembered,
       ButtonsRead, ClickRead, KeyAsked, Quiet, Kinds, Sources
  <1>7. ASSUME NEW i \in Inputs, Polled(i) PROVE IInv'
    BY <1>7 DEF Polled, Silent, prevs, modifier, TypeOK, FingersRemembered,
       ButtonsRead, ClickRead, KeyAsked, Quiet, Kinds, Sources
  <1>8. ASSUME NEW p \in Kinds, UpdatePad(p) PROVE IInv'
    <2> DEFINE f == [b \in Buttons |-> Phase(b \in input.buttons, b \in pad_prev)]
    <2>1. /\ Emits(Buttons, f)
          /\ input.buttons \in SUBSET Buttons
          /\ \A b \in Buttons : b \in pad_prev <=> b \in down
      BY <1>8 DEF UpdatePad, TypeOK, Inputs, FingersRemembered
    <2>2. \A s : s \in down' <=> IF s \in Buttons THEN s \in input.buttons ELSE s \in down
      <3>1. f = [s \in Buttons |-> Phase(s \in input.buttons, s \in down)]
        BY <2>1 DEF Phase
      <3>2. Buttons \in SUBSET Sources /\ input.buttons \in SUBSET Sources
        BY <2>1 DEF Sources
      <3>3. Emits(Buttons, f)
        BY <2>1
      <3> HIDE DEF f
      <3> QED BY <3>1, <3>2, <3>3, PhaseFollows
    <2>3. ModifierDown(p) \in BOOLEAN /\ LeftNow(p) \in BOOLEAN
      BY DEF ModifierDown, LeftNow, TypeOK, Inputs
    <2>4. sent' \in [Sources -> {"none", "began", "moved", "ended"}]
      BY <2>1 DEF Emits, Phase
    <2>5. TypeOK'
      BY <1>8, <2>1, <2>2, <2>3, <2>4
         DEF UpdatePad, TypeOK, Kinds, Sources, DriveKey
    <2>6. FingersRemembered' /\ ButtonsRead' /\ ClickRead'
      BY <1>8, <2>1, <2>2
      DEF UpdatePad, FingersRemembered, ButtonsRead, ClickRead
    <2>7. KeyAsked'
      BY <1>8, <2>3
         DEF UpdatePad, TypeOK, KeyAsked, DriveKey, LeftNow, ModifierDown
    <2> QED BY <2>5, <2>6, <2>7
  <1>9. CASE UpdateCursor
    <2> DEFINE f == [s \in {"cursor"} |-> Phase(Click, click_prev)]
    <2>1. Emits({"cursor"}, f) /\ Click \in BOOLEAN /\ R2 \in BOOLEAN
      BY <1>9 DEF UpdateCursor, Click, R2, TypeOK, Inputs
    <2>2. \A s : s \in down' <=> IF s = "cursor" THEN Click ELSE s \in down
      <3> DEFINE now == {s \in {"cursor"} : Click}
      <3>1. f = [s \in {"cursor"} |-> Phase(s \in now, s \in down)]
        BY <2>1 DEF Phase, FingersRemembered, TypeOK
      <3>2. {"cursor"} \in SUBSET Sources /\ now \in SUBSET Sources
        BY DEF Sources
      <3>3. Emits({"cursor"}, f)
        BY <2>1
      <3>4. \A s : s \in now <=> s = "cursor" /\ Click
        OBVIOUS
      <3> HIDE DEF f, now
      <3>5. \A s : s \in down' <=> IF s \in {"cursor"} THEN s \in now ELSE s \in down
        BY <3>1, <3>2, <3>3, PhaseFollows
      <3> QED BY <3>4, <3>5
    <2>3. sent' \in [Sources -> {"none", "began", "moved", "ended"}]
      BY <2>1 DEF Emits, Phase
    <2>4. TypeOK'
      BY <1>9, <2>1, <2>2, <2>3 DEF UpdateCursor, TypeOK, modifier, Sources
    <2>5. FingersRemembered' /\ ButtonsRead' /\ ClickRead'
      BY <1>9, <2>1, <2>2
      DEF UpdateCursor, TypeOK, FingersRemembered, ButtonsRead, ClickRead, Click, R2,
          modifier
    <2>6. KeyAsked'
      BY <1>9 DEF UpdateCursor, KeyAsked, modifier
    <2> QED BY <2>4, <2>5, <2>6
  <1>10. CASE UNCHANGED vars
    BY <1>10
       DEF vars, prevs, modifier, game, TypeOK, FingersRemembered, ButtonsRead,
       ClickRead, KeyAsked
  <1> QED
    BY <1>1, <1>2, <1>3, <1>4, <1>5, <1>6, <1>7, <1>8, <1>9, <1>10 DEF Next

\* The strengthened invariant holds throughout.
LEMMA Invariant == Spec => []IInv
  BY InitInv, StepInv, PTL DEF Spec

\* Every variable keeps its type (TypeOK).
THEOREM Typing == Spec => []TypeOK
  <1>1. IInv => TypeOK BY DEF IInv
  <1> QED BY <1>1, Invariant, PTL

\* After each frame with a pad the game's buttons are the pad's, whatever
\* happened to the pad before (ButtonsFollow).
THEOREM ButtonsFollowPad == Spec => []ButtonsFollow
  <1>1. IInv => ButtonsFollow
    BY DEF IInv, FingersRemembered, ButtonsRead, ButtonsFollow
  <1> QED BY <1>1, Invariant, PTL

\* The cursor's finger is down while R2 or R3 is pressed and up when both are
\* let go or the pad is gone (CursorFollows).
THEOREM CursorFollowsClick == Spec => []CursorFollows
  <1>1. IInv => CursorFollows
    BY DEF IInv, FingersRemembered, ClickRead, CursorFollows
  <1> QED BY <1>1, Invariant, PTL

\* No key stays down behind what is held (NobodyWalksAlone).
THEOREM KeyReleased == Spec => []NobodyWalksAlone
  <1>1. IInv => NobodyWalksAlone
    BY DEF IInv, KeyAsked, NobodyWalksAlone
  <1> QED BY <1>1, Invariant, PTL

\* No finger begins twice, and none moves or ends in the air
\* (TouchesAreOrdered).
THEOREM OrderedTouches == Spec => TouchesAreOrdered
  <1> DEFINE Ordered == \A s \in Sources :
        /\ sent'[s] = "began" => s \notin down
        /\ sent'[s] \in {"moved", "ended"} => s \in down
  <1>1. ASSUME IInv, [Next]_vars PROVE [Ordered]_vars
    <2> USE <1>1 DEF IInv
    <2>1. ASSUME sent' = Quiet PROVE Ordered
      BY <2>1 DEF Quiet
    <2>2. ASSUME NEW p \in Kinds, UpdatePad(p) PROVE Ordered
      BY <2>2, ButtonAssumption
         DEF UpdatePad, Emits, Phase, FingersRemembered, Sources
    <2>3. CASE UpdateCursor
      BY <2>3 DEF UpdateCursor, Emits, Phase, FingersRemembered, Sources
    <2>4. CASE \/ \E k \in Kinds : Added(k) \/ Remapped(k)
               \/ Removed \/ Vanished \/ NoPad \/ Game
               \/ \E i \in Inputs : Polled(i)
      <3>1. sent' = Quiet
        BY <2>4
           DEF Added, Remapped, Removed, Vanished, NoPad, Game, Polled, Silent
      <3> QED BY <2>1, <3>1
    <2> QED BY <2>2, <2>3, <2>4 DEF Next
  <1> QED BY <1>1, Invariant, PTL DEF Spec, TouchesAreOrdered
====
