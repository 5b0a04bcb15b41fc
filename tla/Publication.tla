---------------------------- MODULE Publication ----------------------------
(***************************************************************************)
(* What an installation promises the launcher, with no journal, no backup  *)
(* and no partial state: the game directory holds ONE payload, a pending   *)
(* payload replaces it in one step or is abandoned, and success is told    *)
(* only while nothing is pending.                                          *)
(***************************************************************************)
CONSTANTS Payload,    \* every payload a game directory can hold
          NoPayload   \* "nothing is pending": not one of them

VARIABLES current,    \* the payload the game would be started with
          pending,    \* the payload of the installation in progress
          told        \* the last run ended by telling success

vars == <<current, pending, told>>

TypeOK == /\ current \in Payload
          /\ pending \in Payload \cup {NoPayload}
          /\ told \in BOOLEAN

Init == /\ current \in Payload
        /\ pending = NoPayload
        /\ told = FALSE

\* An installation starts; the current payload stays what it was.
Begin == /\ pending = NoPayload
         /\ pending' \in Payload
         /\ told' = FALSE
         /\ UNCHANGED current

\* The one step that replaces the payload.
Publish == /\ pending # NoPayload
           /\ current' = pending
           /\ pending' = NoPayload
           /\ UNCHANGED told

\* The installation is given up and has changed nothing.
Abandon == /\ pending # NoPayload
           /\ pending' = NoPayload
           /\ UNCHANGED <<current, told>>

Tell == /\ pending = NoPayload
        /\ told' = TRUE
        /\ UNCHANGED <<current, pending>>

\* A new run (or an upgrade of the port) forgets what the last run told.
Forget == /\ told' = FALSE
          /\ UNCHANGED <<current, pending>>

Next == Begin \/ Publish \/ Abandon \/ Tell \/ Forget

Spec == Init /\ [][Next]_vars
=============================================================================
