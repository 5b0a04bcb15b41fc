----------------------------- MODULE GuestSync -----------------------------
(***************************************************************************)
(* What the game's library may rely on when it calls pthread_mutex_* and   *)
(* pthread_once: a mutex has at most one holder, who may lock it again,    *)
(* and an initializer runs at most once, to its end before any other       *)
(* caller goes on.  No host mutex and no global lock occurs here.          *)
(***************************************************************************)
EXTENDS Naturals

CONSTANTS Threads, Mutexes, Onces,
          NoOne      \* "no once control": not in Onces

VARIABLES held,      \* how often each thread holds each mutex
          inside,    \* the once control whose initializer a thread runs
          once,      \* the once control: 0 new, 1 running, 2 done
          past       \* the once controls a thread has come back from

vars == <<held, inside, once, past>>

Init == /\ held = [t \in Threads |-> [m \in Mutexes |-> 0]]
        /\ inside = [t \in Threads |-> NoOne]
        /\ once = [o \in Onces |-> 0]
        /\ past = [t \in Threads |-> {}]

Lock(t, m) == /\ \A u \in Threads \ {t} : held[u][m] = 0
              /\ held' = [held EXCEPT ![t][m] = @ + 1]
              /\ UNCHANGED <<inside, once, past>>

Unlock(t, m) == /\ held[t][m] > 0
                /\ held' = [held EXCEPT ![t][m] = @ - 1]
                /\ UNCHANGED <<inside, once, past>>

\* t is the one caller that runs the initializer of o.
Begin(t, o) == /\ once[o] = 0
               /\ inside[t] = NoOne
               /\ once' = [once EXCEPT ![o] = 1]
               /\ inside' = [inside EXCEPT ![t] = o]
               /\ UNCHANGED <<held, past>>

\* t ends the initializer of o and comes back from its call.
End(t, o) == /\ inside[t] = o
             /\ once' = [once EXCEPT ![o] = 2]
             /\ inside' = [inside EXCEPT ![t] = NoOne]
             /\ past' = [past EXCEPT ![t] = @ \cup {o}]
             /\ UNCHANGED held

\* A caller that runs no initializer comes back once it is done.
Pass(t, o) == /\ once[o] = 2
              /\ past' = [past EXCEPT ![t] = @ \cup {o}]
              /\ UNCHANGED <<held, inside, once>>

Next == \E t \in Threads :
          \/ \E m \in Mutexes : Lock(t, m) \/ Unlock(t, m)
          \/ \E o \in Onces : Begin(t, o) \/ End(t, o) \/ Pass(t, o)

Spec == Init /\ [][Next]_vars
=============================================================================
