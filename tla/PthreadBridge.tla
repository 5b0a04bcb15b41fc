--------------------------- MODULE PthreadBridge ---------------------------
(***************************************************************************)
(* src/src/pthread_bridge.c: the game was built for bionic, whose mutexes  *)
(* are smaller than the host's.  The storage of a guest mutex holds the    *)
(* address of a host mutex, made at its first use; pthread_once runs over  *)
(* a plain integer and a global lock.                                      *)
(*                                                                         *)
(* The four mutex calls and pthread_once are what src/src/imports.c        *)
(* (438-442) gives to the game.  A slot is read without the lock; what is  *)
(* done under the lock is one step, since nobody else writes a slot and    *)
(* the lock is let go in the same call.  Memory is sequentially            *)
(* consistent, which the unlocked read does not have on every CPU.         *)
(*                                                                         *)
(* The guest is a lawful bionic program: it locks mutexes in one order,    *)
(* unlocks what it holds, initializes a mutex nobody has and destroys one  *)
(* nobody uses, and holds nothing when it calls pthread_once.              *)
(***************************************************************************)
EXTENDS Naturals, FiniteSets

CONSTANTS
  Threads,
  Mutexes,      \* guest mutexes, numbered in the order they are locked in
  Onces,
  Objects,      \* what the host's allocator may return
  Zero, Magic,  \* contents of a statically initialized mutex
  NoThread, NoOne,
  MaxDepth      \* bound: how often the guest locks a mutex it holds

ASSUME BridgeAssumption ==
  /\ Mutexes \subseteq Nat
  /\ Mutexes \cap Onces = {} /\ NoOne \notin Mutexes \cup Onces
  /\ Zero \notin Objects /\ Magic \notin Objects /\ Zero # Magic
  /\ NoThread \notin Threads
  /\ MaxDepth \in Nat \ {0}

VARIABLES
  slot,         \* the guest's storage of each mutex
  heap,         \* the host mutexes allocated
  owner, depth, \* of each host mutex
  glock,        \* who holds g_lock
  pc, op, on,   \* where each thread is, in which call, on which argument
  real,         \* the host mutex its call works on
  used,         \* the guest's knowledge: mutexes in use, not destroyed since
  held, inside, once, past    \* what the guest sees: as in GuestSync

host  == <<slot, heap, owner, depth>>
guest == <<used, held, inside, once, past>>
call  == <<pc, op, on, real>>
vars  == <<host, glock, call, guest>>

Init ==
  /\ slot \in [Mutexes -> {Zero, Magic}]
  /\ heap = {}
  /\ owner = [ob \in Objects |-> NoThread]
  /\ depth = [ob \in Objects |-> 0]
  /\ glock = NoThread
  /\ pc = [t \in Threads |-> "guest"]
  /\ op = [t \in Threads |-> "none"]
  /\ on = [t \in Threads |-> NoOne]
  /\ real = [t \in Threads |-> Zero]
  /\ used = {}
  /\ held = [t \in Threads |-> [m \in Mutexes |-> 0]]
  /\ inside = [t \in Threads |-> NoOne]
  /\ once = [o \in Onces |-> 0]
  /\ past = [t \in Threads |-> {}]

\* Neither zero nor the magic of a static initializer.
IsHeapPtr(v) == v \notin {Zero, Magic}

(***************************************************************************)
(* Steps of every call.                                                    *)
(***************************************************************************)

\* t goes on at pc p of its call.
At(t, p) == pc' = [pc EXCEPT ![t] = p]

\* The guest calls o on x, which begins at p.
Calls(t, o, x, p) ==
  /\ pc[t] = "guest" /\ At(t, p)
  /\ op' = [op EXCEPT ![t] = o]
  /\ on' = [on EXCEPT ![t] = x]

\* The call of t is over, and its locals are gone.
Returns(t) ==
  /\ At(t, "guest")
  /\ op' = [op EXCEPT ![t] = "none"]
  /\ on' = [on EXCEPT ![t] = NoOne]
  /\ real' = [real EXCEPT ![t] = Zero]

\* pthread_mutex_lock(&g_lock).
TakeGlobal(t) ==
  /\ pc[t] = "glock" /\ glock = NoThread
  /\ glock' = t /\ At(t, "body")
  /\ UNCHANGED <<host, op, on, real, guest>>

\* t does o's work under g_lock, which it lets go in this step.
Under(t, o) == pc[t] = "body" /\ op[t] = o /\ glock' = NoThread

\* new_recursive_mutex: ob is allocated and free.
Allocates(ob) ==
  /\ heap' = heap \cup {ob}
  /\ owner' = [owner EXCEPT ![ob] = NoThread]
  /\ depth' = [depth EXCEPT ![ob] = 0]

(***************************************************************************)
(* Lock and unlock.                                                        *)
(***************************************************************************)

Untouched(m) == \A t \in Threads : held[t][m] = 0 /\ on[t] # m
Settled(m) == \A t \in Threads : on[t] = m => op[t] \notin {"init", "destroy"}

CallLock(t, m) ==
  /\ Settled(m) /\ held[t][m] < MaxDepth
  /\ held[t][m] > 0 \/ \A n \in Mutexes : held[t][n] > 0 => n < m
  /\ Calls(t, "lock", m, "look")
  /\ used' = used \cup {m}
  /\ UNCHANGED <<host, glock, real, held, inside, once, past>>

CallUnlock(t, m) ==
  /\ held[t][m] > 0
  /\ Calls(t, "unlock", m, "look")
  /\ UNCHANGED <<host, glock, real, guest>>

\* mtx_real: the slot is read without the lock.
Look(t) ==
  /\ pc[t] = "look"
  /\ At(t, IF IsHeapPtr(slot[on[t]]) THEN "reread" ELSE "glock")
  /\ UNCHANGED <<host, glock, op, on, real, guest>>

\* Mutant: the slot is not read again under the lock.
Make_Blindly(t) ==
  /\ pc[t] = "body" /\ op[t] \in {"lock", "unlock"}
  /\ glock' = NoThread /\ At(t, "reread")
  /\ \E ob \in Objects \ heap :
       Allocates(ob) /\ slot' = [slot EXCEPT ![on[t]] = ob]
  /\ UNCHANGED <<op, on, real, guest>>

\* mtx_real: it is read again under the lock, and filled if nobody has.
Make(t) ==
  /\ pc[t] = "body" /\ op[t] \in {"lock", "unlock"}
  /\ glock' = NoThread /\ At(t, "reread")
  /\ \/ IsHeapPtr(slot[on[t]]) /\ UNCHANGED host
     \/ /\ ~IsHeapPtr(slot[on[t]])
        /\ \E ob \in Objects \ heap :
             Allocates(ob) /\ slot' = [slot EXCEPT ![on[t]] = ob]
  /\ UNCHANGED <<op, on, real, guest>>

\* return *slot
Reread(t) ==
  /\ pc[t] = "reread" /\ At(t, "host")
  /\ real' = [real EXCEPT ![t] = slot[on[t]]]
  /\ UNCHANGED <<host, glock, op, on, guest>>

\* The host's pthread_mutex_lock on a recursive mutex.
HostLock(t) ==
  LET ob == real[t] IN
  /\ pc[t] = "host" /\ op[t] = "lock"
  /\ owner[ob] \in {NoThread, t}
  /\ owner' = [owner EXCEPT ![ob] = t]
  /\ depth' = [depth EXCEPT ![ob] = @ + 1]
  /\ held' = [held EXCEPT ![t][on[t]] = @ + 1]
  /\ Returns(t)
  /\ UNCHANGED <<slot, heap, glock, used, inside, once, past>>

\* The host's pthread_mutex_unlock, refused to a thread that does not own
\* the mutex; the guest does not look at the result.
HostUnlock(t) ==
  LET ob == real[t] IN
  /\ pc[t] = "host" /\ op[t] = "unlock"
  /\ \/ owner[ob] # t /\ UNCHANGED <<owner, depth>>
     \/ /\ owner[ob] = t
        /\ depth' = [depth EXCEPT ![ob] = @ - 1]
        /\ owner' = [owner EXCEPT ![ob] = IF depth[ob] = 1 THEN NoThread ELSE t]
  /\ held' = [held EXCEPT ![t][on[t]] = @ - 1]
  /\ Returns(t)
  /\ UNCHANGED <<slot, heap, glock, used, inside, once, past>>

(***************************************************************************)
(* Initialization and destruction.                                         *)
(***************************************************************************)

\* b_mutex_init makes the host mutex before it takes the lock.
CallInit(t, m) ==
  /\ m \notin used /\ Untouched(m)
  /\ \E ob \in Objects \ heap :
       Allocates(ob) /\ real' = [real EXCEPT ![t] = ob]
  /\ Calls(t, "init", m, "glock")
  /\ used' = used \cup {m}
  /\ UNCHANGED <<slot, glock, held, inside, once, past>>

Store(t) ==
  /\ Under(t, "init") /\ Returns(t)
  /\ slot' = [slot EXCEPT ![on[t]] = real[t]]
  /\ UNCHANGED <<heap, owner, depth, guest>>

CallDestroy(t, m) ==
  /\ m \in used /\ Untouched(m)
  /\ Calls(t, "destroy", m, "glock")
  /\ used' = used \ {m}
  /\ UNCHANGED <<host, glock, real, held, inside, once, past>>

\* Mutant: the host mutex is freed and the slot left as it was.
Clear_Dangling(t) ==
  /\ Under(t, "destroy") /\ Returns(t)
  /\ heap' = heap \ {slot[on[t]]}
  /\ UNCHANGED <<slot, owner, depth, guest>>

\* Mutant: the slot is cleared and the host mutex not freed.
Clear_Unfreed(t) ==
  /\ Under(t, "destroy") /\ Returns(t)
  /\ slot' = [slot EXCEPT ![on[t]] = Zero]
  /\ UNCHANGED <<heap, owner, depth, guest>>

\* b_mutex_destroy: the host mutex is freed and the slot cleared.
Clear(t) ==
  /\ Under(t, "destroy") /\ Returns(t)
  /\ heap' = heap \ {slot[on[t]]}
  /\ slot' = [slot EXCEPT ![on[t]] = Zero]
  /\ UNCHANGED <<owner, depth, guest>>

(***************************************************************************)
(* pthread_once.                                                           *)
(***************************************************************************)

HoldsNothing(t) == \A m \in Mutexes : held[t][m] = 0

CallOnce(t, o) ==
  /\ HoldsNothing(t) /\ inside[t] = NoOne
  /\ Calls(t, "once", o, "glock")
  /\ UNCHANGED <<host, glock, real, guest>>

\* Somebody runs the initializer: let the lock go, and wait.
Wait(t) ==
  /\ Under(t, "once") /\ once[on[t]] = 1
  /\ At(t, "poll")
  /\ UNCHANGED <<host, op, on, real, guest>>

\* usleep(200) is over.
Poll(t) ==
  /\ pc[t] = "poll" /\ At(t, "glock")
  /\ UNCHANGED <<host, glock, op, on, real, guest>>

\* t runs the initializer, without the lock: it may make any other call.
Run(t) ==
  /\ Under(t, "once") /\ once[on[t]] = 0
  /\ once' = [once EXCEPT ![on[t]] = 1]
  /\ inside' = [inside EXCEPT ![t] = on[t]]
  /\ Returns(t)
  /\ UNCHANGED <<host, used, held, past>>

\* The initializer returns.
Initialized(t) ==
  /\ inside[t] # NoOne /\ HoldsNothing(t)
  /\ Calls(t, "mark", inside[t], "glock")
  /\ UNCHANGED <<host, glock, real, guest>>

\* Mutant: the once control stays at 1.
Mark_Forgets(t) ==
  /\ Under(t, "mark") /\ Returns(t)
  /\ inside' = [inside EXCEPT ![t] = NoOne]
  /\ past' = [past EXCEPT ![t] = @ \cup {on[t]}]
  /\ UNCHANGED <<host, used, held, once>>

Mark(t) ==
  /\ Under(t, "mark") /\ Returns(t)
  /\ once' = [once EXCEPT ![on[t]] = 2]
  /\ inside' = [inside EXCEPT ![t] = NoOne]
  /\ past' = [past EXCEPT ![t] = @ \cup {on[t]}]
  /\ UNCHANGED <<host, used, held>>

Pass(t) ==
  /\ Under(t, "once") /\ once[on[t]] = 2
  /\ Returns(t)
  /\ past' = [past EXCEPT ![t] = @ \cup {on[t]}]
  /\ UNCHANGED <<host, used, held, inside, once>>

-----------------------------------------------------------------------------

Guest(t) ==
  \/ \E m \in Mutexes : \/ CallLock(t, m) \/ CallUnlock(t, m)
                        \/ CallInit(t, m) \/ CallDestroy(t, m)
  \/ \E o \in Onces : CallOnce(t, o)
  \/ Initialized(t)

Bridge(t) ==
  \/ TakeGlobal(t) \/ Look(t) \/ Make(t) \/ Reread(t)
  \/ HostLock(t) \/ HostUnlock(t) \/ Store(t) \/ Clear(t)
  \/ Wait(t) \/ Poll(t) \/ Run(t) \/ Mark(t) \/ Pass(t)

Next == \E t \in Threads : Guest(t) \/ Bridge(t)

Spec == Init /\ [][Next]_vars

\* The guest unlocks the mutex it locked first, which it holds d times.
LetsGo(t, d) ==
  \E m \in Mutexes :
    /\ held[t][m] = d /\ \A n \in Mutexes : n < m => held[t][n] = 0
    /\ CallUnlock(t, m)

\* Threads run, a host mutex that is free again and again is got, and a
\* guest thread lets go of what it holds and ends an initializer it runs.
Fairness ==
  \A t \in Threads :
    /\ SF_vars(Bridge(t))
    /\ SF_vars(Initialized(t))
    /\ \A d \in 1 .. MaxDepth : SF_vars(LetsGo(t, d))

FairSpec == Spec /\ Fairness

-----------------------------------------------------------------------------
(***************************************************************************)
(* Properties.                                                             *)
(***************************************************************************)

\* The type invariant: a mutex's storage holds a host mutex or what its
\* static initializer left, and the host is only given mutexes of its own.
TypeOK ==
  /\ slot \in [Mutexes -> Objects \cup {Zero, Magic}]
  /\ heap \subseteq Objects
  /\ owner \in [Objects -> Threads \cup {NoThread}]
  /\ depth \in [Objects -> 0 .. MaxDepth]
  /\ glock \in Threads \cup {NoThread}
  /\ pc \in [Threads -> {"guest", "look", "glock", "body", "reread", "host", "poll"}]
  /\ op \in [Threads -> {"none", "lock", "unlock", "init", "destroy", "once", "mark"}]
  /\ on \in [Threads -> Mutexes \cup Onces \cup {NoOne}]
  /\ real \in [Threads -> Objects \cup {Zero}]
  /\ used \subseteq Mutexes
  /\ held \in [Threads -> [Mutexes -> 0 .. MaxDepth]]
  /\ inside \in [Threads -> Onces \cup {NoOne}]
  /\ once \in [Onces -> 0 .. 2]
  /\ past \in [Threads -> SUBSET Onces]

\* b_mutex_lock and b_mutex_unlock reach the host with the mutex the slot
\* names now, and it is allocated: never one that a racing first use has
\* replaced or that a destroy has freed.
UsesTheLiveObject ==
  \A t \in Threads : pc[t] = "host" =>
    real[t] = slot[on[t]] /\ real[t] \in heap

\* Every host mutex allocated is in the one slot it was made for, or in the
\* hands of the b_mutex_init that is about to store it: two threads that
\* use a mutex first make one, and a destroyed mutex is given back.
NothingLeaks ==
  \A ob \in heap :
    Cardinality({m \in Mutexes : slot[m] = ob})
      + Cardinality({t \in Threads : op[t] = "init" /\ real[t] = ob}) = 1

(***************************************************************************)
(* The inductive invariant: a mutex the guest holds is the slot's host     *)
(* mutex, owned by that thread to that depth; nobody else works on a mutex *)
(* that is being initialized or destroyed.                                 *)
(***************************************************************************)

\* Where each thread is in its call.
Where ==
  /\ \A t \in Threads :
       /\ pc[t] = "guest" <=> op[t] = "none"
       /\ pc[t] = "guest" <=> on[t] = NoOne
       /\ op[t] \in {"lock", "unlock", "init", "destroy"} => on[t] \in Mutexes
       /\ op[t] \in {"once", "mark"} => on[t] \in Onces
       /\ pc[t] \in {"look", "reread", "host"} => op[t] \in {"lock", "unlock"}
       /\ pc[t] = "poll" => op[t] = "once"
       /\ pc[t] = "body" <=> glock = t

\* A host mutex is in one slot, or still with the init that made it.
Slots ==
  /\ \A m \in Mutexes : slot[m] \in Objects => slot[m] \in heap
  /\ \A m, n \in Mutexes : slot[m] = slot[n] /\ slot[m] \in Objects => m = n
  /\ \A t \in Threads : op[t] = "init" =>
       /\ real[t] \in heap
       /\ \A m \in Mutexes : slot[m] # real[t]
       /\ owner[real[t]] = NoThread /\ depth[real[t]] = 0
  /\ \A t, u \in Threads :
       op[t] = "init" /\ op[u] = "init" /\ real[t] = real[u] => t = u

\* What the guest holds is what the host says.
Holding ==
  /\ \A t \in Threads, m \in Mutexes : held[t][m] > 0 =>
       /\ slot[m] \in Objects
       /\ owner[slot[m]] = t /\ depth[slot[m]] = held[t][m]
  /\ \A m \in Mutexes : slot[m] \in Objects =>
       /\ owner[slot[m]] = NoThread => depth[slot[m]] = 0
       /\ \A t \in Threads : owner[slot[m]] = t => held[t][m] > 0

\* What a call has found out stays true until it uses it.
Working ==
  \A t \in Threads :
    /\ pc[t] \in {"reread", "host"} => slot[on[t]] \in Objects
    /\ pc[t] = "host" => real[t] = slot[on[t]]
    /\ op[t] = "unlock" => held[t][on[t]] > 0
    /\ op[t] = "lock" => held[t][on[t]] < MaxDepth
    /\ op[t] \in {"init", "destroy"} =>
         \A u \in Threads : held[u][on[t]] = 0 /\ (u # t => on[u] # on[t])

\* An initializer is run by one thread, while its control is 1.
Running ==
  /\ \A t \in Threads :
       /\ inside[t] # NoOne => once[inside[t]] = 1
       /\ op[t] = "mark" => inside[t] = on[t]
       /\ op[t] = "once" => inside[t] = NoOne
  /\ \A t, u \in Threads : inside[t] = inside[u] /\ inside[t] # NoOne => t = u

IInv == TypeOK /\ Where /\ Slots /\ Holding /\ Working /\ Running

Sync == INSTANCE GuestSync

\* What the game sees of its mutexes and initializers is what bionic gives:
\* no two threads hold a mutex, however its storage was initialized and
\* whoever used it first, and nobody passes pthread_once before the one run
\* of the initializer is over.
ActsLikeBionic == Sync!Spec

\* Every call comes back: no waiting for g_lock, for an initializer or for a
\* mutex lasts for ever.
CallsReturn == \A t \in Threads : []<>(pc[t] = "guest")
=============================================================================
