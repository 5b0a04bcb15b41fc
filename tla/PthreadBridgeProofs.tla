------------------------ MODULE PthreadBridgeProofs ------------------------
(***************************************************************************)
(* For any number of threads, mutexes and once controls: the bridge keeps  *)
(* its types, hands the host the mutex the slot names, loses no mutex, and *)
(* implements GuestSync.  The inductive invariant is IInv of PthreadBridge *)
(* (with Accounted below, for what is lost); one lemma shows for each of   *)
(* its parts that every step keeps it.                                     *)
(***************************************************************************)
EXTENDS PthreadBridge, FiniteSetTheorems, TLAPS

\* What a thread holds of a mutex is a number.
LEMMA HeldNat ==
  ASSUME IInv, NEW t \in Threads, NEW m \in Mutexes
  PROVE  held[t][m] \in 0 .. MaxDepth /\ held[t][m] \in Nat
  <1>1. held[t][m] \in 0 .. MaxDepth
    BY DEF IInv, TypeOK
  <1>. QED
    BY <1>1, BridgeAssumption

\* A call at the host works on the slot's host mutex, and what the guest
\* holds of it is its depth; an unlock comes from the owner.
LEMMA HostCall ==
  ASSUME IInv, NEW t \in Threads, pc[t] = "host"
  PROVE  \E m \in Mutexes :
           /\ on[t] = m /\ real[t] = slot[m] /\ slot[m] \in Objects
           /\ owner[slot[m]] \in {NoThread, t} => depth[slot[m]] = held[t][m]
           /\ op[t] = "unlock" => owner[slot[m]] = t /\ held[t][m] > 0
           /\ op[t] = "lock" => held[t][m] < MaxDepth
  <1>1. PICK m \in Mutexes :
          /\ on[t] = m /\ real[t] = slot[m] /\ slot[m] \in Objects
    BY DEF IInv, Where, Working
  <1>2. held[t][m] \in Nat
    BY HeldNat
  <1>3. owner[slot[m]] = NoThread => held[t][m] = 0
    BY <1>1, <1>2, BridgeAssumption DEF IInv, Holding
  <1>4. owner[slot[m]] \in {NoThread, t} => depth[slot[m]] = held[t][m]
    BY <1>1, <1>3 DEF IInv, Holding
  <1>5. /\ op[t] = "unlock" => held[t][m] > 0
        /\ op[t] = "lock" => held[t][m] < MaxDepth
    BY <1>1 DEF IInv, Working
  <1>6. held[t][m] > 0 => owner[slot[m]] = t
    BY <1>1 DEF IInv, Holding
  <1>. QED
    BY <1>1, <1>4, <1>5, <1>6

\* A slot that is neither zero nor magic holds a host mutex.
LEMMA Pointer ==
  ASSUME IInv, NEW m \in Mutexes
  PROVE IsHeapPtr(slot[m]) <=> slot[m] \in Objects
  BY BridgeAssumption DEF IInv, TypeOK, IsHeapPtr

\* Every step keeps the types; the depth bound needs Holding, the slot's
\* content Working.
LEMMA TypeOKStep ==
  ASSUME IInv, [Next]_vars PROVE TypeOK'
  <1> USE BridgeAssumption
     DEF IInv, vars, host, guest, call, At, Calls, Returns, Under
  <1>1. ASSUME NEW t \in Threads, TakeGlobal(t) PROVE TypeOK'
    BY <1>1 DEF TypeOK, TakeGlobal
  <1>2. ASSUME NEW t \in Threads, Look(t) PROVE TypeOK'
    BY <1>2 DEF TypeOK, Look, IsHeapPtr
  <1>3. ASSUME NEW t \in Threads, Make(t) PROVE TypeOK'
    <2>1. CASE IsHeapPtr(slot[on[t]])
      BY <1>3, <2>1 DEF TypeOK, Where, Holding, Working, Make, IsHeapPtr
    <2>2. CASE ~IsHeapPtr(slot[on[t]])
      <3>1. PICK ob \in Objects \ heap :
              Allocates(ob) /\ slot' = [slot EXCEPT ![on[t]] = ob]
        BY <1>3, <2>2 DEF Make
      <3>2. on[t] \in Mutexes /\ pc[t] = "body" /\ glock = t
        BY <1>3 DEF Make, Where
      <3>. QED
        BY <1>3, <2>2, <3>1, <3>2
           DEF TypeOK, Where, Holding, Working, Make, Allocates, IsHeapPtr
    <2>. QED
      BY <2>1, <2>2
  <1>4. ASSUME NEW t \in Threads, Reread(t) PROVE TypeOK'
    BY <1>4 DEF TypeOK, Working, Reread
  <1>5. ASSUME NEW t \in Threads, HostLock(t) PROVE TypeOK'
    <2>1. PICK m \in Mutexes :
            /\ on[t] = m /\ real[t] = slot[m] /\ slot[m] \in Objects
            /\ depth[slot[m]] = held[t][m] /\ held[t][m] < MaxDepth
      BY <1>5, HostCall DEF HostLock
    <2>2. held[t][m] + 1 \in 0 .. MaxDepth
      <3>1. held[t][m] \in Nat /\ held[t][m] \in 0 .. MaxDepth
        BY HeldNat
      <3>. QED
        BY <2>1, <3>1, BridgeAssumption
    <2>3. held' = [held EXCEPT ![t][m] = held[t][m] + 1]
      BY <1>5, <2>1 DEF HostLock
    <2>4. depth' = [depth EXCEPT ![slot[m]] = held[t][m] + 1]
      BY <1>5, <2>1 DEF TypeOK, HostLock
    <2>5. held' \in [Threads -> [Mutexes -> 0 .. MaxDepth]]
      BY <2>2, <2>3 DEF TypeOK
    <2>6. depth' \in [Objects -> 0 .. MaxDepth]
      BY <2>1, <2>2, <2>4 DEF TypeOK
    <2>. QED
      BY <1>5, <2>1, <2>5, <2>6 DEF TypeOK, HostLock
  <1>6. ASSUME NEW t \in Threads, HostUnlock(t) PROVE TypeOK'
    <2>1. PICK m \in Mutexes :
            /\ on[t] = m /\ real[t] = slot[m] /\ slot[m] \in Objects
            /\ depth[slot[m]] = held[t][m] /\ held[t][m] > 0 /\ owner[slot[m]] = t
      BY <1>6, HostCall, t # NoThread DEF HostUnlock
    <2>2. held[t][m] - 1 \in 0 .. MaxDepth
      <3>1. held[t][m] \in Nat /\ held[t][m] \in 0 .. MaxDepth
        BY HeldNat
      <3>. QED
        BY <2>1, <3>1, BridgeAssumption
    <2>3. held' = [held EXCEPT ![t][m] = held[t][m] - 1]
      BY <1>6, <2>1 DEF HostUnlock
    <2>4. depth' = [depth EXCEPT ![slot[m]] = held[t][m] - 1]
      BY <1>6, <2>1 DEF TypeOK, HostUnlock
    <2>5. held' \in [Threads -> [Mutexes -> 0 .. MaxDepth]]
      BY <2>2, <2>3 DEF TypeOK
    <2>6. depth' \in [Objects -> 0 .. MaxDepth]
      BY <2>1, <2>2, <2>4 DEF TypeOK
    <2>. QED
      BY <1>6, <2>1, <2>5, <2>6 DEF TypeOK, HostUnlock
  <1>7. ASSUME NEW t \in Threads, Store(t) PROVE TypeOK'
    BY <1>7 DEF TypeOK, Store
  <1>8. ASSUME NEW t \in Threads, Clear(t) PROVE TypeOK'
    BY <1>8 DEF TypeOK, Clear
  <1>9. ASSUME NEW t \in Threads, Wait(t) PROVE TypeOK'
    BY <1>9 DEF TypeOK, Wait
  <1>10. ASSUME NEW t \in Threads, Poll(t) PROVE TypeOK'
    BY <1>10 DEF TypeOK, Poll
  <1>11. ASSUME NEW t \in Threads, Run(t) PROVE TypeOK'
    BY <1>11 DEF TypeOK, Where, Run
  <1>12. ASSUME NEW t \in Threads, Mark(t) PROVE TypeOK'
    BY <1>12 DEF TypeOK, Where, Mark
  <1>13. ASSUME NEW t \in Threads, Pass(t) PROVE TypeOK'
    BY <1>13 DEF TypeOK, Where, Pass
  <1>14. ASSUME NEW t \in Threads, Initialized(t) PROVE TypeOK'
    BY <1>14 DEF TypeOK, Initialized, HoldsNothing
  <1>15. ASSUME NEW t \in Threads, NEW m \in Mutexes, CallLock(t, m)
         PROVE TypeOK'
    BY <1>15 DEF TypeOK, CallLock, Settled
  <1>16. ASSUME NEW t \in Threads, NEW m \in Mutexes, CallUnlock(t, m)
         PROVE TypeOK'
    BY <1>16 DEF TypeOK, CallUnlock
  <1>17. ASSUME NEW t \in Threads, NEW m \in Mutexes, CallInit(t, m)
         PROVE TypeOK'
    BY <1>17 DEF TypeOK, CallInit, Untouched, Allocates
  <1>18. ASSUME NEW t \in Threads, NEW m \in Mutexes, CallDestroy(t, m)
         PROVE TypeOK'
    BY <1>18 DEF TypeOK, CallDestroy, Untouched
  <1>19. ASSUME NEW t \in Threads, NEW o \in Onces, CallOnce(t, o) PROVE TypeOK'
    BY <1>19 DEF TypeOK, CallOnce, HoldsNothing
  <1>20. CASE UNCHANGED vars
    BY <1>20 DEF TypeOK
  <1>. QED
    BY <1>1, <1>2, <1>3, <1>4, <1>5, <1>6, <1>7, <1>8, <1>9, <1>10,
       <1>11, <1>12, <1>13, <1>14, <1>15, <1>16, <1>17, <1>18, <1>19,
       <1>20 DEF Next, Guest, Bridge

\* Every step keeps program counter, call and argument in agreement.
LEMMA WhereStep ==
  ASSUME IInv, [Next]_vars PROVE Where'
  <1> USE BridgeAssumption
     DEF IInv, vars, host, guest, call, At, Calls, Returns, Under
  <1>1. ASSUME NEW t \in Threads, TakeGlobal(t) PROVE Where'
    BY <1>1 DEF Where, TypeOK, TakeGlobal
  <1>2. ASSUME NEW t \in Threads, Look(t) PROVE Where'
    BY <1>2 DEF Where, Look, IsHeapPtr
  <1>3. ASSUME NEW t \in Threads, Make(t) PROVE Where'
    BY <1>3 DEF Where, TypeOK, Make, Allocates, IsHeapPtr
  <1>4. ASSUME NEW t \in Threads, Reread(t) PROVE Where'
    BY <1>4 DEF Where, Reread
  <1>5. ASSUME NEW t \in Threads, HostLock(t) PROVE Where'
    BY <1>5 DEF Where, TypeOK, HostLock
  <1>6. ASSUME NEW t \in Threads, HostUnlock(t) PROVE Where'
    BY <1>6 DEF Where, TypeOK, HostUnlock
  <1>7. ASSUME NEW t \in Threads, Store(t) PROVE Where'
    BY <1>7 DEF Where, TypeOK, Store
  <1>8. ASSUME NEW t \in Threads, Clear(t) PROVE Where'
    BY <1>8 DEF Where, TypeOK, Clear
  <1>9. ASSUME NEW t \in Threads, Wait(t) PROVE Where'
    BY <1>9 DEF Where, TypeOK, Wait
  <1>10. ASSUME NEW t \in Threads, Poll(t) PROVE Where'
    BY <1>10 DEF Where, Poll
  <1>11. ASSUME NEW t \in Threads, Run(t) PROVE Where'
    BY <1>11 DEF Where, TypeOK, Run
  <1>12. ASSUME NEW t \in Threads, Mark(t) PROVE Where'
    BY <1>12 DEF Where, TypeOK, Mark
  <1>13. ASSUME NEW t \in Threads, Pass(t) PROVE Where'
    BY <1>13 DEF Where, TypeOK, Pass
  <1>14. ASSUME NEW t \in Threads, Initialized(t) PROVE Where'
    BY <1>14 DEF Where, TypeOK, Initialized, HoldsNothing
  <1>15. ASSUME NEW t \in Threads, NEW m \in Mutexes, CallLock(t, m)
         PROVE Where'
    BY <1>15 DEF Where, TypeOK, CallLock, Settled
  <1>16. ASSUME NEW t \in Threads, NEW m \in Mutexes, CallUnlock(t, m)
         PROVE Where'
    BY <1>16 DEF Where, TypeOK, CallUnlock
  <1>17. ASSUME NEW t \in Threads, NEW m \in Mutexes, CallInit(t, m)
         PROVE Where'
    BY <1>17 DEF Where, TypeOK, CallInit, Untouched, Allocates
  <1>18. ASSUME NEW t \in Threads, NEW m \in Mutexes, CallDestroy(t, m)
         PROVE Where'
    BY <1>18 DEF Where, TypeOK, CallDestroy, Untouched
  <1>19. ASSUME NEW t \in Threads, NEW o \in Onces, CallOnce(t, o) PROVE Where'
    BY <1>19 DEF Where, TypeOK, CallOnce, HoldsNothing
  <1>20. CASE UNCHANGED vars
    BY <1>20 DEF Where
  <1>. QED
    BY <1>1, <1>2, <1>3, <1>4, <1>5, <1>6, <1>7, <1>8, <1>9, <1>10,
       <1>11, <1>12, <1>13, <1>14, <1>15, <1>16, <1>17, <1>18, <1>19,
       <1>20 DEF Next, Guest, Bridge

\* Every step keeps each host mutex in one place.
LEMMA SlotsStep ==
  ASSUME IInv, [Next]_vars PROVE Slots'
  <1> USE BridgeAssumption
     DEF IInv, vars, host, guest, call, At, Calls, Returns, Under
  <1>1. ASSUME NEW t \in Threads, TakeGlobal(t) PROVE Slots'
    BY <1>1 DEF Slots, TakeGlobal
  <1>2. ASSUME NEW t \in Threads, Look(t) PROVE Slots'
    BY <1>2 DEF Slots, Look, IsHeapPtr
  <1>3. ASSUME NEW t \in Threads, Make(t) PROVE Slots'
    <2>1. CASE IsHeapPtr(slot[on[t]])
      BY <1>3, <2>1 DEF Slots, TypeOK, Where, Working, Make, IsHeapPtr
    <2>2. CASE ~IsHeapPtr(slot[on[t]])
      <3>1. PICK ob \in Objects \ heap :
              Allocates(ob) /\ slot' = [slot EXCEPT ![on[t]] = ob]
        BY <1>3, <2>2 DEF Make
      <3>2. on[t] \in Mutexes /\ pc[t] = "body" /\ glock = t
        BY <1>3 DEF Make, Where
      <3>. QED
        BY <1>3, <2>2, <3>1, <3>2
           DEF Slots, TypeOK, Where, Working, Make, Allocates, IsHeapPtr
    <2>. QED
      BY <2>1, <2>2
  <1>4. ASSUME NEW t \in Threads, Reread(t) PROVE Slots'
    BY <1>4 DEF Slots, Where, Reread
  <1>5. ASSUME NEW t \in Threads, HostLock(t) PROVE Slots'
    <2>1. PICK m \in Mutexes :
            /\ on[t] = m /\ real[t] = slot[m] /\ slot[m] \in Objects
            /\ depth[slot[m]] = held[t][m]
      BY <1>5, HostCall DEF HostLock
    <2>2. \A u \in Threads : op'[u] = "init" =>
            u # t /\ op[u] = "init" /\ real'[u] = real[u]
      BY <1>5 DEF TypeOK, HostLock
    <2>3. \A u \in Threads : op'[u] = "init" => real[u] # slot[m]
      BY <2>2, <2>1 DEF Slots
    <2>4. \A u \in Threads : op'[u] = "init" =>
            owner'[real'[u]] = NoThread /\ depth'[real'[u]] = 0
      BY <1>5, <2>1, <2>2, <2>3 DEF TypeOK, Slots, HostLock
    <2>5. \A u, v \in Threads :
            op'[u] = "init" /\ op'[v] = "init" /\ real'[u] = real'[v] => u = v
      BY <2>2 DEF Slots
    <2>. QED
      BY <1>5, <2>2, <2>4, <2>5 DEF Slots, HostLock
  <1>6. ASSUME NEW t \in Threads, HostUnlock(t) PROVE Slots'
    BY <1>6 DEF Slots, TypeOK, HostUnlock
  <1>7. ASSUME NEW t \in Threads, Store(t) PROVE Slots'
    BY <1>7 DEF Slots, TypeOK, Store
  <1>8. ASSUME NEW t \in Threads, Clear(t) PROVE Slots'
    <2>1. on[t] \in Mutexes
      BY <1>8 DEF Where, Clear
    <2>2. \A u \in Threads : op'[u] = "init" =>
            op[u] = "init" /\ real'[u] = real[u] /\ real[u] # slot[on[t]]
      BY <1>8, <2>1 DEF TypeOK, Slots, Clear
    <2>3. \A m \in Mutexes : slot'[m] \in Objects =>
            m # on[t] /\ slot'[m] = slot[m] /\ slot[m] # slot[on[t]]
      BY <1>8, <2>1, BridgeAssumption DEF TypeOK, Slots, Clear
    <2>. QED
      BY <1>8, <2>1, <2>2, <2>3, BridgeAssumption DEF TypeOK, Slots, Clear
  <1>9. ASSUME NEW t \in Threads, Wait(t) PROVE Slots'
    BY <1>9 DEF Slots, Wait
  <1>10. ASSUME NEW t \in Threads, Poll(t) PROVE Slots'
    BY <1>10 DEF Slots, Poll
  <1>11. ASSUME NEW t \in Threads, Run(t) PROVE Slots'
    BY <1>11 DEF Slots, Run
  <1>12. ASSUME NEW t \in Threads, Mark(t) PROVE Slots'
    BY <1>12 DEF Slots, Mark
  <1>13. ASSUME NEW t \in Threads, Pass(t) PROVE Slots'
    BY <1>13 DEF Slots, Pass
  <1>14. ASSUME NEW t \in Threads, Initialized(t) PROVE Slots'
    BY <1>14 DEF Slots, Initialized, HoldsNothing
  <1>15. ASSUME NEW t \in Threads, NEW m \in Mutexes, CallLock(t, m)
         PROVE Slots'
    BY <1>15 DEF Slots, CallLock, Settled
  <1>16. ASSUME NEW t \in Threads, NEW m \in Mutexes, CallUnlock(t, m)
         PROVE Slots'
    BY <1>16 DEF Slots, CallUnlock
  <1>17. ASSUME NEW t \in Threads, NEW m \in Mutexes, CallInit(t, m)
         PROVE Slots'
    BY <1>17 DEF Slots, TypeOK, CallInit, Untouched, Allocates
  <1>18. ASSUME NEW t \in Threads, NEW m \in Mutexes, CallDestroy(t, m)
         PROVE Slots'
    BY <1>18 DEF Slots, TypeOK, Where, Working, CallDestroy, Untouched
  <1>19. ASSUME NEW t \in Threads, NEW o \in Onces, CallOnce(t, o) PROVE Slots'
    BY <1>19 DEF Slots, CallOnce, HoldsNothing
  <1>20. CASE UNCHANGED vars
    BY <1>20 DEF Slots
  <1>. QED
    BY <1>1, <1>2, <1>3, <1>4, <1>5, <1>6, <1>7, <1>8, <1>9, <1>10,
       <1>11, <1>12, <1>13, <1>14, <1>15, <1>16, <1>17, <1>18, <1>19,
       <1>20 DEF Next, Guest, Bridge

\* Every step keeps what the guest holds equal to what the host says.
LEMMA HoldingStep ==
  ASSUME IInv, [Next]_vars PROVE Holding'
  <1> USE BridgeAssumption
     DEF IInv, vars, host, guest, call, At, Calls, Returns, Under
  <1>1. ASSUME NEW t \in Threads, TakeGlobal(t) PROVE Holding'
    BY <1>1 DEF Holding, TypeOK, Where, Slots, Working, TakeGlobal
  <1>2. ASSUME NEW t \in Threads, Look(t) PROVE Holding'
    BY <1>2 DEF Holding, Look, IsHeapPtr
  <1>3. ASSUME NEW t \in Threads, Make(t) PROVE Holding'
    <2>1. CASE IsHeapPtr(slot[on[t]])
      BY <1>3, <2>1 DEF Holding, TypeOK, Where, Slots, Working, Make, IsHeapPtr
    <2>2. CASE ~IsHeapPtr(slot[on[t]])
      <3>1. PICK ob \in Objects \ heap :
              Allocates(ob) /\ slot' = [slot EXCEPT ![on[t]] = ob]
        BY <1>3, <2>2 DEF Make
      <3>2. on[t] \in Mutexes /\ pc[t] = "body" /\ glock = t
        BY <1>3 DEF Make, Where
      <3>. QED
        BY <1>3, <2>2, <3>1, <3>2
           DEF Holding, TypeOK, Where, Slots, Working, Make, Allocates,
               IsHeapPtr
    <2>. QED
      BY <2>1, <2>2
  <1>4. ASSUME NEW t \in Threads, Reread(t) PROVE Holding'
    BY <1>4 DEF Holding, TypeOK, Reread
  <1>5. ASSUME NEW t \in Threads, HostLock(t) PROVE Holding'
    <2>1. PICK x \in Mutexes :
            /\ on[t] = x /\ real[t] = slot[x] /\ slot[x] \in Objects
            /\ depth[slot[x]] = held[t][x] /\ held[t][x] < MaxDepth
      BY <1>5, HostCall DEF HostLock
    <2>2. held[t][x] \in Nat
      BY HeldNat
    <2>3. \A u \in Threads \ {t} : ~(held[u][x] > 0)
      BY <1>5, <2>1, BridgeAssumption DEF Holding, HostLock
    <2>4. \A m \in Mutexes \ {x} : slot[m] \in Objects =>
            owner'[slot[m]] = owner[slot[m]] /\ depth'[slot[m]] = depth[slot[m]]
      BY <1>5, <2>1 DEF TypeOK, Slots, HostLock
    <2>5. \A u \in Threads, m \in Mutexes :
            held'[u][m] = IF u = t /\ m = x THEN held[t][x] + 1 ELSE held[u][m]
      BY <1>5, <2>1 DEF TypeOK, HostLock
    <2>6. slot' = slot /\ depth'[slot[x]] = held[t][x] + 1
      BY <1>5, <2>1 DEF TypeOK, HostLock
    <2>7. owner'[slot[x]] = t
      BY <1>5, <2>1 DEF TypeOK, HostLock
    <2>8. ASSUME NEW u \in Threads, NEW m \in Mutexes, held'[u][m] > 0
          PROVE  /\ slot'[m] \in Objects
                 /\ owner'[slot'[m]] = u /\ depth'[slot'[m]] = held'[u][m]
      <3>1. CASE m = x
        BY <2>1, <2>2, <2>3, <2>5, <2>6, <2>7, <2>8, <3>1
      <3>2. CASE m # x
        BY <2>4, <2>5, <2>6, <2>8, <3>2 DEF Holding
      <3>. QED
        BY <3>1, <3>2
    <2>9. ASSUME NEW m \in Mutexes, slot'[m] \in Objects
          PROVE  /\ owner'[slot'[m]] = NoThread => depth'[slot'[m]] = 0
                 /\ \A u \in Threads : owner'[slot'[m]] = u => held'[u][m] > 0
      <3>1. CASE m = x
        <4>1. \A u \in Threads : owner'[slot[x]] = u => u = t /\ held[t][x] + 1 > 0
          BY <2>1, <2>2, <2>7, BridgeAssumption
        <4>2. owner'[slot[x]] = NoThread => held[t][x] + 1 = 0
          BY <2>1, <2>2, <2>7, BridgeAssumption
        <4>. QED
          BY <2>5, <2>6, <3>1, <4>1, <4>2
      <3>2. CASE m # x
        BY <2>4, <2>5, <2>6, <2>9, <3>2 DEF Holding
      <3>. QED
        BY <3>1, <3>2
    <2>. QED
      BY <2>8, <2>9 DEF Holding
  <1>6. ASSUME NEW t \in Threads, HostUnlock(t) PROVE Holding'
    <2>1. PICK x \in Mutexes :
            /\ on[t] = x /\ real[t] = slot[x] /\ slot[x] \in Objects
            /\ depth[slot[x]] = held[t][x] /\ held[t][x] > 0 /\ owner[slot[x]] = t
      BY <1>6, HostCall, t # NoThread DEF HostUnlock
    <2>2. held[t][x] \in Nat
      BY HeldNat
    <2>3. \A u \in Threads \ {t} : ~(held[u][x] > 0)
      BY <1>6, <2>1, BridgeAssumption DEF Holding, HostUnlock
    <2>4. \A m \in Mutexes \ {x} : slot[m] \in Objects =>
            owner'[slot[m]] = owner[slot[m]] /\ depth'[slot[m]] = depth[slot[m]]
      BY <1>6, <2>1 DEF TypeOK, Slots, HostUnlock
    <2>5. \A u \in Threads, m \in Mutexes :
            held'[u][m] = IF u = t /\ m = x THEN held[t][x] - 1 ELSE held[u][m]
      BY <1>6, <2>1 DEF TypeOK, HostUnlock
    <2>6. slot' = slot /\ depth'[slot[x]] = held[t][x] - 1
      BY <1>6, <2>1 DEF TypeOK, HostUnlock
    <2>7. owner'[slot[x]] = IF held[t][x] = 1 THEN NoThread ELSE t
      BY <1>6, <2>1 DEF TypeOK, HostUnlock
    <2>8. ASSUME NEW u \in Threads, NEW m \in Mutexes, held'[u][m] > 0
          PROVE  /\ slot'[m] \in Objects
                 /\ owner'[slot'[m]] = u /\ depth'[slot'[m]] = held'[u][m]
      <3>1. CASE m = x
        BY <2>1, <2>2, <2>3, <2>5, <2>6, <2>7, <2>8, <3>1
      <3>2. CASE m # x
        BY <2>4, <2>5, <2>6, <2>8, <3>2 DEF Holding
      <3>. QED
        BY <3>1, <3>2
    <2>9. ASSUME NEW m \in Mutexes, slot'[m] \in Objects
          PROVE  /\ owner'[slot'[m]] = NoThread => depth'[slot'[m]] = 0
                 /\ \A u \in Threads : owner'[slot'[m]] = u => held'[u][m] > 0
      <3>1. CASE m = x
        <4>1. \A u \in Threads : owner'[slot[x]] = u => u = t /\ held[t][x] - 1 > 0
          BY <2>1, <2>2, <2>7, BridgeAssumption
        <4>2. owner'[slot[x]] = NoThread => held[t][x] - 1 = 0
          BY <2>1, <2>2, <2>7, BridgeAssumption
        <4>. QED
          BY <2>5, <2>6, <3>1, <4>1, <4>2
      <3>2. CASE m # x
        BY <2>4, <2>5, <2>6, <2>9, <3>2 DEF Holding
      <3>. QED
        BY <3>1, <3>2
    <2>. QED
      BY <2>8, <2>9 DEF Holding
  <1>7. ASSUME NEW t \in Threads, Store(t) PROVE Holding'
    BY <1>7 DEF Holding, Slots, Working, Store
  <1>8. ASSUME NEW t \in Threads, Clear(t) PROVE Holding'
    BY <1>8 DEF Holding, TypeOK, Where, Slots, Working, Clear
  <1>9. ASSUME NEW t \in Threads, Wait(t) PROVE Holding'
    BY <1>9 DEF Holding, TypeOK, Wait
  <1>10. ASSUME NEW t \in Threads, Poll(t) PROVE Holding'
    BY <1>10 DEF Holding, Poll
  <1>11. ASSUME NEW t \in Threads, Run(t) PROVE Holding'
    BY <1>11 DEF Holding, TypeOK, Run
  <1>12. ASSUME NEW t \in Threads, Mark(t) PROVE Holding'
    BY <1>12 DEF Holding, Mark
  <1>13. ASSUME NEW t \in Threads, Pass(t) PROVE Holding'
    BY <1>13 DEF Holding, Pass
  <1>14. ASSUME NEW t \in Threads, Initialized(t) PROVE Holding'
    BY <1>14
       DEF Holding, TypeOK, Where, Slots, Working, Initialized, HoldsNothing
  <1>15. ASSUME NEW t \in Threads, NEW m \in Mutexes, CallLock(t, m)
         PROVE Holding'
    BY <1>15 DEF Holding, TypeOK, Where, Slots, Working, CallLock, Settled
  <1>16. ASSUME NEW t \in Threads, NEW m \in Mutexes, CallUnlock(t, m)
         PROVE Holding'
    BY <1>16 DEF Holding, TypeOK, CallUnlock
  <1>17. ASSUME NEW t \in Threads, NEW m \in Mutexes, CallInit(t, m)
         PROVE Holding'
    BY <1>17 DEF Holding, Slots, CallInit, Untouched, Allocates
  <1>18. ASSUME NEW t \in Threads, NEW m \in Mutexes, CallDestroy(t, m)
         PROVE Holding'
    BY <1>18 DEF Holding, TypeOK, CallDestroy, Untouched
  <1>19. ASSUME NEW t \in Threads, NEW o \in Onces, CallOnce(t, o)
         PROVE Holding'
    BY <1>19 DEF Holding, CallOnce, HoldsNothing
  <1>20. CASE UNCHANGED vars
    BY <1>20 DEF Holding, TypeOK
  <1>. QED
    BY <1>1, <1>2, <1>3, <1>4, <1>5, <1>6, <1>7, <1>8, <1>9, <1>10,
       <1>11, <1>12, <1>13, <1>14, <1>15, <1>16, <1>17, <1>18, <1>19,
       <1>20 DEF Next, Guest, Bridge

\* Every step keeps what a call has found out true until it uses it.
LEMMA WorkingStep ==
  ASSUME IInv, [Next]_vars PROVE Working'
  <1> USE BridgeAssumption
     DEF IInv, vars, host, guest, call, At, Calls, Returns, Under
  <1>1. ASSUME NEW t \in Threads, TakeGlobal(t) PROVE Working'
    BY <1>1 DEF Working, TakeGlobal
  <1>2. ASSUME NEW t \in Threads, Look(t) PROVE Working'
    <2>1. PICK m \in Mutexes : on[t] = m
      BY <1>2 DEF Look, Where
    <2>2. pc'[t] = "reread" => slot[m] \in Objects
      BY <1>2, <2>1, Pointer DEF TypeOK, Look
    <2>. QED
      BY <1>2, <2>1, <2>2 DEF Working, TypeOK, Look
  <1>3. ASSUME NEW t \in Threads, Make(t) PROVE Working'
    <2>1. PICK m \in Mutexes : on[t] = m
      BY <1>3 DEF Make, Where
    <2>2. slot'[m] \in Objects
      <3>1. CASE IsHeapPtr(slot[m])
        BY <1>3, <2>1, <3>1, Pointer DEF Make
      <3>2. CASE ~IsHeapPtr(slot[m])
        BY <1>3, <2>1, <3>2 DEF TypeOK, Make
      <3>. QED
        BY <3>1, <3>2
    <2>3. \A u \in Threads \ {t} : pc[u] \in {"reread", "host"} =>
            slot'[on[u]] = slot[on[u]]
      <3>1. CASE IsHeapPtr(slot[m])
        BY <1>3, <2>1, <3>1 DEF Make
      <3>2. CASE ~IsHeapPtr(slot[m])
        <4>1. \A u \in Threads \ {t} : pc[u] \in {"reread", "host"} => on[u] # m
          BY <3>2, <2>1, Pointer DEF Working
        <4>. QED
          BY <1>3, <2>1, <3>2, <4>1 DEF TypeOK, Where, Make
      <3>. QED
        BY <3>1, <3>2
    <2>. QED
      BY <1>3, <2>1, <2>2, <2>3 DEF Working, TypeOK, Where, Make
  <1>4. ASSUME NEW t \in Threads, Reread(t) PROVE Working'
    BY <1>4 DEF Working, TypeOK, Reread
  <1>5. ASSUME NEW t \in Threads, HostLock(t) PROVE Working'
    BY <1>5 DEF Working, TypeOK, Where, HostLock
  <1>6. ASSUME NEW t \in Threads, HostUnlock(t) PROVE Working'
    BY <1>6 DEF Working, TypeOK, Where, HostUnlock
  <1>7. ASSUME NEW t \in Threads, Store(t) PROVE Working'
    BY <1>7 DEF Working, TypeOK, Where, Store
  <1>8. ASSUME NEW t \in Threads, Clear(t) PROVE Working'
    BY <1>8 DEF Working, TypeOK, Where, Clear
  <1>9. ASSUME NEW t \in Threads, Wait(t) PROVE Working'
    BY <1>9 DEF Working, Wait
  <1>10. ASSUME NEW t \in Threads, Poll(t) PROVE Working'
    BY <1>10 DEF Working, Poll
  <1>11. ASSUME NEW t \in Threads, Run(t) PROVE Working'
    BY <1>11 DEF Working, Where, Run
  <1>12. ASSUME NEW t \in Threads, Mark(t) PROVE Working'
    BY <1>12 DEF Working, Where, Mark
  <1>13. ASSUME NEW t \in Threads, Pass(t) PROVE Working'
    BY <1>13 DEF Working, Where, Pass
  <1>14. ASSUME NEW t \in Threads, Initialized(t) PROVE Working'
    BY <1>14 DEF Working, TypeOK, Where, Initialized, HoldsNothing
  <1>15. ASSUME NEW t \in Threads, NEW m \in Mutexes, CallLock(t, m)
         PROVE Working'
    BY <1>15 DEF Working, TypeOK, CallLock, Settled
  <1>16. ASSUME NEW t \in Threads, NEW m \in Mutexes, CallUnlock(t, m)
         PROVE Working'
    BY <1>16 DEF Working, TypeOK, CallUnlock
  <1>17. ASSUME NEW t \in Threads, NEW m \in Mutexes, CallInit(t, m)
         PROVE Working'
    BY <1>17 DEF Working, TypeOK, CallInit, Untouched, Allocates
  <1>18. ASSUME NEW t \in Threads, NEW m \in Mutexes, CallDestroy(t, m)
         PROVE Working'
    BY <1>18 DEF Working, TypeOK, CallDestroy, Untouched
  <1>19. ASSUME NEW t \in Threads, NEW o \in Onces, CallOnce(t, o)
         PROVE Working'
    BY <1>19 DEF Working, Where, CallOnce, HoldsNothing
  <1>20. CASE UNCHANGED vars
    BY <1>20 DEF Working
  <1>. QED
    BY <1>1, <1>2, <1>3, <1>4, <1>5, <1>6, <1>7, <1>8, <1>9, <1>10,
       <1>11, <1>12, <1>13, <1>14, <1>15, <1>16, <1>17, <1>18, <1>19,
       <1>20 DEF Next, Guest, Bridge

\* Every step keeps a once control at 1 exactly while one thread runs it.
LEMMA RunningStep ==
  ASSUME IInv, [Next]_vars PROVE Running'
  <1> USE BridgeAssumption
     DEF IInv, vars, host, guest, call, At, Calls, Returns, Under
  <1>1. ASSUME NEW t \in Threads, TakeGlobal(t) PROVE Running'
    BY <1>1 DEF Running, TakeGlobal
  <1>2. ASSUME NEW t \in Threads, Look(t) PROVE Running'
    BY <1>2 DEF Running, Look, IsHeapPtr
  <1>3. ASSUME NEW t \in Threads, Make(t) PROVE Running'
    BY <1>3 DEF Running, Make, Allocates, IsHeapPtr
  <1>4. ASSUME NEW t \in Threads, Reread(t) PROVE Running'
    BY <1>4 DEF Running, Reread
  <1>5. ASSUME NEW t \in Threads, HostLock(t) PROVE Running'
    BY <1>5 DEF Running, HostLock
  <1>6. ASSUME NEW t \in Threads, HostUnlock(t) PROVE Running'
    BY <1>6 DEF Running, HostUnlock
  <1>7. ASSUME NEW t \in Threads, Store(t) PROVE Running'
    BY <1>7 DEF Running, Store
  <1>8. ASSUME NEW t \in Threads, Clear(t) PROVE Running'
    BY <1>8 DEF Running, Clear
  <1>9. ASSUME NEW t \in Threads, Wait(t) PROVE Running'
    BY <1>9 DEF Running, Wait
  <1>10. ASSUME NEW t \in Threads, Poll(t) PROVE Running'
    BY <1>10 DEF Running, Poll
  <1>11. ASSUME NEW t \in Threads, Run(t) PROVE Running'
    BY <1>11 DEF Running, TypeOK, Where, Run
  <1>12. ASSUME NEW t \in Threads, Mark(t) PROVE Running'
    BY <1>12 DEF Running, TypeOK, Mark
  <1>13. ASSUME NEW t \in Threads, Pass(t) PROVE Running'
    BY <1>13 DEF Running, Pass
  <1>14. ASSUME NEW t \in Threads, Initialized(t) PROVE Running'
    BY <1>14 DEF Running, TypeOK, Initialized, HoldsNothing
  <1>15. ASSUME NEW t \in Threads, NEW m \in Mutexes, CallLock(t, m)
         PROVE Running'
    BY <1>15 DEF Running, TypeOK, CallLock, Settled
  <1>16. ASSUME NEW t \in Threads, NEW m \in Mutexes, CallUnlock(t, m)
         PROVE Running'
    BY <1>16 DEF Running, TypeOK, CallUnlock
  <1>17. ASSUME NEW t \in Threads, NEW m \in Mutexes, CallInit(t, m)
         PROVE Running'
    BY <1>17 DEF Running, TypeOK, CallInit, Untouched, Allocates
  <1>18. ASSUME NEW t \in Threads, NEW m \in Mutexes, CallDestroy(t, m)
         PROVE Running'
    BY <1>18 DEF Running, TypeOK, CallDestroy, Untouched
  <1>19. ASSUME NEW t \in Threads, NEW o \in Onces, CallOnce(t, o)
         PROVE Running'
    BY <1>19 DEF Running, TypeOK, CallOnce, HoldsNothing
  <1>20. CASE UNCHANGED vars
    BY <1>20 DEF Running
  <1>. QED
    BY <1>1, <1>2, <1>3, <1>4, <1>5, <1>6, <1>7, <1>8, <1>9, <1>10,
       <1>11, <1>12, <1>13, <1>14, <1>15, <1>16, <1>17, <1>18, <1>19,
       <1>20 DEF Next, Guest, Bridge

LEMMA Initially == Init => IInv
  <1> SUFFICES ASSUME Init PROVE IInv
    OBVIOUS
  <1> USE BridgeAssumption DEF Init
  <1>1. TypeOK
    BY DEF TypeOK
  <1>2. Where
    BY DEF Where
  <1>3. Slots
    BY DEF Slots
  <1>4. Holding
    BY DEF Holding
  <1>5. Working /\ Running
    BY DEF Working, Running
  <1>. QED
    BY <1>1, <1>2, <1>3, <1>4, <1>5 DEF IInv

LEMMA Stepwise == IInv /\ [Next]_vars => IInv'
  BY TypeOKStep, WhereStep, SlotsStep, HoldingStep, WorkingStep, RunningStep
     DEF IInv

LEMMA Invariant == Spec => []IInv
  BY Initially, Stepwise, PTL DEF Spec

\* The bridge never leaves its types: the storage of a mutex holds a host
\* mutex or a static initializer, whatever threads use it first at once.
THEOREM Typing == Spec => []TypeOK
  <1>1. IInv => TypeOK
    BY DEF IInv
  <1>. QED
    BY <1>1, Invariant, PTL

\* b_mutex_lock and b_mutex_unlock hand the host the mutex that the slot
\* names at that moment, and it is allocated.
THEOREM LiveObject == Spec => []UsesTheLiveObject
  <1>1. IInv => UsesTheLiveObject
    <2> SUFFICES ASSUME IInv, NEW t \in Threads, pc[t] = "host"
                 PROVE  real[t] = slot[on[t]] /\ real[t] \in heap
      BY DEF UsesTheLiveObject
    <2>1. PICK m \in Mutexes :
            on[t] = m /\ real[t] = slot[m] /\ slot[m] \in Objects
      BY HostCall
    <2>. QED
      BY <2>1 DEF IInv, Slots
  <1>. QED
    BY <1>1, Invariant, PTL

(***************************************************************************)
(* The bridge implements GuestSync: the host's lock and unlock and the     *)
(* three ends of pthread_once are its steps, everything else a stutter.    *)
(***************************************************************************)

LEMMA SyncInit == Init => Sync!Init
  BY DEF Init, Sync!Init

LEMMA LockRefines ==
  ASSUME IInv, NEW t \in Threads, HostLock(t)
  PROVE  \E m \in Mutexes : Sync!Lock(t, m)
  <1>1. PICK m \in Mutexes :
          /\ on[t] = m /\ real[t] = slot[m] /\ slot[m] \in Objects
          /\ owner[slot[m]] \in {NoThread, t}
    BY HostCall DEF HostLock
  <1>2. \A u \in Threads \ {t} : held[u][m] = 0
    <2>1. ASSUME NEW u \in Threads \ {t} PROVE ~(held[u][m] > 0)
      BY <1>1, BridgeAssumption DEF IInv, Holding
    <2>2. ASSUME NEW u \in Threads PROVE held[u][m] \in Nat
      BY HeldNat
    <2>. QED
      BY <2>1, <2>2
  <1>. QED
    BY <1>1, <1>2 DEF HostLock, Sync!Lock

LEMMA UnlockRefines ==
  ASSUME IInv, NEW t \in Threads, HostUnlock(t)
  PROVE  \E m \in Mutexes : Sync!Unlock(t, m)
  <1>1. PICK m \in Mutexes : on[t] = m /\ held[t][m] > 0
    BY HostCall DEF HostUnlock
  <1>. QED
    BY <1>1 DEF HostUnlock, Sync!Unlock

LEMMA OnceRefines ==
  ASSUME IInv, NEW t \in Threads, Run(t) \/ Mark(t) \/ Pass(t)
  PROVE  \E o \in Onces : Sync!Begin(t, o) \/ Sync!End(t, o) \/ Sync!Pass(t, o)
  <1>1. PICK o \in Onces : on[t] = o
    BY DEF IInv, Where, Run, Mark, Pass, Under
  <1>2. CASE Run(t)
    BY <1>1, <1>2 DEF IInv, Running, Run, Under, Sync!Begin
  <1>3. CASE Mark(t)
    BY <1>1, <1>3 DEF IInv, Running, Mark, Under, Sync!End
  <1>4. CASE Pass(t)
    BY <1>1, <1>4 DEF Pass, Under, Sync!Pass
  <1>. QED
    BY <1>2, <1>3, <1>4

LEMMA SyncStep ==
  ASSUME IInv, [Next]_vars PROVE [Sync!Next]_(Sync!vars)
  <1> USE DEF Sync!vars, guest
  <1>1. ASSUME NEW t \in Threads, HostLock(t) PROVE Sync!Next
    BY <1>1, LockRefines DEF Sync!Next
  <1>2. ASSUME NEW t \in Threads, HostUnlock(t) PROVE Sync!Next
    BY <1>2, UnlockRefines DEF Sync!Next
  <1>3. ASSUME NEW t \in Threads, Run(t) \/ Mark(t) \/ Pass(t) PROVE Sync!Next
    BY <1>3, OnceRefines DEF Sync!Next
  <1>4. ASSUME NEW t \in Threads,
               \/ TakeGlobal(t) \/ Look(t) \/ Make(t) \/ Reread(t) \/ Store(t)
               \/ Clear(t) \/ Wait(t) \/ Poll(t)
        PROVE  UNCHANGED Sync!vars
    BY <1>4 DEF TakeGlobal, Look, Make, Reread, Store, Clear, Wait, Poll
  <1>5. ASSUME NEW t \in Threads, Guest(t) PROVE UNCHANGED Sync!vars
    BY <1>5 DEF Guest, CallLock, CallUnlock, CallInit, CallDestroy, CallOnce,
                Initialized
  <1>6. CASE UNCHANGED vars
    BY <1>6 DEF vars
  <1>. QED
    BY <1>1, <1>2, <1>3, <1>4, <1>5, <1>6 DEF Next, Bridge

\* What the game sees is bionic's: one holder of a mutex, one run of an
\* initializer, nobody past pthread_once before its end.
THEOREM BionicSync == Spec => ActsLikeBionic
  <1>1. Init => Sync!Init
    BY SyncInit
  <1>2. IInv /\ [Next]_vars => [Sync!Next]_(Sync!vars)
    BY SyncStep
  <1>. QED
    BY <1>1, <1>2, Invariant, PTL DEF Spec, ActsLikeBionic, Sync!Spec

(***************************************************************************)
(* No host mutex is lost.  Beyond IInv: an object has a place, and a slot  *)
(* that is about to be written over has none to lose, for only a mutex in  *)
(* use, or one whose destruction is under way, has a host mutex.           *)
(***************************************************************************)

\* A slot names ob, or an init has it in hand.
HasPlace(ob) == \/ \E m \in Mutexes : slot[m] = ob
                \/ \E t \in Threads : op[t] = "init" /\ real[t] = ob

\* Only mutexes in use, or under destruction, have a host mutex.
InUse ==
  /\ \A t \in Threads : op[t] \in {"lock", "unlock", "init"} => on[t] \in used
  /\ \A t \in Threads, m \in Mutexes : held[t][m] > 0 => m \in used
  /\ \A m \in Mutexes : slot[m] \in Objects /\ m \notin used =>
       \E t \in Threads : op[t] = "destroy" /\ on[t] = m
  /\ \A t \in Threads : op[t] = "init" => slot[on[t]] \notin Objects

Accounted == InUse /\ \A ob \in heap : HasPlace(ob)


LEMMA AccountedInit == Init => Accounted
  BY BridgeAssumption DEF Init, Accounted, InUse, HasPlace

\* Every step keeps host mutexes to the mutexes in use.
LEMMA InUseStep ==
  ASSUME IInv, Accounted, [Next]_vars PROVE InUse'
  <1> USE BridgeAssumption
     DEF IInv, Accounted, vars, host, guest, call, At, Calls, Returns, Under
  <1>1. ASSUME NEW t \in Threads, TakeGlobal(t) PROVE InUse'
    BY <1>1 DEF InUse, TypeOK, Where, Working, TakeGlobal
  <1>2. ASSUME NEW t \in Threads, Look(t) PROVE InUse'
    BY <1>2 DEF InUse, TypeOK, Where, Working, Look, IsHeapPtr
  <1>3. ASSUME NEW t \in Threads, Make(t) PROVE InUse'
    <2>1. CASE IsHeapPtr(slot[on[t]])
      BY <1>3, <2>1 DEF InUse, TypeOK, Where, Make
    <2>2. CASE ~IsHeapPtr(slot[on[t]])
      <3>1. PICK ob \in Objects \ heap : slot' = [slot EXCEPT ![on[t]] = ob]
        BY <1>3, <2>2 DEF Make
      <3>2. on[t] \in Mutexes /\ on[t] \in used
        BY <1>3 DEF Make, Where, InUse
      <3>3. \A u \in Threads : op[u] = "init" => on[u] # on[t]
        BY <1>3 DEF Make, Working
      <3>4. \A u \in Threads : op[u] = "init" => slot'[on[u]] = slot[on[u]]
        BY <3>1, <3>3 DEF TypeOK, Where
      <3>5. \A n \in Mutexes : n \notin used => slot'[n] = slot[n]
        BY <3>1, <3>2 DEF TypeOK
      <3>. QED
        BY <1>3, <3>4, <3>5 DEF InUse, Make
    <2>. QED
      BY <2>1, <2>2
  <1>4. ASSUME NEW t \in Threads, Reread(t) PROVE InUse'
    BY <1>4 DEF InUse, TypeOK, Where, Working, Reread
  <1>5. ASSUME NEW t \in Threads, HostLock(t) PROVE InUse'
    BY <1>5 DEF InUse, TypeOK, Where, Working, HostLock
  <1>6. ASSUME NEW t \in Threads, HostUnlock(t) PROVE InUse'
    BY <1>6 DEF InUse, TypeOK, Where, Working, HostUnlock
  <1>7. ASSUME NEW t \in Threads, Store(t) PROVE InUse'
    BY <1>7 DEF InUse, TypeOK, Where, Working, Store
  <1>8. ASSUME NEW t \in Threads, Clear(t) PROVE InUse'
    BY <1>8 DEF InUse, TypeOK, Where, Working, Clear
  <1>9. ASSUME NEW t \in Threads, Wait(t) PROVE InUse'
    BY <1>9 DEF InUse, TypeOK, Where, Working, Wait
  <1>10. ASSUME NEW t \in Threads, Poll(t) PROVE InUse'
    BY <1>10 DEF InUse, TypeOK, Where, Working, Poll
  <1>11. ASSUME NEW t \in Threads, Run(t) PROVE InUse'
    BY <1>11 DEF InUse, TypeOK, Where, Working, Run
  <1>12. ASSUME NEW t \in Threads, Mark(t) PROVE InUse'
    BY <1>12 DEF InUse, TypeOK, Where, Working, Mark
  <1>13. ASSUME NEW t \in Threads, Pass(t) PROVE InUse'
    BY <1>13 DEF InUse, TypeOK, Where, Working, Pass
  <1>14. ASSUME NEW t \in Threads, Initialized(t) PROVE InUse'
    BY <1>14 DEF InUse, TypeOK, Where, Working, Initialized, HoldsNothing
  <1>15. ASSUME NEW t \in Threads, NEW m \in Mutexes, CallLock(t, m)
         PROVE InUse'
    BY <1>15 DEF InUse, TypeOK, Where, Working, CallLock, Settled
  <1>16. ASSUME NEW t \in Threads, NEW m \in Mutexes, CallUnlock(t, m)
         PROVE InUse'
    BY <1>16 DEF InUse, TypeOK, Where, Working, CallUnlock
  <1>17. ASSUME NEW t \in Threads, NEW m \in Mutexes, CallInit(t, m)
         PROVE InUse'
    BY <1>17 DEF InUse, TypeOK, Where, Working, CallInit, Untouched, Allocates
  <1>18. ASSUME NEW t \in Threads, NEW m \in Mutexes, CallDestroy(t, m)
         PROVE InUse'
    BY <1>18 DEF InUse, TypeOK, Where, Working, CallDestroy, Untouched
  <1>19. ASSUME NEW t \in Threads, NEW o \in Onces, CallOnce(t, o)
         PROVE InUse'
    BY <1>19 DEF InUse, TypeOK, Where, Working, CallOnce, HoldsNothing
  <1>20. CASE UNCHANGED vars
    BY <1>20 DEF InUse, TypeOK, Where, Working
  <1>. QED
    BY <1>1, <1>2, <1>3, <1>4, <1>5, <1>6, <1>7, <1>8, <1>9, <1>10,
       <1>11, <1>12, <1>13, <1>14, <1>15, <1>16, <1>17, <1>18, <1>19,
       <1>20 DEF Next, Guest, Bridge

\* Every step leaves each host mutex a place.
LEMMA PlaceStep ==
  ASSUME IInv, Accounted, [Next]_vars PROVE (\A ob \in heap : HasPlace(ob))'
  <1> USE BridgeAssumption
     DEF IInv, Accounted, vars, host, guest, call, At, Calls, Returns, Under
  <1>1. ASSUME NEW t \in Threads, TakeGlobal(t) PROVE (\A ob \in heap : HasPlace(ob))'
    BY <1>1 DEF HasPlace, TypeOK, Where, Slots, TakeGlobal
  <1>2. ASSUME NEW t \in Threads, Look(t) PROVE (\A ob \in heap : HasPlace(ob))'
    BY <1>2 DEF HasPlace, TypeOK, Where, Slots, Look, IsHeapPtr
  <1>3. ASSUME NEW t \in Threads, Make(t) PROVE (\A ob \in heap : HasPlace(ob))'
    <2>1. CASE IsHeapPtr(slot[on[t]])
      BY <1>3, <2>1 DEF HasPlace, Make
    <2>2. CASE ~IsHeapPtr(slot[on[t]])
      <3>1. PICK m \in Mutexes : on[t] = m /\ slot[m] \notin Objects
        BY <1>3, <2>2, Pointer DEF Make, Where
      <3>2. PICK ob \in Objects \ heap :
              heap' = heap \cup {ob} /\ slot' = [slot EXCEPT ![m] = ob]
        BY <1>3, <2>2, <3>1 DEF Make, Allocates
      <3>3. slot'[m] = ob /\ \A n \in Mutexes : n # m => slot'[n] = slot[n]
        BY <3>2 DEF TypeOK
      <3>4. \A x \in heap : x \in Objects
        BY DEF TypeOK
      <3>5. op' = op /\ real' = real
        BY <1>3 DEF Make
      <3>6. ASSUME NEW x \in heap PROVE HasPlace(x)'
        <4>1. CASE \E n \in Mutexes : slot[n] = x
          BY <3>1, <3>3, <3>4, <4>1 DEF HasPlace
        <4>2. CASE \E u \in Threads : op[u] = "init" /\ real[u] = x
          BY <3>5, <4>2 DEF HasPlace
        <4>. QED
          BY <4>1, <4>2 DEF HasPlace
      <3>7. HasPlace(ob)'
        BY <3>3 DEF HasPlace
      <3>. QED
        BY <3>2, <3>6, <3>7
    <2>. QED
      BY <2>1, <2>2
  <1>4. ASSUME NEW t \in Threads, Reread(t) PROVE (\A ob \in heap : HasPlace(ob))'
    BY <1>4 DEF HasPlace, TypeOK, Where, Slots, Reread
  <1>5. ASSUME NEW t \in Threads, HostLock(t) PROVE (\A ob \in heap : HasPlace(ob))'
    BY <1>5 DEF HasPlace, TypeOK, Where, Slots, HostLock
  <1>6. ASSUME NEW t \in Threads, HostUnlock(t) PROVE (\A ob \in heap : HasPlace(ob))'
    BY <1>6 DEF HasPlace, TypeOK, Where, Slots, HostUnlock
  <1>7. ASSUME NEW t \in Threads, Store(t) PROVE (\A ob \in heap : HasPlace(ob))'
    <2>1. PICK m \in Mutexes : on[t] = m /\ slot[m] \notin Objects
      BY <1>7 DEF Store, Where, InUse
    <2>2. slot'[m] = real[t] /\ \A n \in Mutexes : n # m => slot'[n] = slot[n]
      BY <1>7, <2>1 DEF TypeOK, Store
    <2>3. \A u \in Threads : u # t => op'[u] = op[u] /\ real'[u] = real[u]
      BY <1>7 DEF TypeOK, Store
    <2>4. heap' = heap /\ \A x \in heap : x \in Objects
      BY <1>7 DEF TypeOK, Store
    <2> SUFFICES ASSUME NEW ob \in heap PROVE HasPlace(ob)'
      BY <2>4
    <2>5. ASSUME NEW n \in Mutexes, slot[n] = ob PROVE HasPlace(ob)'
      BY <2>1, <2>2, <2>4, <2>5 DEF HasPlace
    <2>6. ASSUME NEW u \in Threads, op[u] = "init", real[u] = ob
          PROVE  HasPlace(ob)'
      <3>1. CASE u = t
        BY <2>1, <2>2, <2>6, <3>1 DEF HasPlace
      <3>2. CASE u # t
        BY <2>3, <2>6, <3>2 DEF HasPlace
      <3>. QED
        BY <3>1, <3>2
    <2>. QED
      BY <2>5, <2>6 DEF HasPlace
  <1>8. ASSUME NEW t \in Threads, Clear(t) PROVE (\A ob \in heap : HasPlace(ob))'
    BY <1>8 DEF HasPlace, TypeOK, Where, Slots, Clear
  <1>9. ASSUME NEW t \in Threads, Wait(t) PROVE (\A ob \in heap : HasPlace(ob))'
    BY <1>9 DEF HasPlace, Wait
  <1>10. ASSUME NEW t \in Threads, Poll(t) PROVE (\A ob \in heap : HasPlace(ob))'
    BY <1>10 DEF HasPlace, TypeOK, Where, Slots, Poll
  <1>11. ASSUME NEW t \in Threads, Run(t) PROVE (\A ob \in heap : HasPlace(ob))'
    BY <1>11 DEF HasPlace, TypeOK, Where, Slots, Run
  <1>12. ASSUME NEW t \in Threads, Mark(t) PROVE (\A ob \in heap : HasPlace(ob))'
    BY <1>12 DEF HasPlace, TypeOK, Where, Slots, Mark
  <1>13. ASSUME NEW t \in Threads, Pass(t) PROVE (\A ob \in heap : HasPlace(ob))'
    BY <1>13 DEF HasPlace, TypeOK, Where, Slots, Pass
  <1>14. ASSUME NEW t \in Threads, Initialized(t) PROVE (\A ob \in heap : HasPlace(ob))'
    BY <1>14 DEF HasPlace, TypeOK, Where, Slots, Initialized, HoldsNothing
  <1>15. ASSUME NEW t \in Threads, NEW m \in Mutexes, CallLock(t, m)
         PROVE (\A ob \in heap : HasPlace(ob))'
    BY <1>15 DEF HasPlace, TypeOK, Where, Slots, CallLock, Settled
  <1>16. ASSUME NEW t \in Threads, NEW m \in Mutexes, CallUnlock(t, m)
         PROVE (\A ob \in heap : HasPlace(ob))'
    BY <1>16 DEF HasPlace, TypeOK, Where, Slots, CallUnlock
  <1>17. ASSUME NEW t \in Threads, NEW m \in Mutexes, CallInit(t, m)
         PROVE (\A ob \in heap : HasPlace(ob))'
    <2>1. PICK ob \in Objects \ heap :
            heap' = heap \cup {ob} /\ real' = [real EXCEPT ![t] = ob]
      BY <1>17 DEF CallInit, Allocates
    <2>2. slot' = slot /\ op' = [op EXCEPT ![t] = "init"] /\ op[t] # "init"
      BY <1>17 DEF CallInit, Where, TypeOK
    <2>3. \A u \in Threads \ {t} : op'[u] = op[u] /\ real'[u] = real[u]
      BY <2>1, <2>2 DEF TypeOK
    <2>4. op'[t] = "init" /\ real'[t] = ob
      BY <2>1, <2>2 DEF TypeOK
    <2>5. ASSUME NEW x \in heap PROVE HasPlace(x)'
      BY <2>2, <2>3 DEF HasPlace
    <2>6. HasPlace(ob)'
      BY <2>4 DEF HasPlace
    <2>. QED
      BY <2>1, <2>5, <2>6
  <1>18. ASSUME NEW t \in Threads, NEW m \in Mutexes, CallDestroy(t, m)
         PROVE (\A ob \in heap : HasPlace(ob))'
    BY <1>18 DEF HasPlace, TypeOK, Where, Slots, CallDestroy, Untouched
  <1>19. ASSUME NEW t \in Threads, NEW o \in Onces, CallOnce(t, o)
         PROVE (\A ob \in heap : HasPlace(ob))'
    BY <1>19 DEF HasPlace, TypeOK, Where, Slots, CallOnce, HoldsNothing
  <1>20. CASE UNCHANGED vars
    BY <1>20 DEF HasPlace, TypeOK, Where, Slots
  <1>. QED
    BY <1>1, <1>2, <1>3, <1>4, <1>5, <1>6, <1>7, <1>8, <1>9, <1>10,
       <1>11, <1>12, <1>13, <1>14, <1>15, <1>16, <1>17, <1>18, <1>19,
       <1>20 DEF Next, Guest, Bridge

LEMMA AccountedInvariant == Spec => []Accounted
  <1>1. IInv /\ Accounted /\ [Next]_vars => Accounted'
    BY InUseStep, PlaceStep DEF Accounted
  <1>. QED
    BY <1>1, AccountedInit, Invariant, PTL DEF Spec

\* No host mutex is lost or named twice: when two threads use a mutex first,
\* one object is made, and a destroyed mutex's object is freed.
THEOREM NoLeak == Spec => []NothingLeaks
  <1>1. IInv /\ Accounted => NothingLeaks
    <2> SUFFICES ASSUME IInv, Accounted, NEW ob \in heap
                 PROVE  Cardinality({m \in Mutexes : slot[m] = ob})
                          + Cardinality({t \in Threads :
                                           op[t] = "init" /\ real[t] = ob}) = 1
      BY DEF NothingLeaks
    <2> DEFINE named == {m \in Mutexes : slot[m] = ob}
               making == {t \in Threads : op[t] = "init" /\ real[t] = ob}
    <2>1. ob \in Objects
      BY DEF IInv, TypeOK
    <2>2. CASE \E m \in Mutexes : slot[m] = ob
      <3>1. PICK m \in Mutexes : slot[m] = ob
        BY <2>2
      <3>2. named = {m} /\ making = {}
        BY <2>1, <3>1 DEF IInv, Slots
      <3>3. Cardinality(named) = 1 /\ Cardinality(making) = 0
        BY <3>2, FS_Singleton, FS_EmptySet
      <3>. QED
        BY <3>3
    <2>3. CASE ~\E m \in Mutexes : slot[m] = ob
      <3>1. PICK t \in Threads : op[t] = "init" /\ real[t] = ob
        BY <2>3 DEF Accounted, HasPlace
      <3>2. named = {} /\ making = {t}
        BY <2>3, <3>1 DEF IInv, Slots
      <3>3. Cardinality(named) = 0 /\ Cardinality(making) = 1
        BY <3>2, FS_Singleton, FS_EmptySet
      <3>. QED
        BY <3>3
    <2>. QED
      BY <2>2, <2>3
  <1>. QED
    BY <1>1, Invariant, AccountedInvariant, PTL
=============================================================================
