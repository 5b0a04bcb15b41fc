---------------------------- MODULE BufferBridge ----------------------------
(***************************************************************************)
(* The buffer bridge of src/src/gl_latebind.c.  One driver draws wrongly   *)
(* from buffer objects; for it the loader keeps the game's buffers itself, *)
(* never binds one in the driver, and hands it plain memory: before every  *)
(* draw, each array the game set is resolved again to an address in the    *)
(* buffer's copy.  The game must see GLES 1.1 (ClientArrays).              *)
(*                                                                         *)
(* The model is the bridge switched on, called from the one thread that    *)
(* owns the GL context.  The game binds only names it generated, and draws *)
(* from its own memory only with no array buffer bound.  A call with a     *)
(* count is the sequence of its one-name calls.                            *)
(***************************************************************************)
EXTENDS Naturals, Sequences, FiniteSets

CONSTANTS
  Names, Values, MaxLen, Arrays, Index, Client, Unset, Wild, Nothing,
  Patches,     \* bound: what glBufferSubData writes, some of Contents
  Blocks,      \* heap blocks the copies may be in
  Null, Free,  \* no address; what an unallocated block holds
  Garbage      \* what a draw reads from no address, or from a free block

VARIABLES
  names,       \* in the driver: the names it has given out
  driver,      \* in the driver: the pointer it has for each array
  bound,       \* g_array_buffer and g_element_array_buffer
  shadows,     \* g_buffer_shadows up to its count
  mem,         \* the heap
  state,       \* the ArrayPointerState of each array
  wild,        \* history: arrays whose buffer was deleted since they were set
  call, drawn  \* the last call if a draw, and what the driver read for it

bridge == <<bound, shadows, mem, state>>
vars   == <<names, driver, bridge, wild, call, drawn>>

Contents == UNION {[1..n -> Values] : n \in 0..MaxLen}
Offsets  == 0..MaxLen
Targets  == {"array", "elements"}
NoDraw   == call' = <<>> /\ drawn' = Nothing

\* Names, places and what stands for none of them are told apart.
ASSUME BufferAssumption ==
  /\ MaxLen \in Nat /\ Patches \subseteq Contents
  /\ 0 \notin Names /\ Index \notin Arrays
  /\ Null \notin Blocks /\ Free \notin Contents
  /\ {Client, Null} \cap (Blocks \X Offsets) = {}
  /\ {Client, Unset, Wild} \cap (Names \X Offsets) = {}
  /\ Client \notin {Null, Unset, Wild}

Init ==
  /\ names = {} /\ wild = {}
  /\ driver = [a \in Arrays |-> Null]
  /\ bound = [t \in Targets |-> 0]
  /\ shadows = <<>>
  /\ mem = [b \in Blocks |-> Free]
  /\ state = [a \in Arrays |->
                [configured |-> FALSE, enabled |-> FALSE, buffer |-> 0, pointer |-> Null]]
  /\ call = <<>> /\ drawn = Nothing

(***************************************************************************)
(* The copies.                                                             *)
(***************************************************************************)

Find(s, n) == IF \A i \in DOMAIN s : s[i].id # n THEN 0
              ELSE CHOOSE i \in DOMAIN s : s[i].id = n
Data(n)    == LET i == Find(shadows, n) IN IF i = 0 THEN Null ELSE shadows[i].data
Cells(n)   == LET data == Data(n) IN IF data = Null THEN <<>> ELSE mem[data]

\* bridge_find_buffer with `create`: growing the list may fail.
Created(n) ==
  IF Find(shadows, n) # 0 THEN {shadows}
  ELSE {shadows, Append(shadows, [id |-> n, data |-> Null])}

\* malloc, of which nothing is asked for an empty buffer.
Malloc(cells) ==
  IF cells = <<>> THEN {Null} ELSE {b \in Blocks : mem[b] = Free} \cup {"failed"}

\* Mutant: the old copy is kept.
Replaced_Leaks(old, new, cells) == [b \in Blocks |-> IF b = new THEN cells ELSE mem[b]]

\* The heap once the copy `new` holds `cells` and `old` is free.
Replaced(old, new, cells) ==
  [b \in Blocks |-> IF b = new THEN cells ELSE IF b = old THEN Free ELSE mem[b]]

\* bridge_forget_buffer: the last entry takes the place of the dropped one.
Forget(i) ==
  [j \in 1..Len(shadows) - 1 |-> shadows[IF j = i THEN Len(shadows) ELSE j]]

(***************************************************************************)
(* Buffer calls.                                                           *)
(***************************************************************************)

GenBuffers(n) ==
  /\ n \notin names
  /\ names' = names \cup {n}
  /\ shadows' \in Created(n)
  /\ NoDraw
  /\ UNCHANGED <<driver, bound, mem, state, wild>>

BindBuffer(t, n) ==
  /\ n \in names \cup {0}
  /\ bound' = [bound EXCEPT ![t] = n]
  /\ IF n = 0 THEN UNCHANGED shadows ELSE shadows' \in Created(n)
  /\ NoDraw
  /\ UNCHANGED <<names, driver, mem, state, wild>>

BufferData(t, cells) ==
  /\ bound[t] # 0
  /\ \E s \in Created(bound[t]), b \in Malloc(cells) :
       LET i == Find(s, bound[t]) IN
       IF i = 0 \/ b = "failed" THEN shadows' = s /\ UNCHANGED mem
       ELSE /\ shadows' = [s EXCEPT ![i].data = b]
            /\ mem' = Replaced(s[i].data, b, cells)
  /\ NoDraw
  /\ UNCHANGED <<names, driver, bound, state, wild>>

\* Outside the copy nothing is written.
BufferSubData(t, from, cells) ==
  /\ bound[t] # 0
  /\ LET old  == Cells(bound[t])
         fits == from <= Len(old) /\ Len(cells) <= Len(old) - from
         new  == [i \in DOMAIN old |->
                    IF i - from \in DOMAIN cells THEN cells[i - from] ELSE old[i]]
     IN  mem' = IF fits /\ cells # <<>> THEN [mem EXCEPT ![Data(bound[t])] = new] ELSE mem
  /\ NoDraw
  /\ UNCHANGED <<names, driver, bound, shadows, state, wild>>

DeleteBuffers(n) ==
  /\ bound' = [t \in Targets |-> IF bound[t] = n THEN 0 ELSE bound[t]]
  /\ IF Find(shadows, n) = 0 THEN UNCHANGED <<shadows, mem>>
     ELSE /\ mem' = Replaced(Data(n), Null, <<>>)
          /\ shadows' = Forget(Find(shadows, n))
  /\ names' = names \ {n}
  /\ wild' = wild \cup {a \in Arrays : state[a].buffer = n}
  /\ NoDraw
  /\ UNCHANGED <<driver, state>>

(***************************************************************************)
(* Arrays.                                                                 *)
(***************************************************************************)

Resolve(n, offset) ==
  IF offset >= Len(Cells(n)) THEN Null ELSE <<Data(n), offset>>

\* Mutant: the array follows the current binding.
ArrayPointer_Current(s) ==
  IF s.buffer = 0 THEN s.pointer ELSE Resolve(bound["array"], s.pointer)

\* bridge_array_pointer; Null is its verdict that the array cannot be used.
ArrayPointer(s) == IF s.buffer = 0 THEN s.pointer ELSE Resolve(s.buffer, s.pointer)

\* gl*Pointer.
SetPointer(a, p) ==
  /\ p \in IF bound["array"] = 0 THEN {Client} ELSE Offsets
  /\ state' = [state EXCEPT ![a].configured = TRUE, ![a].buffer = bound["array"],
                            ![a].pointer = p]
  /\ driver' = [driver EXCEPT ![a] = ArrayPointer(state'[a])]
  /\ wild' = wild \ {a}
  /\ NoDraw
  /\ UNCHANGED <<names, bound, shadows, mem>>

\* glEnableClientState and glDisableClientState.
ClientState(a, on) ==
  /\ state' = [state EXCEPT ![a].enabled = on]
  /\ NoDraw
  /\ UNCHANGED <<names, driver, bound, shadows, mem, wild>>

(***************************************************************************)
(* Draws.                                                                  *)
(***************************************************************************)

Enabled == {a \in Arrays : state[a].enabled}
InUse   == {a \in Enabled : state[a].configured}

\* bridge_refresh_arrays: what the driver is told, and whether it may draw.
Refreshed ==
  [a \in Arrays |-> IF a \in InUse THEN ArrayPointer(state[a]) ELSE driver[a]]
Valid == \A a \in InUse : ArrayPointer(state[a]) # Null

Deref(p) ==
  IF p = Client THEN Client
  ELSE IF p = Null THEN Garbage
  ELSE IF mem[p[1]] = Free THEN Garbage
  ELSE SubSeq(mem[p[1]], p[2] + 1, Len(mem[p[1]]))

DrawArrays ==
  /\ driver' = Refreshed
  /\ call' = <<"arrays">>
  /\ drawn' = IF Valid THEN [a \in Enabled |-> Deref(driver'[a])] ELSE Nothing
  /\ UNCHANGED <<names, bridge, wild>>

DrawElements(offset) ==
  LET indices == IF bound["elements"] = 0 THEN Client
                 ELSE Resolve(bound["elements"], offset)
  IN
  /\ driver' = Refreshed
  /\ call' = <<"elements", offset>>
  /\ drawn' = IF Valid /\ indices # Null
              THEN [i \in Enabled \cup {Index} |->
                      Deref(IF i = Index THEN indices ELSE driver'[i])]
              ELSE Nothing
  /\ UNCHANGED <<names, bridge, wild>>

Next ==
  \/ \E n \in Names : GenBuffers(n) \/ DeleteBuffers(n)
  \/ \E t \in Targets, n \in Names \cup {0} : BindBuffer(t, n)
  \/ \E t \in Targets, cells \in Contents : BufferData(t, cells)
  \/ \E t \in Targets, from \in Offsets, cells \in Patches : BufferSubData(t, from, cells)
  \/ \E a \in Arrays, p \in Offsets \cup {Client} : SetPointer(a, p)
  \/ \E a \in Arrays, on \in BOOLEAN : ClientState(a, on)
  \/ DrawArrays
  \/ \E offset \in Offsets : DrawElements(offset)

Spec == Init /\ [][Next]_vars

(***************************************************************************)
(* Properties.                                                             *)
(***************************************************************************)

\* Every variable stays in its type, the list has one entry a buffer, and an
\* array that follows a buffer has an offset into it (bridge_find_buffer,
\* bridge_set_array_pointer).
TypeOK ==
  /\ names \subseteq Names /\ wild \subseteq Arrays
  /\ bound \in [Targets -> names \cup {0}]
  /\ shadows \in Seq([id : names, data : Blocks \cup {Null}])
  /\ \A i, j \in DOMAIN shadows : shadows[i].id = shadows[j].id => i = j
  /\ mem \in [Blocks -> (Contents \ {<<>>}) \cup {Free}]
  /\ \A a \in Arrays :
       /\ state[a].configured \in BOOLEAN /\ state[a].enabled \in BOOLEAN
       /\ IF state[a].buffer = 0 THEN state[a].pointer \in {Client, Null}
          ELSE state[a].buffer \in Names /\ state[a].pointer \in Offsets
       /\ driver[a] \in (Blocks \X Offsets) \cup {Client, Null}

\* Every allocated block is the copy of one buffer and every copy is
\* allocated: none leaks, none is freed while in use, and no two buffers share
\* one, in a list that keeps its type (glBufferData, bridge_forget_buffer and its move of the last entry).
CopiesAreOwned ==
  TypeOK /\ \A b \in Blocks :
    Cardinality({i \in DOMAIN shadows : shadows[i].data = b}) =
      IF mem[b] = Free THEN 0 ELSE 1

\* What the game takes its buffers and arrays to be.
Store  == [n \in Names |-> Cells(n)]
Source ==
  [a \in Arrays |->
     CASE ~state[a].configured -> Unset
       [] a \in wild           -> Wild
       [] OTHER -> IF state[a].buffer = 0 THEN Client
                   ELSE <<state[a].buffer, state[a].pointer>>]

GL == INSTANCE ClientArrays
        WITH store <- Store, source <- Source, enabled <- Enabled

\* The game cannot tell the bridge from a driver that keeps buffer objects:
\* every draw GL defines reads the contents the bound buffers have then.
DrawsWhatGLWould == GL!Spec
=============================================================================
