---------------------------- MODULE ClientArrays ----------------------------
(***************************************************************************)
(* Buffer objects and vertex arrays of OpenGL ES 1.1 as its caller knows   *)
(* them: what a draw call reads.  Where GL leaves a draw undefined (an     *)
(* array that was never set, whose buffer was deleted, or whose offset is  *)
(* outside its buffer) anything may be drawn, nothing included.            *)
(***************************************************************************)
EXTENDS Naturals, Sequences

CONSTANTS
  Names,       \* buffer names; 0 is none of them
  Values,      \* what a buffer's cells hold
  MaxLen,      \* bound: cells of a buffer
  Arrays,      \* vertex, colour, normal and texture coordinate arrays
  Index,       \* the indices of an indexed draw
  Client,      \* the caller's own memory, as a pointer and as what is read
  Unset, Wild, \* a pointer never set; one whose buffer is gone
  Nothing      \* no draw

VARIABLES
  names,       \* names generated and not deleted
  bound,       \* the buffer bound to each target; 0 for none
  store,       \* what each buffer object holds
  source,      \* where each array comes from
  enabled,     \* the enabled arrays
  call,        \* the draw that was asked for, if the last call was one
  drawn        \* what it drew

buffers == <<names, bound, store>>
vars    == <<buffers, source, enabled, call, drawn>>

Contents == UNION {[1..n -> Values] : n \in 0..MaxLen}
Offsets  == 0..MaxLen
Bindings == Names \cup {0}
Targets  == {"array", "elements"}
NoCall   == <<>>
NoDraw   == call' = NoCall /\ drawn' = Nothing

Init ==
  /\ names = {} /\ bound = [t \in Targets |-> 0]
  /\ store = [n \in Names |-> <<>>]
  /\ source = [a \in Arrays |-> Unset]
  /\ enabled = {}
  /\ call = NoCall /\ drawn = Nothing

GenBuffers(n) ==
  /\ n \notin names
  /\ names' = names \cup {n}
  /\ UNCHANGED <<bound, store, source, enabled>>

\* Every binding to the buffer goes, those of the arrays included.
DeleteBuffers(n) ==
  /\ n \in names
  /\ names' = names \ {n}
  /\ bound' = [t \in Targets |-> IF bound[t] = n THEN 0 ELSE bound[t]]
  /\ store' = [store EXCEPT ![n] = <<>>]
  /\ source' = [a \in Arrays |-> IF source[a] \in {n} \X Offsets
                                 THEN Wild ELSE source[a]]
  /\ UNCHANGED enabled

BindBuffer(t, n) ==
  /\ bound' = [bound EXCEPT ![t] = n]
  /\ UNCHANGED <<names, store, source, enabled>>

\* glBufferData and glBufferSubData, which may also run out of memory.
Write(t) ==
  /\ bound[t] # 0
  /\ UNCHANGED <<names, bound, enabled, source>>
  /\ store' = [store EXCEPT ![bound[t]] = store'[bound[t]]]
  /\ store'[bound[t]] \in Contents

Fails == UNCHANGED <<buffers, source, enabled>>

Pointer(a, p) ==
  /\ source' = [source EXCEPT ![a] = IF bound["array"] = 0 THEN Client
                                     ELSE <<bound["array"], p>>]
  /\ UNCHANGED <<buffers, enabled>>

ClientState(a, on) ==
  /\ enabled' = IF on THEN enabled \cup {a} ELSE enabled \ {a}
  /\ UNCHANGED <<buffers, source>>

(***************************************************************************)
(* Drawing.                                                                *)
(***************************************************************************)

InBuffer(s) == s \in Names \X Offsets /\ s[2] < Len(store[s[1]])
Defined(s)  == s = Client \/ InBuffer(s)
Read(s)     == IF s = Client THEN Client
               ELSE SubSeq(store[s[1]], s[2] + 1, Len(store[s[1]]))

\* `inputs` gives every input of the draw the place it comes from.
Draws(inputs) ==
  (\A i \in DOMAIN inputs : Defined(inputs[i])) =>
    drawn' = [i \in DOMAIN inputs |-> Read(inputs[i])]

ArrayInputs == [a \in enabled |-> source[a]]
Indices(o)  == IF bound["elements"] = 0 THEN Client ELSE <<bound["elements"], o>>
ElementInputs(o) ==
  [i \in enabled \cup {Index} |-> IF i = Index THEN Indices(o) ELSE source[i]]

Draw ==
  /\ \/ call' = <<"arrays">> /\ Draws(ArrayInputs)
     \/ \E o \in Offsets : call' = <<"elements", o>> /\ Draws(ElementInputs(o))
  /\ UNCHANGED <<buffers, source, enabled>>

Quiet ==
  \/ Fails
  \/ \E t \in Targets : Write(t)
  \/ \E a \in Arrays, on \in BOOLEAN : ClientState(a, on)
  \/ \E a \in Arrays, p \in Offsets : Pointer(a, p)
  \/ \E n \in Names : GenBuffers(n) \/ DeleteBuffers(n)
  \/ \E t \in Targets, n \in Bindings : BindBuffer(t, n)

Next == (NoDraw /\ Quiet) \/ Draw

Spec == Init /\ [][Next]_vars
=============================================================================
