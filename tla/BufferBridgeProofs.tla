------------------------- MODULE BufferBridgeProofs -------------------------
(***************************************************************************)
(* What the buffer bridge does for any buffers, arrays, contents and heap: *)
(* the draws the driver makes are those that GL would, and no copy leaks.  *)
(***************************************************************************)
EXTENDS BufferBridge, SequenceTheorems, FiniteSetTheorems, TLAPS

(***************************************************************************)
(* The list of buffers.                                                    *)
(***************************************************************************)

Entries == [id : Names, data : Blocks \cup {Null}]
USE DEF Entries

\* The copy that list s has for n.
DataIn(s, n) == IF Find(s, n) = 0 THEN Null ELSE s[Find(s, n)].data
\* A list with one entry for each name in it.
Listed(s) ==
  /\ s \in Seq(Entries)
  /\ \A i, j \in DOMAIN s : s[i].id = s[j].id => i = j

\* A sequence over S is a function from 1 .. Len to S,
LEMMA Shape ==
  ASSUME NEW S, NEW s \in Seq(S)
  PROVE  /\ Len(s) \in Nat /\ DOMAIN s = 1 .. Len(s)
         /\ \A i \in DOMAIN s : s[i] \in S
  BY LenProperties, ElementOfSeq

\* and such a function is a sequence.
LEMMA Shaped ==
  ASSUME NEW S, NEW n \in Nat, NEW f \in [1 .. n -> S]
  PROVE  f \in Seq(S) /\ Len(f) = n
  <1>1. f \in Seq(S)
    BY SeqDef
  <1>. QED
    BY <1>1, LenProperties

\* bridge_find_buffer finds the one entry of a name, if there is one.
LEMMA Found ==
  ASSUME NEW s, Listed(s), NEW i \in DOMAIN s
  PROVE Find(s, s[i].id) = i /\ i # 0
  <1>1. i # 0
    BY DEF Listed
  <1>2. \E j \in DOMAIN s : s[j].id = s[i].id
    OBVIOUS
  <1>3. (CHOOSE j \in DOMAIN s : s[j].id = s[i].id) = i
    BY DEF Listed
  <1>. QED
    BY <1>1, <1>2, <1>3 DEF Find

LEMMA NotFound ==
  ASSUME NEW s, NEW n
  PROVE (\A i \in DOMAIN s : s[i].id # n) => Find(s, n) = 0
  BY DEF Find

\* An entry added for a buffer that had none has no copy.
LEMMA CreatedList ==
  ASSUME Listed(shadows), NEW n \in Names, NEW s \in Created(n)
  PROVE  /\ Listed(s)
         /\ \A m : DataIn(s, m) = Data(m)
         /\ \A i \in DOMAIN s :
              s[i].id = n \/ \E j \in DOMAIN shadows : shadows[j].id = s[i].id
  <1>1. CASE s = shadows
    BY <1>1 DEF DataIn, Data
  <1>2. CASE Find(shadows, n) = 0 /\ s = Append(shadows, [id |-> n, data |-> Null])
    <2>1. \A i \in DOMAIN shadows : shadows[i].id # n
      BY <1>2, Found DEF Find
    <2>2. s \in Seq(Entries)
      BY <1>2 DEF Listed
    <2>3. /\ DOMAIN s = 1 .. Len(shadows) + 1
          /\ DOMAIN shadows = 1 .. Len(shadows) /\ Len(shadows) \in Nat
      BY <1>2 DEF Listed
    <2>4. \A i \in DOMAIN shadows : s[i] = shadows[i]
      BY <1>2 DEF Listed
    <2>5. s[Len(shadows) + 1] = [id |-> n, data |-> Null]
      BY <1>2 DEF Listed
    <2>6. Listed(s)
      BY <2>1, <2>2, <2>3, <2>4, <2>5 DEF Listed
    <2>7. ASSUME NEW m PROVE DataIn(s, m) = Data(m)
      <3>1. CASE \E i \in DOMAIN shadows : shadows[i].id = m
        BY <3>1, <2>3, <2>4, <2>6, Found DEF DataIn, Data
      <3>2. CASE ~\E i \in DOMAIN shadows : shadows[i].id = m
        <4>1. Data(m) = Null
          BY <3>2, NotFound DEF Data
        <4>2. CASE m = n
          BY <4>1, <4>2, <2>3, <2>5, <2>6, Found DEF DataIn
        <4>3. CASE m # n
          <5>1. \A i \in DOMAIN s : s[i].id # m
            BY <3>2, <4>3, <2>3, <2>4, <2>5
          <5>. QED BY <5>1, <4>1, NotFound DEF DataIn
        <4>. QED BY <4>2, <4>3
      <3>. QED BY <3>1, <3>2
    <2>. QED
      BY <2>3, <2>4, <2>5, <2>6, <2>7
  <1>. QED
    BY <1>1, <1>2 DEF Created

\* Another copy in entry k.
LEMMA SetData ==
  ASSUME NEW s, Listed(s), NEW k \in DOMAIN s, NEW b \in Blocks \cup {Null},
         NEW new \in [DOMAIN s -> Entries],
         \A i \in DOMAIN s : /\ new[i].id = s[i].id
                             /\ new[i].data = IF i = k THEN b ELSE s[i].data
  PROVE  /\ Listed(new)
         /\ \A m : DataIn(new, m) = IF m = s[k].id THEN b ELSE DataIn(s, m)
         /\ DOMAIN new = DOMAIN s /\ \A i \in DOMAIN s : new[i].id = s[i].id
  <1>1. Find(s, s[k].id) = k /\ k # 0
    BY Found
  <1>2. /\ Len(s) \in Nat /\ DOMAIN s = 1 .. Len(s)
        /\ \A i \in DOMAIN s : s[i] \in Entries
    BY Shape DEF Listed
  <1>3. /\ new \in [1 .. Len(s) -> Entries]
        /\ DOMAIN new = DOMAIN s
    BY <1>2
  <1>4. \A i \in DOMAIN s :
          /\ new[i].id = s[i].id
          /\ new[i].data = IF i = k THEN b ELSE s[i].data
    OBVIOUS
  <1>5. Listed(new)
    <2>1. new \in Seq(Entries)
      BY <1>2, <1>3, Shaped
    <2>. QED
      BY <2>1, <1>3, <1>4 DEF Listed
  <1>6. ASSUME NEW m
        PROVE  DataIn(new, m) = IF m = s[k].id THEN b ELSE DataIn(s, m)
    <2>1. CASE \E i \in DOMAIN s : s[i].id = m
      <3>1. PICK i \in DOMAIN s : s[i].id = m
        BY <2>1
      <3>2. Find(s, m) = i /\ Find(new, m) = i /\ i # 0
        <4>1. new[i].id = m /\ i \in DOMAIN new
          BY <3>1, <1>3, <1>4
        <4>. QED
          BY <3>1, <4>1, <1>5, Found
      <3>3. m = s[k].id <=> i = k
        BY <3>1, <3>2, <1>1
      <3>. QED
        BY <3>2, <3>3, <1>4 DEF DataIn
    <2>2. CASE ~\E i \in DOMAIN s : s[i].id = m
      <3>1. Find(s, m) = 0 /\ Find(new, m) = 0
        BY <2>2, <1>3, <1>4, NotFound
      <3>2. m # s[k].id
        BY <2>2
      <3>. QED
        BY <3>1, <3>2 DEF DataIn
    <2>. QED
      BY <2>1, <2>2
  <1>. QED
    BY <1>3, <1>4, <1>5, <1>6

\* The last entry moved onto the dropped one: that name is gone, no other.
LEMMA Forgotten ==
  ASSUME Listed(shadows), NEW n, Find(shadows, n) # 0,
         NEW new, new = Forget(Find(shadows, n))
  PROVE  /\ Listed(new)
         /\ \A m : DataIn(new, m) = IF m = n THEN Null ELSE Data(m)
         /\ \A i \in DOMAIN new :
              new[i].id # n /\ \E j \in DOMAIN shadows : shadows[j].id = new[i].id
  <1>1. PICK k \in DOMAIN shadows : shadows[k].id = n
    BY NotFound
  <1>2. Find(shadows, n) = k
    BY <1>1, Found
  <1> DEFINE last == Len(shadows)
             From(j) == IF j = k THEN last ELSE j
  <1>3. /\ last \in Nat /\ DOMAIN shadows = 1 .. last
        /\ \A i \in DOMAIN shadows :
             shadows[i] \in Entries
    BY Shape DEF Listed
  <1>4. /\ DOMAIN new = 1 .. last - 1 /\ last - 1 \in Nat
        /\ \A j \in 1 .. last - 1 : From(j) \in 1 .. last /\ From(j) # k
        /\ \A j \in 1 .. last - 1 : new[j] = shadows[From(j)]
    BY <1>1, <1>2, <1>3 DEF Forget
  <1>5. \A i \in 1 .. last : i # k => \E j \in 1 .. last - 1 : From(j) = i
    <2> SUFFICES ASSUME NEW i \in 1 .. last, i # k
                 PROVE  \E j \in 1 .. last - 1 : From(j) = i
      OBVIOUS
    <2>1. CASE i = last
      <3>1. k \in 1 .. last - 1 /\ From(k) = i
        BY <1>1, <1>3, <2>1
      <3>. QED
        BY <3>1
    <2>2. CASE i # last
      <3>1. i \in 1 .. last - 1
        <4>1. \A N \in Nat : i \in 1 .. N /\ i # N => i \in 1 .. N - 1
          OBVIOUS
        <4>. QED
          BY <4>1, <1>3, <2>2
      <3>2. From(i) = i
        OBVIOUS
      <3>. QED
        BY <3>1, <3>2
    <2>. QED
      BY <2>1, <2>2
  <1>6. \A i, j \in 1 .. last - 1 : From(i) = From(j) => i = j
    BY <1>3
  <1> HIDE DEF From, last
  <1>7. new \in Seq(Entries)
    <2>1. \A j \in 1 .. last - 1 : new[j] \in Entries
      BY <1>3, <1>4
    <2>2. new = [j \in 1 .. last - 1 |-> new[j]]
      BY <1>2, <1>4 DEF Forget, last
    <2>. QED
      BY <1>4, <2>1, <2>2, Shaped
  <1>8. Listed(new)
    <2> SUFFICES ASSUME NEW i \in DOMAIN new, NEW j \in DOMAIN new,
                        new[i].id = new[j].id
                 PROVE  i = j
      BY <1>7 DEF Listed
    <2>1. shadows[From(i)].id = shadows[From(j)].id
      BY <1>4
    <2>2. From(i) = From(j)
      BY <2>1, <1>3, <1>4 DEF Listed
    <2>. QED
      BY <2>2, <1>4, <1>6
  <1>9. \A i \in DOMAIN new :
          new[i].id # n /\ \E j \in DOMAIN shadows : shadows[j].id = new[i].id
    <2> SUFFICES ASSUME NEW i \in DOMAIN new
                 PROVE  /\ new[i].id # n
                        /\ \E j \in DOMAIN shadows : shadows[j].id = new[i].id
      OBVIOUS
    <2>1. From(i) \in DOMAIN shadows /\ From(i) # k /\ new[i] = shadows[From(i)]
      BY <1>3, <1>4
    <2>. QED
      BY <2>1, <1>1 DEF Listed
  <1>10. ASSUME NEW m PROVE DataIn(new, m) = IF m = n THEN Null ELSE Data(m)
    <2>1. CASE m = n
      <3>1. Find(new, n) = 0
        BY <1>9, NotFound
      <3>. QED
        BY <2>1, <3>1 DEF DataIn
    <2>2. CASE m # n /\ \E i \in DOMAIN shadows : shadows[i].id = m
      <3>1. PICK i \in DOMAIN shadows : shadows[i].id = m
        BY <2>2
      <3>2. PICK j \in 1 .. last - 1 : From(j) = i
        BY <3>1, <2>2, <1>1, <1>3, <1>5
      <3>3. j \in DOMAIN new /\ new[j] = shadows[i]
        BY <3>2, <1>4
      <3>4. Find(shadows, m) = i /\ i # 0 /\ Find(new, m) = j /\ j # 0
        BY <3>1, <3>3, <1>8, Found
      <3>. QED
        BY <2>2, <3>3, <3>4 DEF DataIn, Data
    <2>3. CASE m # n /\ ~\E i \in DOMAIN shadows : shadows[i].id = m
      <3>1. Find(shadows, m) = 0 /\ Find(new, m) = 0
        BY <2>3, <1>9, NotFound
      <3>. QED
        BY <2>3, <3>1 DEF DataIn, Data
    <2>. QED
      BY <2>1, <2>2, <2>3
  <1>. QED
    BY <1>8, <1>9, <1>10

(***************************************************************************)
(* The inductive invariant of the bridge.                                  *)
(***************************************************************************)

\* An ArrayPointerState.
Pointer == [configured : BOOLEAN, enabled : BOOLEAN, buffer : Names \cup {0},
            pointer : Offsets \cup {Client, Null}]

\* The types, without the list.
Typed ==
  /\ names \subseteq Names /\ wild \subseteq Arrays
  /\ bound \in [Targets -> names \cup {0}]
  /\ mem \in [Blocks -> (Contents \ {<<>>}) \cup {Free}]
  /\ state \in [Arrays -> Pointer]
  /\ driver \in [Arrays -> (Blocks \X Offsets) \cup {Client, Null}]

\* The list has entries of names in use only, one each.
Listing ==
  /\ Listed(shadows)
  /\ \A i \in DOMAIN shadows : shadows[i].id \in names

\* An array was set from a buffer that is there still, from one that was
\* deleted since, or from the game's memory.
Pointing ==
  \A a \in Arrays :
    IF state[a].buffer = 0
    THEN state[a].pointer = IF state[a].configured THEN Client ELSE Null
    ELSE /\ state[a].configured /\ state[a].pointer \in Offsets
         /\ state[a].buffer \in names \/ a \in wild

\* Buffers share no copy, and the allocated blocks are the copies.
Owned ==
  /\ \A m, n \in Names : Data(m) = Data(n) /\ Data(m) \in Blocks => m = n
  /\ \A b \in Blocks : mem[b] # Free <=> \E n \in Names : Data(n) = b

BufferInv == Typed /\ Listing /\ Pointing /\ Owned

\* Only names in use have an entry.
LEMMA DataType ==
  ASSUME Listing, NEW n
  PROVE  /\ Data(n) \in Blocks \cup {Null}
         /\ n \notin names => Data(n) = Null /\ Find(shadows, n) = 0
  <1>1. CASE \A i \in DOMAIN shadows : shadows[i].id # n
    BY <1>1, NotFound DEF Data
  <1>2. ASSUME NEW i \in DOMAIN shadows, shadows[i].id = n
        PROVE  Data(n) = shadows[i].data /\ n \in names
    BY <1>2, Found DEF Listing, Data
  <1>3. \A i \in DOMAIN shadows : shadows[i].data \in Blocks \cup {Null}
    <2>1. \A i \in DOMAIN shadows :
            shadows[i] \in Entries
      BY Shape DEF Listing, Listed
    <2>. QED
      BY <2>1
  <1>. QED
    BY <1>1, <1>2, <1>3

\* Contents are the sequences of up to MaxLen values.
LEMMA Content ==
  /\ <<>> \in Contents
  /\ \A c \in Contents : /\ c \in Seq(Values) /\ Len(c) \in 0 .. MaxLen
                         /\ DOMAIN c = 1 .. Len(c)
  /\ \A c \in Seq(Values) : Len(c) <= MaxLen => c \in Contents
  <1>1. ASSUME NEW n \in 0 .. MaxLen, NEW c \in [1 .. n -> Values]
        PROVE  c \in Seq(Values) /\ Len(c) = n
    BY <1>1, BufferAssumption, Shaped
  <1>2. \A c \in Contents : c \in Seq(Values) /\ Len(c) \in 0 .. MaxLen
    BY <1>1 DEF Contents
  <1>3. ASSUME NEW c \in Seq(Values), Len(c) <= MaxLen PROVE c \in Contents
    <2>1. Len(c) \in 0 .. MaxLen /\ c \in [1 .. Len(c) -> Values]
      BY <1>3, LenProperties, BufferAssumption
    <2>. QED
      BY <2>1 DEF Contents
  <1>4. <<>> \in Seq(Values) /\ Len(<<>>) <= MaxLen
    BY EmptySeq, BufferAssumption
  <1>. QED
    BY <1>2, <1>3, <1>4, LenProperties

\* A buffer has a copy exactly if it holds something.
LEMMA CellsType ==
  ASSUME BufferInv, NEW n \in Names
  PROVE  /\ Cells(n) \in Contents
         /\ Data(n) \in Blocks =>
              Cells(n) = mem[Data(n)] /\ mem[Data(n)] # Free /\ Cells(n) # <<>>
         /\ Data(n) \notin Blocks => Data(n) = Null /\ Cells(n) = <<>>
  <1>1. Data(n) \in Blocks \cup {Null}
    BY DataType DEF BufferInv
  <1>2. CASE Data(n) \in Blocks
    <2>1. mem[Data(n)] # Free
      BY <1>2 DEF BufferInv, Owned
    <2>2. mem[Data(n)] \in Contents \ {<<>>}
      BY <1>2, <2>1 DEF BufferInv, Typed
    <2>. QED
      BY <1>2, <2>1, <2>2, BufferAssumption DEF Cells
  <1>3. CASE Data(n) = Null
    BY <1>3, Content, BufferAssumption DEF Cells
  <1>. QED
    BY <1>1, <1>2, <1>3

\* An offset inside the copy is resolved to an address in it.
LEMMA Resolved ==
  ASSUME BufferInv, NEW n \in Names, NEW o \in Offsets
  PROVE  IF o < Len(Cells(n))
         THEN /\ Resolve(n, o) = <<Data(n), o>> /\ Data(n) \in Blocks
              /\ Cells(n) = mem[Data(n)] /\ mem[Data(n)] # Free
         ELSE Resolve(n, o) = Null
  <1>1. Len(Cells(n)) \in Nat /\ o \in Nat
    BY CellsType, Content, BufferAssumption DEF Offsets
  <1>2. CASE o < Len(Cells(n))
    <2>1. Cells(n) # <<>>
      BY <1>1, <1>2, EmptySeq
    <2>. QED
      BY <1>1, <1>2, <2>1, CellsType DEF Resolve
  <1>3. CASE ~(o < Len(Cells(n)))
    BY <1>1, <1>3 DEF Resolve
  <1>. QED
    BY <1>2, <1>3

\* A buffer is given the copy b of new contents and its old one is freed: the

\* copies stay owned, and no other buffer's contents change.
LEMMA Moved ==
  ASSUME BufferInv, NEW n \in Names, NEW cells \in Contents,
         NEW b, IF cells = <<>> THEN b = Null ELSE b \in Blocks /\ mem[b] = Free,
         \A m : Data(m)' = IF m = n THEN b ELSE Data(m),
         mem' = Replaced(Data(n), b, cells)
  PROVE  /\ Owned' /\ mem' \in [Blocks -> (Contents \ {<<>>}) \cup {Free}]
         /\ Cells(n)' = cells
         /\ \A m \in Names : m # n => Cells(m)' = Cells(m)
  <1>1. \/ cells = <<>> /\ b = Null
        \/ cells # <<>> /\ b \in Blocks /\ mem[b] = Free
    OBVIOUS
  <1>2. Data(n) # b \/ b = Null
    BY <1>1 DEF BufferInv, Owned
  <1>3. \A c \in Blocks :
          mem'[c] = IF c = b THEN cells ELSE IF c = Data(n) THEN Free ELSE mem[c]
    BY DEF Replaced
  <1>4. mem' \in [Blocks -> (Contents \ {<<>>}) \cup {Free}]
    BY <1>1, BufferAssumption DEF Replaced, BufferInv, Typed
  <1>5. ASSUME NEW m \in Names, m # n, Data(m) \in Blocks
        PROVE  mem'[Data(m)] = mem[Data(m)]
    <2>1. Data(m) # Data(n) /\ mem[Data(m)] # Free
      BY <1>5 DEF BufferInv, Owned
    <2>. QED
      BY <2>1, <1>1, <1>3, <1>5, BufferAssumption
  <1>6. ASSUME NEW m \in Names, m # n PROVE Cells(m)' = Cells(m)
    <2>1. Data(m)' = Data(m) /\ Data(m) \in Blocks \cup {Null}
      BY <1>6, DataType DEF BufferInv
    <2>. QED
      BY <2>1, <1>5, <1>6 DEF Cells
  <1>7. Cells(n)' = cells
    <2>1. Data(n)' = b
      OBVIOUS
    <2>. QED
      BY <2>1, <1>1, <1>3, BufferAssumption DEF Cells
  <1>8. ASSUME NEW l \in Names, NEW m \in Names,
               Data(l)' = Data(m)', Data(l)' \in Blocks
        PROVE  l = m
    <2>1. \A k \in Names : Data(k) # b \/ b = Null
      BY <1>1 DEF BufferInv, Owned
    <2>. QED
      BY <2>1, <1>8, BufferAssumption DEF BufferInv, Owned
  <1>9. ASSUME NEW c \in Blocks
        PROVE  mem'[c] # Free <=> \E m \in Names : Data(m)' = c
    <2>1. CASE c = b
      BY <1>1, <1>3, <2>1, BufferAssumption
    <2>2. CASE c # b /\ c = Data(n)
      BY <1>3, <2>2 DEF BufferInv, Owned
    <2>3. CASE c # b /\ c # Data(n)
      BY <1>3, <2>3 DEF BufferInv, Owned
    <2>. QED
      BY <2>1, <2>2, <2>3
  <1>10. Owned'
    BY <1>8, <1>9 DEF Owned
  <1>. QED
    BY <1>4, <1>6, <1>7, <1>10

LEMMA DataInIsData ==
  /\ \A m : Data(m) = DataIn(shadows, m)
  /\ \A m : Data(m)' = DataIn(shadows', m)
  BY DEF Data, DataIn

\* A call that at most lists an empty buffer.
LEMMA ListGrows ==
  ASSUME BufferInv, NEW n \in Names, n \in names',
         names \subseteq names', names' \subseteq Names,
         shadows' \in Created(n), UNCHANGED mem
  PROVE  Listing' /\ Owned' /\ \A m : Cells(m)' = Cells(m)
  <1>1. /\ Listed(shadows') /\ \A m : DataIn(shadows', m) = Data(m)
        /\ \A i \in DOMAIN shadows' :
             shadows'[i].id = n \/ \E j \in DOMAIN shadows : shadows[j].id = shadows'[i].id
    BY CreatedList DEF BufferInv, Listing
  <1>2. \A m : Data(m)' = Data(m)
    BY <1>1, DataInIsData
  <1>3. Listing'
    BY <1>1 DEF BufferInv, Listing, Listed
  <1>4. Owned'
    BY <1>2 DEF BufferInv, Owned
  <1>5. \A m : Cells(m)' = Cells(m)
    BY <1>2 DEF Cells
  <1>. QED
    BY <1>3, <1>4, <1>5

\* The invariant and the contents of the buffers, action by action.
LEMMA GenKeeps ==
  ASSUME BufferInv, NEW n \in Names, GenBuffers(n)
  PROVE  BufferInv' /\ \A m : Cells(m)' = Cells(m)
  <1>1. Listing' /\ Owned' /\ \A m : Cells(m)' = Cells(m)
    BY ListGrows DEF GenBuffers, BufferInv, Typed
  <1>2. Typed' /\ Pointing'
    BY DEF GenBuffers, BufferInv, Typed, Pointing
  <1>. QED
    BY <1>1, <1>2 DEF BufferInv

LEMMA BindKeeps ==
  ASSUME BufferInv, NEW t \in Targets, NEW n \in Names \cup {0}, BindBuffer(t, n)
  PROVE  BufferInv' /\ \A m : Cells(m)' = Cells(m)
  <1>1. Listing' /\ Owned' /\ \A m : Cells(m)' = Cells(m)
    <2>1. CASE n = 0
      BY <2>1 DEF BindBuffer, BufferInv, Listing, Listed, Owned, Data, Cells
    <2>2. CASE n # 0
      BY <2>2, ListGrows DEF BindBuffer, BufferInv, Typed
    <2>. QED
      BY <2>1, <2>2
  <1>2. Typed' /\ Pointing'
    BY DEF BindBuffer, BufferInv, Typed, Pointing
  <1>. QED
    BY <1>1, <1>2 DEF BufferInv

LEMMA DataKeeps ==
  ASSUME BufferInv, NEW t \in Targets, NEW cells \in Contents, BufferData(t, cells)
  PROVE  /\ BufferInv'
         /\ \E n \in Names :
              /\ n = bound[t] /\ Cells(n)' \in Contents
              /\ \A m \in Names : m # n => Cells(m)' = Cells(m)
  <1>1. PICK n \in Names : n = bound[t] /\ n \in names
    BY DEF BufferData, BufferInv, Typed
  <1>2. Typed' <=> mem' \in [Blocks -> (Contents \ {<<>>}) \cup {Free}]
    BY DEF BufferData, BufferInv, Typed
  <1>3. Pointing'
    BY DEF BufferData, BufferInv, Pointing
  <1>4. PICK s \in Created(n), b \in Malloc(cells) :
          LET i == Find(s, n) IN
          IF i = 0 \/ b = "failed" THEN shadows' = s /\ UNCHANGED mem
          ELSE /\ shadows' = [s EXCEPT ![i].data = b]
               /\ mem' = Replaced(s[i].data, b, cells)
    BY <1>1 DEF BufferData
  <1>5. CASE Find(s, n) = 0 \/ b = "failed"
    <2>1. shadows' \in Created(n) /\ UNCHANGED <<mem, names>>
      BY <1>4, <1>5 DEF BufferData
    <2>2. Listing' /\ Owned' /\ \A m : Cells(m)' = Cells(m)
      BY <1>1, <2>1, ListGrows DEF BufferInv, Typed
    <2>3. Cells(n)' \in Contents
      BY <2>2, CellsType
    <2>4. Typed'
      BY <1>2, <2>1 DEF BufferInv, Typed
    <2>. QED
      BY <1>1, <1>3, <2>2, <2>3, <2>4 DEF BufferInv
  <1>6. CASE Find(s, n) # 0 /\ b # "failed"
    <2>1. /\ Listed(s) /\ \A m : DataIn(s, m) = Data(m)
          /\ \A i \in DOMAIN s : s[i].id \in names
      <3>1. /\ Listed(s) /\ \A m : DataIn(s, m) = Data(m)
            /\ \A i \in DOMAIN s :
                 s[i].id = n \/ \E j \in DOMAIN shadows : shadows[j].id = s[i].id
        BY <1>1, CreatedList DEF BufferInv, Listing
      <3>. QED
        BY <3>1, <1>1 DEF BufferInv, Listing
    <2>2. PICK k \in DOMAIN s : s[k].id = n
      BY <1>6, NotFound
    <2>3. Find(s, n) = k
      BY <2>1, <2>2, Found
    <2>4. s[k].data = Data(n)
      BY <1>6, <2>1, <2>3 DEF DataIn
    <2>5. b \in Blocks \cup {Null}
      BY <1>6 DEF Malloc
    <2>6. shadows' = [s EXCEPT ![k] = [id |-> s[k].id, data |-> b]]
      <3>1. shadows' = [s EXCEPT ![k] = [s[k] EXCEPT !.data = b]]
        BY <1>4, <1>6, <2>3
      <3>2. s[k] \in Entries
        BY <2>1, Shape DEF Listed
      <3>3. [s[k] EXCEPT !.data = b] = [id |-> s[k].id, data |-> b]
        BY <3>2
      <3>. QED
        BY <3>1, <3>3
    <2>7. /\ Listed(shadows')
          /\ \A m : DataIn(shadows', m) = IF m = n THEN b ELSE DataIn(s, m)
          /\ DOMAIN shadows' = DOMAIN s /\ \A i \in DOMAIN s : shadows'[i].id = s[i].id
      <3>1. /\ Listed(shadows')
            /\ \A m : DataIn(shadows', m) = IF m = s[k].id THEN b ELSE DataIn(s, m)
            /\ DOMAIN shadows' = DOMAIN s
            /\ \A i \in DOMAIN s : shadows'[i].id = s[i].id
        <4>1. \A i \in DOMAIN s : s[i] \in Entries
          BY <2>1, Shape DEF Listed
        <4>2. [id |-> s[k].id, data |-> b] \in Entries
          BY <2>5, <4>1
        <4>3. shadows' \in [DOMAIN s -> Entries]
          <5>1. s \in [DOMAIN s -> Entries]
            BY <2>1, LenProperties DEF Listed
          <5>. QED
            BY <2>6, <4>2, <5>1
        <4>4. \A i \in DOMAIN s :
                /\ shadows'[i].id = s[i].id
                /\ shadows'[i].data = IF i = k THEN b ELSE s[i].data
          BY <2>6
        <4>. QED
          BY <2>1, <2>5, <4>3, <4>4, SetData
      <3>. QED
        BY <2>2, <3>1
    <2>8. \A m : Data(m)' = IF m = n THEN b ELSE Data(m)
      BY <2>1, <2>7, DataInIsData
    <2>9. mem' = Replaced(Data(n), b, cells)
      BY <1>4, <1>6, <2>3, <2>4
    <2>10. /\ Owned' /\ mem' \in [Blocks -> (Contents \ {<<>>}) \cup {Free}]
           /\ Cells(n)' = cells
           /\ \A m \in Names : m # n => Cells(m)' = Cells(m)
      <3>1. IF cells = <<>> THEN b = Null ELSE b \in Blocks /\ mem[b] = Free
        BY <1>6 DEF Malloc
      <3>. QED
        BY <3>1, <2>8, <2>9, Moved
    <2>11. Listing'
      <3>1. names' = names
        BY DEF BufferData
      <3>. QED
        BY <3>1, <2>1, <2>7 DEF Listing, Listed
    <2>. QED
      BY <1>1, <1>2, <1>3, <2>10, <2>11 DEF BufferInv
  <1>. QED
    BY <1>5, <1>6

LEMMA SubDataKeeps ==
  ASSUME BufferInv, NEW t \in Targets, NEW from \in Offsets, NEW cells \in Patches,
         BufferSubData(t, from, cells)
  PROVE  /\ BufferInv'
         /\ \E n \in Names :
              /\ n = bound[t] /\ Cells(n)' \in Contents
              /\ \A m \in Names : m # n => Cells(m)' = Cells(m)
  <1>1. PICK n \in Names : n = bound[t]
    BY DEF BufferSubData, BufferInv, Typed
  <1> DEFINE old == Cells(n)
             new == [i \in DOMAIN old |->
                       IF i - from \in DOMAIN cells THEN cells[i - from] ELSE old[i]]
  <1>2. \/ UNCHANGED mem
        \/ from <= Len(old) /\ Len(cells) <= Len(old) - from /\ cells # <<>>
           /\ mem' = [mem EXCEPT ![Data(n)] = new]
    BY <1>1 DEF BufferSubData
  <1>3. UNCHANGED <<names, driver, bound, shadows, state, wild>>
    BY DEF BufferSubData
  <1>4. Listing' /\ Pointing' /\ \A m : Data(m)' = Data(m)
    BY <1>3 DEF BufferInv, Listing, Listed, Pointing, Data
  <1>5. CASE UNCHANGED mem
    <2>1. Typed' /\ Owned' /\ \A m : Cells(m)' = Cells(m)
      BY <1>3, <1>4, <1>5 DEF BufferInv, Typed, Owned, Cells
    <2>. QED
      BY <1>1, <1>4, <2>1, CellsType DEF BufferInv
  <1>6. CASE /\ Len(cells) <= Len(old) - from /\ cells # <<>>
             /\ mem' = [mem EXCEPT ![Data(n)] = new]
    <2>1. /\ old \in Seq(Values) /\ Len(old) \in 0 .. MaxLen /\ DOMAIN old = 1 .. Len(old)
          /\ cells \in Seq(Values) /\ Len(cells) \in Nat \ {0}
          /\ DOMAIN cells = 1 .. Len(cells)
          /\ from \in Nat
      <3>1. cells \in Contents /\ old \in Contents
        BY CellsType, BufferAssumption
      <3>2. cells \in Seq(Values) /\ Len(cells) \in 0 .. MaxLen /\ DOMAIN cells = 1 .. Len(cells)
        BY <3>1, Content
      <3>3. Len(cells) \in Nat \ {0}
        BY <1>6, <3>2, EmptySeq
      <3>. QED
        BY <3>1, <3>2, <3>3, Content, BufferAssumption DEF Offsets
    <2>2. Len(old) \in Nat \ {0}
      BY <1>6, <2>1
    <2>3. new \in [1 .. Len(old) -> Values]
      <3>1. \A i \in 1 .. Len(old) : old[i] \in Values
        BY <2>1, ElementOfSeq
      <3>2. \A i \in 1 .. Len(cells) : cells[i] \in Values
        BY <2>1, ElementOfSeq
      <3>. QED
        BY <2>1, <3>1, <3>2
    <2>4. new \in Contents \ {<<>>}
      <3> HIDE DEF new
      <3>1. new \in Seq(Values) /\ Len(new) = Len(old)
        BY <2>2, <2>3, Shaped
      <3>. QED
        BY <2>1, <2>2, <3>1, Content, EmptySeq
    <2>5. Data(n) \in Blocks
      BY <2>2, CellsType, EmptySeq
    <2> HIDE DEF new
    <2>6. mem' \in [Blocks -> (Contents \ {<<>>}) \cup {Free}] /\ mem'[Data(n)] = new
      BY <1>6, <2>4, <2>5 DEF BufferInv, Typed
    <2>7. \A m \in Names : m # n /\ Data(m) \in Blocks =>
            Data(m) # Data(n) /\ mem'[Data(m)] = mem[Data(m)]
      BY <1>6, <2>5 DEF BufferInv, Owned, Typed
    <2>8. \A m \in Names : m # n => Cells(m)' = Cells(m)
      BY <1>4, <2>7, DataType DEF BufferInv, Cells
    <2>9. Cells(n)' \in Contents
      BY <1>4, <2>4, <2>5, <2>6, BufferAssumption DEF Cells
    <2>10. \A b \in Blocks : mem'[b] # Free <=> mem[b] # Free
      <3>1. mem[Data(n)] # Free /\ mem'[Data(n)] # Free
        BY <2>4, <2>5, <2>6, CellsType, BufferAssumption
      <3>2. \A b \in Blocks : b # Data(n) => mem'[b] = mem[b]
        BY <1>6 DEF BufferInv, Typed
      <3>. QED
        BY <3>1, <3>2
    <2>11. Owned'
      BY <1>4, <2>10 DEF BufferInv, Owned
    <2>12. Typed'
      BY <1>3, <2>6 DEF BufferInv, Typed
    <2>. QED
      BY <1>1, <1>4, <2>8, <2>9, <2>11, <2>12 DEF BufferInv
  <1>. QED
    BY <1>2, <1>5, <1>6

LEMMA DeleteKeeps ==
  ASSUME BufferInv, NEW n \in Names, DeleteBuffers(n)
  PROVE  /\ BufferInv' /\ Cells(n)' = <<>>
         /\ \A m \in Names : m # n => Cells(m)' = Cells(m)
  <1>1. bound' \in [Targets -> names' \cup {0}]
    BY DEF DeleteBuffers, BufferInv, Typed
  <1>2. Typed' <=> mem' \in [Blocks -> (Contents \ {<<>>}) \cup {Free}]
    BY <1>1 DEF DeleteBuffers, BufferInv, Typed
  <1>3. Pointing'
    BY DEF DeleteBuffers, BufferInv, Pointing
  <1>4. CASE Find(shadows, n) = 0
    <2>1. UNCHANGED <<shadows, mem>> /\ names' = names \ {n}
      BY <1>4 DEF DeleteBuffers
    <2>2. \A i \in DOMAIN shadows : shadows[i].id # n
      BY <1>4, Found DEF BufferInv, Listing
    <2>3. Listing' /\ Owned' /\ \A m : Cells(m)' = Cells(m)
      BY <2>1, <2>2 DEF BufferInv, Listing, Listed, Owned, Data, Cells
    <2>4. Cells(n) = <<>>
      BY <1>4 DEF Cells, Data
    <2>. QED
      BY <1>2, <1>3, <2>1, <2>3, <2>4 DEF BufferInv, Typed
  <1>5. CASE Find(shadows, n) # 0
    <2>1. /\ mem' = Replaced(Data(n), Null, <<>>) /\ names' = names \ {n}
          /\ shadows' = Forget(Find(shadows, n))
      BY <1>5 DEF DeleteBuffers
    <2>2. /\ Listed(shadows')
          /\ \A m : DataIn(shadows', m) = IF m = n THEN Null ELSE Data(m)
          /\ \A i \in DOMAIN shadows' :
               /\ shadows'[i].id # n
               /\ \E j \in DOMAIN shadows : shadows[j].id = shadows'[i].id
      BY <1>5, <2>1, Forgotten DEF BufferInv, Listing
    <2>3. Listing'
      BY <2>1, <2>2 DEF BufferInv, Listing, Listed
    <2>4. \A m : Data(m)' = IF m = n THEN Null ELSE Data(m)
      BY <2>2, DataInIsData
    <2>5. <<>> \in Contents
      BY Content
    <2>6. /\ Owned' /\ mem' \in [Blocks -> (Contents \ {<<>>}) \cup {Free}]
          /\ Cells(n)' = <<>>
          /\ \A m \in Names : m # n => Cells(m)' = Cells(m)
      BY <2>1, <2>4, <2>5, Moved
    <2>. QED
      BY <1>2, <1>3, <2>3, <2>6 DEF BufferInv
  <1>. QED
    BY <1>4, <1>5

\* A call about arrays leaves the copies alone.
LEMMA HeapKept ==
  ASSUME BufferInv, UNCHANGED <<names, bound, shadows, mem>>
  PROVE  Listing' /\ Owned' /\ \A m : Cells(m)' = Cells(m)
  BY DEF BufferInv, Listing, Listed, Owned, Data, Cells

\* What the driver is told is an address or the game's own pointer.
LEMMA ArrayPointerType ==
  ASSUME BufferInv, NEW s \in Pointer, s.buffer # 0 => s.pointer \in Offsets,
         s.buffer = 0 => s.pointer \in {Client, Null}
  PROVE  ArrayPointer(s) \in (Blocks \X Offsets) \cup {Client, Null}
  <1>1. CASE s.buffer = 0
    BY <1>1 DEF ArrayPointer
  <1>2. CASE s.buffer # 0
    <2>1. s.buffer \in Names /\ s.pointer \in Offsets
      BY <1>2 DEF Pointer
    <2>. QED
      BY <1>2, <2>1, Resolved DEF ArrayPointer
  <1>. QED
    BY <1>1, <1>2

LEMMA PointerKeeps ==
  ASSUME BufferInv, NEW a \in Arrays, NEW p \in Offsets \cup {Client}, SetPointer(a, p)
  PROVE  /\ BufferInv' /\ \A m : Cells(m)' = Cells(m)
         /\ \A c \in Arrays : c # a => state'[c] = state[c]
         /\ state'[a].configured /\ state'[a].enabled = state[a].enabled
         /\ state'[a].buffer = bound["array"] /\ state'[a].pointer = p
  <1> DEFINE s == [state[a] EXCEPT !.configured = TRUE, !.buffer = bound["array"],
                                   !.pointer = p]
  <1>1. /\ bound["array"] \in names \cup {0} /\ names \subseteq Names
        /\ state[a] \in Pointer
    BY DEF BufferInv, Typed, Targets
  <1>2. /\ s \in Pointer /\ s.configured /\ s.enabled = state[a].enabled
        /\ s.buffer = bound["array"] /\ s.pointer = p
        /\ IF s.buffer = 0 THEN p = Client ELSE p \in Offsets
    BY <1>1 DEF Pointer, SetPointer
  <1>3. state' = [state EXCEPT ![a] = s]
    BY DEF SetPointer
  <1>4. state'[a] = s /\ state' \in [Arrays -> Pointer]
    BY <1>2, <1>3 DEF BufferInv, Typed
  <1>5. ArrayPointer(s) \in (Blocks \X Offsets) \cup {Client, Null}
    BY <1>2, ArrayPointerType
  <1>6. driver' = [driver EXCEPT ![a] = ArrayPointer(s)]
    BY <1>4 DEF SetPointer
  <1> HIDE DEF s
  <1>7. Typed'
    BY <1>4, <1>5, <1>6 DEF SetPointer, BufferInv, Typed
  <1>8. Pointing'
    <2>1. \A c \in Arrays : c # a => state'[c] = state[c]
      BY <1>3 DEF BufferInv, Typed
    <2>2. s.configured /\ s.pointer = p /\ s.buffer \in names \cup {0}
      BY <1>1, <1>2
    <2>. QED
      BY <1>2, <1>4, <2>1, <2>2 DEF SetPointer, BufferInv, Pointing
  <1>9. Listing' /\ Owned' /\ \A m : Cells(m)' = Cells(m)
    BY HeapKept DEF SetPointer
  <1>10. \A c \in Arrays : c # a => state'[c] = state[c]
    BY <1>3 DEF BufferInv, Typed
  <1>. QED
    BY <1>2, <1>4, <1>7, <1>8, <1>9, <1>10 DEF BufferInv

LEMMA ClientStateKeeps ==
  ASSUME BufferInv, NEW a \in Arrays, NEW on \in BOOLEAN, ClientState(a, on)
  PROVE  /\ BufferInv' /\ \A m : Cells(m)' = Cells(m)
         /\ \A c \in Arrays :
              /\ state'[c].configured = state[c].configured
              /\ state'[c].buffer = state[c].buffer
              /\ state'[c].pointer = state[c].pointer
              /\ state'[c].enabled = IF c = a THEN on ELSE state[c].enabled
  <1>1. state \in [Arrays -> Pointer]
    BY DEF BufferInv, Typed
  <1>2. state' = [state EXCEPT ![a] = [state[a] EXCEPT !.enabled = on]]
    BY DEF ClientState
  <1>3. \A c \in Arrays :
          /\ state'[c].configured = state[c].configured
          /\ state'[c].buffer = state[c].buffer
          /\ state'[c].pointer = state[c].pointer
          /\ state'[c].enabled = IF c = a THEN on ELSE state[c].enabled
    BY <1>1, <1>2 DEF Pointer
  <1>4. state' \in [Arrays -> Pointer]
    BY <1>1, <1>2 DEF Pointer
  <1>5. Typed'
    BY <1>4 DEF ClientState, BufferInv, Typed
  <1>6. Pointing'
    BY <1>3 DEF ClientState, BufferInv, Pointing
  <1>7. Listing' /\ Owned' /\ \A m : Cells(m)' = Cells(m)
    BY HeapKept DEF ClientState
  <1>. QED
    BY <1>3, <1>5, <1>6, <1>7 DEF BufferInv

LEMMA DrawKeeps ==
  ASSUME BufferInv, driver' = Refreshed, UNCHANGED <<names, bridge, wild>>
  PROVE  BufferInv' /\ \A m : Cells(m)' = Cells(m)
  <1>1. \A a \in Arrays : ArrayPointer(state[a]) \in (Blocks \X Offsets) \cup {Client, Null}
    BY ArrayPointerType DEF BufferInv, Typed, Pointing
  <1>2. driver' \in [Arrays -> (Blocks \X Offsets) \cup {Client, Null}]
    BY <1>1 DEF Refreshed, BufferInv, Typed
  <1>3. Typed' /\ Pointing'
    BY <1>2 DEF bridge, BufferInv, Typed, Pointing
  <1>4. Listing' /\ Owned' /\ \A m : Cells(m)' = Cells(m)
    BY HeapKept DEF bridge
  <1>. QED
    BY <1>3, <1>4 DEF BufferInv

(***************************************************************************)
(* The refinement of ClientArrays.                                         *)
(***************************************************************************)

\* What the bridge starts with is what GL starts with.
LEMMA Initially == Init => BufferInv /\ GL!Init
  <1> SUFFICES ASSUME Init PROVE BufferInv /\ GL!Init
    OBVIOUS
  <1>1. DOMAIN shadows = {} /\ shadows \in Seq(Entries)
    BY EmptySeq DEF Init
  <1>2. \A n : Find(shadows, n) = 0 /\ Data(n) = Null /\ Cells(n) = <<>>
    BY <1>1 DEF Find, Data, Cells
  <1>3. Typed /\ Pointing
    BY BufferAssumption DEF Init, Typed, Pointing, Pointer
  <1>4. Listing /\ Owned
    BY <1>1, <1>2, BufferAssumption DEF Init, Listing, Listed, Owned
  <1>5. Store = [n \in Names |-> <<>>] /\ Source = [a \in Arrays |-> Unset]
    BY <1>2 DEF Init, Store, Source
  <1>6. Enabled = {}
    BY DEF Init, Enabled
  <1>. QED
    BY <1>3, <1>4, <1>5, <1>6
      DEF BufferInv, Init, GL!Init, Targets, GL!Targets, GL!NoCall

\* What the game takes its buffers to be follows from the contents.
LEMMA StoreKept == (\A m : Cells(m)' = Cells(m)) => Store' = Store
  BY DEF Store

\* Where an array comes from, as the game sees it.
LEMMA Sources ==
  ASSUME BufferInv, NEW a \in Arrays
  PROVE  /\ Source[a] = Client =>
              state[a].configured /\ state[a].buffer = 0 /\ state[a].pointer = Client
         /\ Source[a] \in Names \X Offsets =>
              /\ state[a].configured /\ state[a].buffer \in Names
              /\ Source[a] = <<state[a].buffer, state[a].pointer>>
         /\ state[a].configured /\ a \notin wild /\ state[a].buffer # 0 =>
              Source[a] = <<state[a].buffer, state[a].pointer>>
  <1>1. state[a] \in Pointer
    BY DEF BufferInv, Typed
  <1>. QED
    BY <1>1, BufferAssumption DEF BufferInv, Pointing, Pointer, Source

\* Each call of the game is the GL call.
LEMMA GenRefines ==
  ASSUME BufferInv, NEW n \in Names, GenBuffers(n)
  PROVE  GL!NoDraw /\ GL!GenBuffers(n)
  <1>1. Store' = Store
    BY GenKeeps, StoreKept
  <1>2. UNCHANGED <<Source, Enabled>>
    BY DEF GenBuffers, Source, Enabled
  <1>. QED
    BY <1>1, <1>2 DEF GenBuffers, NoDraw, GL!NoDraw, GL!NoCall, GL!GenBuffers

LEMMA BindRefines ==
  ASSUME BufferInv, NEW t \in Targets, NEW n \in Names \cup {0}, BindBuffer(t, n)
  PROVE  GL!NoDraw /\ GL!BindBuffer(t, n)
  <1>1. Store' = Store
    BY BindKeeps, StoreKept
  <1>2. UNCHANGED <<Source, Enabled>>
    BY DEF BindBuffer, Source, Enabled
  <1>. QED
    BY <1>1, <1>2 DEF BindBuffer, NoDraw, GL!NoDraw, GL!NoCall, GL!BindBuffer

LEMMA WriteRefines ==
  ASSUME BufferInv, NEW t \in Targets,
         \/ \E cells \in Contents : BufferData(t, cells)
         \/ \E from \in Offsets, cells \in Patches : BufferSubData(t, from, cells)
  PROVE  GL!NoDraw /\ GL!Write(t)
  <1>1. PICK n \in Names : /\ n = bound[t] /\ Cells(n)' \in Contents
                           /\ \A m \in Names : m # n => Cells(m)' = Cells(m)
    BY DataKeeps, SubDataKeeps
  <1>2. /\ NoDraw /\ bound[t] # 0
        /\ UNCHANGED <<names, bound, state, wild>>
    BY DEF BufferData, BufferSubData
  <1>3. UNCHANGED <<Source, Enabled>>
    BY <1>2 DEF Source, Enabled
  <1>4. Store' = [Store EXCEPT ![n] = Store'[n]] /\ Store'[n] \in Contents
    BY <1>1 DEF Store
  <1>. QED
    BY <1>1, <1>2, <1>3, <1>4
       DEF NoDraw, GL!NoDraw, GL!NoCall, GL!Write, Contents, GL!Contents

\* Deleting a name twice is nothing to GL.
LEMMA DeleteRefines ==
  ASSUME BufferInv, NEW n \in Names, DeleteBuffers(n)
  PROVE  GL!NoDraw /\ (GL!DeleteBuffers(n) \/ GL!Fails)
  <1>1. Store' = [Store EXCEPT ![n] = <<>>]
    BY DeleteKeeps DEF Store
  <1>2. Enabled' = Enabled
    BY DEF DeleteBuffers, Enabled
  <1>3. ASSUME NEW a \in Arrays
        PROVE  Source'[a] = IF Source[a] \in {n} \X Offsets THEN Wild ELSE Source[a]
    <2>1. /\ state' = state
          /\ Source'[a] = IF state[a].configured /\ state[a].buffer = n
                          THEN Wild ELSE Source[a]
      BY BufferAssumption
        DEF DeleteBuffers, Source, BufferInv, Pointing, Typed, Pointer
    <2>2. CASE Source[a] \in {n} \X Offsets
      BY <2>1, <2>2, Sources
    <2>3. CASE Source[a] \notin {n} \X Offsets
      <3>1. CASE state[a].configured /\ state[a].buffer = n /\ a \notin wild
        <4>1. state[a].pointer \in Offsets /\ n # 0
          BY <3>1, BufferAssumption DEF BufferInv, Pointing
        <4>2. Source[a] = <<n, state[a].pointer>>
          BY <3>1, <4>1, Sources
        <4>. QED
          BY <4>1, <4>2, <2>3
      <3>2. CASE state[a].configured /\ state[a].buffer = n /\ a \in wild
        BY <3>2, <2>1, <2>3 DEF Source
      <3>3. CASE ~(state[a].configured /\ state[a].buffer = n)
        BY <3>3, <2>1, <2>3
      <3>. QED
        BY <3>1, <3>2, <3>3
    <2>. QED
      BY <2>2, <2>3
  <1>4. Source' = [a \in Arrays |->
                    IF Source[a] \in {n} \X Offsets THEN Wild ELSE Source[a]]
    BY <1>3 DEF Source
  <1>5. CASE n \in names
    BY <1>1, <1>2, <1>4, <1>5
       DEF DeleteBuffers, NoDraw, GL!NoDraw, GL!NoCall, GL!DeleteBuffers,
           Targets, GL!Targets, Offsets, GL!Offsets
  <1>6. CASE n \notin names
    <2>1. names' = names /\ bound' = bound
      BY <1>6 DEF DeleteBuffers, BufferInv, Typed
    <2>2. Cells(n) = <<>>
      BY <1>6, DataType DEF BufferInv, Cells
    <2>3. Store' = Store
      BY <1>1, <2>2 DEF Store
    <2>4. \A a \in Arrays : Source[a] \in {n} \X Offsets => FALSE
      BY <1>6, Sources, BufferAssumption DEF BufferInv, Pointing, Source
    <2>5. Source' = Source
      BY <1>4, <2>4 DEF Source
    <2>. QED
      BY <1>2, <2>1, <2>3, <2>5
         DEF DeleteBuffers, NoDraw, GL!NoDraw, GL!NoCall, GL!Fails, GL!buffers
  <1>. QED
    BY <1>5, <1>6

LEMMA PointerRefines ==
  ASSUME BufferInv, NEW a \in Arrays, NEW p \in Offsets \cup {Client}, SetPointer(a, p)
  PROVE  GL!NoDraw /\ \E q \in Offsets : GL!Pointer(a, q)
  <1>1. Store' = Store
    BY PointerKeeps, StoreKept
  <1>2. Enabled' = Enabled
    BY PointerKeeps DEF Enabled
  <1>3. ASSUME NEW c \in Arrays
        PROVE  Source'[c] = IF c # a THEN Source[c]
                            ELSE IF bound["array"] = 0 THEN Client
                            ELSE <<bound["array"], p>>
    <2>1. /\ \A d \in Arrays : d # a => state'[d] = state[d]
          /\ state'[a].configured
          /\ state'[a].buffer = bound["array"] /\ state'[a].pointer = p
      BY PointerKeeps
    <2>2. wild' = wild \ {a}
      BY DEF SetPointer
    <2>3. CASE c # a
      BY <2>1, <2>2, <2>3 DEF Source
    <2>4. CASE c = a
      BY <2>1, <2>2, <2>4 DEF Source
    <2>. QED
      BY <2>3, <2>4
  <1>4. PICK q \in Offsets : bound["array"] # 0 => q = p
    <2>1. 0 \in Offsets
      BY BufferAssumption DEF Offsets
    <2>. QED
      BY <2>1 DEF SetPointer
  <1>5. Source' = [Source EXCEPT ![a] = IF bound["array"] = 0 THEN Client
                                        ELSE <<bound["array"], q>>]
    <2>1. /\ Source = [c \in Arrays |-> Source[c]]
          /\ Source' = [c \in Arrays |-> Source'[c]]
      BY DEF Source
    <2>. QED
      BY <1>3, <1>4, <2>1
  <1>. QED
    BY <1>1, <1>2, <1>4, <1>5
       DEF SetPointer, NoDraw, GL!NoDraw, GL!NoCall, GL!Pointer, GL!buffers

LEMMA ClientStateRefines ==
  ASSUME BufferInv, NEW a \in Arrays, NEW on \in BOOLEAN, ClientState(a, on)
  PROVE  GL!NoDraw /\ GL!ClientState(a, on)
  <1>1. Store' = Store
    BY ClientStateKeeps, StoreKept
  <1>2. Enabled' = IF on THEN Enabled \cup {a} ELSE Enabled \ {a}
    BY ClientStateKeeps DEF Enabled
  <1>3. Source' = Source
    BY ClientStateKeeps DEF ClientState, Source
  <1>. QED
    BY <1>1, <1>2, <1>3
       DEF ClientState, NoDraw, GL!NoDraw, GL!NoCall, GL!ClientState, GL!buffers

\* An array that GL defines is resolved to where its contents are now.
LEMMA ReadsTheSame ==
  ASSUME BufferInv, NEW n \in Names, NEW o \in Offsets, o < Len(Store[n])
  PROVE  /\ Resolve(n, o) # Null
         /\ Deref(Resolve(n, o)) = SubSeq(Store[n], o + 1, Len(Store[n]))
  <1>1. /\ Resolve(n, o) = <<Data(n), o>> /\ Data(n) \in Blocks
        /\ Store[n] = mem[Data(n)] /\ mem[Data(n)] # Free
    BY Resolved DEF Store
  <1>2. <<Data(n), o>> # Null /\ <<Data(n), o>> # Client
    BY <1>1, BufferAssumption
  <1> DEFINE p == <<Data(n), o>>
  <1>3. p[1] = Data(n) /\ p[2] = o
    OBVIOUS
  <1>4. p # Null /\ p # Client /\ mem[p[1]] # Free
    BY <1>1, <1>2
  <1> HIDE DEF p
  <1>5. Deref(p) = SubSeq(mem[p[1]], p[2] + 1, Len(mem[p[1]]))
    BY <1>4, Zenon DEF Deref
  <1>6. Deref(p) = SubSeq(Store[n], o + 1, Len(Store[n]))
    BY <1>1, <1>3, <1>5, Zenon
  <1>. QED
    BY <1>1, <1>4, <1>6, Zenon DEF p

\* An enabled array that GL defines is valid and read from where GL has it.
LEMMA ArrayRead ==
  ASSUME BufferInv, NEW a \in Arrays, state[a].enabled, GL!Defined(Source[a])
  PROVE  /\ a \in InUse /\ ArrayPointer(state[a]) # Null
         /\ Deref(ArrayPointer(state[a])) = GL!Read(Source[a])
  <1>1. CASE Source[a] = Client
    <2>1. state[a].configured /\ state[a].buffer = 0 /\ state[a].pointer = Client
      BY <1>1, Sources
    <2>. QED
      BY <1>1, <2>1, BufferAssumption
         DEF InUse, Enabled, ArrayPointer, Deref, GL!Read
  <1>2. CASE Source[a] # Client
    <2>1. Source[a] \in Names \X Offsets /\ Source[a][2] < Len(Store[Source[a][1]])
      BY <1>2 DEF GL!Defined, GL!InBuffer, Offsets, GL!Offsets
    <2>2. /\ state[a].configured /\ state[a].buffer \in Names
          /\ Source[a] = <<state[a].buffer, state[a].pointer>>
      BY <2>1, Sources
    <2>3. PICK n \in Names, o \in Offsets : state[a].buffer = n /\ state[a].pointer = o
      BY <2>1, <2>2
    <2>4. Source[a] = <<n, o>> /\ n # 0 /\ o < Len(Store[n])
      BY <2>1, <2>2, <2>3, BufferAssumption
    <2>5. ArrayPointer(state[a]) = Resolve(n, o)
      BY <2>3, <2>4 DEF ArrayPointer
    <2>6. GL!Read(Source[a]) = SubSeq(Store[n], o + 1, Len(Store[n]))
      <3> DEFINE p == <<n, o>>
      <3>1. p[1] = n /\ p[2] = o
        OBVIOUS
      <3> HIDE DEF p
      <3>2. Source[a] # Client /\ Source[a] = p
        BY <1>2, <2>4 DEF p
      <3>. QED
        BY <3>1, <3>2, Zenon DEF GL!Read
    <2>. QED
      BY <2>2, <2>4, <2>5, <2>6, ReadsTheSame DEF InUse, Enabled
  <1>. QED
    BY <1>1, <1>2

\* So a draw of defined inputs reads what GL would.
LEMMA DrawArraysRefines ==
  ASSUME BufferInv, DrawArrays
  PROVE  GL!Draw
  <1>1. Store' = Store /\ UNCHANGED <<names, bound, Source, Enabled>>
    BY DrawKeeps, StoreKept DEF DrawArrays, bridge, Source, Enabled
  <1>2. ASSUME \A a \in Enabled : GL!Defined(Source[a])
        PROVE  drawn' = [a \in Enabled |-> GL!Read(Source[a])]
    <2>1. \A a \in Enabled : /\ a \in InUse /\ a \in Arrays
                             /\ ArrayPointer(state[a]) # Null
                             /\ Deref(ArrayPointer(state[a])) = GL!Read(Source[a])
      BY <1>2, ArrayRead DEF Enabled
    <2>2. Valid
      BY <2>1 DEF Valid, InUse
    <2>3. \A a \in Enabled : driver'[a] = ArrayPointer(state[a])
      BY <2>1 DEF DrawArrays, Refreshed
    <2>. QED
      BY <2>1, <2>2, <2>3 DEF DrawArrays
  <1>3. GL!Draws(GL!ArrayInputs)
    BY <1>2 DEF GL!Draws, GL!ArrayInputs
  <1>. QED
    BY <1>1, <1>3 DEF DrawArrays, GL!Draw, GL!buffers

LEMMA DrawElementsRefines ==
  ASSUME BufferInv, NEW o \in Offsets, DrawElements(o)
  PROVE  GL!Draw
  <1> DEFINE indices == IF bound["elements"] = 0 THEN Client
                        ELSE Resolve(bound["elements"], o)
             inputs == GL!ElementInputs(o)
  <1>1. Store' = Store /\ UNCHANGED <<names, bound, Source, Enabled>>
    BY DrawKeeps, StoreKept DEF DrawElements, bridge, Source, Enabled
  <1>2. /\ DOMAIN inputs = Enabled \cup {Index} /\ inputs[Index] = GL!Indices(o)
        /\ \A a \in Enabled : a # Index /\ inputs[a] = Source[a]
    BY BufferAssumption DEF GL!ElementInputs, Enabled
  <1>3. ASSUME GL!Defined(GL!Indices(o))
        PROVE  indices # Null /\ Deref(indices) = GL!Read(GL!Indices(o))
    <2>1. CASE bound["elements"] = 0
      BY <2>1, BufferAssumption DEF GL!Indices, Deref, GL!Read
    <2>2. CASE bound["elements"] # 0
      <3>1. PICK n \in Names : bound["elements"] = n /\ n # 0
        BY <2>2 DEF BufferInv, Typed, Targets
      <3>2. GL!Indices(o) = <<n, o>> /\ <<n, o>> # Client
        BY <3>1, BufferAssumption DEF GL!Indices
      <3>3. o < Len(Store[n])
        BY <1>3, <3>2 DEF GL!Defined, GL!InBuffer
      <3>. QED
        BY <3>1, <3>2, <3>3, ReadsTheSame DEF GL!Read
    <2>. QED
      BY <2>1, <2>2
  <1>4. ASSUME \A i \in DOMAIN inputs : GL!Defined(inputs[i])
        PROVE  drawn' = [i \in DOMAIN inputs |-> GL!Read(inputs[i])]
    <2>1. \A a \in Enabled : /\ a \in InUse /\ a \in Arrays
                             /\ ArrayPointer(state[a]) # Null
                             /\ Deref(ArrayPointer(state[a])) = GL!Read(Source[a])
      <3>1. \A a \in Enabled : GL!Defined(Source[a])
        BY <1>2, <1>4
      <3>. QED
        BY <3>1, ArrayRead DEF Enabled
    <2>2. indices # Null /\ Deref(indices) = GL!Read(inputs[Index])
      BY <1>2, <1>3, <1>4
    <2>3. Valid
      BY <2>1 DEF Valid, InUse
    <2>4. \A a \in Enabled : driver'[a] = ArrayPointer(state[a])
      BY <2>1 DEF DrawElements, Refreshed
    <2>5. drawn' = [i \in Enabled \cup {Index} |->
                      Deref(IF i = Index THEN indices ELSE driver'[i])]
      BY <2>2, <2>3 DEF DrawElements
    <2>6. \A i \in Enabled \cup {Index} :
            Deref(IF i = Index THEN indices ELSE driver'[i]) = GL!Read(inputs[i])
      BY <1>2, <2>1, <2>2, <2>4
    <2>. QED
      BY <1>2, <2>5, <2>6
  <1>5. GL!Draws(inputs)
    BY <1>4 DEF GL!Draws
  <1>. QED
    BY <1>1, <1>5
       DEF DrawElements, GL!Draw, GL!buffers, Offsets, GL!Offsets

\* Every step keeps the invariant, and is a step of GL or changes nothing.
LEMMA StepKeeps == BufferInv /\ [Next]_vars => BufferInv'
  <1> SUFFICES ASSUME BufferInv, [Next]_vars PROVE BufferInv'
    OBVIOUS
  <1>1. ASSUME NEW n \in Names, GenBuffers(n) \/ DeleteBuffers(n) PROVE BufferInv'
    BY <1>1, GenKeeps, DeleteKeeps
  <1>2. ASSUME NEW t \in Targets, NEW n \in Names \cup {0}, BindBuffer(t, n)
        PROVE  BufferInv'
    BY <1>2, BindKeeps
  <1>3. ASSUME NEW t \in Targets, NEW cells \in Contents, BufferData(t, cells)
        PROVE  BufferInv'
    BY <1>3, DataKeeps
  <1>4. ASSUME NEW t \in Targets, NEW from \in Offsets, NEW cells \in Patches,
               BufferSubData(t, from, cells)
        PROVE  BufferInv'
    BY <1>4, SubDataKeeps
  <1>5. ASSUME NEW a \in Arrays, NEW p \in Offsets \cup {Client}, SetPointer(a, p)
        PROVE  BufferInv'
    BY <1>5, PointerKeeps
  <1>6. ASSUME NEW a \in Arrays, NEW on \in BOOLEAN, ClientState(a, on) PROVE BufferInv'
    BY <1>6, ClientStateKeeps
  <1>7. CASE DrawArrays \/ \E offset \in Offsets : DrawElements(offset)
    BY <1>7, DrawKeeps DEF DrawArrays, DrawElements
  <1>8. CASE UNCHANGED vars
    BY <1>8
      DEF vars, bridge, BufferInv, Typed, Listing, Listed, Pointing, Owned,
          Data
  <1>. QED
    BY <1>1, <1>2, <1>3, <1>4, <1>5, <1>6, <1>7, <1>8 DEF Next

LEMMA StepRefines == BufferInv /\ [Next]_vars => [GL!Next]_(GL!vars)
  <1> SUFFICES ASSUME BufferInv, [Next]_vars PROVE [GL!Next]_(GL!vars)
    OBVIOUS
  <1>0. Targets = GL!Targets /\ Offsets = GL!Offsets /\ Names \cup {0} = GL!Bindings
    BY DEF Targets, GL!Targets, Offsets, GL!Offsets, GL!Bindings
  <1>1. ASSUME NEW n \in Names, GenBuffers(n) \/ DeleteBuffers(n) PROVE GL!Next
    BY <1>1, GenRefines, DeleteRefines DEF GL!Next, GL!Quiet
  <1>2. ASSUME NEW t \in Targets, NEW n \in Names \cup {0}, BindBuffer(t, n)
        PROVE  GL!Next
    BY <1>0, <1>2, BindRefines DEF GL!Next, GL!Quiet
  <1>3. ASSUME NEW t \in Targets,
               \/ \E cells \in Contents : BufferData(t, cells)
               \/ \E from \in Offsets, cells \in Patches : BufferSubData(t, from, cells)
        PROVE  GL!Next
    BY <1>0, <1>3, WriteRefines DEF GL!Next, GL!Quiet
  <1>4. ASSUME NEW a \in Arrays, NEW p \in Offsets \cup {Client}, SetPointer(a, p)
        PROVE  GL!Next
    BY <1>0, <1>4, PointerRefines DEF GL!Next, GL!Quiet
  <1>5. ASSUME NEW a \in Arrays, NEW on \in BOOLEAN, ClientState(a, on)
        PROVE  GL!Next
    BY <1>5, ClientStateRefines DEF GL!Next, GL!Quiet
  <1>6. CASE DrawArrays \/ \E offset \in Offsets : DrawElements(offset)
    BY <1>6, DrawArraysRefines, DrawElementsRefines DEF GL!Next
  <1>7. CASE UNCHANGED vars
    BY <1>7
      DEF vars, bridge, Store, Cells, Data, Source, Enabled, GL!vars,
          GL!buffers
  <1>. QED
    BY <1>1, <1>2, <1>3, <1>4, <1>5, <1>6, <1>7 DEF Next

LEMMA Inductive == Spec => []BufferInv
  BY Initially, StepKeeps, PTL DEF Spec

\* The game cannot tell the bridge from a driver with buffer objects: whatever
\* was bound, replaced, deleted or unavailable in between, a draw that GL
\* defines reads what the bound buffers hold (bridge_refresh_arrays).
THEOREM DrawsLikeGL == Spec => DrawsWhatGLWould
  BY Initially, StepRefines, Inductive, PTL DEF Spec, DrawsWhatGLWould, GL!Spec

\* Every allocated block is the copy of one buffer and every copy is allocated,
\* across the move of the last entry and failed allocations.
THEOREM CopiesOwned == Spec => []CopiesAreOwned
  <1>1. ASSUME BufferInv PROVE CopiesAreOwned
    <2> DEFINE At(b) == {i \in DOMAIN shadows : shadows[i].data = b}
    <2>1. Listed(shadows) /\ \A i \in DOMAIN shadows : shadows[i].id \in names
      BY <1>1 DEF BufferInv, Listing
    <2>2. \A i \in DOMAIN shadows : Data(shadows[i].id) = shadows[i].data
      BY <2>1, Found DEF Data
    <2>3. TypeOK
      <3>1. shadows \in Seq([id : names, data : Blocks \cup {Null}])
        <4>1. /\ Len(shadows) \in Nat /\ shadows \in [1 .. Len(shadows) -> Entries]
              /\ DOMAIN shadows = 1 .. Len(shadows)
          BY <2>1, LenProperties DEF Listed
        <4>2. \A i \in DOMAIN shadows : shadows[i] \in [id : names, data : Blocks \cup {Null}]
          BY <2>1, <4>1
        <4>3. shadows \in [1 .. Len(shadows) -> [id : names, data : Blocks \cup {Null}]]
          BY <4>1, <4>2
        <4>. QED
          BY <4>1, <4>3, Shaped
      <3>. QED
        BY <1>1, <2>1, <3>1, BufferAssumption
           DEF TypeOK, BufferInv, Typed, Listed, Pointing, Pointer
    <2>4. ASSUME NEW b \in Blocks
          PROVE  Cardinality(At(b)) = IF mem[b] = Free THEN 0 ELSE 1
      <3>1. CASE mem[b] = Free
        <4>1. At(b) = {}
          BY <1>1, <2>1, <2>2, <3>1 DEF BufferInv, Owned, Typed
        <4>. QED
          BY <3>1, <4>1, FS_EmptySet
      <3>2. CASE mem[b] # Free
        <4>1. PICK n \in Names : Data(n) = b
          BY <1>1, <3>2 DEF BufferInv, Owned
        <4>2. PICK i \in DOMAIN shadows : shadows[i].id = n
          BY <4>1, NotFound, BufferAssumption DEF Data
        <4>3. At(b) = {i}
          BY <1>1, <2>1, <2>2, <4>1, <4>2 DEF BufferInv, Owned, Typed, Listed
        <4>. QED
          BY <3>2, <4>3, FS_Singleton
      <3>. QED
        BY <3>1, <3>2
    <2>. QED
      BY <2>3, <2>4 DEF CopiesAreOwned
  <1>. QED
    BY <1>1, Inductive, PTL
=============================================================================
