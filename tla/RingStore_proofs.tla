--------------------------- MODULE RingStore_proofs ---------------------------
(***************************************************************************)
(* Facts about the ring buffer's index arithmetic and about the operators  *)
(* of RingStore, for every capacity.                                       *)
(***************************************************************************)
EXTENDS RingStore, SequenceTheorems, TLAPS

-----------------------------------------------------------------------------
(* Index arithmetic modulo StoreCap *)

LEMMA ModSmall == ASSUME NEW x \in Nat, x < StoreCap PROVE x % StoreCap = x
BY StoreAssumption

LEMMA ModWrap ==
    ASSUME NEW x \in Nat, x >= StoreCap, x < 2 * StoreCap
    PROVE  x % StoreCap = x - StoreCap
BY StoreAssumption

LEMMA ModRange ==
    ASSUME NEW x \in Nat PROVE x % StoreCap \in Slot
BY StoreAssumption DEF Slot

LEMMA NextSlot ==
    ASSUME NEW i \in Slot
    PROVE  /\ Next1(i) \in Slot
           /\ Next1(i) = IF i + 1 = StoreCap THEN 0 ELSE i + 1
BY ModRange, ModSmall, ModWrap, StoreAssumption DEF Next1, Slot

-----------------------------------------------------------------------------
(* Each operation leaves a store *)

LEMMA RoomMade ==
    ASSUME NEW s \in Store
    PROVE  /\ MakeRoom(s) \in Store
           /\ MakeRoom(s).count < StoreCap
           /\ MakeRoom(s).slot = s.slot
           /\ MakeRoom(s).head = s.head
           /\ Full(s) => /\ MakeRoom(s).tail = Next1(s.tail)
                         /\ MakeRoom(s).count = s.count - 1
                         /\ MakeRoom(s).dropped = s.dropped + 1
           /\ ~Full(s) => MakeRoom(s) = s
<1>1. s.tail \in Slot /\ s.count \in 0 .. StoreCap /\ s.dropped \in Nat
  BY DEF Store
<1>2. Next1(s.tail) \in Slot
  BY <1>1, NextSlot
<1> QED BY <1>1, <1>2, StoreAssumption DEF Store, MakeRoom, Full

LEMMA Written ==
    ASSUME NEW s \in Store, s.count < StoreCap, NEW p \in Packet, NEW t \in 0 .. MaxStamp
    PROVE  Write(s, p, t) \in Store
<1>1. s.slot \in [Slot -> Entry] /\ s.head \in Slot /\ s.count \in 0 .. StoreCap
  BY DEF Store
<1>2. Next1(s.head) \in Slot
  BY <1>1, NextSlot
<1>3. s.count + 1 \in 0 .. StoreCap
  BY <1>1, StoreAssumption
<1>4. [pkt |-> p, stamp |-> t] \in Entry
  BY DEF Entry
<1>5. [s.slot EXCEPT ![s.head] = [pkt |-> p, stamp |-> t]] \in [Slot -> Entry]
  BY <1>1, <1>4
<1> QED BY <1>2, <1>3, <1>5 DEF Store, Write

LEMMA Got ==
    ASSUME NEW s \in Store, s.count > 0
    PROVE  StoreGet(s) \in Store /\ Oldest(s) \in Entry
<1>1. Next1(s.tail) \in Slot
  BY NextSlot DEF Store
<1> QED BY <1>1, StoreAssumption DEF Store, StoreGet, Oldest

-----------------------------------------------------------------------------
(* Where the entries are *)

LEMMA AtValue ==
    ASSUME NEW s \in Store, NEW i \in 1 .. StoreCap
    PROVE  /\ (s.tail + i - 1) % StoreCap \in Slot
           /\ (s.tail + i - 1) % StoreCap =
                 IF s.tail + i - 1 < StoreCap THEN s.tail + i - 1
                                              ELSE s.tail + i - 1 - StoreCap
           /\ At(s, i) \in Entry
<1>1. s.tail \in 0 .. StoreCap - 1 /\ s.slot \in [Slot -> Entry]
  BY DEF Store, Slot
<1>2. s.tail + i - 1 \in Nat /\ s.tail + i - 1 < 2 * StoreCap
  BY <1>1, StoreAssumption
<1>3. (s.tail + i - 1) % StoreCap \in Slot
  BY <1>2, ModRange
<1>4. CASE s.tail + i - 1 < StoreCap
  BY <1>1, <1>2, <1>3, <1>4, ModSmall DEF At
<1>5. CASE ~(s.tail + i - 1 < StoreCap)
  BY <1>1, <1>2, <1>3, <1>5, ModWrap, StoreAssumption DEF At
<1> QED BY <1>4, <1>5

\* A put writes behind the newest entry, never on a live one.
LEMMA WriteAt ==
    ASSUME NEW s \in Store, InStep(s), s.count < StoreCap,
           NEW p \in Packet, NEW t \in 0 .. MaxStamp
    PROVE  /\ InStep(Write(s, p, t))
           /\ \A i \in 1 .. s.count : At(Write(s, p, t), i) = At(s, i)
           /\ At(Write(s, p, t), s.count + 1) = [pkt |-> p, stamp |-> t]
<1> DEFINE w == Write(s, p, t)
           e == [pkt |-> p, stamp |-> t]
<1>1. /\ s.slot \in [Slot -> Entry] /\ s.head \in Slot
      /\ s.tail \in 0 .. StoreCap - 1 /\ s.count \in 0 .. StoreCap - 1
  BY StoreAssumption DEF Store, Slot
<1>2. /\ w.slot = [s.slot EXCEPT ![s.head] = e] /\ w.tail = s.tail
      /\ w.count = s.count + 1 /\ w.head = Next1(s.head)
  BY DEF Write
<1>3. w \in Store
  BY Written
<1> HIDE DEF w, e
<1>4. s.head = (s.tail + (s.count + 1) - 1) % StoreCap
  BY <1>1 DEF InStep
<1>5. s.head = IF s.tail + s.count < StoreCap THEN s.tail + s.count
                                              ELSE s.tail + s.count - StoreCap
  <2>1. s.count + 1 \in 1 .. StoreCap
    BY <1>1, StoreAssumption
  <2> QED BY <1>1, <1>4, <2>1, AtValue, StoreAssumption
<1>6. InStep(w)
  <2>1. Next1(s.head) = IF s.head + 1 = StoreCap THEN 0 ELSE s.head + 1
    BY <1>1, NextSlot
  <2>2. s.tail + (s.count + 1) \in Nat /\ s.tail + (s.count + 1) < 2 * StoreCap
    BY <1>1, StoreAssumption
  <2>3. CASE s.tail + (s.count + 1) < StoreCap
    BY <1>1, <1>2, <1>5, <2>1, <2>2, <2>3, ModSmall, StoreAssumption DEF InStep
  <2>4. CASE ~(s.tail + (s.count + 1) < StoreCap)
    BY <1>1, <1>2, <1>5, <2>1, <2>2, <2>4, ModWrap, StoreAssumption DEF InStep
  <2> QED BY <2>3, <2>4
<1>7. ASSUME NEW i \in 1 .. s.count PROVE At(w, i) = At(s, i)
  <2>1. i \in 1 .. StoreCap
    BY <1>1, StoreAssumption
  <2>2. (s.tail + i - 1) % StoreCap # s.head
    BY <1>1, <1>5, <2>1, AtValue, StoreAssumption
  <2>3. (s.tail + i - 1) % StoreCap \in Slot
    BY <2>1, AtValue
  <2> QED BY <1>1, <1>2, <2>2, <2>3 DEF At
<1>8. At(w, s.count + 1) = e
  BY <1>1, <1>2, <1>4 DEF At
<1> QED BY <1>6, <1>7, <1>8 DEF w, e

\* Giving up the oldest entry shifts every other one forward by one.
LEMMA AdvanceAt ==
    ASSUME NEW s \in Store, NEW g \in Store, InStep(s), s.count > 0,
           g.slot = s.slot, g.head = s.head, g.tail = Next1(s.tail),
           g.count = s.count - 1
    PROVE  /\ InStep(g)
           /\ \A i \in 1 .. g.count : At(g, i) = At(s, i + 1)
           /\ Oldest(s) = At(s, 1)
<1>1. s.tail \in 0 .. StoreCap - 1 /\ s.count \in 1 .. StoreCap /\ s.head \in Slot
  BY StoreAssumption DEF Store, Slot
<1>2. g.tail = IF s.tail + 1 = StoreCap THEN 0 ELSE s.tail + 1
  BY <1>1, NextSlot DEF Slot
<1>3. ASSUME NEW i \in 1 .. StoreCap - 1
      PROVE  (g.tail + i - 1) % StoreCap = (s.tail + (i + 1) - 1) % StoreCap
  <2>1. i \in 1 .. StoreCap /\ i + 1 \in 1 .. StoreCap
    BY StoreAssumption
  <2>2. (g.tail + i - 1) % StoreCap = IF g.tail + i - 1 < StoreCap
                                      THEN g.tail + i - 1 ELSE g.tail + i - 1 - StoreCap
    BY <2>1, AtValue
  <2>3. (s.tail + (i + 1) - 1) % StoreCap = IF s.tail + (i + 1) - 1 < StoreCap
                                            THEN s.tail + (i + 1) - 1
                                            ELSE s.tail + (i + 1) - 1 - StoreCap
    BY <2>1, AtValue
  <2>4. CASE s.tail + 1 = StoreCap
    BY <1>1, <1>2, <2>2, <2>3, <2>4, StoreAssumption
  <2>5. CASE s.tail + 1 # StoreCap
    BY <1>1, <1>2, <2>2, <2>3, <2>5, StoreAssumption
  <2> QED BY <2>4, <2>5
<1>4. InStep(g)
  <2>1. CASE s.count = StoreCap
    <3>1. s.tail + s.count \in Nat /\ s.tail + s.count >= StoreCap /\ s.tail + s.count < 2 * StoreCap
      BY <1>1, <2>1, StoreAssumption
    <3>2. s.head = s.tail
      BY <1>1, <2>1, <3>1, ModWrap, StoreAssumption DEF InStep
    <3>3. CASE s.tail + 1 = StoreCap
      <4>1. g.tail + g.count = StoreCap - 1
        BY <1>1, <1>2, <2>1, <3>3, StoreAssumption
      <4> QED BY <1>1, <3>2, <3>3, <4>1, ModSmall, StoreAssumption DEF InStep
    <3>4. CASE s.tail + 1 # StoreCap
      <4>1. g.tail + g.count = s.tail + StoreCap
        BY <1>1, <1>2, <2>1, <3>4, StoreAssumption
      <4> QED BY <1>1, <3>2, <4>1, ModWrap, StoreAssumption DEF InStep
    <3> QED BY <3>3, <3>4
  <2>2. CASE s.count # StoreCap
    <3>1. s.count \in 1 .. StoreCap - 1
      BY <1>1, <2>2, StoreAssumption
    <3>2. (g.tail + s.count - 1) % StoreCap = (s.tail + (s.count + 1) - 1) % StoreCap
      BY <1>3, <3>1
    <3>3. /\ g.tail + s.count - 1 = g.tail + g.count
          /\ s.tail + (s.count + 1) - 1 = s.tail + s.count
      BY <1>1, <1>2, StoreAssumption
    <3> QED BY <3>2, <3>3 DEF InStep
  <2> QED BY <2>1, <2>2
<1>5. ASSUME NEW i \in 1 .. g.count PROVE At(g, i) = At(s, i + 1)
  <2>1. i \in 1 .. StoreCap - 1
    BY <1>1, StoreAssumption
  <2> QED BY <1>3, <2>1 DEF At
<1>6. Oldest(s) = At(s, 1)
  <2>1. s.tail + 1 - 1 = s.tail /\ s.tail % StoreCap = s.tail
    BY <1>1, ModSmall, StoreAssumption
  <2> QED BY <2>1 DEF At, Oldest
<1> QED BY <1>4, <1>5, <1>6

-----------------------------------------------------------------------------
(* The ring read as a sequence *)

LEMMA ContentsType ==
    ASSUME NEW s \in Store
    PROVE  /\ Contents(s) \in Seq(Entry)
           /\ Len(Contents(s)) = s.count
           /\ \A i \in 1 .. s.count : Contents(s)[i] = At(s, i)
<1>1. s.count \in Nat /\ s.count <= StoreCap
  BY StoreAssumption DEF Store
<1>2. \A i \in 1 .. s.count : At(s, i) \in Entry
  BY <1>1, AtValue, StoreAssumption
<1> QED BY <1>1, <1>2 DEF Contents

LEMMA TailContents ==
    ASSUME NEW s \in Store, NEW g \in Store, s.count > 0, g.count = s.count - 1,
           \A i \in 1 .. g.count : At(g, i) = At(s, i + 1)
    PROVE  Contents(g) = Tail(Contents(s))
<1>1. s.count \in Nat /\ g.count \in Nat
  BY StoreAssumption DEF Store
<1>2. /\ Contents(s) \in Seq(Entry) /\ Len(Contents(s)) = s.count
      /\ Contents(g) \in Seq(Entry) /\ Len(Contents(g)) = g.count
      /\ \A i \in 1 .. s.count : Contents(s)[i] = At(s, i)
      /\ \A i \in 1 .. g.count : Contents(g)[i] = At(g, i)
  BY ContentsType
<1>3. Contents(s) # <<>>
  BY <1>1, <1>2
<1>4. /\ Tail(Contents(s)) \in Seq(Entry)
      /\ Len(Tail(Contents(s))) = s.count - 1
      /\ \A i \in 1 .. s.count - 1 : Tail(Contents(s))[i] = Contents(s)[i + 1]
  BY <1>1, <1>2, <1>3, HeadTailProperties
<1>5. \A i \in 1 .. g.count : Contents(g)[i] = Tail(Contents(s))[i]
  BY <1>1, <1>2, <1>4
<1> QED BY <1>1, <1>2, <1>4, <1>5, SeqEqual

LEMMA RoomContents ==
    ASSUME NEW s \in Store, InStep(s)
    PROVE  /\ InStep(MakeRoom(s))
           /\ Contents(MakeRoom(s)) = IF Full(s) THEN Tail(Contents(s)) ELSE Contents(s)
<1>1. CASE Full(s)
  <2> DEFINE g == MakeRoom(s)
  <2>1. /\ g \in Store /\ g.slot = s.slot /\ g.head = s.head
        /\ g.tail = Next1(s.tail) /\ g.count = s.count - 1
    BY <1>1, RoomMade
  <2>2. s.count > 0
    BY <1>1, StoreAssumption DEF Full
  <2> HIDE DEF g
  <2>3. InStep(g) /\ \A i \in 1 .. g.count : At(g, i) = At(s, i + 1)
    BY <2>1, <2>2, AdvanceAt
  <2>4. Contents(g) = Tail(Contents(s))
    BY <2>1, <2>2, <2>3, TailContents
  <2> QED BY <1>1, <2>3, <2>4 DEF g
<1>2. CASE ~Full(s)
  BY <1>2, RoomMade
<1> QED BY <1>1, <1>2

LEMMA WriteContents ==
    ASSUME NEW s \in Store, InStep(s), s.count < StoreCap,
           NEW p \in Packet, NEW t \in 0 .. MaxStamp
    PROVE  Contents(Write(s, p, t)) = Append(Contents(s), [pkt |-> p, stamp |-> t])
<1> DEFINE w == Write(s, p, t)
           e == [pkt |-> p, stamp |-> t]
<1>1. /\ \A i \in 1 .. s.count : At(w, i) = At(s, i)
      /\ At(w, s.count + 1) = e
  BY WriteAt
<1>2. w.count = s.count + 1 /\ s.count \in Nat
  BY StoreAssumption DEF Write, Store
<1>3. Contents(s) \in Seq(Entry) /\ Len(Contents(s)) = s.count
  BY ContentsType
<1> HIDE DEF w, e
<1>4. w \in Store /\ e \in Entry
  BY Written DEF w, e, Entry
<1>5. /\ Contents(w) \in Seq(Entry) /\ Len(Contents(w)) = s.count + 1
      /\ \A i \in 1 .. s.count + 1 : Contents(w)[i] = At(w, i)
      /\ \A i \in 1 .. s.count : Contents(s)[i] = At(s, i)
  BY <1>2, <1>4, ContentsType
<1>6. /\ Append(Contents(s), e) \in Seq(Entry)
      /\ Len(Append(Contents(s), e)) = s.count + 1
      /\ \A i \in 1 .. s.count : Append(Contents(s), e)[i] = Contents(s)[i]
      /\ Append(Contents(s), e)[s.count + 1] = e
  BY <1>2, <1>3, <1>4, AppendProperties
<1>7. Contents(w) = Append(Contents(s), e)
  <2>1. \A i \in 1 .. s.count + 1 : i \in 1 .. s.count \/ i = s.count + 1
    BY <1>2
  <2>2. \A i \in 1 .. s.count + 1 : Contents(w)[i] = Append(Contents(s), e)[i]
    BY <1>1, <1>2, <1>5, <1>6, <2>1
  <2> QED BY <1>5, <1>6, <2>2, SeqEqual
<1> QED BY <1>7 DEF w, e

LEMMA GetContents ==
    ASSUME NEW s \in Store, InStep(s), s.count > 0
    PROVE  /\ InStep(StoreGet(s))
           /\ Oldest(s) = Head(Contents(s))
           /\ Contents(StoreGet(s)) = Tail(Contents(s))
<1> DEFINE g == StoreGet(s)
<1>1. /\ g \in Store /\ g.slot = s.slot /\ g.head = s.head
      /\ g.tail = Next1(s.tail) /\ g.count = s.count - 1
  BY Got DEF StoreGet
<1> HIDE DEF g
<1>2. /\ InStep(g) /\ Oldest(s) = At(s, 1)
      /\ \A i \in 1 .. g.count : At(g, i) = At(s, i + 1)
  BY <1>1, AdvanceAt
<1>3. s.count \in Nat /\ g.count \in Nat
  BY <1>1, StoreAssumption DEF Store
<1>4. Contents(s) \in Seq(Entry) /\ Len(Contents(s)) = s.count
  BY ContentsType
<1>7. Contents(g) = Tail(Contents(s))
  BY <1>1, <1>2, TailContents
<1>8. Oldest(s) = Head(Contents(s))
  BY <1>2, <1>3, <1>4 DEF Contents
<1> QED BY <1>2, <1>7, <1>8 DEF g
=============================================================================
