-------------------------- MODULE PacketStore_proofs --------------------------
(***************************************************************************)
(* The packet store is a bounded FIFO that overwrites its oldest entry and *)
(* loses nothing silently, for every capacity, packet set and bound.       *)
(***************************************************************************)
EXTENDS PacketStore, RingStore_proofs

IInv == TypeOK /\ RingShape /\ LossAccounted /\ StampsNonDecreasing

LEMMA InitEstablishes == Init => IInv
<1> SUFFICES ASSUME Init PROVE IInv
  OBVIOUS
<1>1. NoEntry \in Entry
  BY StoreAssumption DEF NoEntry, Entry
<1>2. TypeOK
  BY <1>1, StoreAssumption
     DEF Init, TypeOK, StoreInit, Store, Slot, STORE_REJECTED, STORE_OK, STORE_OVERWROTE
<1>3. RingShape
  BY StoreAssumption, ModSmall DEF Init, RingShape, InStep, StoreInit
<1>4. store.count = 0 /\ store.dropped = 0 /\ got.stamp = 0
  BY DEF Init, StoreInit, NoEntry
<1>5. LossAccounted /\ StampsNonDecreasing
  BY <1>4 DEF Init, LossAccounted, StampsNonDecreasing
<1> QED BY <1>2, <1>3, <1>5 DEF IInv

\* What a put does to the ring, by the three ways it can end.
LEMMA PutStep ==
    ASSUME NEW p \in Packet, IInv, Put(p)
    PROVE  /\ store' \in Store
           /\ InStep(store')
           /\ Fits(p) /\ ~Full(store) =>
                 /\ Contents(store)' = Append(Contents(store), [pkt |-> p, stamp |-> clock])
                 /\ store'.count = store.count + 1
                 /\ store'.dropped = store.dropped
           /\ Fits(p) /\ Full(store) =>
                 /\ Contents(store)' = Append(Tail(Contents(store)), [pkt |-> p, stamp |-> clock])
                 /\ store'.count = store.count
                 /\ store'.dropped = store.dropped + 1
           /\ ~Fits(p) =>
                 /\ Contents(store)' = Contents(store)
                 /\ store'.count = store.count
                 /\ store'.dropped = IF Size[p] = 0 THEN store.dropped ELSE store.dropped + 1
<1>1. /\ store \in Store /\ InStep(store) /\ clock \in 0 .. MaxStamp
      /\ store' = StorePut(store, p, clock)
      /\ store.count \in Nat /\ store.dropped \in Nat /\ Size[p] \in Nat
  BY StoreAssumption DEF IInv, TypeOK, RingShape, Put, Store
<1>2. CASE Fits(p)
  <2> DEFINE m == MakeRoom(store)
  <2>1. /\ m \in Store /\ m.count < StoreCap /\ InStep(m)
        /\ Contents(m) = IF Full(store) THEN Tail(Contents(store)) ELSE Contents(store)
    BY <1>1, RoomMade, RoomContents
  <2>2. /\ Full(store) => m.count = store.count - 1 /\ m.dropped = store.dropped + 1
        /\ ~Full(store) => m.count = store.count /\ m.dropped = store.dropped
    BY <1>1, RoomMade
  <2>3. store' = Write(m, p, clock)
    BY <1>1, <1>2 DEF StorePut
  <2> HIDE DEF m
  <2>4. store' \in Store /\ InStep(store')
    BY <1>1, <2>1, <2>3, Written, WriteAt
  <2>5. Contents(store') = Append(Contents(m), [pkt |-> p, stamp |-> clock])
    BY <1>1, <2>1, <2>3, WriteContents
  <2>6. store'.count = m.count + 1 /\ store'.dropped = m.dropped
    BY <2>3 DEF Write
  <2> QED BY <1>1, <1>2, <2>1, <2>2, <2>4, <2>5, <2>6
<1>3. CASE ~Fits(p) /\ TooBig(p)
  <2>1. store' = [store EXCEPT !.dropped = @ + 1]
    BY <1>1, <1>3 DEF StorePut
  <2>2. /\ store' \in Store /\ store'.slot = store.slot /\ store'.head = store.head
        /\ store'.tail = store.tail /\ store'.count = store.count
        /\ store'.dropped = store.dropped + 1
    BY <1>1, <2>1 DEF Store
  <2>3. InStep(store') /\ Contents(store') = Contents(store)
    BY <1>1, <2>2 DEF InStep, Contents, At
  <2>4. Size[p] # 0
    BY <1>3, StoreAssumption DEF TooBig
  <2> QED BY <1>3, <2>2, <2>3, <2>4
<1>4. CASE ~Fits(p) /\ ~TooBig(p)
  <2>1. store' = store
    BY <1>1, <1>4 DEF StorePut
  <2>2. Size[p] = 0
    BY <1>1, <1>4, StoreAssumption DEF Fits, TooBig
  <2> QED BY <1>1, <1>4, <2>1, <2>2
<1> QED BY <1>2, <1>3, <1>4

\* What a successful get does to the ring.
LEMMA GetStep ==
    ASSUME IInv, Get
    PROVE  /\ store' \in Store /\ InStep(store')
           /\ got' \in Entry /\ got' = Head(Contents(store)) /\ Contents(store) # <<>>
           /\ Contents(store)' = Tail(Contents(store))
           /\ store'.count = store.count - 1 /\ store'.dropped = store.dropped
<1>1. /\ store \in Store /\ InStep(store) /\ store.count > 0
      /\ store' = StoreGet(store) /\ got' = Oldest(store)
  BY DEF IInv, TypeOK, RingShape, Get
<1>2. Len(Contents(store)) = store.count
  BY <1>1, ContentsType
<1>3. Contents(store) # <<>>
  BY <1>1, <1>2
<1> QED BY <1>1, <1>3, Got, GetContents DEF StoreGet

-----------------------------------------------------------------------------
(* Stamps of a sequence of entries: ordered, and all between lo and hi *)

Ordered(q, lo, hi) ==
    /\ lo <= hi
    /\ \A i, j \in 1 .. Len(q) : i <= j => q[i].stamp <= q[j].stamp
    /\ \A i \in 1 .. Len(q) : lo <= q[i].stamp /\ q[i].stamp <= hi

LEMMA StampsAreOrdered ==
    ASSUME store \in Store
    PROVE  StampsNonDecreasing <=> Ordered(Contents(store), got.stamp, clock)
BY ContentsType DEF StampsNonDecreasing, Ordered

LEMMA StampsAreOrderedNext ==
    ASSUME store' \in Store
    PROVE  StampsNonDecreasing' <=> Ordered(Contents(store)', got'.stamp, clock')
BY ContentsType DEF StampsNonDecreasing, Ordered

LEMMA OrderedTail ==
    ASSUME NEW q \in Seq(Entry), q # <<>>, NEW lo, NEW hi, Ordered(q, lo, hi)
    PROVE  Ordered(Tail(q), lo, hi) /\ Ordered(Tail(q), Head(q).stamp, hi)
<1>1. /\ Tail(q) \in Seq(Entry) /\ Len(Tail(q)) = Len(q) - 1
      /\ \A i \in 1 .. Len(q) - 1 : Tail(q)[i] = q[i + 1]
  BY HeadTailProperties
<1>2. Len(q) \in Nat /\ Len(q) >= 1 /\ Head(q) = q[1]
  OBVIOUS
<1>3. \A i \in 1 .. Len(q) - 1 : i + 1 \in 1 .. Len(q) /\ 1 <= i + 1
  BY <1>2
<1>4. \A i, j \in 1 .. Len(q) - 1 : i <= j => i + 1 <= j + 1
  BY <1>2
<1> QED BY <1>1, <1>2, <1>3, <1>4 DEF Ordered

LEMMA OrderedAppend ==
    ASSUME NEW q \in Seq(Entry), NEW lo \in Nat, NEW hi \in Nat, Ordered(q, lo, hi),
           NEW e \in Entry, e.stamp = hi
    PROVE  Ordered(Append(q, e), lo, hi)
<1>1. /\ Len(q) \in Nat /\ Len(Append(q, e)) = Len(q) + 1
      /\ \A i \in 1 .. Len(q) : Append(q, e)[i] = q[i]
      /\ Append(q, e)[Len(q) + 1] = e
  BY AppendProperties
<1>2. \A i \in 1 .. Len(q) + 1 : i \in 1 .. Len(q) \/ i = Len(q) + 1
  BY <1>1
<1>3. \A i, j \in 1 .. Len(q) + 1 : i <= j /\ j \in 1 .. Len(q) => i \in 1 .. Len(q)
  BY <1>1
<1>4. \A i \in 1 .. Len(q) + 1 : lo <= Append(q, e)[i].stamp /\ Append(q, e)[i].stamp <= hi
  BY <1>1, <1>2 DEF Ordered
<1>5. \A i, j \in 1 .. Len(q) + 1 :
         i <= j => Append(q, e)[i].stamp <= Append(q, e)[j].stamp
  BY <1>1, <1>2, <1>3, <1>4 DEF Ordered
<1> QED BY <1>1, <1>4, <1>5 DEF Ordered

-----------------------------------------------------------------------------
(* The invariant is inductive *)

LEMMA PutPreserves == ASSUME NEW p \in Packet, IInv, Put(p) PROVE IInv'
<1>1. /\ store \in Store /\ got \in Entry /\ clock \in 0 .. MaxStamp /\ offered \in Nat
      /\ taken \in Nat /\ store.count \in Nat /\ store.dropped \in Nat
      /\ got' = got /\ clock' = clock /\ taken' = taken
      /\ offered' = IF Size[p] = 0 THEN offered ELSE offered + 1
      /\ code' = PutCode(store, p)
      /\ offered = taken + store.count + store.dropped
  BY DEF IInv, TypeOK, Put, Store, LossAccounted
<1>2. /\ store' \in Store /\ InStep(store')
  BY PutStep
<1>3. TypeOK'
  BY <1>1, <1>2 DEF TypeOK, PutCode
<1>4. LossAccounted'
  <2>1. Fits(p) => Size[p] # 0
    BY StoreAssumption DEF Fits
  <2>2. /\ offered' - offered \in {0, 1}
        /\ offered' - offered = (store'.count - store.count) + (store'.dropped - store.dropped)
    <3>1. CASE Fits(p) /\ ~Full(store)
      <4>1. store'.count = store.count + 1 /\ store'.dropped = store.dropped
        BY <3>1, PutStep
      <4> QED BY <1>1, <2>1, <3>1, <4>1
    <3>2. CASE Fits(p) /\ Full(store)
      <4>1. store'.count = store.count /\ store'.dropped = store.dropped + 1
        BY <3>2, PutStep
      <4> QED BY <1>1, <2>1, <3>2, <4>1
    <3>3. CASE ~Fits(p)
      <4>1. /\ store'.count = store.count
            /\ store'.dropped = IF Size[p] = 0 THEN store.dropped ELSE store.dropped + 1
        BY <3>3, PutStep
      <4> QED BY <1>1, <3>3, <4>1
    <3> QED BY <3>1, <3>2, <3>3
  <2>3. store'.count \in Nat /\ store'.dropped \in Nat /\ offered' \in Nat
    BY <1>1, <1>2 DEF Store
  <2> QED BY <1>1, <2>2, <2>3 DEF LossAccounted
<1>5. StampsNonDecreasing'
  <2> DEFINE e == [pkt |-> p, stamp |-> clock]
             q == Contents(store)
  <2>1. e \in Entry /\ e.stamp = clock /\ clock \in Nat /\ got.stamp \in Nat
    BY <1>1, StoreAssumption DEF Entry
  <2>2. q \in Seq(Entry) /\ Ordered(q, got.stamp, clock) /\ Len(q) = store.count
    BY <1>1, StampsAreOrdered, ContentsType DEF IInv
  <2> HIDE DEF e, q
  <2>3. Ordered(Append(q, e), got.stamp, clock)
    BY <2>1, <2>2, OrderedAppend
  <2>4. CASE Fits(p) /\ ~Full(store)
    BY <1>1, <1>2, <2>3, <2>4, PutStep, StampsAreOrderedNext DEF e, q
  <2>5. CASE Fits(p) /\ Full(store)
    <3>1. q # <<>>
      BY <2>2, <2>5, StoreAssumption DEF Full
    <3>2. /\ Tail(q) \in Seq(Entry)
          /\ Ordered(Tail(q), got.stamp, clock)
      BY <2>1, <2>2, <3>1, HeadTailProperties, OrderedTail
    <3>3. Ordered(Append(Tail(q), e), got.stamp, clock)
      BY <2>1, <3>2, OrderedAppend
    <3> QED BY <1>1, <1>2, <2>5, <3>3, PutStep, StampsAreOrderedNext DEF e, q
  <2>6. CASE ~Fits(p)
    BY <1>1, <1>2, <2>2, <2>6, PutStep, StampsAreOrderedNext DEF q
  <2> QED BY <2>4, <2>5, <2>6
<1> QED BY <1>2, <1>3, <1>4, <1>5 DEF IInv, RingShape

LEMMA GetPreserves == ASSUME IInv, Get PROVE IInv'
<1>1. /\ store \in Store /\ got \in Entry /\ clock \in 0 .. MaxStamp /\ offered \in Nat
      /\ taken \in Nat /\ store.count \in Nat /\ store.dropped \in Nat
      /\ clock' = clock /\ taken' = taken + 1 /\ offered' = offered /\ code' = 1
      /\ offered = taken + store.count + store.dropped
  BY DEF IInv, TypeOK, Get, Store, LossAccounted
<1>2. /\ store' \in Store /\ InStep(store') /\ got' \in Entry
      /\ got' = Head(Contents(store)) /\ Contents(store) # <<>>
      /\ Contents(store)' = Tail(Contents(store))
      /\ store'.count = store.count - 1 /\ store'.dropped = store.dropped
  BY GetStep
<1>3. TypeOK'
  BY <1>1, <1>2 DEF TypeOK, STORE_OVERWROTE
<1>4. LossAccounted'
  BY <1>1, <1>2 DEF LossAccounted
<1>5. StampsNonDecreasing'
  <2>1. Contents(store) \in Seq(Entry) /\ Ordered(Contents(store), got.stamp, clock)
    BY <1>1, StampsAreOrdered, ContentsType DEF IInv
  <2>2. Ordered(Tail(Contents(store)), got'.stamp, clock)
    BY <1>2, <2>1, OrderedTail
  <2> QED BY <1>1, <1>2, <2>2, StampsAreOrderedNext
<1> QED BY <1>2, <1>3, <1>4, <1>5 DEF IInv, RingShape

LEMMA TickPreserves == ASSUME IInv, Tick PROVE IInv'
<1>1. /\ UNCHANGED <<store, code, got, offered, taken>>
      /\ clock \in 0 .. MaxStamp /\ clock' = clock + 1 /\ clock' \in 0 .. MaxStamp
  BY StoreAssumption DEF IInv, TypeOK, Tick
<1>2. TypeOK' /\ RingShape' /\ LossAccounted'
  BY <1>1 DEF IInv, TypeOK, RingShape, LossAccounted
<1>3. StampsNonDecreasing'
  <2>1. store \in Store /\ got \in Entry /\ store.count \in 0 .. StoreCap
    BY DEF IInv, TypeOK, Store
  <2>2. got.stamp \in Nat /\ \A i \in 1 .. store.count : At(store, i).stamp \in Nat
    BY <2>1, AtValue, StoreAssumption DEF Entry
  <2> QED BY <1>1, <2>2 DEF IInv, StampsNonDecreasing
<1> QED BY <1>2, <1>3 DEF IInv

LEMMA Inductive == IInv /\ [Next]_vars => IInv'
<1> SUFFICES ASSUME IInv, [Next]_vars PROVE IInv'
  OBVIOUS
<1>1. CASE \E p \in Packet : Put(p)
  BY <1>1, PutPreserves
<1>2. CASE Get
  BY <1>2, GetPreserves
<1>3. CASE GetEmpty
  BY <1>3 DEF GetEmpty, IInv, TypeOK, RingShape, LossAccounted, StampsNonDecreasing,
              STORE_OK
<1>4. CASE Tick
  BY <1>4, TickPreserves
<1>5. CASE UNCHANGED vars
  BY <1>5 DEF vars, IInv, TypeOK, RingShape, LossAccounted, StampsNonDecreasing
<1> QED BY <1>1, <1>2, <1>3, <1>4, <1>5 DEF Next

LEMMA IInvHolds == Spec => []IInv
<1>1. Init => IInv
  BY InitEstablishes
<1>2. IInv /\ [Next]_vars => IInv'
  BY Inductive
<1> QED BY <1>1, <1>2, PTL DEF Spec

-----------------------------------------------------------------------------
(* What the store promises *)

\* Every field of the store keeps its type: indices inside the slot array,
\* count never above the capacity (store.c).
THEOREM TypeCorrect == Spec => []TypeOK
<1>1. IInv => TypeOK
  BY DEF IInv
<1> QED BY <1>1, IInvHolds, PTL

\* head, tail and count, updated apart in store_put_at and store_get_at, always
\* describe one contiguous run of the ring.
THEOREM CountersAgree == Spec => []RingShape
<1>1. IInv => RingShape
  BY DEF IInv
<1> QED BY <1>1, IInvHolds, PTL

\* A packet offered is handed out, still held or counted in `dropped`.
THEOREM NoSilentLoss == Spec => []LossAccounted
<1>1. IInv => LossAccounted
  BY DEF IInv
<1> QED BY <1>1, IInvHolds, PTL

\* Stamps are non-decreasing in drain order.
THEOREM StampsOrdered == Spec => []StampsNonDecreasing
<1>1. IInv => StampsNonDecreasing
  BY DEF IInv
<1> QED BY <1>1, IInvHolds, PTL

LEMMA InitRefines == Init => Fifo!FifoInit
<1> SUFFICES ASSUME Init PROVE Fifo!FifoInit
  OBVIOUS
<1>1. store.count = 0 /\ store.dropped = 0
  BY DEF Init, StoreInit
<1>2. Contents(store) = <<>>
  BY <1>1 DEF Contents
<1> QED BY <1>1, <1>2 DEF Init, Fifo!FifoInit

LEMMA StepRefines == IInv /\ [Next]_vars => [Fifo!FifoNext]_(Fifo!fifoVars)
<1> SUFFICES ASSUME IInv, [Next]_vars PROVE [Fifo!FifoNext]_(Fifo!fifoVars)
  OBVIOUS
<1>0. /\ store \in Store /\ Len(Contents(store)) = store.count
      /\ store.count \in 0 .. StoreCap /\ store.dropped \in Nat
  BY ContentsType DEF IInv, TypeOK, Store
<1>1. ASSUME NEW p \in Packet, Put(p) PROVE Fifo!FifoNext
  <2> DEFINE e == [pkt |-> p, stamp |-> clock]
  <2>1. e \in Entry /\ got' = got /\ code' = PutCode(store, p)
    BY <1>1 DEF Entry, Put, IInv, TypeOK
  <2>2. CASE Fits(p) /\ ~Full(store)
    <3>1. Len(Contents(store)) < StoreCap
      BY <1>0, <2>2, StoreAssumption DEF Full
    <3>2. /\ Contents(store)' = Append(Contents(store), e)
          /\ store'.dropped = store.dropped /\ code' = 0
      BY <1>1, <2>1, <2>2, PutStep DEF PutCode, STORE_OK
    <3>3. Fifo!Accept(e)
      BY <2>1, <3>1, <3>2 DEF Fifo!Accept
    <3> QED BY <2>1, <3>3 DEF Fifo!FifoNext
  <2>3. CASE Fits(p) /\ Full(store)
    <3>1. Fifo!Displace(e)
      BY <1>0, <1>1, <2>1, <2>3, PutStep
         DEF Fifo!Displace, Full, PutCode, STORE_OVERWROTE
    <3> QED BY <2>1, <3>1 DEF Fifo!FifoNext
  <2>4. CASE ~Fits(p)
    <3>1. Fifo!Refuse
      BY <1>0, <1>1, <2>1, <2>4, PutStep DEF Fifo!Refuse, PutCode, STORE_REJECTED
    <3> QED BY <3>1 DEF Fifo!FifoNext
  <2> QED BY <2>2, <2>3, <2>4
<1>2. CASE Get
  <2>1. Fifo!Take
    BY <1>2, GetStep DEF Fifo!Take, Get
  <2> QED BY <2>1 DEF Fifo!FifoNext
<1>3. CASE GetEmpty
  <2>1. Contents(store) = <<>>
    BY <1>3 DEF GetEmpty, Contents
  <2>2. Fifo!TakeNothing
    BY <1>3, <2>1 DEF Fifo!TakeNothing, GetEmpty
  <2> QED BY <2>2 DEF Fifo!FifoNext
<1>4. CASE Tick
  BY <1>4 DEF Tick, Fifo!fifoVars
<1>5. CASE UNCHANGED vars
  BY <1>5 DEF vars, Fifo!fifoVars
<1> QED BY <1>1, <1>2, <1>3, <1>4, <1>5 DEF Next

\* The ring buffer implements the bounded FIFO that overwrites its oldest
\* entry: same results, same entries out in the same order, same loss count.
THEOREM Refinement == Spec => ImplementsFifo
<1>1. Init => Fifo!FifoInit
  BY InitRefines
<1>2. IInv /\ [Next]_vars => [Fifo!FifoNext]_(Fifo!fifoVars)
  BY StepRefines
<1> QED BY <1>1, <1>2, IInvHolds, PTL DEF Spec, ImplementsFifo, Fifo!FifoSpec
=============================================================================
