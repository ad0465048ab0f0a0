------------------------------ MODULE RingStore ------------------------------
(***************************************************************************)
(* The bounded packet store of labs/04-obdh/store.c as operators on a      *)
(* record-valued store, so that the store machine (PacketStore) and the    *)
(* router that owns two of them (Obdh) share one translation.              *)
(*                                                                         *)
(* A packet is an opaque value with a length; the bytes are not modelled.  *)
(* A NULL pointer and n == 0 take the same early return, so both are a     *)
(* packet of length 0.  `dropped` is a uint32_t kept here as a natural.    *)
(***************************************************************************)
EXTENDS Integers

CONSTANTS
    Packet,    \* packets a caller may offer
    Size,      \* Size[p]: number of bytes of packet p
    StoreCap,  \* STORE_CAP, packets per store
    MaxPkt,    \* MAX_PKT, bytes a slot can hold
    Blank,     \* what a zeroed slot holds
    MaxStamp   \* largest onboard time reached (the clock is a uint32_t)

ASSUME StoreAssumption ==
    /\ StoreCap \in Nat \ {0}
    /\ MaxPkt \in Nat \ {0}
    /\ Size \in [Packet -> Nat]
    /\ Blank \notin Packet
    /\ MaxStamp \in Nat

STORE_REJECTED  == -1
STORE_OK        == 0
STORE_OVERWROTE == 1

Slot  == 0 .. StoreCap - 1
Entry == [pkt : Packet \cup {Blank}, stamp : 0 .. MaxStamp]

Store == [slot : [Slot -> Entry], head : Slot, tail : Slot,
          count : 0 .. StoreCap, dropped : Nat]

NoEntry   == [pkt |-> Blank, stamp |-> 0]
StoreInit == [slot |-> [i \in Slot |-> NoEntry], head |-> 0, tail |-> 0,
              count |-> 0, dropped |-> 0]

Next1(i) == (i + 1) % StoreCap

Full(s)   == s.count = StoreCap
Fits(p)   == Size[p] \in 1 .. MaxPkt
TooBig(p) == Size[p] > MaxPkt

\* Mutants: the loss is not counted; the newest packet is given up instead.
MakeRoomSilently(s) ==
    IF Full(s) THEN [s EXCEPT !.tail = Next1(s.tail), !.count = @ - 1] ELSE s
MakeRoomFromNewest(s) ==
    IF Full(s) THEN [s EXCEPT !.head = (s.head + StoreCap - 1) % StoreCap,
                              !.count = @ - 1, !.dropped = @ + 1]
    ELSE s

\* Overwrite oldest: give up the packet at the tail, and count the loss.
MakeRoom(s) ==
    IF Full(s)
    THEN [slot |-> s.slot, head |-> s.head, tail |-> Next1(s.tail),
          count |-> s.count - 1, dropped |-> s.dropped + 1]
    ELSE s

Write(s, p, t) ==
    [slot |-> [s.slot EXCEPT ![s.head] = [pkt |-> p, stamp |-> t]],
     head |-> Next1(s.head), tail |-> s.tail,
     count |-> s.count + 1, dropped |-> s.dropped]

\* store_put_at(s, p, Size[p], t): the store afterwards, and the result code.
StorePut(s, p, t) ==
    IF Fits(p) THEN Write(MakeRoom(s), p, t)
    ELSE IF TooBig(p) THEN [s EXCEPT !.dropped = @ + 1]
    ELSE s

PutCode(s, p) ==
    IF ~Fits(p) THEN STORE_REJECTED
    ELSE IF Full(s) THEN STORE_OVERWROTE ELSE STORE_OK


\* store_get_at(s, ...) of a store that is not empty: what it hands out, and
\* the store afterwards.
\* Mutant: the packet handed out is the newest one.
OldestIsNewest(s) == s.slot[(s.head + StoreCap - 1) % StoreCap]
Oldest(s)   == s.slot[s.tail]
StoreGet(s) == [slot |-> s.slot, head |-> s.head, tail |-> Next1(s.tail),
                count |-> s.count - 1, dropped |-> s.dropped]

\* Mutants: one packet is drained instead of all; draining clears the counters.
DrainedOnce(s) == IF s.count = 0 THEN s ELSE StoreGet(s)
DrainedAndReset(s) == StoreInit

\* drain(): store_get until the store is empty; the slots keep what they held.
Drained(s) == [slot |-> s.slot, head |-> s.head, tail |-> (s.tail + s.count) % StoreCap,
               count |-> 0, dropped |-> s.dropped]

\* The stored entries in drain order, oldest first.
At(s, i)    == s.slot[(s.tail + i - 1) % StoreCap]
Contents(s) == [i \in 1 .. s.count |-> At(s, i)]

\* The three counters agree: the next slot to write follows the newest entry.
InStep(s) == s.head = (s.tail + s.count) % StoreCap
=============================================================================
