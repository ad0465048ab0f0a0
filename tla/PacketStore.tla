----------------------------- MODULE PacketStore -----------------------------
(***************************************************************************)
(* One packet store driven through its whole interface: store_put_at with  *)
(* any packet, store_get_at at any time, and the onboard clock its caller  *)
(* stamps packets with.  The store is a passive object: its users call it  *)
(* from one task, so a call is one step.                                   *)
(***************************************************************************)
EXTENDS RingStore, Sequences

CONSTANT MaxPuts   \* bound on the packets offered

ASSUME BoundAssumption == MaxPuts \in Nat

VARIABLES
    store,   \* packet_store
    code,    \* return value of the last call
    got,     \* what the last successful store_get_at copied out
    clock,   \* the caller's onboard time
    offered, \* history: packets offered so far (absent ones are not counted)
    taken    \* history: packets handed out so far

vars == <<store, code, got, clock, offered, taken>>

Init ==
    /\ store = StoreInit
    /\ code = 0
    /\ got = NoEntry
    /\ clock = 0
    /\ offered = 0
    /\ taken = 0

Put(p) ==
    /\ offered < MaxPuts
    /\ store' = StorePut(store, p, clock)
    /\ code' = PutCode(store, p)
    /\ offered' = IF Size[p] = 0 THEN offered ELSE offered + 1
    /\ UNCHANGED <<got, clock, taken>>

Get ==
    /\ store.count > 0
    /\ got' = Oldest(store)
    /\ store' = StoreGet(store)
    /\ code' = 1
    /\ taken' = taken + 1
    /\ UNCHANGED <<clock, offered>>

GetEmpty ==
    /\ store.count = 0
    /\ code' = 0
    /\ UNCHANGED <<store, got, clock, offered, taken>>

Tick ==
    /\ clock < MaxStamp
    /\ clock' = clock + 1
    /\ UNCHANGED <<store, code, got, offered, taken>>

Next == (\E p \in Packet : Put(p)) \/ Get \/ GetEmpty \/ Tick

Spec == Init /\ [][Next]_vars

-----------------------------------------------------------------------------
(* What must hold *)

TypeOK ==
    /\ store \in Store
    /\ code \in {STORE_REJECTED, STORE_OK, STORE_OVERWROTE}
    /\ got \in Entry
    /\ clock \in 0 .. MaxStamp
    /\ offered \in Nat
    /\ taken \in Nat

\* head, tail and count are three counters updated separately; they must never
\* disagree, or the store hands out stale slots or overwrites live ones.
RingShape == InStep(store)

\* Every packet offered is either handed out, still held, or counted in
\* `dropped`: no loss is silent (store.h, "so the loss is visible").
LossAccounted == offered = taken + store.count + store.dropped

\* "the stamps are strictly non-decreasing in drain order" (store.h): among the
\* entries held, and from the last one handed out to the next.
StampsNonDecreasing ==
    /\ got.stamp <= clock
    /\ \A i, j \in 1 .. store.count :
          i <= j => At(store, i).stamp <= At(store, j).stamp
    /\ \A i \in 1 .. store.count :
          got.stamp <= At(store, i).stamp /\ At(store, i).stamp <= clock

\* The ring is a bounded FIFO that overwrites its oldest entry: same results,
\* same packets handed out in the same order, same losses.
Fifo == INSTANCE OverwriteFifo
            WITH Item <- Entry, Capacity <- StoreCap, Nothing <- NoEntry,
                 queue <- Contents(store), lost <- store.dropped

ImplementsFifo == Fifo!FifoSpec
=============================================================================
