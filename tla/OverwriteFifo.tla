---------------------------- MODULE OverwriteFifo ----------------------------
(***************************************************************************)
(* What a bounded telemetry store promises its users (store.h,             *)
(* docs/07-obdh.md): a FIFO of at most Capacity entries that never refuses *)
(* a packet it can hold, gives up the oldest entry for it when full, and   *)
(* counts every packet it loses.  No indices, no wrap-around.              *)
(***************************************************************************)
EXTENDS Integers, Sequences

CONSTANTS
    Item,      \* entries that may be stored
    Capacity,  \* most entries held at once
    Nothing    \* `got` before anything is handed out

VARIABLES
    queue,  \* entries held, oldest first
    lost,   \* packets lost so far
    code,   \* result of the last call
    got     \* last entry handed out

fifoVars == <<queue, lost, code, got>>

Accept(e) ==
    /\ Len(queue) < Capacity
    /\ queue' = Append(queue, e)
    /\ code' = 0
    /\ UNCHANGED <<lost, got>>

Displace(e) ==
    /\ Len(queue) = Capacity
    /\ queue' = Append(Tail(queue), e)
    /\ lost' = lost + 1
    /\ code' = 1
    /\ UNCHANGED got

\* A packet no slot can hold is a loss; an absent packet is not.
Refuse ==
    /\ lost' \in {lost, lost + 1}
    /\ code' = -1
    /\ UNCHANGED <<queue, got>>

Take ==
    /\ queue # <<>>
    /\ got' = Head(queue)
    /\ queue' = Tail(queue)
    /\ code' = 1
    /\ UNCHANGED lost

TakeNothing ==
    /\ queue = <<>>
    /\ code' = 0
    /\ UNCHANGED <<queue, lost, got>>

FifoInit ==
    /\ queue = <<>>
    /\ lost = 0
    /\ code = 0
    /\ got = Nothing

FifoNext ==
    \/ \E e \in Item : Accept(e) \/ Displace(e)
    \/ Refuse
    \/ Take
    \/ TakeNothing

FifoSpec == FifoInit /\ [][FifoNext]_fifoVars
=============================================================================
