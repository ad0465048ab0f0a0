------------------------------ MODULE Spacecraft ------------------------------
(***************************************************************************)
(* FDIR on its router: every event FDIR emits is ingested in the middle of *)
(* its transition, and TC[130,1] reaches fdir_exit_safe through the hook   *)
(* while the router handles the telecommand.  Composes Obdh and Fdir; the  *)
(* telemetry offered is the events.                                        *)
(***************************************************************************)
EXTENDS Obdh

CONSTANTS Sensor, Task, MaxAttempts, ConfirmCycles, StreakMax, SeqMod, CounterMod

\* emit_event builds an event in a buffer of MAX_PKT bytes; a telecommand's reports
\* of acceptance, start and completion all have room.
ASSUME CraftAssumption ==
    /\ \A k \in TmKind : k.apid = "EVENT" => k.len <= MaxPkt
    /\ MaxTmPerTc >= 3
    /\ SeqMod \in Nat \ {0}

VARIABLES state, attempts, streak, prevWorst, sourceMask, taskMask, stalledNow,
          evSeq, fdirHkSeq, nFaults, nSafeEntries, nFiltered, mode, emitted, acted,
          window, tried, trail,
          told  \* history: told[n] is the event in packet n

F == INSTANCE Fdir WITH hkSeq <- fdirHkSeq

fdirHeld  == <<state, attempts, streak, prevWorst, sourceMask, taskMask, stalledNow,
               evSeq, fdirHkSeq, nFaults, nSafeEntries, nFiltered, mode, emitted, acted,
               window, tried, trail>>
craftVars == <<obdhVars, fdirHeld, told>>

CraftInit == (\E c \in BOOLEAN : ObdhInit(c)) /\ F!FdirInit /\ told = <<>>

\* fdir_cycle, with the event it emits handed to the router.
CraftCycle(readings, stalled) ==
    /\ F!Cycle(readings, stalled)
    /\ told' = told \o emitted'
    /\ IF emitted' = <<>>
       THEN UNCHANGED obdhVars
       ELSE \E p \in TmPacket : p.apid = "EVENT" /\ IngestTm(p)

\* Mutant: the trampoline always answers that it left safe mode.
ExitHookBlind == "EXITED"

\* exit_safe_trampoline: fdir_exit_safe refuses outside SAFE.
ExitHook == IF state = "SAFE" THEN "EXITED" ELSE "REFUSED"

CraftTc(tc) ==
    /\ IngestTc(tc, ExitHook)
    /\ IF exits' # exits /\ state = "SAFE"
       THEN F!ExitSafe /\ told' = told \o emitted'
       ELSE UNCHANGED <<fdirHeld, told>>

CraftContact == (AcquireContact \/ LoseContact) /\ UNCHANGED <<fdirHeld, told>>

CraftNext ==
    \/ \E readings \in [Sensor -> F!Health], stalled \in SUBSET Task : CraftCycle(readings, stalled)
    \/ \E tc \in Sent : CraftTc(tc)
    \/ CraftContact

CraftSpec == CraftInit /\ [][CraftNext]_craftVars

-----------------------------------------------------------------------------
(* What must hold *)

\* "The event trail is what lets the ground reconstruct the sequence", after any
\* blackout and any loss in it: in contact the last event on the ground tells the
\* state FDIR is in and the attempts it has made.
LastTold ==
    LET got == ReceivedOf(Events)
    IN  IF got = {} THEN [state |-> "NOMINAL", attempts |-> 0]
        ELSE LET last == CHOOSE k \in got : \A j \in got : j <= k
                 ev   == told[ground[last].pkt.n]
             IN  [state |-> ev.state, attempts |-> ev.attempts]

GroundKnowsFdir == inContact => LastTold = [state |-> state, attempts |-> attempts]

\* What the ground finds missing in the sequence counts of the events is what
\* the event store counts as dropped, no more and no less.
GapsAreDrops ==
    inContact =>
        /\ evSeq = (Cardinality(ReceivedOf(Events)) + evStore.dropped) % SeqMod
        /\ \A j \in ReceivedOf(Events) :
              told[ground[j].pkt.n].seq = (ground[j].pkt.n - 1) % SeqMod

\* docs/08-fdir.md:157: in contact the exit event precedes the reports of the command
\* that asked for it; where one of these tells success, only they are in between.
ReportsExit(k) == /\ ground[k].pkt.apid = "CMD" /\ ground[k].pkt.cmd = "EXIT_SAFE"
                  /\ ground[k].pkt.kind = "COMPLETE_OK"
IsExit(k) == ground[k].pkt.apid = "EVENT" /\ told[ground[k].pkt.n].id = "SAFE_EXIT"
ExitEventFirst ==
    \A k \in 1 .. Len(ground) :
        ReportsExit(k) /\ ground[k].pass # 0 =>
            \E j \in 1 .. k - 1 : IsExit(j) /\ \A i \in j + 1 .. k : ground[i].pkt.apid = "CMD"

\* docs/08-fdir.md:153: an exit outside SAFE is "refused visibly", and only then:
\* the executed commands are connection tests, exits FDIR obeyed, and those reported
\* to have failed.
SafeExits == {n \in 1 .. Len(told) : told[n].id = "SAFE_EXIT"}
Failures  == {k \in 1 .. Len(ground) :
                 ground[k].pkt.apid = "CMD" /\ ground[k].pkt.kind = "COMPLETE_FAIL"}
RefusedVisibly == executed = connTests + Cardinality(SafeExits) + Cardinality(Failures)
=============================================================================
