------------------------------- MODULE FdirTask -------------------------------
(***************************************************************************)
(* fdir_cycle as the FDIR task runs it: the watchdog reads the heartbeats  *)
(* while the monitored tasks go on, and its mask is one more source of the *)
(* state machine beside the monitors.  Composes Watchdog, Monitors, Fdir.  *)
(***************************************************************************)
EXTENDS Watchdog, Monitors

CONSTANTS
    SpacecraftState, \* the values a cycle may find
    MaxAttempts, ConfirmCycles, StreakMax, SeqMod, CounterMod

ASSUME TaskAssumption == \A s \in SpacecraftState : InRange(s)

VARIABLES state, attempts, streak, prevWorst, sourceMask, taskMask, stalledNow,
          evSeq, hkSeq, nFaults, nSafeEntries, nFiltered, mode, emitted, acted,
          window, tried, trail

F == INSTANCE Fdir WITH Sensor <- Monitor

fdirHeld == <<state, attempts, streak, prevWorst, sourceMask, taskMask, stalledNow,
              evSeq, hkSeq, nFaults, nSafeEntries, nFiltered, mode, emitted, acted,
              window, tried, trail>>
taskVars == <<wdVars, fdirHeld>>

TaskInit == WdInit /\ F!FdirInit

\* The end of the watchdog's loop in fdir_cycle, and the rest of the cycle over s.
FinishCycle(s) == phase = "CHECK" /\ EndCheck /\ F!Cycle(Readings(s), stalled')

FdirTaskStep ==
    \/ Load /\ UNCHANGED fdirHeld
    \/ Compare /\ UNCHANGED fdirHeld
    \/ BeginCheck /\ UNCHANGED fdirHeld
    \/ phase = "INIT" /\ EndCheck /\ UNCHANGED fdirHeld
    \/ \E s \in SpacecraftState : FinishCycle(s)

TaskNext ==
    \/ FdirTaskStep
    \/ \E t \in Task : (Kick(t) \/ Hang(t)) /\ UNCHANGED fdirHeld
    \/ F!ExitSafe /\ UNCHANGED wdVars

\* The FDIR task is periodic.
TaskSpec == TaskInit /\ [][TaskNext]_taskVars /\ WF_taskVars(FdirTaskStep)

-----------------------------------------------------------------------------
(* What must hold *)

\* A task that hangs brings the vehicle to SAFE, whatever the sensors say and
\* however often the ground leaves SAFE ("A persisting fault is re-detected by
\* the normal path", fdir.h:177).
HungReachesSafe == hung # {} ~> state = "SAFE"

\* The entry to SAFE blames the watchdog and every task known to hang
\* ("task_mask names WHICH tasks stalled", fdir.h:135).
SafeNamesHung ==
    [][state # "SAFE" /\ state' = "SAFE" =>
          LET dead == {t \in Task : age[t] = 2}
          IN  dead \subseteq taskMask' /\ (dead # {} => F!WATCHDOG \in sourceMask')]_taskVars

=============================================================================
