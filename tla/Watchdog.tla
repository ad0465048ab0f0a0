------------------------------- MODULE Watchdog -------------------------------
(***************************************************************************)
(* The liveness watchdog of labs/05-fdir/fdir.c: every monitored task      *)
(* increments its own counter, without a lock, while the FDIR task reads   *)
(* the counters one after the other and compares each with its snapshot.   *)
(* An increment has one writer, so it is one step.                         *)
(***************************************************************************)
EXTENDS Integers

CONSTANTS
    NTasks,  \* N_TASKS
    WMod,    \* heartbeats wrap here (2^32)
    MaxKicks \* bound on the kicks of a task between two reads of its counter

ASSUME WatchdogAssumption ==
    /\ NTasks \in Nat
    /\ WMod \in Nat /\ MaxKicks \in Nat
    /\ MaxKicks < WMod

Task    == 0 .. NTasks - 1
NotRead == -1

VARIABLES
    heartbeat, last,
    phase,   \* INIT: in wd_init; CHECK: in watchdog_check; IDLE: in neither
    index,   \* the loop's i
    seen,    \* `now`, the counter as loaded by this iteration, or NotRead
    mask,    \* the loop's mask
    stalled, \* *stalled_mask of the last check
    hung,    \* tasks that have stopped for good
    since,   \* history: kicks since the counter was last loaded
    quiet,   \* history: there was none between the last two loads
    age      \* history: loads since the task hung, up to 2

wdVars == <<heartbeat, last, phase, index, seen, mask, stalled, hung, since, quiet, age>>

-----------------------------------------------------------------------------
(* Operations *)

WdInit ==
    /\ heartbeat = [t \in Task |-> 0] /\ last = [t \in Task |-> 0]
    /\ phase = "INIT" /\ index = 0 /\ seen = NotRead
    /\ mask = {} /\ stalled = {} /\ hung = {}
    /\ since = [t \in Task |-> 0] /\ quiet = [t \in Task |-> FALSE]
    /\ age = [t \in Task |-> 0]

Bump(n) == (n + 1) % WMod

\* wd_kick by task t.
Kick(t) ==
    /\ t \notin hung /\ since[t] < MaxKicks
    /\ heartbeat' = [heartbeat EXCEPT ![t] = Bump(@)]
    /\ since' = [since EXCEPT ![t] = @ + 1]
    /\ UNCHANGED <<last, phase, index, seen, mask, stalled, hung, quiet, age>>

Hang(t) ==
    /\ hung' = hung \cup {t}
    /\ UNCHANGED <<heartbeat, last, phase, index, seen, mask, stalled, since, quiet, age>>

\* The one read of a counter in an iteration of either loop.
Load ==
    /\ phase # "IDLE" /\ index < NTasks /\ seen = NotRead
    /\ seen' = heartbeat[index]
    /\ since' = [since EXCEPT ![index] = 0]
    /\ quiet' = [quiet EXCEPT ![index] = phase = "CHECK" /\ since[index] = 0]
    /\ age' = [age EXCEPT ![index] = IF index \in hung /\ @ < 2 THEN @ + 1 ELSE @]
    /\ UNCHANGED <<heartbeat, last, phase, index, mask, stalled, hung>>

\* Mutants: the counter is read again for the snapshot; there is no snapshot.
SnapshotRereads == heartbeat[index]
SnapshotKept    == last[index]

Snapshot == seen
Stuck    == seen = last[index]

\* The rest of the iteration.
Compare ==
    /\ seen # NotRead
    /\ mask' = IF phase = "CHECK" /\ Stuck THEN mask \cup {index} ELSE mask
    /\ last' = [last EXCEPT ![index] = Snapshot]
    /\ index' = index + 1
    /\ seen' = NotRead
    /\ UNCHANGED <<heartbeat, phase, stalled, hung, since, quiet, age>>

BeginCheck ==
    /\ phase = "IDLE"
    /\ phase' = "CHECK" /\ index' = 0 /\ mask' = {}
    /\ UNCHANGED <<heartbeat, last, seen, stalled, hung, since, quiet, age>>

\* Either loop is done; watchdog_check hands out its mask, FAULT when not empty.
EndCheck ==
    /\ phase # "IDLE" /\ index = NTasks
    /\ phase' = "IDLE"
    /\ stalled' = IF phase = "CHECK" THEN mask ELSE stalled
    /\ UNCHANGED <<heartbeat, last, index, seen, mask, hung, since, quiet, age>>

Checker == Load \/ Compare \/ BeginCheck \/ EndCheck

WdNext == Checker \/ \E t \in Task : Kick(t) \/ Hang(t)

WdSpec == WdInit /\ [][WdNext]_wdVars

-----------------------------------------------------------------------------
(* What must hold *)

WdTypeOK ==
    /\ heartbeat \in [Task -> 0 .. WMod - 1]
    /\ last \in [Task -> 0 .. WMod - 1]
    /\ phase \in {"INIT", "CHECK", "IDLE"}
    /\ index \in 0 .. NTasks
    /\ seen = NotRead \/ (seen \in 0 .. WMod - 1 /\ index < NTasks)
    /\ mask \subseteq Task /\ stalled \subseteq Task /\ hung \subseteq Task
    /\ since \in [Task -> 0 .. MaxKicks]
    /\ quiet \in [Task -> BOOLEAN]
    /\ age \in [Task -> 0 .. 2]

\* A check reports exactly the tasks that did not kick between the last two
\* reads of their counter: a kick that falls between the read and the snapshot
\* is neither lost nor hides a stall, start-up is no stall ("Wrap-around of the
\* 32-bit counters is harmless", fdir.h:91).
StallsExact == phase = "IDLE" => stalled = {t \in Task : quiet[t]}

\* A task that hangs is reported by the second check that reads its counter
\* afterwards, and by every later one.
HungReported == phase = "IDLE" => {t \in Task : age[t] = 2} \subseteq stalled
=============================================================================
