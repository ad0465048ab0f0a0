-------------------------------- MODULE Fdir --------------------------------
(***************************************************************************)
(* Fault detection, isolation and recovery (labs/05-fdir/fdir.c): the      *)
(* graduated state machine NOMINAL -> RECOVERING -> SAFE, driven by one    *)
(* severity per monitor and the set of stalled tasks, reporting through    *)
(* Service 5 events.  `emitted` holds what emit_event() built in the step; *)
(* the router behind it is the subject of Obdh, and Spacecraft composes    *)
(* the two.  `acted` holds the mission hooks called in the step.           *)
(***************************************************************************)
EXTENDS Integers, Sequences

CONSTANTS
    Sensor,        \* monitors of spacecraft_state: power, thermal, battery
    Task,          \* tasks watched by the watchdog
    MaxAttempts,   \* FDIR_MAX_ATTEMPTS
    ConfirmCycles, \* confirm_cycles, FDIR_CONFIRM_CYCLES by default
    StreakMax,     \* fault_streak saturates here (255)
    SeqMod,        \* packet sequence counts wrap here (16384)
    CounterMod     \* housekeeping counters wrap here (2^16)

WATCHDOG == "WATCHDOG"
Source   == Sensor \cup {WATCHDOG}

\* confirm_cycles is a uint8_t, and 0 means 1.
Need == IF ConfirmCycles = 0 THEN 1 ELSE ConfirmCycles

ASSUME FdirAssumption ==
    /\ WATCHDOG \notin Sensor
    /\ MaxAttempts \in Nat
    /\ ConfirmCycles \in Nat
    /\ StreakMax \in Nat
    /\ Need <= StreakMax
    /\ SeqMod \in Nat \ {0}
    /\ CounterMod \in Nat \ {0}

OK     == 0
WARN   == 1
FAULT  == 2
Health == {OK, WARN, FAULT}

FdirState == {"NOMINAL", "RECOVERING", "SAFE"}
EventId   == {"WARN", "FAULT", "RECOVERY_ACTION", "RECOVERED", "SAFE_ENTER", "SAFE_EXIT"}

VARIABLES
    state, attempts, streak, prevWorst, sourceMask, taskMask, stalledNow,
    evSeq, hkSeq,
    nFaults, nSafeEntries, nFiltered,
    mode,      \* spacecraft_state.mode, written by every cycle
    emitted,   \* <<>> or the one event built in this step
    acted,     \* <<>> or the one hook called in this step
    window,    \* history: the last Span readings and ground exits
    tried,     \* history: recovery actions of the current episode
    trail      \* history: state and attempts as told by the events alone

fdirVars == <<state, attempts, streak, prevWorst, sourceMask, taskMask, stalledNow,
              evSeq, hkSeq, nFaults, nSafeEntries, nFiltered, mode, emitted, acted,
              window, tried, trail>>

-----------------------------------------------------------------------------
(* Detection and isolation *)

\* readings[m] is the severity monitor m returns for this cycle's state.
Severity(readings, stalled) ==
    [m \in Source |-> IF m # WATCHDOG THEN readings[m]
                      ELSE IF stalled = {} THEN OK ELSE FAULT]

Worst(h) == CHOOSE w \in Health : (\E m \in Source : h[m] = w) /\ \A m \in Source : h[m] <= w

\* Mutant: the watchdog is left out of the isolation.
SensorsOnly(h) == IF Worst(h) = OK THEN {} ELSE {m \in Sensor : h[m] = Worst(h)}

\* The monitors at the worst severity; none when everything is OK.
Culprits(h) == IF Worst(h) = OK THEN {} ELSE {m \in Source : h[m] = Worst(h)}

-----------------------------------------------------------------------------
(* Reports and history *)

EventSeverity(id) ==
    CASE id \in {"RECOVERY_ACTION", "SAFE_EXIT"} -> 1
      [] id \in {"WARN", "RECOVERED"}            -> 2
      [] id = "FAULT"                            -> 3
      [] id = "SAFE_ENTER"                       -> 4

\* Mutant: the event is built before the transition takes effect.
EmitBefore(id, worst, sources, tasks) ==
    /\ emitted' = <<[id |-> id, subtype |-> EventSeverity(id), seq |-> evSeq,
                     state |-> state, attempts |-> attempts, worst |-> worst,
                     sources |-> sources, tasks |-> tasks]>>
    /\ evSeq' = (evSeq + 1) % SeqMod

\* emit_event: the payload carries the state and attempts already in effect,
\* and the masks as they stand at the call.
Emit(id, worst, sources, tasks) ==
    /\ emitted' = <<[id |-> id, subtype |-> EventSeverity(id), seq |-> evSeq,
                     state |-> state', attempts |-> attempts', worst |-> worst,
                     sources |-> sources, tasks |-> tasks]>>
    /\ evSeq' = (evSeq + 1) % SeqMod

Quiet == emitted' = <<>> /\ UNCHANGED evSeq

Span     == Need + MaxAttempts + 1
EXITED   == 3                         \* the mark a ground exit leaves in the window
Remember(mark) ==
    /\ window' = LET w == Append(window, mark)
                 IN  IF Len(w) > Span THEN Tail(w) ELSE w
    /\ trail' = IF emitted' = <<>> THEN trail
                ELSE [state |-> emitted'[1].state, attempts |-> emitted'[1].attempts]

-----------------------------------------------------------------------------
(* fdir_step, one action per branch *)

Inc(n) == (n + 1) % CounterMod

Bumped == IF streak < StreakMax THEN streak + 1 ELSE streak

\* Mutants, each a slip this code could make: acting on the first reading,
\* giving up one attempt late or early, keeping only the current readings as
\* the cause.
ConfirmedAtOnce        == Bumped >= 1
GaveUpLate             == attempts > MaxAttempts
GaveUpEarly            == attempts + 1 >= MaxAttempts
CurrentOnly(mask, now) == now

Confirmed == Bumped >= Need                     \* enough FAULT readings in a row
GaveUp    == attempts >= MaxAttempts            \* every attempt made and seen to fail
Latched(mask, now) == mask \cup now             \* the episode's cause accumulates

\* NOMINAL, a FAULT reading that is not confirmed yet.
FilterFault(worst) ==
    /\ state = "NOMINAL" /\ worst = FAULT
    /\ ~Confirmed
    /\ streak' = Bumped
    /\ nFiltered' = Inc(nFiltered)
    /\ Quiet
    /\ acted' = <<>>
    /\ UNCHANGED <<state, attempts, sourceMask, taskMask, nFaults, nSafeEntries, tried>>

\* NOMINAL, the FAULT reading that confirms: latch the culprits.
ConfirmFault(worst, sources, stalled) ==
    /\ state = "NOMINAL" /\ worst = FAULT
    /\ Confirmed
    /\ state' = "RECOVERING"
    /\ streak' = 0
    /\ attempts' = 0
    /\ sourceMask' = sources
    /\ taskMask' = stalled
    /\ nFaults' = Inc(nFaults)
    /\ Emit("FAULT", worst, sources, stalled)
    /\ acted' = <<>>
    /\ tried' = <<>>
    /\ UNCHANGED <<nSafeEntries, nFiltered>>

\* NOMINAL without a FAULT reading: only the OK to WARN edge is reported.
StayNominal(worst) ==
    /\ state = "NOMINAL" /\ worst # FAULT
    /\ streak' = 0
    /\ UNCHANGED <<state, attempts, sourceMask, taskMask, nFaults, nSafeEntries,
                   nFiltered, tried>>
    /\ IF worst = WARN /\ prevWorst = OK
       THEN Emit("WARN", worst, sourceMask, taskMask)
       ELSE Quiet
    /\ acted' = <<>>

\* RECOVERING and everything OK: believed even when the attempts ran out.
Recovered(worst, sources, stalled) ==
    /\ state = "RECOVERING" /\ worst = OK
    /\ state' = "NOMINAL"
    /\ sourceMask' = {}
    /\ taskMask' = {}
    /\ UNCHANGED <<attempts, streak, nFaults, nSafeEntries, nFiltered, tried>>
    /\ Emit("RECOVERED", worst, Latched(sourceMask, sources), Latched(taskMask, stalled))
    /\ acted' = <<>>

\* RECOVERING, every attempt made and seen to fail.
EnterSafe(worst, sources, stalled) ==
    /\ state = "RECOVERING" /\ worst # OK
    /\ GaveUp
    /\ state' = "SAFE"
    /\ sourceMask' = Latched(sourceMask, sources)
    /\ taskMask' = Latched(taskMask, stalled)
    /\ nSafeEntries' = Inc(nSafeEntries)
    /\ UNCHANGED <<attempts, streak, nFaults, nFiltered, tried>>
    /\ Emit("SAFE_ENTER", worst, sourceMask', taskMask')
    /\ acted' = <<[hook |-> "ENTER_SAFE", sources |-> sourceMask']>>

ActionForAttempt(n) ==
    IF n <= 1 THEN "RETRY" ELSE IF n = 2 THEN "RESET_DEVICE" ELSE "SWITCH_REDUNDANT"

\* RECOVERING and still not healthy: the next rung of the ladder.
TryRecovery(worst, sources, stalled) ==
    /\ state = "RECOVERING" /\ worst # OK
    /\ ~GaveUp
    /\ attempts' = attempts + 1
    /\ sourceMask' = Latched(sourceMask, sources)
    /\ taskMask' = Latched(taskMask, stalled)
    /\ acted' = <<[hook |-> ActionForAttempt(attempts'), sources |-> sourceMask']>>
    /\ tried' = Append(tried, ActionForAttempt(attempts'))
    /\ UNCHANGED <<state, streak, nFaults, nSafeEntries, nFiltered>>
    /\ Emit("RECOVERY_ACTION", worst, sourceMask', taskMask')

\* SAFE is absorbing for the cycle.
StaySafe ==
    /\ state = "SAFE"
    /\ Quiet
    /\ acted' = <<>>
    /\ UNCHANGED <<state, attempts, streak, sourceMask, taskMask, nFaults,
                   nSafeEntries, nFiltered, tried>>

Step(worst, sources, stalled) ==
    \/ FilterFault(worst)
    \/ ConfirmFault(worst, sources, stalled)
    \/ StayNominal(worst)
    \/ Recovered(worst, sources, stalled)
    \/ EnterSafe(worst, sources, stalled)
    \/ TryRecovery(worst, sources, stalled)
    \/ StaySafe

-----------------------------------------------------------------------------
(* Entry points *)

FdirInit ==
    /\ state = "NOMINAL"
    /\ attempts = 0
    /\ streak = 0
    /\ prevWorst = OK
    /\ sourceMask = {}
    /\ taskMask = {}
    /\ stalledNow = {}
    /\ evSeq = 0 /\ hkSeq = 0
    /\ nFaults = 0 /\ nSafeEntries = 0 /\ nFiltered = 0
    /\ mode = "BOOT"
    /\ emitted = <<>> /\ acted = <<>>
    /\ window = <<>> /\ tried = <<>>
    /\ trail = [state |-> "NOMINAL", attempts |-> 0]

\* Mutant: an episode that ran out of attempts counts as safe mode.
ModeOfGaveUp(st) == IF st = "SAFE" \/ attempts' = MaxAttempts THEN "SAFE" ELSE "NOMINAL"

\* The vehicle mode follows the FDIR state at the end of a cycle.
ModeOf(st) == IF st = "SAFE" THEN "SAFE" ELSE "NOMINAL"

\* fdir_cycle with the watchdog's answer `stalled` and the monitors' `readings`.
Cycle(readings, stalled) ==
    LET h == Severity(readings, stalled)
        worst == Worst(h)
    IN  /\ Step(worst, Culprits(h), stalled)
        /\ stalledNow' = stalled
        /\ prevWorst' = worst
        /\ mode' = ModeOf(state')
        /\ UNCHANGED hkSeq
        /\ Remember(worst)

\* fdir_exit_safe, the hook behind TC[130,1], when the state is SAFE.  The
\* mode is left to the next cycle.
ExitSafe ==
    /\ state = "SAFE"
    /\ state' = "NOMINAL"
    /\ attempts' = 0
    /\ streak' = 0
    /\ Emit("SAFE_EXIT", prevWorst, sourceMask, taskMask)
    /\ sourceMask' = {}
    /\ taskMask' = {}
    /\ acted' = <<>>
    /\ Remember(EXITED)
    /\ UNCHANGED <<prevWorst, stalledNow, hkSeq, nFaults, nSafeEntries, nFiltered,
                   mode, tried>>

\* fdir_build_hk into a buffer large enough.
BuildHk ==
    /\ hkSeq' = (hkSeq + 1) % SeqMod
    /\ emitted' = <<>> /\ acted' = <<>>
    /\ UNCHANGED <<state, attempts, streak, prevWorst, sourceMask, taskMask, stalledNow,
                   evSeq, nFaults, nSafeEntries, nFiltered, mode, window, tried, trail>>

FdirNext ==
    \/ \E readings \in [Sensor -> Health], stalled \in SUBSET Task : Cycle(readings, stalled)
    \/ ExitSafe
    \/ BuildHk

FdirSpec == FdirInit /\ [][FdirNext]_fdirVars

-----------------------------------------------------------------------------
(* What must hold *)

FdirTypeOK ==
    /\ state \in FdirState
    /\ attempts \in 0 .. MaxAttempts
    /\ streak \in 0 .. Need - 1
    /\ prevWorst \in Health
    /\ sourceMask \subseteq Source
    /\ taskMask \subseteq Task
    /\ stalledNow \subseteq Task
    /\ evSeq \in 0 .. SeqMod - 1
    /\ hkSeq \in 0 .. SeqMod - 1
    /\ {nFaults, nSafeEntries, nFiltered} \subseteq 0 .. CounterMod - 1
    /\ mode \in {"BOOT", "NOMINAL", "SAFE"}

\* The escalation policy of docs/08-fdir.md over the readings themselves, not
\* over the counters: a step that enters SAFE is preceded by Need consecutive
\* FAULT readings and then MaxAttempts + 1 readings none of which was OK, with
\* no ground exit among them ...
JustifiesSafe(w) ==
    /\ Len(w) = Span
    /\ \A i \in 1 .. Need : w[i] = FAULT
    /\ \A i \in Need + 1 .. Span : w[i] \in {WARN, FAULT}

SafeEntryJustified ==
    [][state # "SAFE" /\ state' = "SAFE" => JustifiesSafe(window')]_fdirVars

\* ... and no fault that persists this long is left unhandled: after Span FAULT
\* readings in a row the vehicle is in SAFE ("confirm + MAX_ATTEMPTS cycles
\* from the first bad sample"), whatever came before, a ground exit included.
PersistentFaultReachesSafe ==
    Len(window) = Span /\ (\A i \in 1 .. Span : window[i] = FAULT) => state = "SAFE"

\* One noisy reading never acts: recovery starts only on the last of Need
\* consecutive FAULT readings, and hooks are called only in an episode.
NoActionOnNoise ==
    [][/\ state = "NOMINAL" /\ state' # "NOMINAL" =>
             /\ Len(window') >= Need
             /\ \A i \in Len(window') - Need + 1 .. Len(window') : window'[i] = FAULT
       /\ acted' # <<>> => state = "RECOVERING"]_fdirVars

\* SAFE is never reached without having tried every rung once, in the order
\* retry, reset, redundant unit; an episode in progress has tried the first
\* `attempts` of them ("Why 3 attempts").
LadderInOrder ==
    state # "NOMINAL" =>
        /\ tried = [i \in 1 .. attempts |-> ActionForAttempt(i)]
        /\ state = "SAFE" => attempts = MaxAttempts

\* "The event trail is what lets the ground reconstruct the sequence": replaying
\* the events gives the state and the attempts FDIR is really in.
TrailTells == trail = [state |-> state, attempts |-> attempts]

\* "Both are the episode's cause, kept until it ends" (fdir.h): an episode has
\* a cause, names stalled tasks exactly when the watchdog is part of it, and
\* forgets neither before it ends.
IsolationConsistent ==
    /\ state = "NOMINAL" <=> sourceMask = {}
    /\ taskMask # {} <=> WATCHDOG \in sourceMask

CauseKept ==
    [][state # "NOMINAL" /\ state' # "NOMINAL" =>
          sourceMask \subseteq sourceMask' /\ taskMask \subseteq taskMask']_fdirVars

\* fdir_test.c:123, "mode follows FDIR", at any time and not only after a cycle:
\* a reader of the vehicle mode sees SAFE exactly while FDIR is in SAFE, and from
\* a ground exit to the next cycle; BOOT until the first cycle.
ModeFollows ==
    /\ mode = "BOOT" <=> window = <<>>
    /\ mode = "SAFE" <=>
          state = "SAFE" \/ (window # <<>> /\ window[Len(window)] = EXITED)

\* docs/08-fdir.md on the source mask: "Carried in every event."
EveryEventNamesItsSource == emitted # <<>> => emitted[1].sources # {}
=============================================================================
