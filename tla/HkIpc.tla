-------------------------------- MODULE HkIpc --------------------------------
(***************************************************************************)
(* The four-task system of labs/02-rtos/hk_freertos_ipc.c: the pipeline,   *)
(* statistics shared by the sampler and a slow reporter under a mutex with *)
(* priority inheritance, and a handler woken by a binary semaphore.        *)
(*                                                                         *)
(* Kernel (external): the ready task of the highest effective priority     *)
(* runs, one action from one kernel call to the next; where a task holds   *)
(* the mutex an action is one access to the statistics.                    *)
(***************************************************************************)
EXTENDS HkPipeline, FiniteSets, FiniteSetsExt

CONSTANT ReporterPeriod \* REPORTER_PERIOD_MS in sampler periods

\* g_stats at the start: its bounds enclose every voltage the sampler can return.
NoStats == [nominal |-> 0, safe |-> 0, min |-> 1000000, max |-> 0]

ASSUME IpcAssumption ==
    /\ ReporterPeriod \in Nat \ {0}
    /\ \A i \in 1 .. Len(Profile) : Profile[i] <= NoStats.min

TaskId == {"SAMPLER", "HANDLER", "TELEMETRY", "REPORTER"}

\* Mutants: the handler ranks below the telemetry task; the reporter above it.
PriorityRoutineFirst  == [SAMPLER |-> 4, HANDLER |-> 1, TELEMETRY |-> 3, REPORTER |-> 2]
PriorityReporterFirst == [SAMPLER |-> 4, HANDLER |-> 3, TELEMETRY |-> 1, REPORTER |-> 2]

Priority == [SAMPLER |-> 4, HANDLER |-> 3, TELEMETRY |-> 2, REPORTER |-> 1]

VARIABLES
    spc,      \* where the sampler is: "WAIT" is blocked on the mutex
    cur,      \* the sampler's sample of this iteration
    hpc,      \* where the handler is
    rpc,      \* where the reporter is
    wake,     \* tick until which the reporter sleeps
    holder,   \* of xStatsMutex
    sem,      \* xSafeModeSem
    stats,    \* g_stats
    report,   \* what the reporter last read of it
    counted,  \* history: the samples counted in stats, in order
    answered  \* history: frames taken when the handler last woke

ipcHeld == <<spc, cur, hpc, rpc, wake, holder, sem, stats, report, counted, answered>>
ipcVars == <<pipelineVars, ipcHeld>>

-----------------------------------------------------------------------------
(* Scheduling *)

Ready(t) ==
    CASE t = "SAMPLER"   -> spc # "WAIT" /\ (spc = "SAMPLE" => SamplerReady)
      [] t = "HANDLER"   -> hpc = "RESPOND" \/ sem
      [] t = "TELEMETRY" -> TelemetryReady
      [] t = "REPORTER"  -> IF rpc = "SLEEP" THEN now >= wake
                            ELSE rpc = "TAKE" => holder = "NONE"

\* The holder of the mutex inherits the priority of the sampler waiting for it.
Effective(t) == IF t = holder /\ spc = "WAIT" THEN Priority["SAMPLER"] ELSE Priority[t]

Runs(t) ==
    /\ ~stopped
    /\ Ready(t)
    /\ \A u \in TaskId \ {t} : Ready(u) => Effective(u) < Effective(t)

-----------------------------------------------------------------------------
(* vSamplerTask *)

Count(s) ==
    [nominal |-> IF s.mode = "SAFE" THEN stats.nominal ELSE stats.nominal + 1,
     safe    |-> IF s.mode = "SAFE" THEN stats.safe + 1 ELSE stats.safe,
     min     |-> IF s.volt < stats.min THEN s.volt ELSE stats.min,
     max     |-> IF s.volt > stats.max THEN s.volt ELSE stats.max]

Sample ==
    /\ spc = "SAMPLE"
    /\ \E m \in Hk!Mode : cur' = NewSample(frame, m)
    /\ slot' = cur'.mode
    /\ spc' = "TAKE"
    /\ UNCHANGED <<frame, queue, lost, holder, stats, sem, counted>>

\* Mutant: the lock is not tested.
TakeAnyway ==
    /\ spc = "TAKE" /\ spc' = "UPDATE"
    /\ UNCHANGED <<frame, slot, queue, lost, cur, holder, stats, sem, counted>>

Take ==
    /\ spc = "TAKE"
    /\ IF holder = "NONE"
       THEN holder' = "SAMPLER" /\ spc' = "UPDATE"
       ELSE spc' = "WAIT" /\ UNCHANGED holder
    /\ UNCHANGED <<frame, slot, queue, lost, cur, stats, sem, counted>>

\* update_stats from the take to the give.
Update ==
    /\ spc = "UPDATE"
    /\ stats' = Count(cur)
    /\ counted' = Append(counted, cur)
    /\ holder' = "NONE"
    /\ spc' = "SEND"
    /\ UNCHANGED <<frame, slot, queue, lost, cur, sem>>

SendSample ==
    /\ spc = "SEND"
    /\ Enqueue(cur)
    /\ spc' = "SIGNAL"
    /\ UNCHANGED <<frame, slot, cur, holder, stats, sem, counted>>

\* Mutant: no signal at all.
SignalNever == FALSE

\* The semaphore is given for every frame in SAFE.
Signals == cur.mode = "SAFE"

\* The signal, and the delay until the next period.
Signal ==
    /\ spc = "SIGNAL"
    /\ sem' = (sem \/ Signals)
    /\ frame' = frame + 1
    /\ spc' = "SAMPLE"
    /\ UNCHANGED <<slot, queue, lost, cur, holder, stats, counted>>

SamplerTask ==
    /\ Runs("SAMPLER")
    /\ Sample \/ Take \/ Update \/ SendSample \/ Signal
    /\ UNCHANGED <<lag, keeps, now, hand, emitted, stopped, hpc, rpc, wake, report, answered>>

-----------------------------------------------------------------------------
(* The other tasks *)

\* vSafeModeTask: woken by the semaphore, responds, waits again.
HandlerTask ==
    /\ Runs("HANDLER")
    /\ \/ /\ hpc = "BLOCKED" /\ sem
          /\ sem' = FALSE
          /\ hpc' = "RESPOND"
          /\ answered' = Len(counted)
       \/ /\ hpc = "RESPOND" /\ hpc' = "BLOCKED"
          /\ UNCHANGED <<sem, answered>>
    /\ UNCHANGED <<pipelineVars, spc, cur, rpc, wake, holder, stats, report, counted>>

TelemetryTask ==
    /\ Runs("TELEMETRY")
    /\ TelemetryStep
    /\ UNCHANGED <<lag, keeps, now, frame, slot, lost, ipcHeld>>

\* xSemaphoreGive by the reporter: a sampler blocked on the mutex is ready again.
Give ==
    /\ holder' = "NONE"
    /\ spc' = IF spc = "WAIT" THEN "TAKE" ELSE spc

\* vReporterTask: sleep, take, read the statistics for the printf, give.
ReporterTask ==
    /\ Runs("REPORTER")
    /\ \/ /\ rpc = "SLEEP" /\ rpc' = "TAKE"
          /\ wake' = wake + ReporterPeriod
          /\ UNCHANGED <<holder, spc, report>>
       \/ /\ rpc = "TAKE" /\ rpc' = "READ"
          /\ holder' = "REPORTER"
          /\ UNCHANGED <<spc, report, wake>>
       \/ /\ rpc = "READ" /\ rpc' = "READ2"
          /\ report' = [report EXCEPT !.nominal = stats.nominal, !.safe = stats.safe]
          /\ UNCHANGED <<holder, spc, wake>>
       \/ /\ rpc = "READ2" /\ rpc' = "GIVE"
          /\ report' = [report EXCEPT !.min = stats.min, !.max = stats.max]
          /\ UNCHANGED <<holder, spc, wake>>
       \/ /\ rpc = "GIVE" /\ rpc' = "SLEEP"
          /\ Give
          /\ UNCHANGED <<report, wake>>
    /\ UNCHANGED <<pipelineVars, cur, hpc, sem, stats, counted, answered>>

IpcTick == Tick /\ UNCHANGED ipcHeld

IpcInit ==
    /\ PipelineInit /\ lag = MaxLag /\ ~keeps
    /\ spc = "SAMPLE" /\ cur = NewSample(0, "BOOT")
    /\ hpc = "BLOCKED" /\ rpc = "SLEEP" /\ wake = ReporterPeriod
    /\ holder = "NONE" /\ sem = FALSE
    /\ stats = NoStats /\ report = NoStats
    /\ counted = <<>> /\ answered = 0

IpcNext == IpcTick \/ SamplerTask \/ HandlerTask \/ TelemetryTask \/ ReporterTask

IpcSpec ==
    /\ IpcInit /\ [][IpcNext]_ipcVars
    /\ WF_ipcVars(IpcTick) /\ WF_ipcVars(SamplerTask) /\ WF_ipcVars(HandlerTask)
    /\ WF_ipcVars(TelemetryTask) /\ WF_ipcVars(ReporterTask)

-----------------------------------------------------------------------------
(* What must hold *)

\* docs/04-rtos-ipc.md:24, "a reporter print always reflects one consistent point
\* in time": all four values are those of the same number of frames.
ReportConsistent ==
    rpc = "GIVE" =>
        LET k    == report.nominal + report.safe
            volts == {counted[i].volt : i \in 1 .. k}
        IN  /\ k <= Len(counted)
            /\ report.safe = Cardinality({i \in 1 .. k : counted[i].mode = "SAFE"})
            /\ k > 0 => report.min = Min(volts) /\ report.max = Max(volts)

\* hk_freertos_ipc.c:23, "blocked behind a low-priority holder of the stats lock
\* with no bound on the wait": while the sampler waits for the mutex no task in
\* between has work to do, so that only the holder's own few accesses hold it up,
\* inherited priority or not.  The tasks in between live on what the sampler
\* sends, and the reporter takes the mutex only when they have used it up.
NoInversion == spc = "WAIT" => \A t \in TaskId : Ready(t) => t = holder

\* "A real FDIR response should preempt routine telemetry formatting": a frame in
\* SAFE reaches the telemetry task only after the handler woke for it.
RespondsFirst ==
    \A i \in 1 .. Len(emitted \o hand) :
        LET s == (emitted \o hand)[i] IN s.mode = "SAFE" => answered > s.frame

\* In the end the handler has woken for every frame taken in SAFE, even for one
\* whose successors stop the scheduler.
SignalHandled == <>[](\A i \in 1 .. Len(counted) : counted[i].mode = "SAFE" => answered >= i)

\* Frame i is in SAFE and the one before it was not.
EntersSafe(i) == counted[i].mode = "SAFE" /\ (i > 1 => counted[i - 1].mode # "SAFE")

\* The modes so far are those of the latch, whatever the stack held.
Latched ==
    \A i \in 1 .. Len(counted) :
        counted[i].mode = "SAFE" <=> \E j \in 1 .. i : counted[j].volt < VMin

\* hk_freertos_ipc.c:16, "wakes only when the sampler signals a SAFE-mode entry": the
\* frames taken since it last woke would include an entry.
WakesOnEntry ==
    [][Latched /\ answered' # answered =>
          \E i \in answered + 1 .. Len(counted) : EntersSafe(i)]_ipcVars
=============================================================================
