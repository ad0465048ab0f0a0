------------------------------ MODULE HkPipeline ------------------------------
(***************************************************************************)
(* The two-task housekeeping pipeline of labs/02-rtos/hk_freertos.c: a     *)
(* periodic sampler and a telemetry task of lower priority, joined by a    *)
(* queue of bounded length.                                                *)
(*                                                                         *)
(* The kernel is external: of the tasks that are ready the one of highest  *)
(* priority runs, up to its next kernel call.  The clock counts sampler    *)
(* periods and may advance while a task works.  The sampler's k-th delay   *)
(* ends at tick k (vTaskDelayUntil from tick 0), at once when that is past.*)
(***************************************************************************)
EXTENDS Integers, Sequences

CONSTANTS
    Frames,   \* TOTAL_FRAMES_TO_RUN
    QueueLen, \* HK_QUEUE_LENGTH
    Profile,  \* Profile[i]: the voltage sample_state returns at its i-th call
    VMin,     \* BUS_VOLTAGE_MIN
    MaxLag    \* bound on lag

ASSUME PipelineAssumption ==
    /\ Frames \in Nat \ {0}
    /\ QueueLen \in Nat \ {0}
    /\ Profile \in Seq(Nat) /\ Len(Profile) > 0
    /\ VMin \in Nat
    /\ MaxLag \in Nat \ {0}

VARIABLES
    lag,     \* how far, in periods, the clock may run ahead of the telemetry task
    keeps,   \* the sampler's stack slot starts zeroed and is left alone in between
    now,     \* xTaskGetTickCount, in sampler periods
    frame,   \* the frame the sampler takes next; it sleeps until this tick
    slot,    \* the mode left in the sampler's stack slot
    queue,   \* xHkQueue
    hand,    \* <<>> or the sample the telemetry task has received
    emitted, \* frames emitted
    stopped, \* vTaskEndScheduler was called
    lost     \* history: frames dropped on a full queue

pipelineVars == <<lag, keeps, now, frame, slot, queue, hand, emitted, stopped, lost>>

BusVoltage == {Profile[i] : i \in 1 .. Len(Profile)}
HkSample   == [frame : 0 .. Frames - 1, volt : BusVoltage, mode : {"NOMINAL", "SAFE"}]

Hk == INSTANCE Housekeeping WITH mode <- slot, log <- emitted

SampleState(k) == Profile[(k % Len(Profile)) + 1]

\* Mutant: every fresh local starts zeroed.
NewSampleZeroed(k, m) ==
    [frame |-> k, volt |-> SampleState(k), mode |-> Hk!ApplyLimits(SampleState(k), "BOOT")]

\* A sample of frame k in a fresh local: nothing sets the mode before
\* apply_limits reads it, so it is whatever m the stack holds.
NewSample(k, m) ==
    [frame |-> k, volt |-> SampleState(k),
     mode |-> Hk!ApplyLimits(SampleState(k), IF keeps THEN slot ELSE m)]

\* Mutants: a full queue gives up its oldest entry; it is full one entry early.
EnqueueDropOldest(s) ==
    /\ queue' = Append(IF Len(queue) < QueueLen THEN queue ELSE Tail(queue), s)
    /\ UNCHANGED lost
EnqueueOneLess(s) ==
    IF Len(queue) + 1 < QueueLen THEN queue' = Append(queue, s) /\ UNCHANGED lost
    ELSE lost' = lost + 1 /\ UNCHANGED queue

\* xQueueSend without a timeout: a full queue loses the sample.
Enqueue(s) ==
    IF Len(queue) < QueueLen THEN queue' = Append(queue, s) /\ UNCHANGED lost
    ELSE lost' = lost + 1 /\ UNCHANGED queue

-----------------------------------------------------------------------------
(* Tasks *)

PipelineInit ==
    /\ lag \in 1 .. MaxLag /\ keeps \in BOOLEAN
    /\ now = 0 /\ frame = 0 /\ slot = "BOOT"
    /\ queue = <<>> /\ hand = <<>> /\ emitted = <<>>
    /\ stopped = FALSE /\ lost = 0

Tick ==
    /\ ~stopped
    /\ now < Frames
    /\ now < Len(emitted) + lost + lag
    /\ now' = now + 1
    /\ UNCHANGED <<lag, keeps, frame, slot, queue, hand, emitted, stopped, lost>>

SamplerReady   == frame < Frames /\ now >= frame
TelemetryReady == hand # <<>> \/ queue # <<>> \/ Len(emitted) = Frames

\* One iteration of vSamplerTask; nothing else runs before it sleeps.
Sampler ==
    /\ ~stopped /\ SamplerReady
    /\ \E m \in Hk!Mode :
          /\ slot' = NewSample(frame, m).mode
          /\ Enqueue(NewSample(frame, m))
    /\ frame' = frame + 1
    /\ UNCHANGED <<lag, keeps, now, hand, emitted, stopped>>

Receive ==
    /\ hand = <<>> /\ queue # <<>> /\ Len(emitted) < Frames
    /\ hand' = <<Head(queue)>>
    /\ queue' = Tail(queue)
    /\ UNCHANGED <<emitted, stopped>>

\* Mutant: the scheduler is stopped with the last frame still in hand.
EmitOneLess ==
    /\ hand # <<>>
    /\ emitted' = emitted \o hand
    /\ hand' = <<>>
    /\ stopped' = (Len(emitted) + 2 = Frames)
    /\ UNCHANGED queue

Emit ==
    /\ hand # <<>>
    /\ emitted' = emitted \o hand
    /\ hand' = <<>>
    /\ UNCHANGED <<queue, stopped>>

EndScheduler ==
    /\ Len(emitted) = Frames
    /\ stopped' = TRUE
    /\ UNCHANGED <<queue, hand, emitted>>

\* vTelemetryTask between two kernel calls.
TelemetryStep == Receive \/ Emit \/ EndScheduler

Telemetry ==
    /\ ~stopped /\ ~SamplerReady
    /\ TelemetryStep
    /\ UNCHANGED <<lag, keeps, now, frame, slot, lost>>

PipelineNext == Tick \/ Sampler \/ Telemetry

\* The clock runs and a task that may run does.
PipelineSpec ==
    /\ PipelineInit /\ [][PipelineNext]_pipelineVars
    /\ WF_pipelineVars(Tick) /\ WF_pipelineVars(Sampler) /\ WF_pipelineVars(Telemetry)

-----------------------------------------------------------------------------
(* What must hold *)

Increasing(samples) ==
    \A i, j \in 1 .. Len(samples) : i < j => samples[i].frame < samples[j].frame

PipelineTypeOK ==
    /\ lag \in 1 .. MaxLag /\ keeps \in BOOLEAN
    /\ {now, frame} \subseteq 0 .. Frames
    /\ slot \in Hk!Mode
    /\ queue \in Seq(HkSample) /\ Len(queue) <= QueueLen
    /\ hand \in Seq(HkSample) /\ Len(hand) <= 1
    /\ emitted \in Seq(HkSample)
    /\ stopped \in BOOLEAN
    /\ lost \in 0 .. Frames

\* The frames taken are emitted, held by the telemetry task, queued or counted
\* as dropped, none twice, in the order they were taken, each with the voltage
\* of its own cycle and marked SAFE when that is too low.
EachFrameOnce ==
    LET kept == emitted \o hand \o queue
    IN  /\ frame = Len(kept) + lost
        /\ Increasing(kept)
        /\ \A i \in 1 .. Len(kept) :
              /\ kept[i].volt = SampleState(kept[i].frame)
              /\ kept[i].volt < VMin => kept[i].mode = "SAFE"

\* The queue covers a telemetry task that is late by less than its length: as long
\* as the clock never runs further ahead, no frame is dropped.
NothingLost == lag < QueueLen => lost = 0

\* As long as no frame is dropped, however late the telemetry task is, it emits the
\* last one and stops the scheduler: "this task does the same, then lets the telemetry
\* task drain the last item and stop the scheduler" (hk_freertos.c:72).
EndsUnlessLost == <>[](lost = 0 => stopped /\ Len(emitted) = Frames)

\* 02-rtos/README.md:39, "so the demo exits cleanly instead of running forever": it
\* does not after a frame was dropped, the telemetry task waits for ever for one that
\* will not come.
Ends == <>stopped

\* hk_telemetry.c:47, "Once in SAFE, stays in SAFE": no frame behind one that was
\* marked SAFE for its voltage is NOMINAL.
SafeKept ==
    \A i, j \in 1 .. Len(emitted) :
        i < j /\ emitted[i].volt < VMin /\ emitted[i].mode = "SAFE" => emitted[j].mode = "SAFE"

\* "Session 3/4's program" (hk_freertos.c:72): on time, and with a stack slot that
\* keeps the mode, the frames emitted are those of the program of Session 3; a cycle
\* there is the emission here.
modeShown == IF emitted = <<>> THEN "BOOT" ELSE emitted[Len(emitted)].mode
Loop == INSTANCE Housekeeping WITH mode <- modeShown, log <- emitted
ImplementsLoop ==
    /\ Loop!LoopInit
    /\ [][keeps /\ lag < QueueLen => Loop!LoopNext]_<<modeShown, emitted>>
=============================================================================
