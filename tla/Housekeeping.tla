----------------------------- MODULE Housekeeping -----------------------------
(***************************************************************************)
(* The housekeeping of labs/01-foundation/hk_telemetry.c: sample the       *)
(* state, apply the bus voltage limit, emit a frame; and the program of    *)
(* Session 3 that does so a fixed number of times on one persistent state. *)
(* Voltages are whole numbers in some unit.  The temperatures and the      *)
(* battery charge take no part in what the labs decide.                    *)
(***************************************************************************)
EXTENDS Integers, Sequences

CONSTANTS
    Frames,     \* HK_NUM_CYCLES, also TOTAL_FRAMES_TO_RUN
    BusVoltage, \* voltages that may be sampled
    VMin        \* BUS_VOLTAGE_MIN

Mode == {"BOOT", "NOMINAL", "SAFE"}

ApplyLimits(volt, mode) == IF volt < VMin \/ mode = "SAFE" THEN "SAFE" ELSE "NOMINAL"

-----------------------------------------------------------------------------
(* The Session 3 program *)

VARIABLES
    mode,  \* s.mode, which outlives a cycle
    log    \* the frames emitted: their number, voltage and mode

loopVars == <<mode, log>>

LoopInit == mode = "BOOT" /\ log = <<>>

LoopCycle(volt) ==
    /\ Len(log) < Frames
    /\ mode' = ApplyLimits(volt, mode)
    /\ log' = Append(log, [frame |-> Len(log), volt |-> volt, mode |-> mode'])

LoopNext == \E volt \in BusVoltage : LoopCycle(volt)

LoopSpec == LoopInit /\ [][LoopNext]_loopVars

-----------------------------------------------------------------------------
(* What must hold *)

LoopTypeOK ==
    /\ mode \in Mode
    /\ log \in Seq([frame : Nat, volt : BusVoltage, mode : {"NOMINAL", "SAFE"}])

\* HK-REQ-003 and "Once in SAFE, stays in SAFE" (hk_telemetry.c:47), over the
\* whole history: a frame is marked SAFE exactly when some sample up to it was
\* below the limit; the limit itself is still good.
SafeExactlyAfterLow ==
    \A k \in 1 .. Len(log) :
        log[k].mode = "SAFE" <=> \E j \in 1 .. k : log[j].volt < VMin
=============================================================================
