------------------------------- MODULE Monitors -------------------------------
(***************************************************************************)
(* The health monitors of labs/05-fdir/fdir.c as functions of a            *)
(* spacecraft_state.  Voltages are in tenths of a volt, temperatures in    *)
(* tenths of a degree, the charge in percent.                              *)
(***************************************************************************)
EXTENDS Integers

V_FAULT == 60
V_WARN  == 70
OBC_TEMP_WARN_C  == 600
OBC_TEMP_FAULT_C == 750
BATT_TEMP_HIGH_WARN_C  == 400
BATT_TEMP_HIGH_FAULT_C == 500
BATT_TEMP_LOW_WARN_C   == 0
BATT_TEMP_LOW_FAULT_C  == -100
BATT_SOC_WARN_PCT  == 30
BATT_SOC_FAULT_PCT == 15

HEALTH_OK    == 0
HEALTH_WARN  == 1
HEALTH_FAULT == 2

-----------------------------------------------------------------------------
(* The monitors *)

health_worst(a, b) == IF a > b THEN a ELSE b

\* Low is bad, the limits themselves are still on the good side.
Below(value, warn, fault) ==
    IF value < fault THEN HEALTH_FAULT ELSE IF value < warn THEN HEALTH_WARN ELSE HEALTH_OK

\* High is bad.
Above(value, warn, fault) ==
    IF value > fault THEN HEALTH_FAULT ELSE IF value > warn THEN HEALTH_WARN ELSE HEALTH_OK

monitor_power(v) == Below(v, V_WARN, V_FAULT)

monitor_thermal(obc, batt) ==
    health_worst(Above(obc, OBC_TEMP_WARN_C, OBC_TEMP_FAULT_C),
        health_worst(Above(batt, BATT_TEMP_HIGH_WARN_C, BATT_TEMP_HIGH_FAULT_C),
                     Below(batt, BATT_TEMP_LOW_WARN_C, BATT_TEMP_LOW_FAULT_C)))

monitor_battery(pct) == Below(pct, BATT_SOC_WARN_PCT, BATT_SOC_FAULT_PCT)

\* What fdir_evaluate asks of a spacecraft_state, one severity per monitor.
Monitor     == {"POWER", "THERMAL", "BATTERY"}
Readings(s) == [POWER   |-> monitor_power(s.bus_voltage),
                THERMAL |-> monitor_thermal(s.temp_obc, s.temp_batt),
                BATTERY |-> monitor_battery(s.battery_pct)]

Hk == INSTANCE Housekeeping
        WITH Frames <- 1, VMin <- V_FAULT, BusVoltage <- Nat, mode <- "NOMINAL", log <- <<>>

-----------------------------------------------------------------------------
(* What must hold of a state s, and of two states a cycle apart *)

\* The values a spacecraft_state may have.
InRange(s) ==
    /\ s.bus_voltage \in Nat /\ s.temp_obc \in Int
    /\ s.temp_batt \in Int /\ s.battery_pct \in 0 .. 100

\* The table of docs/08-fdir.md:30 read as intervals.
MatchesTable(s) ==
    /\ Readings(s).POWER = CASE s.bus_voltage \in 0 .. 59   -> HEALTH_FAULT
                             [] s.bus_voltage \in 60 .. 69  -> HEALTH_WARN
                             [] s.bus_voltage >= 70         -> HEALTH_OK
    /\ Readings(s).THERMAL =
         IF s.temp_obc > 750 \/ s.temp_batt \notin -100 .. 500 THEN HEALTH_FAULT
         ELSE IF s.temp_obc \in 601 .. 750 \/ s.temp_batt \notin 0 .. 400 THEN HEALTH_WARN
         ELSE HEALTH_OK
    /\ Readings(s).BATTERY = CASE s.battery_pct \in 0 .. 14  -> HEALTH_FAULT
                               [] s.battery_pct \in 15 .. 29 -> HEALTH_WARN
                               [] s.battery_pct \in 30 .. 100 -> HEALTH_OK

\* The power fault "generalizes the S3 check" (fdir.c:13): where FDIR sees FAULT
\* the program of Session 3 would have gone to SAFE, and nowhere else.
SameLimitAsSession3(s) ==
    Readings(s).POWER = HEALTH_FAULT <=> Hk!ApplyLimits(s.bus_voltage, "NOMINAL") = "SAFE"

\* No value crosses a whole WARN band ("How fast each fault becomes critical",
\* fdir.h:31).
Near(a, b, drift) == a - b <= drift /\ b - a <= drift
Drifts(s, t) ==
    /\ Near(s.bus_voltage, t.bus_voltage, V_WARN - V_FAULT)
    /\ Near(s.temp_obc, t.temp_obc, OBC_TEMP_FAULT_C - OBC_TEMP_WARN_C)
    /\ Near(s.temp_batt, t.temp_batt, BATT_TEMP_HIGH_FAULT_C - BATT_TEMP_HIGH_WARN_C)
    /\ Near(s.battery_pct, t.battery_pct, BATT_SOC_WARN_PCT - BATT_SOC_FAULT_PCT)

\* "Each returns a severity, not a boolean, so the response can be proportionate"
\* (fdir.h:51): a monitor that was OK does not report FAULT a cycle later.
WarnsBeforeFault(s, t) ==
    \A m \in Monitor : Readings(s)[m] = HEALTH_OK => Readings(t)[m] # HEALTH_FAULT
=============================================================================
