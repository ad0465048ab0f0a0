---------------------------- MODULE FdirTask_proofs ----------------------------
(***************************************************************************)
(* Theorems about Watchdog, for any number of tasks and any width of the   *)
(* counters; about FdirTask, which implements both its parts; and about    *)
(* the monitors, for every spacecraft_state and every drift that does not  *)
(* cross a WARN band within a cycle.                                       *)
(***************************************************************************)
EXTENDS FdirTask, TLAPS

\* What the counter of t is compared with next: its snapshot, or the value
\* about to become its snapshot.
Base(t) == IF seen # NotRead /\ t = index THEN seen ELSE last[t]

\* The counter is ahead of its base by the kicks since it was loaded.
KicksAhead ==
    \A t \in Task : \/ heartbeat[t] = Base(t) + since[t]
                    \/ heartbeat[t] = Base(t) + since[t] - WMod

\* The loop: what it has found is what was quiet among the tasks it is through with.
LoopInv ==
    /\ seen # NotRead => phase # "IDLE"
    /\ seen # NotRead /\ phase = "CHECK" => (quiet[index] <=> seen = last[index])
    /\ phase = "CHECK" => mask = {t \in Task : t < index /\ quiet[t]}
    /\ phase = "INIT"  => mask = {} /\ stalled = {} /\ \A t \in Task : ~quiet[t]
    /\ phase = "IDLE"  => stalled = {t \in Task : quiet[t]}

\* A hung task no longer kicks, and its second load found it quiet.
AgeInv ==
    \A t \in Task :
        /\ age[t] > 0 => t \in hung /\ since[t] = 0
        /\ age[t] = 2 => quiet[t]
        /\ phase = "INIT" /\ age[t] > 0 => t < index \/ (t = index /\ seen # NotRead)

WdInv == WdTypeOK /\ KicksAhead /\ LoopInv /\ AgeInv

LEMMA Wrap ==
    ASSUME NEW n \in 0 .. WMod - 1
    PROVE  /\ (n + 1) % WMod \in 0 .. WMod - 1
           /\ (n + 1) % WMod = n + 1 \/ (n + 1) % WMod = n + 1 - WMod
<1>1. CASE n + 1 < WMod
  BY <1>1, WatchdogAssumption
<1>2. CASE n + 1 = WMod
  BY <1>2, WatchdogAssumption
<1>3. QED
  BY <1>1, <1>2, WatchdogAssumption

LEMMA WdInitial == WdInit => WdInv
BY WatchdogAssumption
   DEF WdInit, WdInv, WdTypeOK, KicksAhead, Base, LoopInv, AgeInv, Task, NotRead

LEMMA KickKeeps ==
    ASSUME WdInv, NEW t \in Task, Kick(t) PROVE WdInv'
<1> USE DEF WdInv
<1>1. heartbeat[t] \in 0 .. WMod - 1 /\ since[t] \in 0 .. MaxKicks /\ t \notin hung
  BY DEF WdTypeOK, Kick
<1>2. WdTypeOK'
  BY <1>1, Wrap, WatchdogAssumption DEF WdTypeOK, Kick, Bump
<1>3. KicksAhead'
  <2> SUFFICES ASSUME NEW u \in Task
               PROVE  (\/ heartbeat[u] = Base(u) + since[u]
                       \/ heartbeat[u] = Base(u) + since[u] - WMod)'
    BY DEF KicksAhead
  <2>1. Base(u)' = Base(u) /\ Base(u) \in 0 .. WMod - 1
    BY DEF Base, Kick, WdTypeOK
  <2>2. CASE u = t
    <3>1. heartbeat'[t] = (heartbeat[t] + 1) % WMod /\ since'[t] = since[t] + 1
      BY DEF Kick, WdTypeOK, Bump
    <3>2. heartbeat'[t] = heartbeat[t] + 1 \/ heartbeat'[t] = heartbeat[t] + 1 - WMod
      BY <1>1, <3>1, Wrap
    <3>3. heartbeat'[t] \in 0 .. WMod - 1
      BY <1>1, <3>1, Wrap
    <3>4. heartbeat[t] = Base(t) + since[t] \/ heartbeat[t] = Base(t) + since[t] - WMod
      BY DEF KicksAhead
    <3>5. since[t] < MaxKicks
      BY DEF Kick
    <3> QED
      BY <1>1, <2>1, <2>2, <3>1, <3>2, <3>3, <3>4, <3>5, WatchdogAssumption
  <2>3. CASE u # t
    BY <2>1, <2>3 DEF Kick, KicksAhead, WdTypeOK
  <2> QED
    BY <2>2, <2>3
<1>4. LoopInv' /\ AgeInv'
  BY <1>1 DEF LoopInv, AgeInv, Kick, WdTypeOK
<1> QED
  BY <1>2, <1>3, <1>4

LEMMA HangKeeps ==
    ASSUME WdInv, NEW t \in Task, Hang(t) PROVE WdInv'
BY DEF WdInv, WdTypeOK, KicksAhead, Base, LoopInv, AgeInv, Hang

LEMMA LoadKeeps ==
    ASSUME WdInv, Load PROVE WdInv'
<1> USE DEF WdInv
<1>1. index \in Task /\ seen = NotRead /\ phase # "IDLE"
  BY WatchdogAssumption DEF Load, WdTypeOK, Task
<1>2. heartbeat[index] \in 0 .. WMod - 1 /\ last[index] \in 0 .. WMod - 1
      /\ since[index] \in 0 .. MaxKicks
  BY <1>1 DEF WdTypeOK
<1>3. WdTypeOK'
  BY <1>1, <1>2, WatchdogAssumption DEF WdTypeOK, Load
<1>4. KicksAhead'
  BY <1>1, <1>2 DEF KicksAhead, Base, Load, WdTypeOK, NotRead
<1>5. since[index] = 0 <=> heartbeat[index] = last[index]
  BY <1>1, <1>2, WatchdogAssumption DEF KicksAhead, Base
<1>6. LoopInv'
  <2>1. /\ seen' = heartbeat[index] /\ UNCHANGED <<phase, index, mask, stalled, last>>
        /\ quiet'[index] <=> (phase = "CHECK" /\ since[index] = 0)
        /\ \A u \in Task : u # index => (quiet'[u] <=> quiet[u])
    BY <1>1 DEF Load, WdTypeOK
  <2>2. phase = "CHECK" => mask' = {t \in Task : t < index /\ quiet'[t]}
    BY <1>1, <2>1 DEF LoopInv, Task
  <2> QED
    BY <1>1, <1>2, <1>5, <2>1, <2>2 DEF LoopInv
<1>7. AgeInv'
  <2> SUFFICES ASSUME NEW t \in Task
               PROVE  (/\ age[t] > 0 => t \in hung /\ since[t] = 0
                       /\ age[t] = 2 => quiet[t]
                       /\ phase = "INIT" /\ age[t] > 0 =>
                            t < index \/ (t = index /\ seen # NotRead))'
    BY DEF AgeInv
  <2>1. CASE t # index
    <3>1. age'[t] = age[t] /\ since'[t] = since[t] /\ (quiet'[t] <=> quiet[t])
      BY <1>1, <2>1 DEF Load, WdTypeOK
    <3> QED
      BY <1>1, <2>1, <3>1 DEF AgeInv, Load
  <2>2. CASE t = index
    <3>1. /\ since'[t] = 0
          /\ age'[t] = IF t \in hung /\ age[t] < 2 THEN age[t] + 1 ELSE age[t]
          /\ quiet'[t] <=> (phase = "CHECK" /\ since[t] = 0)
      BY <1>1, <2>2 DEF Load, WdTypeOK
    <3>2. age[t] \in 0 .. 2 /\ seen' # NotRead /\ UNCHANGED <<hung, phase, index>>
      BY <1>1, <1>2 DEF WdTypeOK, Load, NotRead
    <3>3. /\ age[t] > 0 => t \in hung /\ since[t] = 0
          /\ phase = "INIT" => age[t] = 0
      BY <1>1, <2>2, <3>2, WatchdogAssumption DEF AgeInv, Task
    <3>4. phase \in {"INIT", "CHECK"}
      BY <1>1 DEF WdTypeOK
    <3> QED
      BY <2>2, <3>1, <3>2, <3>3, <3>4
  <2> QED
    BY <2>1, <2>2
<1> QED
  BY <1>3, <1>4, <1>6, <1>7

LEMMA CompareKeeps ==
    ASSUME WdInv, Compare PROVE WdInv'
<1> USE DEF WdInv
<1>1. index \in Task /\ seen \in 0 .. WMod - 1 /\ seen # NotRead
  BY WatchdogAssumption DEF Compare, WdTypeOK, Task
<1>2. WdTypeOK'
  <2>1. index' \in 0 .. NTasks
    BY <1>1, WatchdogAssumption DEF Compare, WdTypeOK, Task
  <2>2. last' \in [Task -> 0 .. WMod - 1] /\ mask' \subseteq Task
    BY <1>1 DEF Compare, WdTypeOK, Snapshot
  <2> QED
    BY <2>1, <2>2 DEF Compare, WdTypeOK
<1>3. KicksAhead'
  BY <1>1 DEF KicksAhead, Base, Compare, Snapshot, WdTypeOK
<1>4. LoopInv'
  BY <1>1 DEF LoopInv, Compare, Stuck, WdTypeOK, Task
<1>5. AgeInv'
  BY <1>1 DEF AgeInv, Compare, WdTypeOK, Task
<1> QED
  BY <1>2, <1>3, <1>4, <1>5

LEMMA EndsKeep ==
    ASSUME WdInv, BeginCheck \/ EndCheck PROVE WdInv'
<1> USE DEF WdInv
<1>1. CASE BeginCheck
  BY <1>1, WatchdogAssumption
     DEF WdTypeOK, KicksAhead, Base, LoopInv, AgeInv, BeginCheck, Task
<1>2. CASE EndCheck
  <2>1. seen = NotRead /\ index = NTasks
    BY <1>2 DEF EndCheck, WdTypeOK
  <2>2. /\ phase' = "IDLE" /\ stalled' = IF phase = "CHECK" THEN mask ELSE stalled
        /\ phase \in {"INIT", "CHECK"}
        /\ UNCHANGED <<heartbeat, last, index, seen, mask, hung, since, quiet, age>>
    BY <1>2 DEF EndCheck, WdTypeOK
  <2>3. WdTypeOK'
    BY <2>2 DEF WdTypeOK
  <2>4. KicksAhead'
    BY <2>2 DEF KicksAhead, Base
  <2>5. stalled' = {t \in Task : quiet'[t]}
    <3>1. CASE phase = "INIT"
      BY <2>2, <3>1 DEF LoopInv
    <3>2. CASE phase = "CHECK"
      <4>1. \A t \in Task : t < index
        BY <2>1, WatchdogAssumption DEF Task
      <4> QED
        BY <2>2, <3>2, <4>1 DEF LoopInv
    <3> QED
      BY <2>2, <3>1, <3>2
  <2>6. LoopInv' /\ AgeInv'
    BY <2>1, <2>2, <2>5 DEF LoopInv, AgeInv
  <2> QED
    BY <2>3, <2>4, <2>6
<1> QED
  BY <1>1, <1>2

LEMMA WdStep == WdInv /\ [WdNext]_wdVars => WdInv'
<1> SUFFICES ASSUME WdInv, [WdNext]_wdVars PROVE WdInv'
  OBVIOUS
<1>1. CASE UNCHANGED wdVars
  BY <1>1 DEF wdVars, WdInv, WdTypeOK, KicksAhead, Base, LoopInv, AgeInv
<1>2. CASE Checker
  BY <1>2, LoadKeeps, CompareKeeps, EndsKeep DEF Checker
<1>3. CASE \E t \in Task : Kick(t) \/ Hang(t)
  BY <1>3, KickKeeps, HangKeeps
<1> QED
  BY <1>1, <1>2, <1>3 DEF WdNext

LEMMA WdInvariant == WdSpec => []WdInv
BY WdInitial, WdStep, PTL DEF WdSpec

\* Types of the watchdog's state.
THEOREM WdTypes == WdSpec => []WdTypeOK
BY WdInvariant, PTL DEF WdInv

\* A published mask names exactly the tasks that did not kick between the last
\* two reads of their counters, whatever the width and the interleaving.
THEOREM StallsAreExact == WdSpec => []StallsExact
<1>1. WdInv => StallsExact
  BY DEF WdInv, LoopInv, StallsExact
<1> QED
  BY <1>1, WdInvariant, PTL

\* A hung task is in the mask of every check from the second read on.
THEOREM HungAreReported == WdSpec => []HungReported
<1>1. WdInv => HungReported
  BY DEF WdInv, LoopInv, AgeInv, HungReported
<1> QED
  BY <1>1, WdInvariant, PTL

-----------------------------------------------------------------------------
(* The composition implements its parts *)

\* The monitors report severities, one each.
LEMMA ReadingsTyped == ASSUME NEW s PROVE Readings(s) \in [Monitor -> F!Health]
<1>1. /\ monitor_power(s.bus_voltage) \in F!Health
      /\ monitor_battery(s.battery_pct) \in F!Health
  BY DEF monitor_power, monitor_battery, Below, HEALTH_OK, HEALTH_WARN, HEALTH_FAULT,
         F!Health, F!OK, F!WARN, F!FAULT
<1>2. monitor_thermal(s.temp_obc, s.temp_batt) \in F!Health
  <2>1. ASSUME NEW v, NEW warn, NEW fault
        PROVE  Above(v, warn, fault) \in F!Health /\ Below(v, warn, fault) \in F!Health
    BY DEF Above, Below, HEALTH_OK, HEALTH_WARN, HEALTH_FAULT, F!Health, F!OK, F!WARN, F!FAULT
  <2>2. ASSUME NEW a \in F!Health, NEW b \in F!Health
        PROVE  health_worst(a, b) \in F!Health
    BY DEF health_worst
  <2>. QED  BY <2>1, <2>2 DEF monitor_thermal
<1>. QED  BY <1>1, <1>2 DEF Readings, Monitor

\* What the watchdog sees of a step.
LEMMA WatchdogStep == [TaskNext]_taskVars => [WdNext]_wdVars
<1>. SUFFICES ASSUME [TaskNext]_taskVars PROVE [WdNext]_wdVars  OBVIOUS
<1>1. CASE FdirTaskStep
  BY <1>1 DEF FdirTaskStep, FinishCycle, WdNext, Checker
<1>2. CASE \E t \in Task : (Kick(t) \/ Hang(t)) /\ UNCHANGED fdirHeld
  BY <1>2 DEF WdNext
<1>3. CASE F!ExitSafe /\ UNCHANGED wdVars  BY <1>3
<1>4. CASE UNCHANGED taskVars  BY <1>4 DEF taskVars
<1>. QED  BY <1>1, <1>2, <1>3, <1>4 DEF TaskNext

\* What the state machine sees of it: the mask handed out holds tasks only.
LEMMA FdirStep == WdTypeOK' /\ [TaskNext]_taskVars => [F!FdirNext]_(F!fdirVars)
<1>. SUFFICES ASSUME WdTypeOK', [TaskNext]_taskVars PROVE [F!FdirNext]_(F!fdirVars)  OBVIOUS
<1>1. fdirHeld = F!fdirVars /\ fdirHeld' = F!fdirVars'  BY DEF fdirHeld, F!fdirVars
<1>2. CASE FdirTaskStep
  <2>1. CASE \E s \in SpacecraftState : FinishCycle(s)
    <3>1. PICK s \in SpacecraftState : F!Cycle(Readings(s), stalled')
      BY <2>1 DEF FinishCycle
    <3>2. stalled' \in SUBSET Task  BY DEF WdTypeOK
    <3>. QED  BY <3>1, <3>2, ReadingsTyped DEF F!FdirNext
  <2>2. CASE UNCHANGED fdirHeld  BY <1>1, <2>2
  <2>. QED  BY <1>2, <2>1, <2>2 DEF FdirTaskStep
<1>3. CASE \E t \in Task : (Kick(t) \/ Hang(t)) /\ UNCHANGED fdirHeld  BY <1>1, <1>3
<1>4. CASE F!ExitSafe /\ UNCHANGED wdVars  BY <1>4 DEF F!FdirNext
<1>5. CASE UNCHANGED taskVars  BY <1>1, <1>5 DEF taskVars
<1>. QED  BY <1>2, <1>3, <1>4, <1>5 DEF TaskNext

\* The FDIR task is a watchdog and an FDIR state machine at once (fdir_cycle,
\* fdir.c:211): what is proved of either holds of their composition.
THEOREM TaskImplementsParts == TaskSpec => WdSpec /\ F!FdirSpec
<1>1. TaskInit => WdInit /\ F!FdirInit  BY DEF TaskInit
<1>2. TaskSpec => WdSpec  BY <1>1, WatchdogStep, PTL DEF TaskSpec, WdSpec
<1>3. TaskSpec => []WdTypeOK  BY <1>2, WdTypes, PTL
<1>. QED  BY <1>1, <1>2, <1>3, FdirStep, PTL DEF TaskSpec, F!FdirSpec

\* In the running system too, with cycles and exits in between, the mask of a check
\* names exactly the tasks that did not kick.
THEOREM TaskStallsExact == TaskSpec => []StallsExact
BY TaskImplementsParts, StallsAreExact, PTL

\* With a stalled task the watchdog is at the worst severity, whatever the monitors say.
LEMMA StallIsWorst ==
    ASSUME NEW readings \in [Monitor -> F!Health], NEW answer, answer # {}
    PROVE  F!WATCHDOG \in F!Culprits(F!Severity(readings, answer))
<1>. DEFINE h == F!Severity(readings, answer)
            IsWorst(w) == (\E m \in F!Source : h[m] = w) /\ \A m \in F!Source : h[m] <= w
<1>1. F!WATCHDOG \in F!Source  BY DEF F!Source
<1>2. h[F!WATCHDOG] = 2  BY <1>1 DEF F!Severity, F!FAULT
<1>3. \A m \in F!Source : h[m] \in F!Health
  BY DEF F!Severity, F!Source, F!Health, F!OK, F!FAULT
<1>4. \A m \in F!Source : h[m] <= 2
  BY <1>3 DEF F!Health, F!OK, F!WARN, F!FAULT
<1>5. 2 \in F!Health /\ IsWorst(2)  BY <1>1, <1>2, <1>4 DEF F!Health, F!FAULT
<1>6. F!Worst(h) \in F!Health /\ IsWorst(F!Worst(h))
  BY <1>5 DEF F!Worst
<1>7. F!Worst(h) = 2
  BY <1>1, <1>2, <1>6 DEF F!Health, F!OK, F!WARN, F!FAULT
<1>. QED  BY <1>1, <1>2, <1>7 DEF F!Culprits, F!OK

\* The step into SAFE latches this cycle's culprits and stalled tasks.
LEMMA EntryLatches ==
    ASSUME NEW readings, NEW answer, F!Cycle(readings, answer),
           state # "SAFE", state' = "SAFE"
    PROVE  /\ F!Culprits(F!Severity(readings, answer)) \subseteq sourceMask'
           /\ answer \subseteq taskMask'
<1>. DEFINE h == F!Severity(readings, answer)
<1>1. F!Step(F!Worst(h), F!Culprits(h), answer)  BY DEF F!Cycle
<1>2. F!EnterSafe(F!Worst(h), F!Culprits(h), answer)
  BY <1>1 DEF F!Step, F!FilterFault, F!ConfirmFault, F!StayNominal, F!Recovered,
              F!TryRecovery, F!StaySafe
<1>. QED  BY <1>2 DEF F!EnterSafe, F!Latched

\* The entry to SAFE blames the watchdog and every task whose counter was read
\* twice since it hung (watchdog_check's mask through fdir_step, fdir.c:211).
THEOREM SafeEntryNamesHung == TaskSpec => SafeNamesHung
<1>. DEFINE dead  == {t \in Task : age[t] = 2}
            Names == state # "SAFE" /\ state' = "SAFE" =>
                       dead \subseteq taskMask' /\ (dead # {} => F!WATCHDOG \in sourceMask')
<1>1. WdInv' /\ [TaskNext]_taskVars => [Names]_taskVars
  <2>. SUFFICES ASSUME WdInv', TaskNext, state # "SAFE", state' = "SAFE"
                PROVE  dead \subseteq taskMask' /\ (dead # {} => F!WATCHDOG \in sourceMask')
    OBVIOUS
  <2>1. PICK s \in SpacecraftState : FinishCycle(s)
    <3>1. ~UNCHANGED fdirHeld  BY DEF fdirHeld
    <3>2. ~F!ExitSafe  BY DEF F!ExitSafe
    <3>. QED  BY <3>1, <3>2 DEF TaskNext, FdirTaskStep
  <2>2. age' = age /\ phase' = "IDLE"  BY <2>1 DEF FinishCycle, EndCheck
  <2>3. dead \subseteq stalled'  BY <2>2 DEF WdInv, LoopInv, AgeInv
  <2>4. F!Cycle(Readings(s), stalled')  BY <2>1 DEF FinishCycle
  <2>5. /\ F!Culprits(F!Severity(Readings(s), stalled')) \subseteq sourceMask'
        /\ stalled' \subseteq taskMask'
    BY <2>4, EntryLatches
  <2>6. dead # {} => F!WATCHDOG \in F!Culprits(F!Severity(Readings(s), stalled'))
    BY <2>3, StallIsWorst, ReadingsTyped
  <2>. QED  BY <2>3, <2>5, <2>6
<1>2. TaskSpec => []WdInv  BY TaskImplementsParts, WdInvariant, PTL
<1>. QED  BY <1>1, <1>2, PTL DEF TaskSpec, SafeNamesHung

-----------------------------------------------------------------------------
(* The monitors, for every spacecraft_state *)

\* The three severities of the bus voltage, by its intervals.
LEMMA PowerBands ==
    ASSUME NEW v \in Int
    PROVE  /\ monitor_power(v) = 2 <=> v < 60
           /\ monitor_power(v) = 1 <=> v >= 60 /\ v < 70
           /\ monitor_power(v) = 0 <=> v >= 70
BY DEF monitor_power, Below, V_WARN, V_FAULT, HEALTH_OK, HEALTH_WARN, HEALTH_FAULT

\* The charge, likewise.
LEMMA BatteryBands ==
    ASSUME NEW p \in Int
    PROVE  /\ monitor_battery(p) = 2 <=> p < 15
           /\ monitor_battery(p) = 1 <=> p >= 15 /\ p < 30
           /\ monitor_battery(p) = 0 <=> p >= 30
BY DEF monitor_battery, Below, BATT_SOC_WARN_PCT, BATT_SOC_FAULT_PCT,
       HEALTH_OK, HEALTH_WARN, HEALTH_FAULT

\* The temperatures: the worst of two boxes, one of them bounded on both sides.
LEMMA ThermalBands ==
    ASSUME NEW obc \in Int, NEW batt \in Int
    PROVE  /\ monitor_thermal(obc, batt) = 2 <=> obc > 750 \/ batt > 500 \/ batt < -100
           /\ monitor_thermal(obc, batt) = 0 <=> obc <= 600 /\ batt <= 400 /\ batt >= 0
           /\ monitor_thermal(obc, batt) \in {0, 1, 2}
<1>. DEFINE o == Above(obc, OBC_TEMP_WARN_C, OBC_TEMP_FAULT_C)
            h == Above(batt, BATT_TEMP_HIGH_WARN_C, BATT_TEMP_HIGH_FAULT_C)
            l == Below(batt, BATT_TEMP_LOW_WARN_C, BATT_TEMP_LOW_FAULT_C)
<1>1. /\ o \in {0, 1, 2} /\ (o = 2 <=> obc > 750) /\ (o = 0 <=> obc <= 600)
  BY DEF Above, OBC_TEMP_WARN_C, OBC_TEMP_FAULT_C, HEALTH_OK, HEALTH_WARN, HEALTH_FAULT
<1>2. /\ h \in {0, 1, 2} /\ (h = 2 <=> batt > 500) /\ (h = 0 <=> batt <= 400)
  BY DEF Above, BATT_TEMP_HIGH_WARN_C, BATT_TEMP_HIGH_FAULT_C,
         HEALTH_OK, HEALTH_WARN, HEALTH_FAULT
<1>3. /\ l \in {0, 1, 2} /\ (l = 2 <=> batt < -100) /\ (l = 0 <=> batt >= 0)
  BY DEF Below, BATT_TEMP_LOW_WARN_C, BATT_TEMP_LOW_FAULT_C,
         HEALTH_OK, HEALTH_WARN, HEALTH_FAULT
<1>4. monitor_thermal(obc, batt) = health_worst(o, health_worst(h, l))
  BY DEF monitor_thermal
<1>. HIDE DEF o, h, l
<1>5. /\ monitor_thermal(obc, batt) = 2 <=> o = 2 \/ h = 2 \/ l = 2
      /\ monitor_thermal(obc, batt) = 0 <=> o = 0 /\ h = 0 /\ l = 0
      /\ monitor_thermal(obc, batt) \in {0, 1, 2}
  BY <1>1, <1>2, <1>3, <1>4 DEF health_worst
<1>. QED  BY <1>1, <1>2, <1>3, <1>5

LEMMA ThermalTable ==
    ASSUME NEW obc \in Int, NEW batt \in Int
    PROVE  monitor_thermal(obc, batt) =
             IF obc > 750 \/ batt \notin -100 .. 500 THEN HEALTH_FAULT
             ELSE IF obc \in 601 .. 750 \/ batt \notin 0 .. 400 THEN HEALTH_WARN
             ELSE HEALTH_OK
BY ThermalBands DEF HEALTH_OK, HEALTH_WARN, HEALTH_FAULT

\* A value that changes by no more than the WARN band does not jump over it.
LEMMA PowerSteps ==
    ASSUME NEW v \in Int, NEW w \in Int, Near(v, w, 10)
    PROVE  monitor_power(v) = 0 => monitor_power(w) # 2
<1>1. v - w <= 10  BY DEF Near
<1>. QED  BY <1>1, PowerBands

LEMMA BatterySteps ==
    ASSUME NEW v \in Int, NEW w \in Int, Near(v, w, 15)
    PROVE  monitor_battery(v) = 0 => monitor_battery(w) # 2
<1>1. v - w <= 15  BY DEF Near
<1>. QED  BY <1>1, BatteryBands

LEMMA ThermalSteps ==
    ASSUME NEW o \in Int, NEW p \in Int, Near(o, p, 150),
           NEW b \in Int, NEW c \in Int, Near(b, c, 100)
    PROVE  monitor_thermal(o, b) = 0 => monitor_thermal(p, c) # 2
<1>1. p - o <= 150 /\ c - b <= 100 /\ b - c <= 100  BY DEF Near
<1>. QED  BY <1>1, ThermalBands

-----------------------------------------------------------------------------
(* Their table, limits and order *)

\* For every reading in range the severities are those of the table in
\* docs/08-fdir.md:30 (fdir.c:12-34).
THEOREM TableMatched == \A s : InRange(s) => MatchesTable(s)
<1>. SUFFICES ASSUME NEW s, InRange(s) PROVE MatchesTable(s)  OBVIOUS
<1>1. /\ Readings(s).POWER = monitor_power(s.bus_voltage)
      /\ Readings(s).THERMAL = monitor_thermal(s.temp_obc, s.temp_batt)
      /\ Readings(s).BATTERY = monitor_battery(s.battery_pct)
  BY DEF Readings
<1>2. Readings(s).POWER = CASE s.bus_voltage \in 0 .. 59   -> HEALTH_FAULT
                            [] s.bus_voltage \in 60 .. 69  -> HEALTH_WARN
                            [] s.bus_voltage >= 70         -> HEALTH_OK
  BY <1>1, PowerBands DEF InRange, HEALTH_OK, HEALTH_WARN, HEALTH_FAULT
<1>3. Readings(s).THERMAL =
        IF s.temp_obc > 750 \/ s.temp_batt \notin -100 .. 500 THEN HEALTH_FAULT
        ELSE IF s.temp_obc \in 601 .. 750 \/ s.temp_batt \notin 0 .. 400 THEN HEALTH_WARN
        ELSE HEALTH_OK
  <2>1. s.temp_obc \in Int /\ s.temp_batt \in Int  BY DEF InRange
  <2>. DEFINE o == s.temp_obc
              b == s.temp_batt
              r == Readings(s).THERMAL
  <2>2. o \in Int /\ b \in Int /\ r = monitor_thermal(o, b)  BY <1>1, <2>1
  <2>. HIDE DEF o, b, r
  <2>3. r = IF o > 750 \/ b \notin -100 .. 500 THEN HEALTH_FAULT
            ELSE IF o \in 601 .. 750 \/ b \notin 0 .. 400 THEN HEALTH_WARN
            ELSE HEALTH_OK
    BY <2>2, ThermalTable
  <2>. QED  BY <2>3 DEF o, b, r
<1>4. Readings(s).BATTERY = CASE s.battery_pct \in 0 .. 14  -> HEALTH_FAULT
                              [] s.battery_pct \in 15 .. 29 -> HEALTH_WARN
                              [] s.battery_pct \in 30 .. 100 -> HEALTH_OK
  BY <1>1, BatteryBands DEF InRange, HEALTH_OK, HEALTH_WARN, HEALTH_FAULT
<1>. QED  BY <1>2, <1>3, <1>4 DEF MatchesTable

\* The power fault is the limit of the Session 3 program (fdir.c:13-14).
THEOREM SameLimit == \A s : InRange(s) => SameLimitAsSession3(s)
<1>. SUFFICES ASSUME NEW s, InRange(s) PROVE SameLimitAsSession3(s)  OBVIOUS
<1>1. Readings(s).POWER = monitor_power(s.bus_voltage)  BY DEF Readings
<1>. QED  BY <1>1, PowerBands DEF InRange, SameLimitAsSession3, Hk!ApplyLimits,
                                  HEALTH_FAULT, V_FAULT

\* No monitor goes from OK to FAULT within a cycle, as long as no value drifts
\* by more than a WARN band (fdir.h:33-42).
THEOREM WarnComesFirst ==
    \A s, t : InRange(s) /\ InRange(t) /\ Drifts(s, t) => WarnsBeforeFault(s, t)
<1>. SUFFICES ASSUME NEW s, NEW t, InRange(s), InRange(t), Drifts(s, t)
              PROVE  WarnsBeforeFault(s, t)
  OBVIOUS
<1>1. /\ s.bus_voltage \in Int /\ s.temp_obc \in Int
      /\ s.temp_batt \in Int /\ s.battery_pct \in Int
      /\ t.bus_voltage \in Int /\ t.temp_obc \in Int
      /\ t.temp_batt \in Int /\ t.battery_pct \in Int
  BY DEF InRange
<1>2. /\ Near(s.bus_voltage, t.bus_voltage, 10) /\ Near(s.temp_obc, t.temp_obc, 150)
      /\ Near(s.temp_batt, t.temp_batt, 100) /\ Near(s.battery_pct, t.battery_pct, 15)
  BY DEF Drifts, V_WARN, V_FAULT, OBC_TEMP_WARN_C, OBC_TEMP_FAULT_C,
         BATT_TEMP_HIGH_WARN_C, BATT_TEMP_HIGH_FAULT_C, BATT_SOC_WARN_PCT, BATT_SOC_FAULT_PCT
<1>3. monitor_power(s.bus_voltage) = 0 => monitor_power(t.bus_voltage) # 2
  BY <1>1, <1>2, PowerSteps
<1>4. monitor_thermal(s.temp_obc, s.temp_batt) = 0
         => monitor_thermal(t.temp_obc, t.temp_batt) # 2
  BY <1>1, <1>2, ThermalSteps
<1>5. monitor_battery(s.battery_pct) = 0 => monitor_battery(t.battery_pct) # 2
  BY <1>1, <1>2, BatterySteps
<1>. QED  BY <1>3, <1>4, <1>5 DEF WarnsBeforeFault, Monitor, Readings, HEALTH_OK, HEALTH_FAULT
=============================================================================
