# TLA+ verification of the spacecraft flight-software lab

This directory models the onboard software under `src/labs/` in TLA+, checks it
with TLC on small instances and proves its main properties with TLAPS for every
value of the constants.

## The system and its parts

The program is a set of C labs that grow into one onboard stack: housekeeping on
bare metal (lab 01), the same on FreeRTOS tasks (lab 02), packets and
telecommands (lab 03), a router with store-and-forward (lab 04) and fault
detection, isolation and recovery, FDIR (lab 05).

| Component | Code | State it keeps | Operations | Modules |
|---|---|---|---|---|
| Packet store | `04-obdh/store.c` | ring of 16 slots with lengths and stamps, `head`, `tail`, `count`, `dropped` | put (overwrite oldest), get (FIFO) | `RingStore`, `PacketStore`, `OverwriteFifo` |
| OBDH router | `04-obdh/obdh.c` | a housekeeping and an event store, contact flag, onboard clock, counters, the uplink context | ingest, set contact (drains), tick, build HK | `Obdh`, `Spacecraft` |
| Telecommand path | `03-tmtc/tc.c`, `uplink.c`, `verify.c` | report sequence count, four counters, exit-safe hook | handle one telecommand: validate, look up, execute, report | `CommandPath`, `Uplink`, `TcLink` |
| Packet formats | `03-tmtc/ccsds.c`, `pus.c`, parts of `tc.c`, `verify.c`, `obdh.c` | none but the counts of the builders | pack, parse, CRC-16, build | `PacketFormat`, `TcLink`, `TmStream` |
| FDIR | `05-fdir/fdir.c` | state, attempts, fault streak, previous severity, cause masks, counters, sequence counts | cycle (detect, isolate, recover), exit safe, build HK | `Fdir`, `FdirTask`, `Spacecraft` |
| Monitors | `05-fdir/fdir.c:8-34` | none | three threshold functions | `Monitors`, `FdirTask` |
| Watchdog | `05-fdir/fdir.c:58-79` | heartbeats and their last snapshot | kick (any task), check | `Watchdog`, `FdirTask` |
| HK state and limits | `01-foundation/hk_telemetry.c` | mode, call count | sample, apply limits, emit frame | `Housekeeping`, `HkPipeline` |
| HK pipeline | `02-rtos/hk_freertos.c` | queue of 4, two tasks | sample and send, receive and emit | `HkPipeline` |
| Four-task system | `02-rtos/hk_freertos_ipc.c` | queue, mutex, binary semaphore, statistics | sampler, telemetry, reporter, safe-mode handler | `HkIpc` |
| Telemetry demonstration | `03-tmtc/main.c` | one sequence count | sample, build, print | partly, in `TmStream` |

How they interact:

- The FDIR task reads heartbeats that the monitored tasks increment meanwhile; the
  watchdog's verdict and the monitors' severities are the input of one FDIR step
  (`FdirTask`).
- FDIR builds Service 5 events and hands them to the router by a call
  (`emit_event` -> `obdh_ingest`) in the middle of its own transition (`Spacecraft`).
- The router gives every telecommand to the command path, and puts the reports
  it answers with back into itself (`obdh_ingest` calls itself).
- TC[130,1] reaches FDIR through a callback (`exit_safe_hook`), which sends an
  event through the router while the router is still handling the telecommand:
  the router is entered three deep.
- Out of contact the router stores telemetry; the acquisition of contact drains
  the event store, then the housekeeping store, through the downlink callback.
- In lab 02 the sampler and telemetry tasks talk through a queue, the sampler and
  the reporter through a mutex, the sampler and the handler through a semaphore.

What is hard: the order of telemetry on the ground across stores, passes and
nested calls; losses at full stores that must be visible; an escalation policy
that depends on a history of readings although the code keeps only counters;
stale counters and masks from an earlier episode; a command that must either act
completely and be reported or leave no trace, whatever bits of it are damaged;
kicks that fall between the accesses of a watchdog check; the interleavings of
lab 02 and a telemetry task that runs late. `PROJECT.json` lists each as a hazard
at its line, with the properties for it.

What makes each part correct, in one line each:

- store: a bounded FIFO that overwrites its oldest entry and counts every loss;
- router: each class of telemetry reaches the ground in order, at most once,
  stored before live, events before housekeeping; the newest are kept; losses
  are counted; nothing waits while in contact;
- command path: only sound and valid telecommands act; every telecommand is
  counted once; the ground learns the fate and the cause of each from reports
  without a gap;
- formats: the ground reads in a packet what was put into it, and counts
  without a gap;
- FDIR: SAFE exactly when the policy over the readings says so, every rung tried
  once in order, one noisy reading never acts, the cause is kept for the episode;
- FDIR on the router: in contact the ground knows FDIR's state from the events and
  the number of events it misses from their counts;
- watchdog: a check reports exactly the tasks that did not kick; a task that hangs
  brings the vehicle to SAFE and is named as the cause;
- pipeline: frames in order and once, none lost while the telemetry task is
  late by less than the queue, and then the output of the Session 3 program;
- four-task system: consistent reports, the handler before the frame, no task in
  between holds up the sampler, every SAFE frame answered.

## Modules and how they correspond to the code

| Module | Role |
|---|---|
| `RingStore` | `store.c` as operators on a record-valued store: `StorePut`, `PutCode`, `Oldest`, `StoreGet`, `Drained` |
| `PacketStore` | one store driven through its whole interface; EXTENDS `RingStore` |
| `OverwriteFifo` | what a store promises: a sequence, a loss count, five actions; refined by `PacketStore` |
| `CommandPath` | what the command path does with one telecommand, one action per outcome; `Parse` makes the checks in the code's order |
| `Uplink` | the command path driven by the ground, with the log of reports |
| `Obdh` | the router with two stores (`RingStore`) and the command path (`CommandPath`) |
| `Fdir` | FDIR; one action per branch of `fdir_step`, and `Cycle`, `ExitSafe`, `BuildHk` for the entry points |
| `Spacecraft` | `Obdh` and `Fdir`: a cycle ingests the event it emits, TC[130,1] runs `ExitSafe` |
| `Watchdog` | kicks by the tasks, between the loads and the comparisons of `wd_init` and `watchdog_check` |
| `Monitors` | the three threshold functions, and the table they must match |
| `FdirTask` | `Watchdog`, `Monitors` and `Fdir`: the FDIR task beside the tasks it watches |
| `Housekeeping` | `apply_limits` and the Session 3 program, the abstract specification of the pipeline |
| `HkPipeline` | the two tasks of `hk_freertos.c` over an external kernel; refines `Housekeeping` |
| `HkIpc` | the four tasks of `hk_freertos_ipc.c`; EXTENDS `HkPipeline` for the queue, the clock and the telemetry task |
| `PacketFormat` | octets and words, header packing and parsing, the CRC, `tc_build`, the checks of `tc_parse`, the report builders, the router's choice of destination |
| `TcLink` | `CommandPath` under real octets: the ground builds, builds wrongly, damages or cuts a telecommand |
| `TmStream` | every telemetry builder over the sequence counts of the APIDs |
| `MC*` | TLC instances |
| `*_proofs` | theorems (eight modules: `RingStore`, `PacketStore`, `Fdir`, `FdirTask`, `HkPipeline`, `Obdh`, `Link`, `Spacecraft`); those of `HkIpc` and `Housekeeping` are in `HkPipeline_proofs`, those of `Uplink`, `TcLink` and `TmStream` in `Link_proofs` |

Modelling decisions:

- **Steps of labs 03 to 05.** They are passive objects called from one task. A call
  is one step, with everything it does: `AcquireContact` includes both drains,
  `IngestTc` the handler, the hook's event and the routing of the reports, `Cycle`
  the watchdog result, the step, the event, the hook and the write of `mode`. The
  one place where other tasks interfere is the heartbeats, so in `Watchdog` a
  check is a step for each load of a counter (`Load`) and a step for the rest of
  the iteration (`Compare`). An increment has one writer and is one step.
- **Steps of lab 02.** The kernel is external: the ready task of the highest
  (in `HkIpc`: effective) priority runs up to its next kernel call. Within the
  reporter's critical section two reads are two steps, since the sampler could
  preempt there. The clock counts sampler periods and may advance while a task works,
  up to `lag` periods ahead of the telemetry task; `lag` is chosen at the start.
- **Uninitialised mode.** `vSamplerTask` reads the mode of a fresh local. It is any
  mode, or, in behaviours with `keeps`, what the last iteration left in the same
  stack slot.
- **Packets.** In `RingStore` and `Obdh` a packet is an opaque value with a length,
  or an APID, a length and a serial number; `IngestMalformed` stands for what
  is refused. In `PacketFormat` a packet is a sequence of octets, and an octet or a
  word is the set of its bits that are set, so that a mask is an intersection, a
  shift a translation and a damaged bit a symmetric difference.
- **Telecommands.** In `CommandPath` a record of the length, the checks the packet
  would fail, the command and the ack flags; `TcLink` computes that record from
  octets (`AsSeen`), so that the two levels share the command path.
- **Damage on the link** is at most `MaxHarm` bits, before the checksum is
  computed (a wrongly built telecommand, `Misbuild`) or after it (`Damage`), or any
  truncation or one octet too many (`Resize`, the sweep of `uplink_test.c`).
- **FDIR inputs.** In `Fdir` a cycle takes any severity from every monitor and any set
  of stalled tasks; in `FdirTask` they come from the monitors and the watchdog.
  `emit_event` cannot fail in `Fdir` (the packet is 18 bytes long and its APID is
  routed), so `n_events` and `n_event_lost` are left out.
- **Refused exit.** `fdir_exit_safe` outside SAFE returns 0 and changes nothing,
  so it is a stutter of `Fdir`; in `CommandPath` it is the answer "REFUSED".
- **Units.** Voltages are tenths of a volt in `Monitors`, hundredths in the pipeline;
  temperatures are tenths of a degree. Rounding of floats is left out: the limits
  themselves are whole numbers, which a float holds exactly.
- **History variables** (`offered`, `taken`, `window`, `tried`, `trail`,
  `uplinked`, `log`, `ground`, `losAt`, `pass`, `named`, `exits`, `told`, `since`,
  `quiet`, `age`, `lost`, `counted`, `answered`, `downlink`) record what happened for
  the properties. No guard that models code reads them; those that bound the
  instance do (`offered`, `uplinked`, `pass`, `since`, `lost`).
- **Counters** of 32 bits are naturals where nothing can be told from their wrap;
  heartbeats, the 14-bit sequence counts and the 16-bit housekeeping counters
  wrap at a constant modulus.
- **Operators called mutants** in the comments are deliberate slips of the code
  next to the definition they replace. No specification uses them; they are there
  to show that each property fails when the code is wrong.

## Runs

Run with `tlc -workers 2 -config X.cfg M`; each ends within a few minutes.

| Run | Instance | States | Shows |
|---|---|---|---|
| `parts` (`MCParts`): store | 3 slots; two packets that fit, one too long, one absent; 7 offered; clock 0..2 | 1.2 million in all | no silent loss, stamps in order, implements `OverwriteFifo` |
| `parts`: uplink | 3 telecommands out of 23 kinds, any hook answer; sequence count modulo 5 | | only valid commands act, each fate reported, no gap, at most four reports |
| `parts`: FDIR | one sensor and the watchdog over two tasks; the real limits (2 confirmations, 3 attempts); counters modulo 2 | | the escalation policy, the ladder, the cause, the event trail, the mode |
| `fdir_task` (`MCFdirTask`) | two tasks, counters modulo 2, one kick between two reads; a good and a bad state; one attempt, one confirmation | 593 thousand | exact stalls, hung tasks reach SAFE and are named |
| `spacecraft_trail` (`MCSpacecraft`) | event store of 2, 5 events counted modulo 3, 2 telecommands (exits with and without reports, connection tests), 2 passes; the watchdog over one task, one attempt | 1.3 million | ground knowledge of FDIR across blackouts and losses, what the reports of an exit say |
| `tc_link` (`MCTcLink`) | one of four telecommands with up to two harmed bits or a cut; two telemetry packets of any kind from count 16383 on | 124 thousand | refused for the real cause, the command named; packets read back, counts without a gap |
| `obdh_passes` (`MCObdh`) | stores of 2; 4 telemetry packets of 4 kinds, 1 telecommand or malformed packet, 2 passes, clock 0..1 | 3.1 million | keeping, losing and ordering of telemetry |
| `pipeline` (`MCHkPipeline`) | the real 10 frames, queue of 4 and voltage profile; `lag` 1..6 | 763 thousand | frames once and in order, losses only when too late, termination, refinement |
| `ipc_tasks` (`MCHkIpc`) | 8 frames, queue of 4, the real profile, `lag` 5, reporter every 3 periods (5 in the code) | 516 thousand | consistent reports, order of response, no inversion, every signal handled |
| `fdir_event_source` (`MCFdir`) | as the FDIR part of `parts` | violation | see Findings |
| `obdh_short_tc` | as `obdh_passes` with 1 telemetry packet | violation | see Findings |
| `pipeline_mode_lost` | as `pipeline`, `lag` 1..3 | violation | see Findings |
| `pipeline_hangs` | as `pipeline`, `lag` 1..4 | violation | see Findings |
| `ipc_wakes` | as `ipc_tasks`, `lag` 1 | violation | see Findings |

`MCParts` runs the store, the command path and FDIR one at a time, each behind its
interface (the variable `part` says which): they share no state, so a behaviour of
the module is a behaviour of one of them. `Spacecraft` puts them together.

Why the bounds are enough for what the runs ask:

- Seven packets into three slots wrap `head` and `tail` twice and overwrite more
  packets than the store holds. The theorems cover every capacity.
- FDIR has no bound on the length of a run: all its variables are finite, the
  history of readings is a window of the last six (`Span`), which is what the
  policy looks at. One sensor suffices beside the watchdog, because FDIR treats
  sensors alike and uses only which of them are at the worst severity. The
  theorems cover any set of sensors and tasks.
- `fdir_task` has no bound on its length either. A counter modulo 2 with one kick
  between reads is the tightest case the assumption `MaxKicks < WMod` allows: with
  2^32 a task would have to kick 2^32 times between two checks to look stalled. The
  ladder is short because its length is checked in `parts`.
- Five events into an event store of two, over two blackouts, overwrite events of
  a finished episode and of a running one; the shortest way through NOMINAL,
  RECOVERING, SAFE and back is four events. Their count is taken modulo 3, so that it
  wraps twice. The theorems cover any number of events, sensors and tasks.
- Three telecommands are the shortest run in which an earlier one could disturb
  a later one twice; the sequence count wraps within it.
- Two damaged bits reach every pair of fields at once, all of the header and
  trailer included; CRC-16/CCITT detects every pair, so a damage the CRC misses is
  outside the bound. Theorems cover any telecommand and, with the damage the checks
  cannot see as an exception, any harm. Two telemetry packets from 16383 on wrap each count.
- Four packets fill a store of two twice over, so that overwriting, a drain and a
  second blackout all happen; a second pass is needed for order across passes.
- With `lag` up to 6 the sampler outruns a queue of 4, and below 4 it does not;
  the program's ten frames are all taken.
- Eight frames are enough for the profile to fall below the limit and for two
  reports; the reporter's shorter period makes its critical section meet the
  sampler more often than in the code.

`CHECK_DEADLOCK FALSE` is set where the environment may stop (the ground sends no
more telecommands, the bounds on telemetry are used up) and where the program
does (lab 02 stops its scheduler, or waits for ever, see Findings).

**Fairness.** `PipelineSpec` and `IpcSpec` assume weak fairness of the clock and of
each task: a task is enabled only when the kernel would run it, so this says that
time passes and the running task makes progress. `TaskSpec` assumes it of the FDIR
task, which the code runs periodically; nothing is assumed of the monitored
tasks or the ground. The liveness properties are `EndsUnlessLost`,
`SignalHandled` and `HungReachesSafe`. `HungReachesSafe` holds although the ground
may keep leaving SAFE, because FDIR re-enters it with each exit.

## Findings

Shown by runs:

- **A warning does not name its source** (`fdir_event_source`). `docs/08-fdir.md:17`
  says of the isolation masks "Carried in every event", but `EVT_WARN` is raised in
  NOMINAL, where the masks belong to no episode and are empty
  (`fdir.c:170-171`): the ground learns that something is at WARN, not what.
- **Short telecommands vanish in the router** (`obdh_short_tc`). `obdh.h:86-88` says
  telecommands are not length-checked in the router, because TM[1,2] "must not be
  pre-empted by a silent drop". The router refuses every packet below six bytes
  (`obdh.c:60`) and counts it as malformed; the command path answers from four.
- **SAFE can be lost in lab 02** (`pipeline_mode_lost`). The sample is a fresh,
  uninitialised local in every iteration (`hk_freertos.c:57`,
  `hk_freertos_ipc.c:99`) and `sample_state` does not set the mode that
  `apply_limits` reads, so a frame after a low one, itself marked SAFE, can be marked
  NOMINAL; `hk_telemetry.c:47` says "Once in SAFE, stays in SAFE".
- **A late lab 02 never ends** (`pipeline_hangs`). `02-rtos/README.md:39-40` says the
  program "exits cleanly instead of running forever", and `hk_freertos.c:72-74` that
  the telemetry task will "drain the last item and stop the scheduler". One frame
  dropped on a full queue, and the telemetry task waits for a frame that never comes
  (`hk_freertos.c:83`). Whenever no frame is dropped the program ends with all of them
  sent (`EndsUnlessLost`, checked by `pipeline`); with its own timing none is
  (`NothingLost`).
- **The handler is woken per frame, not per entry** (`ipc_wakes`).
  `hk_freertos_ipc.c:16-17` says of it "wakes only when the sampler signals a SAFE-mode
  entry"; the sampler gives the semaphore for every frame in SAFE (`:112`), so
  the handler runs again without an entry, even when the mode is kept.

Seen while modelling:

- Priority inheritance makes no difference in lab 02 (`NoInversion`): whenever the
  sampler waits for the mutex, no task of the priorities in between has work, since
  only the sampler gives it any. The safe-mode handler never takes the mutex.
- A damaged type bit sends a telecommand to the downlink or drops it as malformed
  telemetry, without a report (`obdh.c:69`); `RefusedForItsCause` therefore speaks
  of what is dispatched.

## Proofs

Check with `tlapm M.tla`. All theorems hold for every value of the constants that
satisfies the named assumptions (`StoreAssumption`, `BoundAssumption`,
`FdirAssumption`, `WatchdogAssumption`, `TaskAssumption`, `PipelineAssumption`,
`IpcAssumption`, `CommandPathAssumption`, `CraftAssumption`, `TcLinkAssumption`,
`TmStreamAssumption`, and those of `Uplink` and `Obdh`): any capacity and slot size,
number of attempts, confirmation length up to the saturation of the streak,
sensors and tasks, counter widths, frames, queue length, profile, and sets of
telecommands, and any value of the fields of a packet that fits their width.

**Store** (`RingStore_proofs`, `PacketStore_proofs`). The lemmas of `RingStore_proofs`
say what `MakeRoom`, `Write` and `StoreGet` do to the counters modulo the capacity
and to the contents read as a sequence (`Contents`): tail, append, tail. The
inductive invariant is the type invariant with `InStep` (head = tail + count modulo
the capacity); the loss equation and the order of the stamps are inductive relative
to it. The refinement maps `queue` to `Contents(store)`: each put and get maps to
one action of `OverwriteFifo`, a tick to a stutter.

**FDIR** (`Fdir_proofs`). The policy is stated over the history of readings
(`window`), the code keeps only counters, so the inductive invariant (`IInv`) ties
them together: in NOMINAL `streak` is exactly the run of FAULT readings at the newest
end of the window (`FaultRun`); in RECOVERING the last `attempts` readings are not OK,
the `Need` readings before them are FAULT, and the one before those, if the window
reaches it, is not (`EpisodeRun`). The last clause is what makes a longer FAULT run
impossible outside SAFE. From it follow the justification of SAFE
(`SafeJustified`), the time to SAFE (`TimeToSafe`) and the filter
(`NoiseFiltered`). The ladder, the trail, the isolation and the mode are conjuncts of
it; that a cause is never lost is a property of each step.

**Watchdog, monitors, FDIR task** (`FdirTask_proofs`). The invariant of the watchdog
says that a heartbeat is its snapshot plus the kicks since, modulo the width, which
is what makes "equal" mean "no kick" as long as fewer than a whole wrap fall between
two reads. `TaskImplementsParts` shows that the FDIR task implements the watchdog
and FDIR side by side, so `StallsExact` carries over. `SafeNamesHung` combines both: FDIR
enters SAFE on the worst reading of the cycle, a stall is the worst there is, and the check
of that cycle reports every task that is hung. The monitors are pure functions:
they match the documented table, share the limit of `apply_limits`, and no monitor
jumps from OK to FAULT when the values drift less than a WARN band in a cycle.

**Pipeline** (`HkPipeline_proofs`). `kept`, what is emitted, in
hand and queued, is followed through each step; its length with the losses is the
frame count. `NothingLost` rests on the clock: what is not yet emitted is at most
`lag`. The refinement shows each emission to be a cycle of the Session 3 program, as
long as the modes in `kept` form the latch, which is an invariant of on-time
behaviours with `keeps`. The Session 3 program latches SAFE (`SafeIsLatched`), and the
refinement hands this on to the pipeline (`PipelineLatches`).

**Four-task system** (`HkPipeline_proofs`). The invariant (`IpcInv`) has four parts
besides the types: who holds the mutex and where that task is in its code (`Locked`),
what the sampler has already done for the frame at hand (`InFrame`), that every frame in SAFE
is answered or about to be (`Answered`), and that what the reporter has read so far
is what the statistics are now, because the sampler cannot write them meanwhile (`Reading`).
`OnlyTheHolderDelays`, `HandlerRespondsFirst` and `ReportsOnePoint` follow from it.
`IpcAssumption` keeps the profile at or below the value the minimum of the statistics
starts from, 1e9f V in the code (`hk_freertos_ipc.c:65`), above any sample.

**Router** (`Obdh_proofs`). The inductive invariant (`OInv`) says of each class that
its store holds what has not reached the ground, in the order of offering and newer
than all that has (`Held`, `Down`), and of the ground's log that each pass is
events, housekeeping, live, in this order (`Passes`, `First`). Drains are
concatenations of the store's contents to the log. That nothing is lost unseen
(`LossVisible`) is a count: of each class, what was offered is what is on the ground, held
or dropped (`Counted`), and each step adds as much to either side. Out of contact a
store holds the last packets of its class offered since contact was lost, without a
hole (`NewestHeld`): the invariant (`NewestInv`) says so of the contents position by
position (`LastIn`), and a put shifts the positions by one exactly when it overwrites.

**Uplink** (`Link_proofs`). The reports of a telecommand form a chain of stages.
The invariant (`UInv`) ties the log to the uplink: the count is the length of the
log modulo the wrap, each report belongs to a telecommand sent before (`Upto`),
reports are numbered and staged, the counters are cardinalities of sets of
telecommands (`Tallied`) and what the ground concludes is what happened (`Told`).
That no report is cut off needs room for four per telecommand (`RoomForAll`, the
code has four), which is the hypothesis of those theorems that name it.

**FDIR on the router** (`Spacecraft_proofs`). Every step of the composition is one of the
router and one of FDIR, or leaves either alone (`CraftImplementsParts`), so the
invariants of both parts hold in it. What an FDIR step emits tells its outcome (`Tells`),
and a telecommand has one of four outcomes (`TcOutcome`): ignored, a connection
test, an exit refused, an exit obeyed. On these rest four invariants.
`ToldInv`: packet n is event n, carries the count n - 1 modulo the wrap, and the last one
tells FDIR's state. `LastKept`: the last event is on the ground or the newest in
the event store, whatever was dropped before it; since in contact the store is empty,
this gives `GroundKnows`, and `ToldInv` with the router's loss count gives `GapsTellLosses`.
`BackedAll`: a live report of success has its exit event before it, with reports only in
between (`ExitBeforeSuccess`). `Accounted`: executed commands are connection tests,
exits and failures reported (`RefusalIsVisible`). `CraftAssumption` says that an event
fits a packet buffer and that a telecommand may be answered by at least three reports.

**Octets** (`Link_proofs`). A word cut into octets and joined again is the same word
(`JoinBack`), so what is laid down at a place of a packet is read there (`FieldBack`), and a
header parses as it was packed (`HeaderBack`). Headers are followed by a checksum or a
payload, which leave the octets before them alone (`Behind`). The fields of each payload
tile it (`Tiled`), hence each octet belongs to one field (`PackedCarries`) and every field is
read back (`Unpacks`). `StreamInv` says this of each packet in the downlink (`BuildReads`),
ties the count of an APID to the number of its packets modulo 16384, and gives
`PacketsReadBack` and `CountsFollow`. For `ReportsNameIt` the invariant (`LinkInv`) is
that the first four octets of what is on the way are those the ground built while no bit
of them is harmed; every harm and every cut keeps that, and the reports copy them
(`QuotedIs`).

**The checksum** (`Link_proofs`). `tc_crc16` is a recursive function over the octets, so
that its value at n octets is what the register holds after them; that such a function
exists, and what holds of all its values, needs induction. It is proved once over sets
(`Inductive`: a set with 0 and with k + 1 for each of its k holds every natural), from the
pigeonhole principle for finite sets, since the library's induction theorems take an
operator. Of the register: a shift can be undone from what it leaves (`BitBack`), so
registers that differ stay different over octets that agree (`RunsApart`); and the
registers after two octets differ if these do (`BurstSeen`). A packet passes when the run
over all of it, checksum included, ends at zero (`CheckIsResidue`), and what `tc_build`
seals does (`SealPasses`). Hence damage within two adjacent octets is seen at any place
of a packet of any length. The feedback turns three bits for the one shifted out, so the
register keeps the parity of the octets fed to it (`OctetEven`): two packets that pass
differ in an even number of bits (`OddSeen`), and an odd number of damaged bits, wherever
they lie, is seen too.

**A harmed telecommand** (`Link_proofs`). `WayInv` says that what is on the way is, up to
the checksum, what `tc_build` made but for the bits harmed (`Marks`), and that a packet of
the right length is a sealed one but for its noise (`Clean`). So each field the router and
`tc_parse` look at is right exactly when no bit of it was harmed (`FieldsHit`), the first
check that fails names a cause (`Tells`), and the reports carry its code (`AnswersName`).
What is left is damage that no check sees, named `Missed`: noise in a packet that passes
the checks of length and checksum. Up to it the two properties hold for any harm
(`RefusedUnlessMissed`, `ActsUnlessMissed`). `Missed` is excluded for a burst in a whole
packet (`BurstRefused`), for any odd number of damaged bits (`OddRefused`), and for a single
harm of any kind (`OneHarmRefused`, `OneHarmNeverActs`, with `MaxHarm` at most 1). Two
harms would be too much for a theorem about any telecommand: after a cut a damaged length
can agree again, and whether the checksum does too depends on the application data.
`tc_link` checks two harms of its four telecommands.

Only model-checked: liveness under fairness, which the prover cannot do (`SignalHandled`,
`EndsUnlessLost`, `HungReachesSafe`), and of `RefusedForItsCause` and `OnlySoundActs` the
case of two harms.

## Plan

Done, in this order: the store, FDIR, the command path, the router; then FDIR on the
router, the watchdog, the monitors and the FDIR task, the pipeline and the
four-task system, the packet formats; theorems for each of them.

Left: that CRC-16/CCITT sees any two bits of a packet of up to 256 octets. It is a
computation, the powers of the shift below 2048, rather than an argument; `tc_link` makes
it for its telecommands.

## Not modelled, and why

- The self checks are tests. They, with the docs, say what the code is meant to do.
- The demonstration `main`s print; of `03-tmtc/main.c` the packet it builds and its
  sequence count are in `TmStream`, the asserts are properties there.
- The text of the frames and reports, and the mnemonics, are output only.
- FreeRTOS configuration and fatal-error hooks: build settings, and hooks that print and stop.
  The kernel itself is not in the repository; `HkPipeline` and `HkIpc` model what the
  tasks use of it.
- Tools: a script that fetches the kernel.

Hazards without a property: the stamps a drain discards (`obdh.c:44`) concern what
the ground could tell of two different histories, not one behaviour; the WARN
that follows a filtered FAULT unreported (`fdir.c:170`) is what the documents
promise; the limits (`fdir.c:13`) are a statement about pure functions, proved
rather than run.
