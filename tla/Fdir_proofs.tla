----------------------------- MODULE Fdir_proofs -----------------------------
(***************************************************************************)
(* The escalation policy of FDIR, for every number of attempts, every      *)
(* confirmation length and every set of monitors and tasks.                *)
(***************************************************************************)
EXTENDS Fdir, SequenceTheorems, TLAPS

USE DEF Confirmed, GaveUp, Latched

LEMMA NeedType == Need \in Nat /\ Need >= 1 /\ Span \in Nat /\ Span = Need + MaxAttempts + 1
BY FdirAssumption DEF Need, Span

-----------------------------------------------------------------------------
(* Inputs of a step *)

LEMMA WorstType ==
    ASSUME NEW h \in [Source -> Health]
    PROVE  /\ Worst(h) \in Health
           /\ Culprits(h) \subseteq Source
           /\ Worst(h) # OK => Culprits(h) # {}
           /\ \A m \in Source : h[m] <= Worst(h)
           /\ \A m \in Culprits(h) : h[m] = Worst(h)
           /\ Worst(h) # OK => \A m \in Source : h[m] = Worst(h) => m \in Culprits(h)
<1>1. WATCHDOG \in Source
  BY DEF Source
<1>2. \A m \in Source : h[m] \in {0, 1, 2}
  BY DEF Health, OK, WARN, FAULT
<1>3. \E w \in Health : (\E m \in Source : h[m] = w) /\ \A m \in Source : h[m] <= w
  <2>1. CASE \E m \in Source : h[m] = 2
    BY <1>2, <2>1 DEF Health, OK, WARN, FAULT
  <2>2. CASE (~\E m \in Source : h[m] = 2) /\ \E m \in Source : h[m] = 1
    BY <1>2, <2>2 DEF Health, OK, WARN, FAULT
  <2>3. CASE (~\E m \in Source : h[m] = 2) /\ ~\E m \in Source : h[m] = 1
    BY <1>1, <1>2, <2>3 DEF Health, OK, WARN, FAULT
  <2> QED BY <2>1, <2>2, <2>3
<1>4. /\ Worst(h) \in Health
      /\ \E m \in Source : h[m] = Worst(h)
      /\ \A m \in Source : h[m] <= Worst(h)
  BY <1>3 DEF Worst
<1> QED BY <1>4 DEF Culprits

LEMMA StepInputs ==
    ASSUME NEW readings \in [Sensor -> Health], NEW stalled \in SUBSET Task
    PROVE  LET h == Severity(readings, stalled)
           IN  /\ Worst(h) \in Health
               /\ Culprits(h) \subseteq Source
               /\ Worst(h) # OK => Culprits(h) # {}
               /\ Worst(h) = OK => Culprits(h) = {} /\ stalled = {}
               /\ stalled # {} <=> WATCHDOG \in Culprits(h)
<1> DEFINE h == Severity(readings, stalled)
<1>1. h \in [Source -> Health]
  BY DEF Severity, Source, Health
<1>2. h[WATCHDOG] = IF stalled = {} THEN OK ELSE FAULT
  BY DEF Severity, Source
<1>3. WATCHDOG \in Source
  BY DEF Source
<1> HIDE DEF h
<1>4. stalled # {} => Worst(h) = FAULT
  BY <1>1, <1>2, <1>3, WorstType DEF Health, OK, WARN, FAULT
<1>5. Worst(h) = OK => Culprits(h) = {}
  BY DEF Culprits
<1>6. stalled # {} => WATCHDOG \in Culprits(h)
  BY <1>1, <1>2, <1>3, <1>4, WorstType DEF OK, FAULT
<1>7. WATCHDOG \in Culprits(h) => stalled # {}
  BY <1>1, <1>2, <1>3, <1>5, WorstType
<1> QED BY <1>1, <1>4, <1>5, <1>6, <1>7, WorstType DEF h, OK, FAULT

-----------------------------------------------------------------------------
(* The window of readings, seen from its newest end *)

Ago(w, k) == w[Len(w) - k]

Mark      == {OK, WARN, FAULT, EXITED}
WindowOK  == window \in Seq(Mark) /\ Len(window) <= Span

LEMMA Remembered ==
    ASSUME WindowOK, NEW mark \in Mark, Remember(mark)
    PROVE  /\ WindowOK'
           /\ Len(window') = IF Len(window) = Span THEN Span ELSE Len(window) + 1
           /\ Ago(window', 0) = mark
           /\ \A k \in 1 .. Len(window') - 1 : Ago(window', k) = Ago(window, k - 1)
<1> DEFINE w == Append(window, mark)
<1>1. /\ window \in Seq(Mark) /\ Len(window) \in Nat /\ Len(window) <= Span
      /\ Span \in Nat /\ Span >= 1
  BY NeedType, FdirAssumption DEF WindowOK
<1>2. /\ w \in Seq(Mark) /\ Len(w) = Len(window) + 1 /\ w # <<>>
      /\ \A i \in 1 .. Len(window) : w[i] = window[i]
      /\ w[Len(window) + 1] = mark
  BY <1>1, AppendProperties
<1>3. window' = IF Len(w) > Span THEN Tail(w) ELSE w
  BY DEF Remember
<1> HIDE DEF w
<1>4. CASE Len(window) = Span
  <2>1. /\ window' = Tail(w) /\ window' \in Seq(Mark) /\ Len(window') = Span
        /\ \A i \in 1 .. Span : window'[i] = w[i + 1]
    BY <1>1, <1>2, <1>3, <1>4, HeadTailProperties
  <2>2. Ago(window', 0) = mark
    BY <1>1, <1>2, <1>4, <2>1 DEF Ago
  <2>3. ASSUME NEW k \in 1 .. Span - 1 PROVE Ago(window', k) = Ago(window, k - 1)
    <3>1. Span - k \in 1 .. Span /\ Span - k + 1 \in 1 .. Span /\ Span - (k - 1) = Span - k + 1
      BY <1>1
    <3> QED BY <1>1, <1>2, <1>4, <2>1, <3>1 DEF Ago
  <2> QED BY <1>1, <1>4, <2>1, <2>2, <2>3 DEF WindowOK
<1>5. CASE Len(window) # Span
  <2>1. window' = w /\ Len(window') = Len(window) + 1
    BY <1>1, <1>2, <1>3, <1>5
  <2>2. Ago(window', 0) = mark
    BY <1>1, <1>2, <2>1 DEF Ago
  <2>3. ASSUME NEW k \in 1 .. Len(window) PROVE Ago(window', k) = Ago(window, k - 1)
    <3>1. Len(window) + 1 - k \in 1 .. Len(window) /\ Len(window) - (k - 1) = Len(window) + 1 - k
      BY <1>1
    <3> QED BY <1>1, <1>2, <2>1, <3>1 DEF Ago
  <2>4. WindowOK'
    BY <1>1, <1>2, <1>5, <2>1 DEF WindowOK, Span, Need
  <2> QED BY <1>1, <1>5, <2>1, <2>2, <2>3, <2>4
<1> QED BY <1>4, <1>5

-----------------------------------------------------------------------------
(* The inductive invariant *)

\* What the window says about the counters: in NOMINAL the streak is exactly
\* the run of FAULT readings at the newest end; in RECOVERING that run was Need
\* long when it was confirmed, and no reading since was OK.
FaultRun(w, r) ==
    /\ r <= Len(w)
    /\ \A k \in 0 .. r - 1 : Ago(w, k) = FAULT
    /\ r = Len(w) \/ Ago(w, r) # FAULT

EpisodeRun(w, a) ==
    /\ a + Need <= Len(w)
    /\ \A k \in 0 .. a - 1 : Ago(w, k) \in {WARN, FAULT}
    /\ \A k \in a .. a + Need - 1 : Ago(w, k) = FAULT
    /\ a + Need = Len(w) \/ Ago(w, a + Need) # FAULT

WindowExplains ==
    /\ state = "NOMINAL" => FaultRun(window, streak)
    /\ state # "NOMINAL" => streak = 0
    /\ state = "RECOVERING" => EpisodeRun(window, attempts)

IInv == /\ FdirTypeOK /\ WindowOK /\ LadderInOrder /\ TrailTells
        /\ IsolationConsistent /\ WindowExplains

\* What fdir_cycle hands to fdir_step, and what it does after it.
Inputs(worst, sources, stalled) ==
    /\ worst \in Health /\ sources \subseteq Source /\ stalled \subseteq Task
    /\ worst # OK => sources # {}
    /\ worst = OK => sources = {} /\ stalled = {}
    /\ stalled # {} <=> WATCHDOG \in sources

Closing(worst, stalled) ==
    /\ stalledNow' = stalled
    /\ prevWorst' = worst
    /\ mode' = IF state' = "SAFE" THEN "SAFE" ELSE "NOMINAL"
    /\ UNCHANGED hkSeq
    /\ Remember(worst)

LEMMA EmitTold ==
    ASSUME NEW id, NEW worst, NEW sources, NEW tasks, NEW mark,
           Emit(id, worst, sources, tasks), Remember(mark)
    PROVE  TrailTells'
<1>1. emitted' # <<>> /\ emitted'[1].state = state' /\ emitted'[1].attempts = attempts'
  BY DEF Emit
<1> QED BY <1>1 DEF Remember, TrailTells

LEMMA QuietTold ==
    ASSUME NEW mark, Quiet, Remember(mark), TrailTells, UNCHANGED <<state, attempts>>
    PROVE  TrailTells'
BY DEF Quiet, Remember, TrailTells

LEMMA SeqType ==
    ASSUME evSeq \in 0 .. SeqMod - 1
    PROVE  (evSeq + 1) % SeqMod \in 0 .. SeqMod - 1
BY FdirAssumption

LEMMA CounterType ==
    ASSUME NEW n \in 0 .. CounterMod - 1 PROVE Inc(n) \in 0 .. CounterMod - 1
BY FdirAssumption DEF Inc

\* Typing of what every branch leaves to Closing and to the reports.
LEMMA ClosingTyped ==
    ASSUME IInv, NEW worst, NEW sources, NEW stalled, Inputs(worst, sources, stalled),
           Closing(worst, stalled), state' \in FdirState,
           evSeq' \in {evSeq, (evSeq + 1) % SeqMod}
    PROVE  /\ prevWorst' \in Health /\ stalledNow' \subseteq Task
           /\ evSeq' \in 0 .. SeqMod - 1 /\ hkSeq' \in 0 .. SeqMod - 1
           /\ mode' \in {"BOOT", "NOMINAL", "SAFE"}
           /\ worst \in Mark /\ WindowOK'
<1>1. worst \in Mark
  BY DEF Inputs, Health, Mark
<1>2. WindowOK'
  BY <1>1, Remembered DEF IInv, Closing
<1> QED BY <1>1, <1>2, SeqType DEF IInv, FdirTypeOK, Inputs, Closing

LEMMA FaultRunGrows ==
    ASSUME WindowOK, Remember(FAULT), NEW r \in Nat, r + 1 < Span, FaultRun(window, r)
    PROVE  FaultRun(window', r + 1)
<1>1. FAULT \in Mark
  BY DEF Mark
<1>2. /\ Len(window') = IF Len(window) = Span THEN Span ELSE Len(window) + 1
      /\ Ago(window', 0) = FAULT
      /\ \A k \in 1 .. Len(window') - 1 : Ago(window', k) = Ago(window, k - 1)
      /\ Len(window) \in Nat /\ Len(window) <= Span /\ Span \in Nat
  BY <1>1, Remembered, NeedType DEF WindowOK
<1>3. r + 1 <= Len(window')
  BY <1>2 DEF FaultRun
<1>4. ASSUME NEW k \in 0 .. (r + 1) - 1 PROVE Ago(window', k) = FAULT
  <2>1. CASE k = 0
    BY <1>2, <2>1
  <2>2. CASE k # 0
    <3>1. k \in 1 .. Len(window') - 1 /\ k - 1 \in 0 .. r - 1
      BY <1>2, <1>3, <2>2
    <3> QED BY <1>2, <3>1 DEF FaultRun
  <2> QED BY <2>1, <2>2
<1>5. r + 1 = Len(window') \/ Ago(window', r + 1) # FAULT
  <2>1. CASE r = Len(window)
    BY <1>2, <2>1
  <2>2. CASE r # Len(window)
    <3>1. r + 1 \in 1 .. Len(window') - 1 /\ (r + 1) - 1 = r
      BY <1>2, <2>2 DEF FaultRun
    <3> QED BY <1>2, <2>2, <3>1 DEF FaultRun
  <2> QED BY <2>1, <2>2
<1> QED BY <1>3, <1>4, <1>5 DEF FaultRun

LEMMA FilterPreserves ==
    ASSUME IInv, NEW worst, NEW sources, NEW stalled, Inputs(worst, sources, stalled),
           Closing(worst, stalled), FilterFault(worst)
    PROVE  IInv'
<1>1. /\ state = "NOMINAL" /\ state' = "NOMINAL" /\ worst = FAULT
      /\ streak \in Nat /\ streak' = streak + 1 /\ streak' < Need
      /\ evSeq' = evSeq
  BY NeedType, FdirAssumption DEF FilterFault, Bumped, IInv, FdirTypeOK, Quiet
<1>2. /\ prevWorst' \in Health /\ stalledNow' \subseteq Task
      /\ evSeq' \in 0 .. SeqMod - 1 /\ hkSeq' \in 0 .. SeqMod - 1
      /\ mode' \in {"BOOT", "NOMINAL", "SAFE"} /\ worst \in Mark /\ WindowOK'
  BY <1>1, ClosingTyped DEF FdirState
<1>3. FdirTypeOK'
  <2>1. streak' \in 0 .. Need - 1
    BY <1>1, NeedType
  <2> QED BY <1>1, <1>2, <2>1, CounterType DEF FilterFault, IInv, FdirTypeOK
<1>4. TrailTells'
  BY QuietTold DEF FilterFault, Closing, IInv
<1>5. LadderInOrder' /\ IsolationConsistent'
  BY <1>1 DEF FilterFault, IInv, LadderInOrder, IsolationConsistent
<1>6. WindowExplains'
  <2>1. FaultRun(window, streak) /\ streak + 1 < Span
    BY <1>1, NeedType, FdirAssumption DEF IInv, WindowExplains, FaultRun
  <2>2. FaultRun(window', streak + 1)
    BY <1>1, <2>1, FaultRunGrows DEF IInv, Closing
  <2> QED BY <1>1, <2>2 DEF WindowExplains, FaultRun
<1> QED BY <1>2, <1>3, <1>4, <1>5, <1>6 DEF IInv

LEMMA ConfirmPreserves ==
    ASSUME IInv, NEW worst, NEW sources, NEW stalled, Inputs(worst, sources, stalled),
           Closing(worst, stalled), ConfirmFault(worst, sources, stalled)
    PROVE  IInv'
<1>1. /\ state = "NOMINAL" /\ state' = "RECOVERING" /\ worst = FAULT
      /\ streak \in Nat /\ streak + 1 = Need /\ streak' = 0
      /\ attempts' = 0 /\ tried' = <<>>
      /\ sourceMask' = sources /\ taskMask' = stalled
      /\ evSeq' = (evSeq + 1) % SeqMod
  BY NeedType, FdirAssumption DEF ConfirmFault, Bumped, IInv, FdirTypeOK, Emit
<1>2. /\ prevWorst' \in Health /\ stalledNow' \subseteq Task
      /\ evSeq' \in 0 .. SeqMod - 1 /\ hkSeq' \in 0 .. SeqMod - 1
      /\ mode' \in {"BOOT", "NOMINAL", "SAFE"} /\ worst \in Mark /\ WindowOK'
  BY <1>1, ClosingTyped DEF FdirState
<1>3. FdirTypeOK'
  <2>1. streak' \in 0 .. Need - 1 /\ attempts' \in 0 .. MaxAttempts /\ state' \in FdirState
    BY <1>1, NeedType, FdirAssumption DEF FdirState
  <2> QED BY <1>1, <1>2, <2>1, CounterType DEF ConfirmFault, IInv, FdirTypeOK, Inputs
<1>4. TrailTells'
  BY EmitTold DEF ConfirmFault, Closing
<1>5. LadderInOrder'
  BY <1>1 DEF LadderInOrder
<1>6. IsolationConsistent'
  BY <1>1 DEF IsolationConsistent, Inputs, OK, FAULT
<1>7. WindowExplains'
  <2>1. FaultRun(window, streak) /\ streak + 1 < Span
    BY <1>1, NeedType, FdirAssumption DEF IInv, WindowExplains, FaultRun
  <2>2. FaultRun(window', streak + 1)
    BY <1>1, <2>1, FaultRunGrows DEF IInv, Closing
  <2>3. FaultRun(window', Need)
    BY <1>1, <2>2, NeedType DEF FaultRun
  <2>4. EpisodeRun(window', 0)
    BY <2>3, NeedType DEF EpisodeRun, FaultRun
  <2> QED BY <1>1, <2>4 DEF WindowExplains
<1> QED BY <1>2, <1>3, <1>4, <1>5, <1>6, <1>7 DEF IInv

\* A mark that is no FAULT ends the run of FAULT readings.
LEMMA RunEnds ==
    ASSUME WindowOK, NEW mark \in Mark, mark # FAULT, Remember(mark)
    PROVE  FaultRun(window', 0)
<1>1. Ago(window', 0) # FAULT /\ Len(window') \in Nat
  BY Remembered DEF WindowOK
<1> QED BY <1>1 DEF FaultRun

LEMMA StayNominalPreserves ==
    ASSUME IInv, NEW worst, NEW sources, NEW stalled, Inputs(worst, sources, stalled),
           Closing(worst, stalled), StayNominal(worst)
    PROVE  IInv'
<1>1. /\ state = "NOMINAL" /\ state' = "NOMINAL" /\ worst # FAULT /\ streak' = 0
      /\ UNCHANGED <<attempts, sourceMask, taskMask, nFaults, nSafeEntries, nFiltered, tried>>
      /\ evSeq' \in {evSeq, (evSeq + 1) % SeqMod}
  BY DEF StayNominal, Emit, Quiet
<1>2. /\ prevWorst' \in Health /\ stalledNow' \subseteq Task
      /\ evSeq' \in 0 .. SeqMod - 1 /\ hkSeq' \in 0 .. SeqMod - 1
      /\ mode' \in {"BOOT", "NOMINAL", "SAFE"} /\ worst \in Mark /\ WindowOK'
  BY <1>1, ClosingTyped DEF FdirState
<1>3. FdirTypeOK'
  BY <1>1, <1>2, NeedType DEF IInv, FdirTypeOK
<1>4. TrailTells'
  BY <1>1, EmitTold, QuietTold DEF StayNominal, Closing, IInv
<1>5. LadderInOrder' /\ IsolationConsistent'
  BY <1>1 DEF IInv, LadderInOrder, IsolationConsistent
<1>6. WindowExplains'
  BY <1>1, <1>2, RunEnds DEF IInv, Closing, WindowExplains, FaultRun
<1> QED BY <1>2, <1>3, <1>4, <1>5, <1>6 DEF IInv

LEMMA RecoveredPreserves ==
    ASSUME IInv, NEW worst, NEW sources, NEW stalled, Inputs(worst, sources, stalled),
           Closing(worst, stalled), Recovered(worst, sources, stalled)
    PROVE  IInv'
<1>1. /\ state = "RECOVERING" /\ state' = "NOMINAL" /\ worst = OK /\ sourceMask' = {} /\ taskMask' = {}
      /\ UNCHANGED <<attempts, streak, nFaults, nSafeEntries, nFiltered, tried>>
      /\ evSeq' = (evSeq + 1) % SeqMod
  BY DEF Recovered, Emit
<1>2. /\ prevWorst' \in Health /\ stalledNow' \subseteq Task
      /\ evSeq' \in 0 .. SeqMod - 1 /\ hkSeq' \in 0 .. SeqMod - 1
      /\ mode' \in {"BOOT", "NOMINAL", "SAFE"} /\ worst \in Mark /\ WindowOK'
  BY <1>1, ClosingTyped DEF FdirState
<1>3. FdirTypeOK'
  BY <1>1, <1>2 DEF IInv, FdirTypeOK, FdirState
<1>4. TrailTells'
  BY EmitTold DEF Recovered, Closing
<1>5. LadderInOrder' /\ IsolationConsistent'
  BY <1>1 DEF LadderInOrder, IsolationConsistent
<1>6. WindowExplains'
  BY <1>1, <1>2, RunEnds DEF IInv, Closing, WindowExplains, FaultRun, OK, FAULT
<1> QED BY <1>2, <1>3, <1>4, <1>5, <1>6 DEF IInv

LEMMA LadderAppend ==
    ASSUME NEW n \in Nat
    PROVE  Append([i \in 1 .. n |-> ActionForAttempt(i)], ActionForAttempt(n + 1))
              = [i \in 1 .. n + 1 |-> ActionForAttempt(i)]
<1> DEFINE Rung == {"RETRY", "RESET_DEVICE", "SWITCH_REDUNDANT"}
           q == [i \in 1 .. n |-> ActionForAttempt(i)]
           r == [i \in 1 .. n + 1 |-> ActionForAttempt(i)]
           e == ActionForAttempt(n + 1)
<1>1. \A i : ActionForAttempt(i) \in Rung
  BY DEF ActionForAttempt
<1>2. /\ q \in Seq(Rung) /\ Len(q) = n /\ r \in Seq(Rung) /\ Len(r) = n + 1 /\ e \in Rung
      /\ \A i \in 1 .. n : q[i] = ActionForAttempt(i)
      /\ \A i \in 1 .. n + 1 : r[i] = ActionForAttempt(i)
  BY <1>1
<1> HIDE DEF Rung, q, r
<1>3. /\ Append(q, e) \in Seq(Rung) /\ Len(Append(q, e)) = n + 1
      /\ \A i \in 1 .. n : Append(q, e)[i] = q[i]
      /\ Append(q, e)[n + 1] = e
  BY <1>2, AppendProperties
<1>4. \A i \in 1 .. n + 1 : i \in 1 .. n \/ i = n + 1
  OBVIOUS
<1>5. \A i \in 1 .. n + 1 : Append(q, e)[i] = r[i]
  BY <1>2, <1>3, <1>4
<1>6. Append(q, e) = r
  BY <1>2, <1>3, <1>5, SeqEqual
<1> QED BY <1>6 DEF q, r

\* One more rung tried, one more reading that was not OK.
LEMMA EpisodeGrows ==
    ASSUME WindowOK, NEW mark \in {WARN, FAULT}, Remember(mark),
           NEW a \in Nat, a < MaxAttempts, EpisodeRun(window, a)
    PROVE  EpisodeRun(window', a + 1)
<1>1. /\ Len(window') = IF Len(window) = Span THEN Span ELSE Len(window) + 1
      /\ Ago(window', 0) = mark
      /\ \A k \in 1 .. Len(window') - 1 : Ago(window', k) = Ago(window, k - 1)
      /\ Len(window) \in Nat /\ Len(window) <= Span
  BY Remembered DEF WindowOK, Mark
<1>2. Need \in Nat /\ Span = Need + MaxAttempts + 1 /\ MaxAttempts \in Nat /\ Need >= 1
  BY NeedType, FdirAssumption
<1> HIDE DEF Ago
<1>3. a + 1 + Need <= Len(window')
  BY <1>1, <1>2 DEF EpisodeRun
<1>4. ASSUME NEW k \in 0 .. (a + 1) - 1 PROVE Ago(window', k) \in {WARN, FAULT}
  <2>1. CASE k = 0
    BY <1>1, <2>1
  <2>2. CASE k # 0
    <3>1. k \in 1 .. Len(window') - 1 /\ k - 1 \in 0 .. a - 1
      BY <1>1, <1>2, <1>3, <2>2
    <3> QED BY <1>1, <3>1 DEF EpisodeRun
  <2> QED BY <2>1, <2>2
<1>5. ASSUME NEW k \in a + 1 .. (a + 1) + Need - 1 PROVE Ago(window', k) = FAULT
  <2>1. k \in 1 .. Len(window') - 1 /\ k - 1 \in a .. a + Need - 1
    BY <1>1, <1>2, <1>3
  <2> QED BY <1>1, <2>1 DEF EpisodeRun
<1>6. a + 1 + Need = Len(window') \/ Ago(window', a + 1 + Need) # FAULT
  <2>1. CASE a + Need = Len(window)
    BY <1>1, <1>2, <2>1
  <2>2. CASE a + Need # Len(window)
    <3>1. a + 1 + Need \in 1 .. Len(window') - 1 \/ a + 1 + Need = Len(window')
      BY <1>1, <1>2, <1>3
    <3>2. (a + 1 + Need) - 1 = a + Need
      BY <1>2
    <3> QED BY <1>1, <2>2, <3>1, <3>2 DEF EpisodeRun
  <2> QED BY <2>1, <2>2
<1> QED BY <1>3, <1>4, <1>5, <1>6 DEF EpisodeRun

LEMMA TryPreserves ==
    ASSUME IInv, NEW worst, NEW sources, NEW stalled, Inputs(worst, sources, stalled),
           Closing(worst, stalled), TryRecovery(worst, sources, stalled)
    PROVE  IInv'
<1>1. /\ state = "RECOVERING" /\ state' = "RECOVERING" /\ worst \in {WARN, FAULT}
      /\ attempts \in Nat /\ attempts < MaxAttempts /\ attempts' = attempts + 1
      /\ sourceMask' = sourceMask \cup sources /\ taskMask' = taskMask \cup stalled
      /\ tried' = Append(tried, ActionForAttempt(attempts'))
      /\ UNCHANGED <<streak, nFaults, nSafeEntries, nFiltered>>
      /\ evSeq' = (evSeq + 1) % SeqMod
  BY FdirAssumption DEF TryRecovery, Emit, IInv, FdirTypeOK, Inputs, Health
<1>2. /\ prevWorst' \in Health /\ stalledNow' \subseteq Task
      /\ evSeq' \in 0 .. SeqMod - 1 /\ hkSeq' \in 0 .. SeqMod - 1
      /\ mode' \in {"BOOT", "NOMINAL", "SAFE"} /\ worst \in Mark /\ WindowOK'
  BY <1>1, ClosingTyped DEF FdirState
<1>3. FdirTypeOK'
  <2>1. attempts' \in 0 .. MaxAttempts
    BY <1>1, FdirAssumption
  <2> QED BY <1>1, <1>2, <2>1 DEF IInv, FdirTypeOK, Inputs
<1>4. TrailTells'
  BY EmitTold DEF TryRecovery, Closing
<1>5. LadderInOrder'
  <2>1. tried = [i \in 1 .. attempts |-> ActionForAttempt(i)]
    BY <1>1 DEF IInv, LadderInOrder
  <2>2. tried' = [i \in 1 .. attempts' |-> ActionForAttempt(i)]
    BY <1>1, <2>1, LadderAppend
  <2> QED BY <1>1, <2>2 DEF LadderInOrder
<1>6. IsolationConsistent'
  BY <1>1 DEF IInv, IsolationConsistent, Inputs
<1>7. WindowExplains'
  <2>1. EpisodeRun(window', attempts + 1)
    BY <1>1, EpisodeGrows DEF IInv, Closing, WindowExplains
  <2> QED BY <1>1, <2>1 DEF IInv, WindowExplains
<1> QED BY <1>2, <1>3, <1>4, <1>5, <1>6, <1>7 DEF IInv

LEMMA EnterSafePreserves ==
    ASSUME IInv, NEW worst, NEW sources, NEW stalled, Inputs(worst, sources, stalled),
           Closing(worst, stalled), EnterSafe(worst, sources, stalled)
    PROVE  IInv'
<1>1. /\ state = "RECOVERING" /\ state' = "SAFE" /\ worst # OK /\ attempts = MaxAttempts
      /\ sourceMask' = sourceMask \cup sources /\ taskMask' = taskMask \cup stalled
      /\ UNCHANGED <<attempts, streak, nFaults, nFiltered, tried>>
      /\ nSafeEntries' = Inc(nSafeEntries)
      /\ evSeq' = (evSeq + 1) % SeqMod
  BY FdirAssumption DEF EnterSafe, Emit, IInv, FdirTypeOK
<1>2. /\ prevWorst' \in Health /\ stalledNow' \subseteq Task
      /\ evSeq' \in 0 .. SeqMod - 1 /\ hkSeq' \in 0 .. SeqMod - 1
      /\ mode' \in {"BOOT", "NOMINAL", "SAFE"} /\ worst \in Mark /\ WindowOK'
  BY <1>1, ClosingTyped DEF FdirState
<1>3. FdirTypeOK'
  BY <1>1, <1>2, CounterType DEF IInv, FdirTypeOK, Inputs, FdirState
<1>4. TrailTells'
  BY EmitTold DEF EnterSafe, Closing
<1>5. LadderInOrder' /\ IsolationConsistent'
  BY <1>1 DEF IInv, LadderInOrder, IsolationConsistent, Inputs
<1>6. WindowExplains'
  BY <1>1 DEF IInv, WindowExplains
<1> QED BY <1>2, <1>3, <1>4, <1>5, <1>6 DEF IInv

LEMMA StaySafePreserves ==
    ASSUME IInv, NEW worst, NEW sources, NEW stalled, Inputs(worst, sources, stalled),
           Closing(worst, stalled), StaySafe
    PROVE  IInv'
<1>1. /\ state = "SAFE" /\ state' = "SAFE" /\ evSeq' = evSeq
      /\ UNCHANGED <<attempts, streak, sourceMask, taskMask, nFaults, nSafeEntries,
                     nFiltered, tried>>
  BY DEF StaySafe, Quiet
<1>2. /\ prevWorst' \in Health /\ stalledNow' \subseteq Task
      /\ evSeq' \in 0 .. SeqMod - 1 /\ hkSeq' \in 0 .. SeqMod - 1
      /\ mode' \in {"BOOT", "NOMINAL", "SAFE"} /\ worst \in Mark /\ WindowOK'
  BY <1>1, ClosingTyped DEF FdirState
<1>3. FdirTypeOK'
  BY <1>1, <1>2 DEF IInv, FdirTypeOK
<1>4. TrailTells'
  BY <1>1, QuietTold DEF StaySafe, Closing, IInv
<1>5. LadderInOrder' /\ IsolationConsistent' /\ WindowExplains'
  BY <1>1 DEF IInv, LadderInOrder, IsolationConsistent, WindowExplains
<1> QED BY <1>2, <1>3, <1>4, <1>5 DEF IInv

LEMMA ExitPreserves == ASSUME IInv, ExitSafe PROVE IInv'
<1>1. /\ state' = "NOMINAL" /\ attempts' = 0 /\ streak' = 0
      /\ sourceMask' = {} /\ taskMask' = {} /\ evSeq' = (evSeq + 1) % SeqMod
      /\ UNCHANGED <<prevWorst, stalledNow, hkSeq, nFaults, nSafeEntries, nFiltered,
                     mode, tried>>
      /\ Remember(EXITED)
  BY DEF ExitSafe, Emit
<1>2. WindowOK' /\ FaultRun(window', 0)
  BY <1>1, Remembered, RunEnds DEF IInv, Mark, FAULT, EXITED
<1>3. FdirTypeOK'
  <2>1. /\ attempts' \in 0 .. MaxAttempts /\ streak' \in 0 .. Need - 1 /\ state' \in FdirState
        /\ evSeq' \in 0 .. SeqMod - 1
    BY <1>1, NeedType, SeqType, FdirAssumption DEF FdirState, IInv, FdirTypeOK
  <2> QED BY <1>1, <2>1 DEF IInv, FdirTypeOK
<1>4. TrailTells'
  BY EmitTold DEF ExitSafe
<1>5. LadderInOrder' /\ IsolationConsistent'
  BY <1>1 DEF LadderInOrder, IsolationConsistent
<1>6. WindowExplains'
  BY <1>1, <1>2 DEF WindowExplains
<1> QED BY <1>2, <1>3, <1>4, <1>5, <1>6 DEF IInv

LEMMA BuildHkPreserves == ASSUME IInv, BuildHk PROVE IInv'
<1>1. hkSeq' \in 0 .. SeqMod - 1
  BY FdirAssumption DEF BuildHk, IInv, FdirTypeOK
<1> QED BY <1>1 DEF BuildHk, IInv, FdirTypeOK, WindowOK, LadderInOrder, TrailTells,
                    IsolationConsistent, WindowExplains

\* A cycle is one branch of fdir_step, on proper inputs, and its closing.
LEMMA CycleIsBranch ==
    ASSUME NEW readings \in [Sensor -> Health], NEW stalled \in SUBSET Task,
           Cycle(readings, stalled)
    PROVE  \E worst, sources :
              /\ Inputs(worst, sources, stalled)
              /\ Closing(worst, stalled)
              /\ Step(worst, sources, stalled)
<1> DEFINE h == Severity(readings, stalled)
<1>1. Inputs(Worst(h), Culprits(h), stalled)
  BY StepInputs DEF Inputs
<1>2. Closing(Worst(h), stalled) /\ Step(Worst(h), Culprits(h), stalled)
  BY DEF Cycle, Closing, ModeOf
<1> QED BY <1>1, <1>2

LEMMA Inductive == IInv /\ [FdirNext]_fdirVars => IInv'
<1> SUFFICES ASSUME IInv, [FdirNext]_fdirVars PROVE IInv'
  OBVIOUS
<1>1. ASSUME NEW readings \in [Sensor -> Health], NEW stalled \in SUBSET Task,
             Cycle(readings, stalled)
      PROVE  IInv'
  <2>1. PICK worst, sources : /\ Inputs(worst, sources, stalled)
                              /\ Closing(worst, stalled)
                              /\ Step(worst, sources, stalled)
    BY <1>1, CycleIsBranch
  <2>2. CASE FilterFault(worst)
    BY <2>1, <2>2, FilterPreserves
  <2>3. CASE ConfirmFault(worst, sources, stalled)
    BY <2>1, <2>3, ConfirmPreserves
  <2>4. CASE StayNominal(worst)
    BY <2>1, <2>4, StayNominalPreserves
  <2>5. CASE Recovered(worst, sources, stalled)
    BY <2>1, <2>5, RecoveredPreserves
  <2>6. CASE EnterSafe(worst, sources, stalled)
    BY <2>1, <2>6, EnterSafePreserves
  <2>7. CASE TryRecovery(worst, sources, stalled)
    BY <2>1, <2>7, TryPreserves
  <2>8. CASE StaySafe
    BY <2>1, <2>8, StaySafePreserves
  <2> QED BY <2>1, <2>2, <2>3, <2>4, <2>5, <2>6, <2>7, <2>8 DEF Step
<1>2. CASE ExitSafe
  BY <1>2, ExitPreserves
<1>3. CASE BuildHk
  BY <1>3, BuildHkPreserves
<1>4. CASE UNCHANGED fdirVars
  BY <1>4 DEF fdirVars, IInv, FdirTypeOK, WindowOK, LadderInOrder, TrailTells,
              IsolationConsistent, WindowExplains
<1> QED BY <1>1, <1>2, <1>3, <1>4 DEF FdirNext

LEMMA InitEstablishes == FdirInit => IInv
<1> SUFFICES ASSUME FdirInit PROVE IInv
  OBVIOUS
<1>1. FdirTypeOK
  BY NeedType, FdirAssumption DEF FdirInit, FdirTypeOK, FdirState, Health, OK
<1>2. WindowOK /\ FaultRun(window, 0)
  BY NeedType DEF FdirInit, WindowOK, FaultRun
<1>3. WindowExplains
  BY <1>2 DEF FdirInit, WindowExplains
<1>4. LadderInOrder /\ TrailTells /\ IsolationConsistent
  BY DEF FdirInit, LadderInOrder, TrailTells, IsolationConsistent
<1> QED BY <1>1, <1>2, <1>3, <1>4 DEF IInv

LEMMA IInvHolds == FdirSpec => []IInv
<1>1. FdirInit => IInv
  BY InitEstablishes
<1>2. IInv /\ [FdirNext]_fdirVars => IInv'
  BY Inductive
<1> QED BY <1>1, <1>2, PTL DEF FdirSpec

-----------------------------------------------------------------------------
(* The escalation policy *)

\* Types: attempts never exceeds FDIR_MAX_ATTEMPTS, and the streak stays below
\* the confirmation length, so its saturation at 255 never bites (fdir_step).
THEOREM TypeCorrect == FdirSpec => []FdirTypeOK
<1>1. IInv => FdirTypeOK
  BY DEF IInv
<1> QED BY <1>1, IInvHolds, PTL

\* SAFE only after every rung, each once and in order (action_for_attempt).
THEOREM Ladder == FdirSpec => []LadderInOrder
<1>1. IInv => LadderInOrder
  BY DEF IInv
<1> QED BY <1>1, IInvHolds, PTL

\* Replaying the events gives FDIR's state and attempts (emit_event).
THEOREM EventTrail == FdirSpec => []TrailTells
<1>1. IInv => TrailTells
  BY DEF IInv
<1> QED BY <1>1, IInvHolds, PTL

\* An episode has a cause, and it names stalled tasks exactly when the watchdog
\* is part of that cause (source_mask, task_mask).
THEOREM Isolation == FdirSpec => []IsolationConsistent
<1>1. IInv => IsolationConsistent
  BY DEF IInv
<1> QED BY <1>1, IInvHolds, PTL

LEMMA FullWindow == IInv => PersistentFaultReachesSafe
<1> SUFFICES ASSUME IInv, Len(window) = Span,
                    \A i \in 1 .. Span : window[i] = FAULT, state # "SAFE"
             PROVE  FALSE
  BY DEF PersistentFaultReachesSafe
<1>1. Need \in Nat /\ Span = Need + MaxAttempts + 1 /\ MaxAttempts \in Nat
  BY NeedType, FdirAssumption
<1>2. ASSUME NEW r \in 0 .. Span - 1 PROVE Ago(window, r) = FAULT
  <2>1. Span - r \in 1 .. Span
    BY <1>1
  <2> QED BY <2>1 DEF Ago
<1>3. CASE state = "NOMINAL"
  <2>1. streak \in 0 .. Span - 1
    BY <1>1 DEF IInv, FdirTypeOK
  <2> QED BY <1>1, <1>2, <1>3, <2>1 DEF IInv, WindowExplains, FaultRun
<1>4. CASE state = "RECOVERING"
  <2>1. attempts + Need \in 0 .. Span - 1
    BY <1>1 DEF IInv, FdirTypeOK
  <2> QED BY <1>1, <1>2, <1>4, <2>1 DEF IInv, WindowExplains, EpisodeRun
<1> QED BY <1>3, <1>4 DEF IInv, FdirTypeOK, FdirState

\* A fault that persists reaches SAFE within confirm + attempts + 1 readings,
\* from whatever state it finds FDIR in (fdir_step).
THEOREM TimeToSafe == FdirSpec => []PersistentFaultReachesSafe
<1>1. IInv => PersistentFaultReachesSafe
  BY FullWindow
<1> QED BY <1>1, IInvHolds, PTL

LEMMA EntryWindow ==
    ASSUME IInv, NEW worst, NEW sources, NEW stalled, Inputs(worst, sources, stalled),
           Closing(worst, stalled), EnterSafe(worst, sources, stalled)
    PROVE  JustifiesSafe(window')
<1>1. /\ worst \in {WARN, FAULT} /\ attempts = MaxAttempts /\ EpisodeRun(window, MaxAttempts)
      /\ WindowOK /\ Remember(worst) /\ worst \in Mark
  BY FdirAssumption DEF EnterSafe, IInv, FdirTypeOK, WindowExplains, Inputs, Health,
                        Closing, Mark
<1>2. /\ Len(window') = IF Len(window) = Span THEN Span ELSE Len(window) + 1
      /\ Ago(window', 0) = worst
      /\ \A k \in 1 .. Len(window') - 1 : Ago(window', k) = Ago(window, k - 1)
      /\ Len(window) \in Nat /\ Len(window) <= Span
  BY <1>1, Remembered DEF WindowOK
<1>3. Need \in Nat /\ Span = Need + MaxAttempts + 1 /\ MaxAttempts \in Nat /\ Need >= 1
  BY NeedType, FdirAssumption
<1>4. Len(window') = Span
  BY <1>1, <1>2, <1>3 DEF EpisodeRun
<1>5. ASSUME NEW i \in 1 .. Span PROVE window'[i] = Ago(window', Span - i)
  <2>1. Span - (Span - i) = i
    BY <1>3
  <2> QED BY <1>4, <2>1 DEF Ago
<1>6. ASSUME NEW i \in 1 .. Need PROVE window'[i] = FAULT
  <2>1. /\ i \in 1 .. Span /\ Span - i \in 1 .. Span - 1
        /\ Span - i - 1 \in MaxAttempts .. MaxAttempts + Need - 1
    BY <1>3
  <2> QED BY <1>1, <1>2, <1>4, <1>5, <2>1 DEF EpisodeRun
<1>7. ASSUME NEW i \in Need + 1 .. Span PROVE window'[i] \in {WARN, FAULT}
  <2>1. CASE i = Span
    <3>1. Span - i = 0 /\ i \in 1 .. Span
      BY <1>3, <2>1
    <3> QED BY <1>1, <1>2, <1>5, <3>1
  <2>2. CASE i # Span
    <3>1. /\ i \in 1 .. Span /\ Span - i \in 1 .. Span - 1
          /\ Span - i - 1 \in 0 .. MaxAttempts - 1
      BY <1>3, <2>2
    <3> QED BY <1>1, <1>2, <1>4, <1>5, <3>1 DEF EpisodeRun
  <2> QED BY <2>1, <2>2
<1> QED BY <1>4, <1>6, <1>7 DEF JustifiesSafe

LEMMA ConfirmWindow ==
    ASSUME IInv, NEW worst, NEW sources, NEW stalled, Inputs(worst, sources, stalled),
           Closing(worst, stalled), ConfirmFault(worst, sources, stalled)
    PROVE  /\ Len(window') >= Need
           /\ \A i \in Len(window') - Need + 1 .. Len(window') : window'[i] = FAULT
<1>1. /\ IInv' /\ state' = "RECOVERING" /\ attempts' = 0
  BY ConfirmPreserves DEF ConfirmFault
<1>2. EpisodeRun(window', 0) /\ Len(window') \in Nat
  BY <1>1 DEF IInv, WindowExplains, WindowOK
<1>3. Need \in Nat
  BY NeedType
<1>4. ASSUME NEW i \in Len(window') - Need + 1 .. Len(window') PROVE window'[i] = FAULT
  <2>1. Len(window') - i \in 0 .. 0 + Need - 1 /\ Len(window') - (Len(window') - i) = i
    BY <1>2, <1>3
  <2> QED BY <1>2, <2>1 DEF EpisodeRun, Ago
<1> QED BY <1>2, <1>3, <1>4 DEF EpisodeRun

EntryProp == state # "SAFE" /\ state' = "SAFE" => JustifiesSafe(window')
NoiseProp ==
    /\ state = "NOMINAL" /\ state' # "NOMINAL" =>
          /\ Len(window') >= Need
          /\ \A i \in Len(window') - Need + 1 .. Len(window') : window'[i] = FAULT
    /\ acted' # <<>> => state = "RECOVERING"
CauseProp ==
    state # "NOMINAL" /\ state' # "NOMINAL" =>
        sourceMask \subseteq sourceMask' /\ taskMask \subseteq taskMask'

LEMMA StepProps ==
    IInv /\ [FdirNext]_fdirVars => [EntryProp /\ NoiseProp /\ CauseProp]_fdirVars
<1> SUFFICES ASSUME IInv, FdirNext PROVE EntryProp /\ NoiseProp /\ CauseProp
  OBVIOUS
<1>1. ASSUME NEW readings \in [Sensor -> Health], NEW stalled \in SUBSET Task,
             Cycle(readings, stalled)
      PROVE  EntryProp /\ NoiseProp /\ CauseProp
  <2>1. PICK worst, sources : /\ Inputs(worst, sources, stalled)
                              /\ Closing(worst, stalled)
                              /\ Step(worst, sources, stalled)
    BY <1>1, CycleIsBranch
  <2>2. CASE FilterFault(worst)
    BY <2>2 DEF FilterFault, EntryProp, NoiseProp, CauseProp
  <2>3. CASE ConfirmFault(worst, sources, stalled)
    <3>1. /\ Len(window') >= Need
          /\ \A i \in Len(window') - Need + 1 .. Len(window') : window'[i] = FAULT
      BY <2>1, <2>3, ConfirmWindow
    <3>2. state = "NOMINAL" /\ state' = "RECOVERING" /\ acted' = <<>>
      BY <2>3 DEF ConfirmFault
    <3> QED BY <3>1, <3>2 DEF EntryProp, NoiseProp, CauseProp
  <2>4. CASE StayNominal(worst)
    BY <2>4 DEF StayNominal, EntryProp, NoiseProp, CauseProp
  <2>5. CASE Recovered(worst, sources, stalled)
    BY <2>5 DEF Recovered, EntryProp, NoiseProp, CauseProp
  <2>6. CASE EnterSafe(worst, sources, stalled)
    <3>1. JustifiesSafe(window')
      BY <2>1, <2>6, EntryWindow
    <3>2. /\ state = "RECOVERING" /\ sourceMask' = sourceMask \cup sources
          /\ taskMask' = taskMask \cup stalled
      BY <2>6 DEF EnterSafe
    <3> QED BY <3>1, <3>2 DEF EntryProp, NoiseProp, CauseProp
  <2>7. CASE TryRecovery(worst, sources, stalled)
    BY <2>7 DEF TryRecovery, EntryProp, NoiseProp, CauseProp
  <2>8. CASE StaySafe
    BY <2>8 DEF StaySafe, EntryProp, NoiseProp, CauseProp
  <2> QED BY <2>1, <2>2, <2>3, <2>4, <2>5, <2>6, <2>7, <2>8 DEF Step
<1>2. CASE ExitSafe
  BY <1>2 DEF ExitSafe, EntryProp, NoiseProp, CauseProp
<1>3. CASE BuildHk
  BY <1>3 DEF BuildHk, EntryProp, NoiseProp, CauseProp
<1> QED BY <1>1, <1>2, <1>3 DEF FdirNext

\* SAFE is entered only on Need FAULT readings in a row followed by
\* MaxAttempts + 1 readings that were not OK, no ground exit among them.
THEOREM SafeJustified == FdirSpec => SafeEntryJustified
<1>1. IInv /\ [FdirNext]_fdirVars => [EntryProp]_fdirVars
  BY StepProps
<1> QED BY <1>1, IInvHolds, PTL DEF FdirSpec, SafeEntryJustified, EntryProp

\* A noisy reading never starts recovery, and no hook runs outside an episode.
THEOREM NoiseFiltered == FdirSpec => NoActionOnNoise
<1>1. IInv /\ [FdirNext]_fdirVars => [NoiseProp]_fdirVars
  BY StepProps
<1> QED BY <1>1, IInvHolds, PTL DEF FdirSpec, NoActionOnNoise, NoiseProp

\* The cause of an episode only grows until the episode ends.
THEOREM CauseNeverLost == FdirSpec => CauseKept
<1>1. IInv /\ [FdirNext]_fdirVars => [CauseProp]_fdirVars
  BY StepProps
<1> QED BY <1>1, IInvHolds, PTL DEF FdirSpec, CauseKept, CauseProp
-----------------------------------------------------------------------------
(* The vehicle mode *)

ModeInv == ModeFollows

LEMMA ModeStep == IInv /\ ModeInv /\ [FdirNext]_fdirVars => ModeInv'
<1> SUFFICES ASSUME IInv, ModeInv, [FdirNext]_fdirVars PROVE ModeInv'
  OBVIOUS
<1>1. WindowOK
  BY DEF IInv
<1>2. ASSUME NEW mark \in Mark, Remember(mark)
      PROVE  window' # <<>> /\ window'[Len(window')] = mark
  <2>1. /\ Ago(window', 0) = mark /\ WindowOK'
        /\ Len(window') = IF Len(window) = Span THEN Span ELSE Len(window) + 1
    BY <1>1, <1>2, Remembered
  <2>2. Len(window) \in Nat /\ Span \in Nat /\ Span >= 1
    BY <1>1, NeedType, FdirAssumption DEF WindowOK
  <2>3. Len(window') >= 1
    BY <2>1, <2>2
  <2>4. window' # <<>>
    BY <2>3
  <2>5. Len(window') - 0 = Len(window')
    BY <2>1, <2>2
  <2> QED BY <2>1, <2>4, <2>5 DEF Ago
<1>3. ASSUME NEW readings \in [Sensor -> Health], NEW stalled \in SUBSET Task,
             Cycle(readings, stalled)
      PROVE  ModeInv'
  <2> DEFINE worst == Worst(Severity(readings, stalled))
  <2>1. worst \in Health
    BY StepInputs
  <2>2. worst \in Mark /\ worst # EXITED /\ Remember(worst)
    BY <1>3, <2>1 DEF Cycle, Mark, Health, OK, WARN, FAULT, EXITED
  <2>3. mode' = ModeOf(state')
    BY <1>3 DEF Cycle
  <2> HIDE DEF worst
  <2>4. window' # <<>> /\ window'[Len(window')] = worst
    BY <1>2, <2>2
  <2> QED BY <2>2, <2>3, <2>4 DEF ModeInv, ModeFollows, ModeOf
<1>4. CASE ExitSafe
  <2>1. window' # <<>> /\ window'[Len(window')] = EXITED
    BY <1>2, <1>4 DEF ExitSafe, Mark
  <2>2. state = "SAFE" /\ mode' = mode
    BY <1>4 DEF ExitSafe
  <2> QED BY <2>1, <2>2 DEF ModeInv, ModeFollows
<1>5. CASE BuildHk \/ UNCHANGED fdirVars
  <2>1. UNCHANGED <<state, window, mode>>
    BY <1>5 DEF BuildHk, fdirVars
  <2> QED BY <2>1 DEF ModeInv, ModeFollows
<1> QED BY <1>3, <1>4, <1>5 DEF FdirNext

\* A reader of the vehicle mode sees SAFE exactly in SAFE and between a ground
\* exit and the next cycle (fdir_cycle, fdir_exit_safe).
THEOREM ModeFollowing == FdirSpec => []ModeFollows
<1>1. FdirInit => ModeInv
  BY DEF FdirInit, ModeInv, ModeFollows
<1>2. IInv /\ ModeInv /\ [FdirNext]_fdirVars => ModeInv'
  BY ModeStep
<1>3. ModeInv => ModeFollows
  BY DEF ModeInv
<1> QED BY <1>1, <1>2, <1>3, IInvHolds, PTL DEF FdirSpec
=============================================================================
