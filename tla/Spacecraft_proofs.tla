--------------------------- MODULE Spacecraft_proofs ---------------------------
(***************************************************************************)
(* What the ground can tell of FDIR from the packets it gets, for any      *)
(* sensors, tasks, capacities and traffic: the composition is a router and *)
(* an FDIR state machine at once, and the events tie the two together.     *)
(***************************************************************************)
EXTENDS Spacecraft, Obdh_proofs

-----------------------------------------------------------------------------
(* The composition implements its parts *)

LEMMA RouterStep == [CraftNext]_craftVars => [ObdhNext]_obdhVars
<1> SUFFICES ASSUME [CraftNext]_craftVars PROVE [ObdhNext]_obdhVars  OBVIOUS
<1>1. CASE \E readings \in [Sensor -> F!Health], stalled \in SUBSET Task : CraftCycle(readings, stalled)
  <2>1. UNCHANGED obdhVars \/ \E p \in TmPacket : IngestTm(p)  BY <1>1 DEF CraftCycle
  <2> QED BY <2>1 DEF ObdhNext
<1>2. CASE \E tc \in Sent : CraftTc(tc)
  <2>1. PICK tc \in Sent : IngestTc(tc, ExitHook)  BY <1>2 DEF CraftTc
  <2>2. ExitHook \in Hook  BY DEF ExitHook, Hook
  <2> QED BY <2>1, <2>2 DEF ObdhNext
<1>3. CASE CraftContact  BY <1>3 DEF CraftContact, ObdhNext
<1>4. CASE UNCHANGED craftVars  BY <1>4 DEF craftVars
<1> QED BY <1>1, <1>2, <1>3, <1>4 DEF CraftNext

LEMMA FdirStep == [CraftNext]_craftVars => [F!FdirNext]_(F!fdirVars)
<1> SUFFICES ASSUME [CraftNext]_craftVars PROVE [F!FdirNext]_(F!fdirVars)  OBVIOUS
<1>1. fdirHeld = F!fdirVars /\ fdirHeld' = F!fdirVars'  BY DEF fdirHeld, F!fdirVars
<1>2. CASE \E readings \in [Sensor -> F!Health], stalled \in SUBSET Task : CraftCycle(readings, stalled)
  BY <1>2 DEF CraftCycle, F!FdirNext
<1>3. CASE \E tc \in Sent : CraftTc(tc)
  <2>1. F!ExitSafe \/ UNCHANGED fdirHeld  BY <1>3 DEF CraftTc
  <2> QED BY <1>1, <2>1 DEF F!FdirNext
<1>4. CASE CraftContact  BY <1>1, <1>4 DEF CraftContact
<1>5. CASE UNCHANGED craftVars  BY <1>1, <1>5 DEF craftVars
<1> QED BY <1>2, <1>3, <1>4, <1>5 DEF CraftNext

\* The composition of the router and FDIR (the event sink and the exit trampoline of
\* fdir.c) is a router and an FDIR state machine: what is proved of either holds of it.
THEOREM CraftImplementsParts == CraftSpec => ObdhSpec /\ F!FdirSpec
<1>1. CraftInit => (\E c \in BOOLEAN : ObdhInit(c)) /\ F!FdirInit  BY DEF CraftInit
<1> QED BY <1>1, RouterStep, FdirStep, PTL DEF CraftSpec, ObdhSpec, F!FdirSpec

-----------------------------------------------------------------------------
(* What FDIR tells in a step *)

Tells(e) ==
    /\ emitted' = <<e>> /\ e.seq = evSeq /\ evSeq' = (evSeq + 1) % SeqMod
    /\ e.state = state' /\ e.attempts = attempts'
    /\ trail' = [state |-> e.state, attempts |-> e.attempts]

TellsNothing == emitted' = <<>> /\ UNCHANGED <<evSeq, trail, state, attempts>>

LEMMA EmitTells ==
    ASSUME NEW id, NEW worst, NEW sources, NEW tasks, NEW mark,
           F!Emit(id, worst, sources, tasks), F!Remember(mark)
    PROVE  \E e : Tells(e) /\ e.id = id
<1>1. PICK e : e = [id |-> id, subtype |-> F!EventSeverity(id), seq |-> evSeq,
                    state |-> state', attempts |-> attempts', worst |-> worst,
                    sources |-> sources, tasks |-> tasks]
  OBVIOUS
<1>2. e.id = id /\ e.seq = evSeq /\ e.state = state' /\ e.attempts = attempts'  BY <1>1
<1>3. emitted' = <<e>> /\ evSeq' = (evSeq + 1) % SeqMod  BY <1>1 DEF F!Emit
<1>4. emitted' # <<>> /\ emitted'[1] = e  BY <1>3
<1>5. trail' = [state |-> e.state, attempts |-> e.attempts]  BY <1>4 DEF F!Remember
<1> QED BY <1>2, <1>3, <1>5 DEF Tells

LEMMA QuietTells ==
    ASSUME NEW mark, F!Quiet, F!Remember(mark), UNCHANGED <<state, attempts>> PROVE TellsNothing
BY DEF F!Quiet, F!Remember, TellsNothing

LEMMA CycleTells ==
    ASSUME NEW readings, NEW stalled, F!Cycle(readings, stalled)
    PROVE  TellsNothing \/ \E e : Tells(e) /\ e.id # "SAFE_EXIT"
<1> DEFINE h == F!Severity(readings, stalled)
<1>1. PICK worst, sources : worst = F!Worst(h) /\ sources = F!Culprits(h)  OBVIOUS
<1>2. F!Step(worst, sources, stalled) /\ F!Remember(worst)  BY <1>1 DEF F!Cycle
<1>3. CASE F!FilterFault(worst)  BY <1>2, <1>3, QuietTells DEF F!FilterFault
<1>4. CASE F!ConfirmFault(worst, sources, stalled)
  BY <1>2, <1>4, EmitTells DEF F!ConfirmFault
<1>5. CASE F!StayNominal(worst)
  BY <1>2, <1>5, EmitTells, QuietTells DEF F!StayNominal
<1>6. CASE F!Recovered(worst, sources, stalled)
  BY <1>2, <1>6, EmitTells DEF F!Recovered
<1>7. CASE F!EnterSafe(worst, sources, stalled)
  BY <1>2, <1>7, EmitTells DEF F!EnterSafe
<1>8. CASE F!TryRecovery(worst, sources, stalled)
  BY <1>2, <1>8, EmitTells DEF F!TryRecovery
<1>9. CASE F!StaySafe  BY <1>2, <1>9, QuietTells DEF F!StaySafe
<1> QED BY <1>2, <1>3, <1>4, <1>5, <1>6, <1>7, <1>8, <1>9 DEF F!Step

LEMMA ExitTells == ASSUME F!ExitSafe PROVE \E e : Tells(e) /\ e.id = "SAFE_EXIT"
BY EmitTells DEF F!ExitSafe

-----------------------------------------------------------------------------
(* What a telecommand answers *)

Kinds(rs, K) == Listed(rs) /\ Len(rs) \in Nat /\ \A i \in 1 .. Len(rs) : rs[i].kind \in K

OkKinds == {"ACCEPT_OK", "START_OK"}

LEMMA KindsJoin ==
    ASSUME NEW a, NEW b, NEW K, Kinds(a, K), Kinds(b, K)
    PROVE  Kinds(a \o b, K) /\ Len(a \o b) = Len(a) + Len(b)
<1>1. /\ Listed(a \o b) /\ Len(a) \in Nat /\ Len(b) \in Nat /\ Len(a \o b) = Len(a) + Len(b)
      /\ \A i \in 1 .. Len(a) : (a \o b)[i] = a[i]
      /\ \A i \in 1 .. Len(b) : (a \o b)[Len(a) + i] = b[i]
  BY Joined DEF Kinds
<1>2. ASSUME NEW k \in 1 .. Len(a) + Len(b) PROVE (a \o b)[k].kind \in K
  <2>1. CASE k \in 1 .. Len(a)  BY <1>1, <2>1 DEF Kinds
  <2>2. CASE \E i \in 1 .. Len(b) : k = Len(a) + i  BY <1>1, <2>2 DEF Kinds
  <2> QED BY <1>1, <2>1, <2>2, Split
<1> QED BY <1>1, <1>2 DEF Kinds

LEMMA RepKinds ==
    ASSUME NEW kind, NEW code, NEW K, kind \in K
    PROVE  Kinds(Rep(kind, code), K) /\ Len(Rep(kind, code)) = 1 /\ Rep(kind, code)[1].kind = kind
<1>1. PICK r : r = [kind |-> kind, code |-> code]  OBVIOUS
<1>2. <<r>> \in Seq({r}) /\ Len(<<r>>) = 1 /\ <<r>>[1] = r /\ r.kind = kind  BY <1>1
<1>3. PICK q : q = Rep(kind, code)  OBVIOUS
<1>4. q = <<r>>  BY <1>1, <1>3 DEF Rep
<1>5. Listed(q) /\ Len(q) = 1 /\ q[1] = r  BY <1>2, <1>4 DEF Listed
<1>6. \A i \in 1 .. Len(q) : i = 1  BY <1>5
<1>7. \A i \in 1 .. Len(q) : q[i].kind \in K
  <2> SUFFICES ASSUME NEW i \in 1 .. Len(q) PROVE q[i].kind \in K  OBVIOUS
  <2>1. q[i] = r  BY <1>5, <1>6
  <2> QED BY <1>2, <2>1
<1>8. Kinds(q, K)  BY <1>5, <1>7 DEF Kinds
<1> QED BY <1>2, <1>3, <1>5, <1>8

LEMMA NoKinds == ASSUME NEW K PROVE Kinds(<<>>, K) /\ Len(<<>>) = 0
<1>1. <<>> \in Seq({0}) /\ Len(<<>>) = 0  OBVIOUS
<1> QED BY <1>1 DEF Kinds, Listed

LEMMA AskedKinds ==
    ASSUME NEW tc, NEW stage, NEW kind, NEW K, kind \in K
    PROVE  Kinds(IfAsked(tc, stage, kind), K) /\ Len(IfAsked(tc, stage, kind)) <= 1
<1>1. CASE stage \in tc.ack
  <2>1. PICK code : code = "NONE"  OBVIOUS
  <2>2. IfAsked(tc, stage, kind) = Rep(kind, code)  BY <1>1, <2>1 DEF IfAsked
  <2>3. Kinds(Rep(kind, code), K) /\ Len(Rep(kind, code)) = 1  BY RepKinds
  <2>4. Len(Rep(kind, code)) <= 1  BY <2>3
  <2> QED BY <2>2, <2>3, <2>4
<1>2. CASE stage \notin tc.ack
  <2>1. IfAsked(tc, stage, kind) = <<>>  BY <1>2 DEF IfAsked
  <2>2. Kinds(<<>>, K) /\ Len(<<>>) = 0  BY NoKinds
  <2>3. Len(<<>>) <= 1  BY <2>2
  <2> QED BY <2>1, <2>2, <2>3
<1> QED BY <1>1, <1>2

LEMMA BegunKinds ==
    ASSUME NEW tc, NEW K, OkKinds \subseteq K
    PROVE  Kinds(Begun(tc), K) /\ Len(Begun(tc)) \in 0 .. 2
<1>1. "ACCEPT_OK" \in K /\ "START_OK" \in K  BY DEF OkKinds
<1>2. PICK a, b : /\ a = IfAsked(tc, "ACCEPT", "ACCEPT_OK")
                  /\ b = IfAsked(tc, "START", "START_OK")
  OBVIOUS
<1>3. Kinds(a, K) /\ Len(a) <= 1 /\ Kinds(b, K) /\ Len(b) <= 1  BY <1>1, <1>2, AskedKinds
<1>4. Kinds(a \o b, K) /\ Len(a \o b) = Len(a) + Len(b)  BY <1>3, KindsJoin
<1>5. Len(a) \in Nat /\ Len(b) \in Nat  BY <1>3 DEF Kinds
<1> QED BY <1>2, <1>3, <1>4, <1>5 DEF Begun

LEMMA SentKinds ==
    ASSUME NEW rs, NEW K, Kinds(rs, K), Send(rs)
    PROVE  /\ Kinds(out', K) /\ Len(out') <= Len(rs)
           /\ \A i \in 1 .. Len(out') : out'[i].kind = rs[i].kind
           /\ Len(rs) <= MaxTmPerTc => Len(out') = Len(rs)
<1>1. Len(rs) \in Nat  BY DEF Kinds
<1>2. PICK kept \in Nat : kept = IF Len(rs) > MaxTmPerTc THEN MaxTmPerTc ELSE Len(rs)
  BY <1>1, CommandPathAssumption
<1>3. kept <= Len(rs) /\ (Len(rs) <= MaxTmPerTc => kept = Len(rs))
  BY <1>1, <1>2, CommandPathAssumption
<1>4. PICK o : o = out'  OBVIOUS
<1>5. o = [i \in 1 .. kept |-> [kind |-> rs[i].kind, code |-> rs[i].code,
                                seq |-> (tmSeq + i - 1) % TmSeqMod]]
  BY <1>2, <1>4 DEF Send
<1>6. o = [i \in 1 .. kept |-> o[i]] /\ \A i \in 1 .. kept : o[i].kind = rs[i].kind  BY <1>5
<1>7. Listed(o) /\ Len(o) = kept  BY <1>6, ListedFn
<1>8. \A i \in 1 .. kept : i \in 1 .. Len(rs)  BY <1>1, <1>3
<1>9. Kinds(o, K)  BY <1>6, <1>7, <1>8 DEF Kinds
<1> QED BY <1>3, <1>4, <1>6, <1>7, <1>9

\* The four fates of a telecommand, and what its reports say of each.
Ignored == /\ UNCHANGED <<executed, connTests, exits>>
           /\ Kinds(out', {"ACCEPT_FAIL"})
Tested(tc) == /\ tc.cmd = "CONN_TEST" /\ executed' = executed + 1 /\ connTests' = connTests + 1
              /\ exits' = exits /\ Kinds(out', OkKinds \cup {"CONN_TEST", "COMPLETE_OK"})
Refused == /\ executed' = executed + 1 /\ UNCHANGED <<connTests, exits>>
           /\ Kinds(out', OkKinds \cup {"COMPLETE_FAIL"}) /\ Len(out') >= 1
           /\ \A i \in 1 .. Len(out') : out'[i].kind = "COMPLETE_FAIL" <=> i = Len(out')
Obeyed == /\ executed' = executed + 1 /\ exits' = exits + 1 /\ UNCHANGED connTests
          /\ Kinds(out', OkKinds \cup {"COMPLETE_OK"})

LEMMA TcOutcome ==
    ASSUME NEW tc, NEW hook, HandleTc(tc, hook)
    PROVE  \/ Ignored \/ Tested(tc)
           \/ Refused /\ hook # "EXITED"
           \/ Obeyed /\ hook = "EXITED"
<1>1. CASE Unnameable(tc)
  <2>1. Kinds(<<>>, {"ACCEPT_FAIL"}) /\ Send(<<>>)  BY <1>1, NoKinds DEF Unnameable
  <2> QED BY <1>1, <2>1, SentKinds DEF Unnameable, Ignored
<1>2. CASE Malformed(tc)
  <2>1. PICK code : Send(Rep("ACCEPT_FAIL", code))  BY <1>2 DEF Malformed
  <2>2. Kinds(Rep("ACCEPT_FAIL", code), {"ACCEPT_FAIL"})  BY RepKinds
  <2> QED BY <1>2, <2>1, <2>2, SentKinds DEF Malformed, Ignored
<1>3. CASE NotACommand(tc)
  <2>1. PICK code : Send(Rep("ACCEPT_FAIL", code))  BY <1>3 DEF NotACommand
  <2>2. Kinds(Rep("ACCEPT_FAIL", code), {"ACCEPT_FAIL"})  BY RepKinds
  <2> QED BY <1>3, <2>1, <2>2, SentKinds DEF NotACommand, Ignored
<1>4. CASE ConnectionTest(tc)
  <2> DEFINE K == OkKinds \cup {"CONN_TEST", "COMPLETE_OK"}
  <2>1. Kinds(Begun(tc), K) /\ Len(Begun(tc)) \in 0 .. 2  BY BegunKinds
  <2>2. ~(Len(Begun(tc)) >= MaxTmPerTc)
    <3>1. PICK n \in 0 .. 2 : n = Len(Begun(tc))  BY <2>1
    <3>2. MaxTmPerTc \in Nat /\ MaxTmPerTc >= 3  BY CraftAssumption, CommandPathAssumption
    <3> QED BY <3>1, <3>2
  <2>3. Kinds(Completion(tc, Len(Begun(tc)) >= MaxTmPerTc), K)  BY <2>2, AskedKinds DEF Completion
  <2>4. Kinds(Rep("CONN_TEST", "NONE"), K)  BY RepKinds
  <2>5. Kinds(Begun(tc) \o Rep("CONN_TEST", "NONE"), K)  BY <2>1, <2>4, KindsJoin
  <2>6. Kinds(Begun(tc) \o Rep("CONN_TEST", "NONE")
                 \o Completion(tc, Len(Begun(tc)) >= MaxTmPerTc), K)
    BY <2>3, <2>5, KindsJoin
  <2>7. Kinds(out', K)
    <3>1. Send(Begun(tc) \o Rep("CONN_TEST", "NONE")
                 \o Completion(tc, Len(Begun(tc)) >= MaxTmPerTc))
      BY <1>4 DEF ConnectionTest
    <3> QED BY <2>6, <3>1, SentKinds
  <2> QED BY <1>4, <2>7 DEF ConnectionTest, Tested
<1>5. CASE ExitSafeMode(tc, hook)
  <2>1. PICK b, c : b = Begun(tc) /\ c = Completion(tc, hook # "EXITED")  OBVIOUS
  <2>2. Send(b \o c) /\ executed' = executed + 1 /\ UNCHANGED connTests
    BY <1>5, <2>1 DEF ExitSafeMode
  <2>3. CASE hook = "EXITED"
    <3> DEFINE K == OkKinds \cup {"COMPLETE_OK"}
    <3>1. Kinds(b, K) /\ Kinds(c, K)
      BY <2>1, <2>3, BegunKinds, AskedKinds DEF Completion
    <3>2. Kinds(b \o c, K)  BY <3>1, KindsJoin
    <3>3. Kinds(out', K)  BY <2>2, <3>2, SentKinds
    <3> QED BY <1>5, <2>2, <2>3, <3>3 DEF ExitSafeMode, Obeyed
  <2>4. CASE hook # "EXITED"
    <3> DEFINE K == OkKinds \cup {"COMPLETE_FAIL"}
    <3>1. c = Rep("COMPLETE_FAIL", "EXEC_ERROR")  BY <2>1, <2>4 DEF Completion
    <3>2. Kinds(b, K) /\ Kinds(b, OkKinds) /\ Len(b) \in 0 .. 2  BY <2>1, BegunKinds
    <3>3. Kinds(c, K) /\ Len(c) = 1 /\ c[1].kind = "COMPLETE_FAIL"  BY <3>1, RepKinds
    <3>4. PICK rs : rs = b \o c  OBVIOUS
    <3>5. Kinds(rs, K) /\ Len(rs) = Len(b) + 1  BY <3>2, <3>3, <3>4, KindsJoin
    <3>6. /\ \A i \in 1 .. Len(b) : rs[i] = b[i]
          /\ \A i \in 1 .. Len(c) : rs[Len(b) + i] = c[i]
      <4>1. Listed(b) /\ Listed(c)  BY <3>2, <3>3 DEF Kinds
      <4> QED BY <3>4, <4>1, Joined
    <3>7. rs[Len(b) + 1].kind = "COMPLETE_FAIL"
      <4>1. 1 \in 1 .. Len(c)  BY <3>3
      <4> QED BY <3>3, <3>6, <4>1
    <3>8. \A i \in 1 .. Len(b) : rs[i].kind # "COMPLETE_FAIL"
      <4>1. \A i \in 1 .. Len(b) : b[i].kind \in OkKinds  BY <3>2 DEF Kinds
      <4>2. "COMPLETE_FAIL" \notin OkKinds  BY DEF OkKinds
      <4> QED BY <3>6, <4>1, <4>2
    <3>9. Len(rs) <= MaxTmPerTc
      <4>1. PICK n \in 0 .. 2 : n = Len(b)  BY <3>2
      <4>2. MaxTmPerTc \in Nat /\ MaxTmPerTc >= 3  BY CraftAssumption, CommandPathAssumption
      <4> QED BY <3>5, <4>1, <4>2
    <3>10. /\ Kinds(out', K) /\ Len(out') = Len(b) + 1
           /\ \A i \in 1 .. Len(out') : out'[i].kind = rs[i].kind
      BY <2>2, <3>4, <3>5, <3>9, SentKinds
    <3>11. \A i \in 1 .. Len(b) + 1 : i \in 1 .. Len(b) \/ i = Len(b) + 1  BY <3>2
    <3>12. \A i \in 1 .. Len(b) : i # Len(b) + 1  BY <3>2
    <3>13. \A i \in 1 .. Len(out') : out'[i].kind = "COMPLETE_FAIL" <=> i = Len(out')
      BY <3>7, <3>8, <3>10, <3>11, <3>12
    <3>14. Len(out') >= 1  BY <3>2, <3>10
    <3>15. exits' = exits  BY <1>5, <2>4 DEF ExitSafeMode
    <3> QED BY <2>2, <2>4, <3>10, <3>13, <3>14, <3>15 DEF Refused
  <2> QED BY <2>3, <2>4
<1> QED BY <1>1, <1>2, <1>3, <1>4, <1>5 DEF HandleTc
-----------------------------------------------------------------------------
(* What a step of the composition is *)

\* The router is handed event p and the reports rs behind it, and sends b down.
Sends(b, p, rs) ==
    /\ Listed(b) /\ ground' = ground \o b
    /\ \/ /\ inContact /\ evStore' = evStore
          /\ Len(b) = Len(rs) + 1 /\ b[1].pkt = p
          /\ \A i \in 1 .. Len(rs) : b[1 + i].pkt = rs[i]
       \/ /\ ~inContact /\ evStore' = StorePut(evStore, p, onboardTime)
          /\ Len(b) = Len(rs)
          /\ \A i \in 1 .. Len(rs) : b[i].pkt = rs[i] /\ b[i].pass = 0

Replies(b, rs) ==
    /\ Listed(b) /\ ground' = ground \o b
    /\ Len(b) = Len(rs) /\ \A i \in 1 .. Len(rs) : b[i].pkt = rs[i]

LEMMA LiveIs ==
    ASSUME NEW rs, Listed(rs), UNCHANGED <<inContact, pass>>
    PROVE  /\ Listed(Live(rs)) /\ Len(rs) \in Nat /\ Len(Live(rs)) = Len(rs)
           /\ \A i \in 1 .. Len(rs) : /\ Live(rs)[i].pkt = rs[i]
                                      /\ Live(rs)[i].pass = IF inContact THEN pass ELSE 0
<1>1. PICK n \in Nat : n = Len(rs)  BY DEF Listed
<1>2. PICK b : b = Live(rs)  OBVIOUS
<1>3. b = [i \in 1 .. n |-> [pkt |-> rs[i], how |-> "LIVE", pass |-> IF inContact THEN pass ELSE 0]]
  BY <1>1, <1>2 DEF Live, Tag
<1>4. b = [i \in 1 .. n |-> b[i]]  BY <1>3
<1>5. Listed(b) /\ Len(b) = n  BY <1>4, ListedFn
<1> QED BY <1>1, <1>2, <1>3, <1>5

LEMMA EventSends ==
    ASSUME NEW p, p.apid = "EVENT", NEW rs, Listed(rs), RouteTm(p, rs), UNCHANGED <<inContact, pass>>
    PROVE  \E b : Sends(b, p, rs)
<1>1. CASE inContact
  <2>1. PICK s : s = <<p>> \o rs  OBVIOUS
  <2>2. PICK q : q = <<p>>  OBVIOUS
  <2>3. Listed(q) /\ Len(q) = 1 /\ q[1] = p
    <3>1. <<p>> \in Seq({p})  OBVIOUS
    <3> QED BY <2>2, <3>1 DEF Listed
  <2>4. /\ Listed(s) /\ Len(rs) \in Nat /\ Len(s) = 1 + Len(rs)
        /\ \A i \in 1 .. 1 : s[i] = q[i]
        /\ \A i \in 1 .. Len(rs) : s[1 + i] = rs[i]
    BY <2>1, <2>2, <2>3, Joined
  <2>5. ground' = ground \o Live(s) /\ evStore' = evStore
    BY <1>1, <2>1 DEF RouteTm, Route, Deliver, EventThenReports
  <2>6. PICK b : b = Live(s)  OBVIOUS
  <2>7. Listed(b) /\ Len(b) = Len(s) /\ \A i \in 1 .. Len(s) : b[i].pkt = s[i]
    BY <2>4, <2>6, LiveIs
  <2>8. s[1] = p /\ 1 \in 1 .. Len(s) /\ \A i \in 1 .. Len(rs) : 1 + i \in 1 .. Len(s)
    BY <2>3, <2>4
  <2>9. Sends(b, p, rs)  BY <1>1, <2>4, <2>5, <2>6, <2>7, <2>8 DEF Sends
  <2> QED BY <2>9
<1>2. CASE ~inContact
  <2>1. ground' = ground \o Live(rs) /\ evStore' = StorePut(evStore, p, onboardTime)
    BY <1>2 DEF RouteTm, Route, StoreTm, Deliver
  <2>2. PICK b : b = Live(rs)  OBVIOUS
  <2>3. Listed(b) /\ Len(b) = Len(rs) /\ \A i \in 1 .. Len(rs) : b[i].pkt = rs[i] /\ b[i].pass = 0
    BY <1>2, <2>2, LiveIs
  <2>4. Sends(b, p, rs)  BY <1>2, <2>1, <2>2, <2>3 DEF Sends
  <2> QED BY <2>4
<1> QED BY <1>1, <1>2

LEMMA ResponsesAre ==
    ASSUME NEW tc, NEW K, Kinds(out', K), NEW rs, rs = Responses(tc)
    PROVE  /\ Listed(rs) /\ Len(rs) = Len(out')
           /\ \A i \in 1 .. Len(rs) : /\ rs[i].apid = "CMD" /\ rs[i].cmd = tc.cmd
                                      /\ rs[i].kind = out'[i].kind
<1>1. PICK n \in Nat : n = Len(out')  BY DEF Kinds
<1>2. rs = [i \in 1 .. n |-> [apid |-> "CMD", n |-> 0, kind |-> out'[i].kind, cmd |-> tc.cmd]]
  BY <1>1 DEF Responses
<1>3. rs = [i \in 1 .. n |-> rs[i]]  BY <1>2
<1>4. Listed(rs) /\ Len(rs) = n  BY <1>3, ListedFn
<1> QED BY <1>1, <1>2, <1>4

Untold == UNCHANGED <<offered, told, evSeq, trail, state, attempts>>
Counts == <<executed, connTests, exits>>

Idle == Untold /\ UNCHANGED <<ground, evStore, Counts>>

Acquiring == AcquireContact /\ Untold /\ UNCHANGED Counts

\* FDIR reports e in packet p, with the reports rs of a telecommand behind it.
Reporting(p, e, rs) ==
    /\ p \in TmPacket /\ p.apid = "EVENT" /\ Offer(p)
    /\ Tells(e) /\ told' = told \o <<e>>
    /\ \E b : Sends(b, p, rs)

\* A telecommand that FDIR does not obey is answered.
Answering(tc, rs) ==
    /\ Untold /\ UNCHANGED evStore
    /\ rs = Responses(tc) /\ \E b : Replies(b, rs)
    /\ Ignored \/ Tested(tc) \/ Refused

LEMMA CraftSteps ==
    ASSUME exits \in Nat, Listed(told), [CraftNext]_craftVars
    PROVE  \/ Idle
           \/ Acquiring
           \/ \E p, e : Reporting(p, e, <<>>) /\ e.id # "SAFE_EXIT" /\ UNCHANGED Counts
           \/ \E tc, rs : Answering(tc, rs)
           \/ \E tc, rs, p, e : /\ Reporting(p, e, rs) /\ e.id = "SAFE_EXIT"
                                /\ rs = Responses(tc) /\ Obeyed
<1>1. CASE \E readings \in [Sensor -> F!Health], stalled \in SUBSET Task : CraftCycle(readings, stalled)
  <2>1. PICK readings, stalled : CraftCycle(readings, stalled)  BY <1>1
  <2>2. F!Cycle(readings, stalled) /\ told' = told \o emitted'  BY <2>1 DEF CraftCycle
  <2>3. CASE TellsNothing
    <3>1. UNCHANGED obdhVars  BY <2>1, <2>3 DEF CraftCycle, TellsNothing
    <3>2. PICK S : told \in Seq(S)  BY DEF Listed
    <3>3. told' = told  BY <2>2, <2>3, <3>2, ConcatEmptySeq DEF TellsNothing
    <3>4. Idle  BY <2>3, <3>1, <3>3 DEF TellsNothing, Idle, Untold, Counts, obdhVars, pathHeld
    <3> QED BY <3>4
  <2>4. CASE \E e : Tells(e) /\ e.id # "SAFE_EXIT"
    <3>1. PICK e : Tells(e) /\ e.id # "SAFE_EXIT"  BY <2>4
    <3>2. emitted' = <<e>> /\ emitted' # <<>>  BY <3>1 DEF Tells
    <3>3. PICK p \in TmPacket : p.apid = "EVENT" /\ IngestTm(p)  BY <2>1, <3>2 DEF CraftCycle
    <3>4. Offer(p) /\ RouteTm(p, <<>>) /\ UNCHANGED <<inContact, pass>> /\ UNCHANGED Counts
      BY <3>3 DEF IngestTm, Counts, pathHeld
    <3>5. Listed(<<>>)
      <4>1. <<>> \in Seq({0})  OBVIOUS
      <4> QED BY <4>1 DEF Listed
    <3>6. \E b : Sends(b, p, <<>>)  BY <3>3, <3>4, <3>5, EventSends
    <3>7. Reporting(p, e, <<>>)  BY <2>2, <3>1, <3>2, <3>3, <3>4, <3>6 DEF Reporting
    <3> QED BY <3>1, <3>4, <3>7
  <2> QED BY <2>2, <2>3, <2>4, CycleTells
<1>2. CASE \E tc \in Sent : CraftTc(tc)
  <2>1. PICK tc \in Sent : CraftTc(tc)  BY <1>2
  <2>2. PICK rs : rs = Responses(tc)  OBVIOUS
  <2>3. /\ HandleTc(tc, ExitHook) /\ UNCHANGED <<inContact, pass>>
        /\ exits' = exits => Deliver(Live(rs)) /\ UNCHANGED <<evStore, offered>>
        /\ exits' # exits => \E p \in TmPacket : p.apid = "EVENT" /\ Offer(p) /\ RouteTm(p, rs)
    BY <2>1, <2>2 DEF CraftTc, IngestTc
  <2>4. CASE Ignored \/ Tested(tc) \/ Refused
    <3>1. exits' = exits /\ \E K : Kinds(out', K)  BY <2>4 DEF Ignored, Tested, Refused
    <3>2. Listed(rs)  BY <2>2, <3>1, ResponsesAre
    <3>3. ground' = ground \o Live(rs) /\ UNCHANGED <<evStore, offered>>
      BY <2>3, <3>1 DEF Deliver
    <3>4. PICK b : b = Live(rs)  OBVIOUS
    <3>5. Listed(b) /\ Len(b) = Len(rs) /\ \A i \in 1 .. Len(rs) : b[i].pkt = rs[i]
      BY <2>3, <3>2, <3>4, LiveIs
    <3>6. Replies(b, rs)  BY <3>3, <3>4, <3>5 DEF Replies
    <3>7. UNCHANGED <<fdirHeld, told>>  BY <2>1, <3>1 DEF CraftTc
    <3>8. Untold  BY <3>3, <3>7 DEF Untold, fdirHeld
    <3>9. Answering(tc, rs)  BY <2>2, <2>4, <3>3, <3>6, <3>8 DEF Answering
    <3> QED BY <3>9
  <2>5. CASE Obeyed /\ ExitHook = "EXITED"
    <3>1. exits' # exits /\ Kinds(out', OkKinds \cup {"COMPLETE_OK"})  BY <2>5 DEF Obeyed
    <3>2. state = "SAFE"  BY <2>5 DEF ExitHook
    <3>3. F!ExitSafe /\ told' = told \o emitted'  BY <2>1, <3>1, <3>2 DEF CraftTc
    <3>4. PICK e : Tells(e) /\ e.id = "SAFE_EXIT"  BY <3>3, ExitTells
    <3>5. told' = told \o <<e>>  BY <3>3, <3>4 DEF Tells
    <3>6. PICK p \in TmPacket : p.apid = "EVENT" /\ Offer(p) /\ RouteTm(p, rs)  BY <2>3, <3>1
    <3>7. Listed(rs)  BY <2>2, <3>1, ResponsesAre
    <3>8. \E b : Sends(b, p, rs)  BY <2>3, <3>6, <3>7, EventSends
    <3>9. Reporting(p, e, rs)  BY <3>4, <3>5, <3>6, <3>8 DEF Reporting
    <3> QED BY <2>2, <2>5, <3>4, <3>9
  <2> QED BY <2>3, <2>4, <2>5, TcOutcome
<1>3. CASE AcquireContact /\ UNCHANGED <<fdirHeld, told>>
  BY <1>3 DEF AcquireContact, Acquiring, Untold, Counts, fdirHeld, pathHeld
<1>4. CASE LoseContact /\ UNCHANGED <<fdirHeld, told>>
  BY <1>4 DEF LoseContact, Idle, Untold, Counts, fdirHeld, pathHeld
<1>5. CASE UNCHANGED craftVars
  BY <1>5 DEF craftVars, obdhVars, Idle, Untold, Counts, fdirHeld, pathHeld
<1> QED BY <1>1, <1>2, <1>3, <1>4, <1>5 DEF CraftNext, CraftContact

-----------------------------------------------------------------------------
(* The trail on board and the packets that carry it *)

LastSaid(t) == IF Len(t) = 0 THEN [state |-> "NOMINAL", attempts |-> 0]
               ELSE [state |-> t[Len(t)].state, attempts |-> t[Len(t)].attempts]

\* Packet n is the event n of FDIR, with the sequence count that follows the one
\* before; the last one tells the state FDIR is in.
ToldInv ==
    /\ exits \in Nat /\ executed \in Nat /\ connTests \in Nat
    /\ Listed(told) /\ Len(told) \in Nat /\ Len(told) = Len(offered)
    /\ \A n \in 1 .. Len(told) : offered[n].apid = "EVENT"
    /\ \A n \in 1 .. Len(told) : told[n].seq = (n - 1) % SeqMod
    /\ evSeq = Len(told) % SeqMod
    /\ LastSaid(told) = [state |-> state, attempts |-> attempts]

LEMMA Divides ==
    ASSUME NEW m \in Nat \ {0}, NEW x \in Nat
    PROVE  \E q \in Nat, r \in 0 .. m - 1 : x = m * q + r /\ r = x % m
<1>1. PICK q \in Int, r \in Int : q = x \div m /\ r = x % m  OBVIOUS
<1>2. x = m * q + r  BY <1>1
<1>3. q \in Nat /\ r \in 0 .. m - 1  BY <1>1
<1> QED BY <1>1, <1>2, <1>3

LEMMA ModUnique ==
    ASSUME NEW m \in Nat \ {0}, NEW q \in Nat, NEW r \in 0 .. m - 1
    PROVE  (m * q + r) % m = r
OBVIOUS

LEMMA NextCount ==
    ASSUME NEW m \in Nat \ {0}, NEW x \in Nat
    PROVE  ((x % m) + 1) % m = (x + 1) % m
<1>1. PICK q \in Nat, r \in 0 .. m - 1 : x = m * q + r /\ r = x % m  BY Divides
<1>2. CASE r + 1 \in 0 .. m - 1
  <2>1. x + 1 = m * q + (r + 1)  BY <1>1
  <2>2. (r + 1) % m = r + 1  BY <1>2
  <2> QED BY <1>1, <1>2, <2>1, <2>2, ModUnique
<1>3. CASE r + 1 = m
  <2>1. m * (q + 1) = m * q + m  OBVIOUS
  <2>2. x + 1 = m * (q + 1) + 0
    <3>1. PICK y \in Int : y = m * q  OBVIOUS
    <3>2. m * (q + 1) = y + m  BY <2>1, <3>1
    <3>3. x + 1 = y + m
      <4>1. x = y + r  BY <1>1, <3>1
      <4> QED BY <1>3, <4>1
    <3>4. y + m = (y + m) + 0  OBVIOUS
    <3> QED BY <3>2, <3>3, <3>4
  <2>3. q + 1 \in Nat /\ 0 \in 0 .. m - 1  OBVIOUS
  <2>4. (x + 1) % m = 0  BY <2>2, <2>3, ModUnique
  <2>5. (r + 1) % m = 0  BY <1>3
  <2> QED BY <1>1, <2>4, <2>5
<1> QED BY <1>2, <1>3

\* A sequence and one element behind it.
LEMMA OneMore ==
    ASSUME NEW t, Listed(t), NEW e, NEW u, u = t \o <<e>>
    PROVE  Listed(u) /\ Added(t, u, e)
<1>1. PICK q : q = <<e>>  OBVIOUS
<1>2. Listed(q) /\ Len(q) = 1 /\ q[1] = e
  <2>1. <<e>> \in Seq({e})  OBVIOUS
  <2> QED BY <1>1, <2>1 DEF Listed
<1>3. /\ Listed(u) /\ Len(t) \in Nat /\ Len(u) = Len(t) + Len(q)
      /\ \A i \in 1 .. Len(t) : u[i] = t[i]
      /\ \A i \in 1 .. Len(q) : u[Len(t) + i] = q[i]
  BY <1>1, <1>2, Joined
<1> QED BY <1>2, <1>3 DEF Added

LEMMA ToldStart == CraftInit => ToldInv
<1> SUFFICES ASSUME CraftInit PROVE ToldInv  OBVIOUS
<1>1. /\ told = <<>> /\ offered = <<>> /\ evSeq = 0 /\ state = "NOMINAL" /\ attempts = 0
      /\ exits = 0 /\ executed = 0 /\ connTests = 0
  BY DEF CraftInit, ObdhInit, PathInit, F!FdirInit
<1>2. <<>> \in Seq({0}) /\ Len(<<>>) = 0  OBVIOUS
<1>3. 0 % SeqMod = 0  BY CraftAssumption
<1>4. Listed(told) /\ Len(told) = 0  BY <1>1, <1>2 DEF Listed
<1> QED BY <1>1, <1>3, <1>4 DEF ToldInv, LastSaid

LEMMA ToldKept == ASSUME OInv, ToldInv, [CraftNext]_craftVars PROVE ToldInv'
<1>1. CASE Idle  BY <1>1 DEF Idle, Untold, Counts, ToldInv
<1>2. CASE Acquiring  BY <1>2 DEF Acquiring, Untold, Counts, ToldInv
<1>3. ASSUME NEW p, NEW e, NEW rs, Reporting(p, e, rs),
             exits' \in Nat, executed' \in Nat, connTests' \in Nat
      PROVE  ToldInv'
  <2>1. Listed(told') /\ Added(told, told', e)  BY <1>3, OneMore DEF Reporting, ToldInv
  <2>2. Added(offered, offered', p) /\ p.apid = "EVENT"  BY <1>3, Offering DEF Reporting
  <2>3. PICK m \in Nat : m = Len(told)  BY DEF ToldInv
  <2>4. m = Len(offered) /\ Len(told') = m + 1 /\ Len(offered') = m + 1
    BY <2>1, <2>2, <2>3 DEF Added, ToldInv
  <2>5. e.seq = m % SeqMod /\ evSeq' = ((m % SeqMod) + 1) % SeqMod
        /\ e.state = state' /\ e.attempts = attempts'
    BY <1>3, <2>3 DEF Reporting, Tells, ToldInv
  <2>6. evSeq' = (m + 1) % SeqMod  BY <2>3, <2>5, NextCount, CraftAssumption
  <2>7. \A n \in 1 .. m + 1 : n \in 1 .. m \/ n = m + 1  BY <2>3
  <2>8. (m + 1) - 1 = m  BY <2>3
  <2>9. \A n \in 1 .. m + 1 : offered'[n].apid = "EVENT"
    BY <2>2, <2>3, <2>4, <2>7 DEF Added, ToldInv
  <2>10. told'[m + 1] = e /\ \A n \in 1 .. m : told'[n] = told[n]  BY <2>1, <2>3 DEF Added
  <2>11. \A n \in 1 .. m + 1 : told'[n].seq = (n - 1) % SeqMod
    BY <2>3, <2>5, <2>7, <2>8, <2>10 DEF ToldInv
  <2>12. LastSaid(told') = [state |-> state', attempts |-> attempts']
    BY <2>3, <2>4, <2>5, <2>10 DEF LastSaid
  <2> QED BY <1>3, <2>1, <2>3, <2>4, <2>6, <2>9, <2>11, <2>12 DEF ToldInv
<1>4. CASE \E p, e : Reporting(p, e, <<>>) /\ e.id # "SAFE_EXIT" /\ UNCHANGED Counts
  BY <1>3, <1>4 DEF Counts, ToldInv
<1>5. CASE \E tc, rs : Answering(tc, rs)
  BY <1>5 DEF Answering, Untold, Ignored, Tested, Refused, ToldInv
<1>6. CASE \E tc, rs, p, e : /\ Reporting(p, e, rs) /\ e.id = "SAFE_EXIT"
                             /\ rs = Responses(tc) /\ Obeyed
  <2>1. PICK rs, p, e : Reporting(p, e, rs) /\ Obeyed  BY <1>6
  <2>2. exits' \in Nat /\ executed' \in Nat /\ connTests' \in Nat  BY <2>1 DEF Obeyed, ToldInv
  <2> QED BY <1>3, <2>1, <2>2
<1>7. exits \in Nat /\ Listed(told)  BY DEF ToldInv
<1> QED BY <1>1, <1>2, <1>4, <1>5, <1>6, <1>7, CraftSteps

LEMMA ToldInvariant == CraftSpec => [](OInv /\ ToldInv)
<1>1. OInv /\ ToldInv /\ [CraftNext]_craftVars => ToldInv'  BY ToldKept
<1> QED BY <1>1, ToldStart, CraftImplementsParts, ObdhInvariant, PTL DEF CraftSpec

-----------------------------------------------------------------------------
(* Where the last event is *)

LastKept ==
    Len(offered) > 0 =>
        \/ \E k \in Of(Events, ground) : ground[k].pkt.n = Len(offered)
        \/ evStore.count > 0 /\ At(evStore, evStore.count).pkt.n = Len(offered)

LEMMA OfGrows ==
    ASSUME NEW g, NEW b, Listed(g), Listed(b), NEW h, h = g \o b
    PROVE  /\ \A k \in Of(Events, g) : k \in Of(Events, h) /\ h[k] = g[k]
           /\ \A i \in 1 .. Len(b) :
                 b[i].pkt.apid \in Events => /\ Len(g) + i \in Of(Events, h)
                                             /\ h[Len(g) + i] = b[i]
<1>1. /\ Len(g) \in Nat /\ Len(b) \in Nat /\ Len(h) = Len(g) + Len(b)
      /\ \A i \in 1 .. Len(g) : h[i] = g[i]
      /\ \A i \in 1 .. Len(b) : h[Len(g) + i] = b[i]
  BY Joined
<1>2. \A i \in 1 .. Len(g) : i \in 1 .. Len(h)  BY <1>1
<1>3. \A i \in 1 .. Len(b) : Len(g) + i \in 1 .. Len(h)  BY <1>1
<1> QED BY <1>1, <1>2, <1>3 DEF Of

Has(b, x) == \E i \in 1 .. Len(b) : b[i] = x
HasEvent(g, x) == \E k \in Of(Events, g) : g[k] = x

LEMMA OfGains ==
    ASSUME NEW g, NEW b, Listed(g), Listed(b), NEW x, Has(b, x), x.pkt.apid \in Events
    PROVE  HasEvent(g \o b, x)
<1> PICK i \in 1 .. Len(b) : b[i] = x  BY DEF Has
<1>1. PICK h : h = g \o b  OBVIOUS
<1>2. /\ Len(g) \in Nat /\ Len(b) \in Nat /\ Len(h) = Len(g) + Len(b)
      /\ \A j \in 1 .. Len(b) : h[Len(g) + j] = b[j]
  BY <1>1, Joined
<1>3. PICK k : k = Len(g) + i  OBVIOUS
<1>4. h[k] = x  BY <1>2, <1>3
<1>5. k \in 1 .. Len(h)  BY <1>2, <1>3
<1>6. k \in Of(Events, h)  BY <1>4, <1>5 DEF Of
<1> QED BY <1>1, <1>4, <1>6 DEF HasEvent

LEMMA LastKeptGrows ==
    ASSUME LastKept, Listed(ground), NEW b, Listed(b), ground' = ground \o b,
           UNCHANGED <<offered, evStore>>
    PROVE  LastKept'
<1>1. \A k \in Of(Events, ground) : k \in Of(Events, ground') /\ ground'[k] = ground[k]
  BY OfGrows
<1> QED BY <1>1 DEF LastKept

LEMMA LastKeptReports ==
    ASSUME OInv, NEW p, NEW e, NEW rs, Reporting(p, e, rs) PROVE LastKept'
<1>1. p \in TmPacket /\ p.apid \in Events /\ p.n = Len(offered') /\ Len(offered) \in Nat
  BY Offering DEF Reporting, Added, Events
<1>2. PICK b : Sends(b, p, rs)  BY DEF Reporting
<1>3. Listed(ground) /\ Listed(b) /\ ground' = ground \o b  BY <1>2 DEF OInv, Sends
<1>4. CASE Len(b) = Len(rs) + 1 /\ b[1].pkt = p
  <2>1. Len(b) \in Nat  BY <1>3 DEF Listed
  <2>2. CASE 1 \in 1 .. Len(b)
    <3>1. b[1].pkt.apid \in Events /\ Has(b, b[1])  BY <1>1, <1>4, <2>2 DEF Has
    <3>2. HasEvent(ground', b[1])  BY <1>3, <3>1, OfGains
    <3> QED BY <1>1, <1>4, <3>2 DEF LastKept, HasEvent
  <2>3. CASE Len(b) = 0  BY <1>4, <2>3
  <2> QED BY <2>1, <2>2, <2>3
<1>5. CASE evStore' = StorePut(evStore, p, onboardTime)
  <2>1. evStore \in Store /\ InStep(evStore) /\ onboardTime \in 0 .. MaxStamp
    BY DEF OInv, Held
  <2>2. p \in Packet /\ Fits(p)
    <3>1. p \in Packet /\ Size[p] = p.len  BY <1>1, ObdhAssumption
    <3>2. PICK k \in TmKind : p.apid = k.apid /\ p.len = k.len  BY <1>1 DEF TmPacket
    <3>3. k.len \in Nat \ {0}  BY <3>2, ObdhAssumption
    <3>4. k.len <= MaxPkt  BY <1>1, <3>2, CraftAssumption DEF Events
    <3> QED BY <3>1, <3>2, <3>3, <3>4, StoreAssumption DEF Fits
  <2>3. PICK w : w = StorePut(evStore, p, onboardTime)  OBVIOUS
  <2>4. w.count > 0 /\ At(w, w.count).pkt = p
    <3>1. CASE Full(evStore)
      <4>1. w.count = StoreCap /\ At(w, StoreCap).pkt = p  BY <2>1, <2>2, <2>3, <3>1, PutWhere
      <4> QED BY <4>1, StoreAssumption
    <3>2. CASE ~Full(evStore)
      <4>1. w.count = evStore.count + 1 /\ At(w, evStore.count + 1).pkt = p
        BY <2>1, <2>2, <2>3, <3>2, PutWhere
      <4>2. evStore.count \in Nat  BY <2>1, StoreAssumption DEF Store
      <4> QED BY <4>1, <4>2
    <3> QED BY <3>1, <3>2
  <2> QED BY <1>1, <1>5, <2>3, <2>4 DEF LastKept
<1> QED BY <1>2, <1>4, <1>5 DEF Sends

LEMMA LastKeptAcquires == ASSUME OInv, LastKept, AcquireContact PROVE LastKept'
<1>1. PICK a, b : /\ a = Forwarded(evStore) /\ b = Forwarded(hkStore)
                  /\ ground' = ground \o (a \o b) /\ UNCHANGED offered
  BY DEF AcquireContact, Deliver, Backlog
<1>2. PICK m \in Nat, n \in Nat : m = evStore.count /\ n = hkStore.count
  BY CountTypes
<1>3. /\ a = [i \in 1 .. m |-> a[i]] /\ b = [i \in 1 .. n |-> b[i]]
      /\ \A i \in 1 .. m : a[i].pkt = At(evStore, i).pkt
  BY <1>1, <1>2 DEF Forwarded, Tag
<1>4. Listed(a) /\ Len(a) = m /\ Listed(b) /\ Len(b) = n  BY <1>3, ListedFn
<1>5. PICK s : s = a \o b  OBVIOUS
<1>6. /\ Listed(s) /\ Len(s) = m + n /\ \A i \in 1 .. m : s[i] = a[i]
  BY <1>4, <1>5, Joined
<1>7. Listed(ground) /\ ground' = ground \o s  BY <1>1, <1>5 DEF OInv
<1>8. \A k \in Of(Events, ground) : k \in Of(Events, ground') /\ ground'[k] = ground[k]
  BY <1>6, <1>7, OfGrows
<1>9. ASSUME evStore.count > 0, At(evStore, evStore.count).pkt.n = Len(offered)
      PROVE  \E k \in Of(Events, ground') : ground'[k].pkt.n = Len(offered)
  <2>1. m \in 1 .. m /\ m \in 1 .. Len(s)  BY <1>2, <1>6, <1>9
  <2>2. s[m].pkt = At(evStore, m).pkt  BY <1>3, <1>6, <2>1
  <2>3. At(evStore, m).pkt.apid \in Events  BY <1>2, <2>1 DEF OInv, Held
  <2>4. HasEvent(ground', s[m])
    <3>1. s[m].pkt.apid \in Events  BY <2>2, <2>3
    <3>2. Listed(s) /\ Has(s, s[m])  BY <1>6, <2>1 DEF Has
    <3> QED BY <1>7, <3>1, <3>2, OfGains
  <2> QED BY <1>2, <1>9, <2>2, <2>4 DEF HasEvent
<1> QED BY <1>1, <1>8, <1>9 DEF LastKept

LEMMA LastKeptStep == ASSUME OInv, ToldInv, LastKept, [CraftNext]_craftVars PROVE LastKept'
<1>1. CASE Idle  BY <1>1 DEF Idle, Untold, LastKept
<1>2. CASE Acquiring  BY <1>2, LastKeptAcquires DEF Acquiring
<1>3. CASE \E p, e, rs : Reporting(p, e, rs)  BY <1>3, LastKeptReports
<1>4. CASE \E tc, rs : Answering(tc, rs)
  <2>1. PICK tc, rs : Answering(tc, rs)  BY <1>4
  <2>2. PICK b : Listed(b) /\ ground' = ground \o b  BY <2>1 DEF Answering, Replies
  <2>3. UNCHANGED <<offered, evStore>> /\ Listed(ground)  BY <2>1 DEF Answering, Untold, OInv
  <2> QED BY <2>2, <2>3, LastKeptGrows
<1>5. exits \in Nat /\ Listed(told)  BY DEF ToldInv
<1>6. \/ Idle \/ Acquiring \/ (\E p, e, rs : Reporting(p, e, rs))
      \/ \E tc, rs : Answering(tc, rs)
  BY <1>5, CraftSteps
<1> QED BY <1>1, <1>2, <1>3, <1>4, <1>6

LEMMA LastKeptInvariant == CraftSpec => []LastKept
<1>1. CraftInit => LastKept
  <2>1. CraftInit => offered = <<>>  BY DEF CraftInit, ObdhInit
  <2>2. Len(<<>>) = 0  OBVIOUS
  <2> QED BY <2>1, <2>2 DEF LastKept
<1>2. OInv /\ ToldInv /\ LastKept /\ [CraftNext]_craftVars => LastKept'  BY LastKeptStep
<1> QED BY <1>1, <1>2, ToldInvariant, PTL DEF CraftSpec

-----------------------------------------------------------------------------
(* What success is backed by *)

Claims(g, k) == /\ g[k].pkt.apid = "CMD" /\ g[k].pkt.cmd = "EXIT_SAFE"
                /\ g[k].pkt.kind = "COMPLETE_OK" /\ g[k].pass # 0
Leaves(g, t, j) == g[j].pkt.apid = "EVENT" /\ t[g[j].pkt.n].id = "SAFE_EXIT"
Backed(g, t, k) ==
    \E j \in 1 .. k - 1 : Leaves(g, t, j) /\ \A i \in j + 1 .. k : g[i].pkt.apid = "CMD"
BackedAll(g, t) == \A k \in 1 .. Len(g) : Claims(g, k) => Backed(g, t, k)

\* The events on the ground are among those told, and what was told stays.
Among(g, t) == \A j \in 1 .. Len(g) : g[j].pkt.apid = "EVENT" => g[j].pkt.n \in 1 .. Len(t)
Stays(t, u) == \A n \in 1 .. Len(t) : u[n] = t[n]

LEMMA BackedIs == ExitEventFirst <=> BackedAll(ground, told)
BY DEF ExitEventFirst, ReportsExit, IsExit, BackedAll, Claims, Backed, Leaves

LEMMA BackedGrows ==
    ASSUME NEW g, NEW b, Listed(g), Listed(b), NEW t, NEW u, Among(g, t), Stays(t, u),
           BackedAll(g, t), BackedAll(b, u)
    PROVE  BackedAll(g \o b, u)
<1>1. PICK h : h = g \o b  OBVIOUS
<1>2. PICK m \in Nat, n \in Nat : m = Len(g) /\ n = Len(b)  BY Joined
<1>3. /\ Len(h) = m + n /\ \A i \in 1 .. m : h[i] = g[i]
      /\ \A i \in 1 .. n : h[m + i] = b[i]
  BY <1>1, <1>2, Joined
<1>4. ASSUME NEW k \in 1 .. m, Claims(h, k) PROVE Backed(h, u, k)
  <2>1. h[k] = g[k]  BY <1>3
  <2>2. Claims(g, k)  BY <1>4, <2>1 DEF Claims
  <2>3. Backed(g, t, k)  BY <1>2, <2>2 DEF BackedAll
  <2>4. PICK j \in 1 .. k - 1 : Leaves(g, t, j) /\ \A i \in j + 1 .. k : g[i].pkt.apid = "CMD"
    BY <2>3 DEF Backed
  <2>5. j \in 1 .. m /\ \A i \in j + 1 .. k : i \in 1 .. m  BY <1>2
  <2>6. h[j] = g[j] /\ \A i \in j + 1 .. k : h[i] = g[i]  BY <1>3, <2>5
  <2>7. u[g[j].pkt.n] = t[g[j].pkt.n]  BY <1>2, <2>4, <2>5 DEF Among, Stays, Leaves
  <2>8. Leaves(h, u, j)  BY <2>4, <2>6, <2>7 DEF Leaves
  <2>9. \A i \in j + 1 .. k : h[i].pkt.apid = "CMD"  BY <2>4, <2>6
  <2> QED BY <2>8, <2>9 DEF Backed
<1>5. ASSUME NEW l \in 1 .. n, Claims(h, m + l) PROVE Backed(h, u, m + l)
  <2>1. h[m + l] = b[l]  BY <1>3
  <2>2. Claims(b, l)  BY <1>5, <2>1 DEF Claims
  <2>3. Backed(b, u, l)  BY <1>2, <2>2 DEF BackedAll
  <2>4. PICK j \in 1 .. l - 1 : Leaves(b, u, j) /\ \A i \in j + 1 .. l : b[i].pkt.apid = "CMD"
    BY <2>3 DEF Backed
  <2>5. j \in 1 .. n /\ m + j \in 1 .. (m + l) - 1  BY <1>2
  <2>6. h[m + j] = b[j]  BY <1>3, <2>5
  <2>7. Leaves(h, u, m + j)  BY <2>4, <2>6 DEF Leaves
  <2>8. ASSUME NEW i \in (m + j) + 1 .. m + l PROVE h[i].pkt.apid = "CMD"
    <3>1. PICK o \in Int : o = i - m  BY <1>2
    <3>2. o \in j + 1 .. l /\ o \in 1 .. n /\ i = m + o  BY <1>2, <3>1
    <3> QED BY <1>3, <2>4, <3>2
  <2> QED BY <2>5, <2>7, <2>8 DEF Backed
<1>6. ASSUME NEW k \in 1 .. m + n, Claims(h, k) PROVE Backed(h, u, k)
  <2>1. CASE k \in 1 .. m  BY <1>4, <1>6, <2>1
  <2>2. CASE \E l \in 1 .. n : k = m + l  BY <1>5, <1>6, <2>2
  <2> QED BY <1>2, <2>1, <2>2, Split
<1> QED BY <1>1, <1>3, <1>6 DEF BackedAll

\* A block of which no report claims success keeps the property.
LEMMA BackedQuietly ==
    ASSUME OInv, ToldInv, BackedAll(ground, told), NEW b, Listed(b), ground' = ground \o b,
           Stays(told, told'), \A i \in 1 .. Len(b) : ~Claims(b, i)
    PROVE  BackedAll(ground', told')
<1>1. BackedAll(b, told')  BY DEF BackedAll
<1>2. Among(ground, told) /\ Listed(ground)
  <2>1. \A k \in Of(Events, ground) : ground[k].pkt.n \in 1 .. Len(offered)  BY DEF OInv, Down
  <2> QED BY <2>1 DEF OInv, ToldInv, Of, Events, Among
<1> QED BY <1>1, <1>2, BackedGrows

LEMMA BacklogHasNoReports ==
    ASSUME OInv, AcquireContact
    PROVE  \E s : /\ Listed(s) /\ ground' = ground \o s
                  /\ \A k \in 1 .. Len(s) : s[k].pkt.apid # "CMD"
<1>1. PICK a, b : a = Forwarded(evStore) /\ b = Forwarded(hkStore) /\ ground' = ground \o (a \o b)
  BY DEF AcquireContact, Deliver, Backlog
<1>2. PICK m \in Nat, n \in Nat : m = evStore.count /\ n = hkStore.count  BY CountTypes
<1>3. /\ a = [i \in 1 .. m |-> a[i]] /\ b = [i \in 1 .. n |-> b[i]]
      /\ \A i \in 1 .. m : a[i].pkt = At(evStore, i).pkt
      /\ \A i \in 1 .. n : b[i].pkt = At(hkStore, i).pkt
  BY <1>1, <1>2 DEF Forwarded, Tag
<1>4. Listed(a) /\ Len(a) = m /\ Listed(b) /\ Len(b) = n  BY <1>3, ListedFn
<1>5. PICK s : s = a \o b  OBVIOUS
<1>6. /\ Listed(s) /\ Len(s) = m + n /\ \A i \in 1 .. m : s[i] = a[i]
      /\ \A i \in 1 .. n : s[m + i] = b[i]
  BY <1>4, <1>5, Joined
<1>7. \A i \in 1 .. m : a[i].pkt.apid # "CMD"
  <2>1. \A i \in 1 .. m : At(evStore, i).pkt.apid \in Events  BY <1>2 DEF OInv, Held
  <2> QED BY <1>3, <2>1, Classes
<1>8. \A i \in 1 .. n : b[i].pkt.apid # "CMD"
  <2>1. \A i \in 1 .. n : At(hkStore, i).pkt.apid \in HkApid  BY <1>2 DEF OInv, Held
  <2> QED BY <1>3, <2>1, Classes
<1>9. ASSUME NEW k \in 1 .. m + n PROVE s[k].pkt.apid # "CMD"
  <2>1. CASE k \in 1 .. m  BY <1>6, <1>7, <2>1
  <2>2. CASE \E i \in 1 .. n : k = m + i  BY <1>6, <1>8, <2>2
  <2> QED BY <2>1, <2>2, Split
<1>10. ground' = ground \o s  BY <1>1, <1>5
<1> QED BY <1>6, <1>9, <1>10

LEMMA BackedBacklog ==
    ASSUME OInv, ToldInv, BackedAll(ground, told), AcquireContact, told' = told
    PROVE  BackedAll(ground', told')
<1>1. PICK s : /\ Listed(s) /\ ground' = ground \o s
               /\ \A k \in 1 .. Len(s) : s[k].pkt.apid # "CMD"
  BY BacklogHasNoReports
<1>2. \A k \in 1 .. Len(s) : ~Claims(s, k)  BY <1>1 DEF Claims
<1>3. Stays(told, told')  BY DEF Stays
<1> QED BY <1>1, <1>2, <1>3, BackedQuietly

LEMMA BackedReports ==
    ASSUME OInv, ToldInv, BackedAll(ground, told), NEW p, NEW e, NEW rs, Reporting(p, e, rs),
           Listed(rs), \A i \in 1 .. Len(rs) : rs[i].apid = "CMD",
           e.id = "SAFE_EXIT" \/ Len(rs) = 0
    PROVE  BackedAll(ground', told')
<1>1. PICK b : Sends(b, p, rs)  BY DEF Reporting
<1>2. Listed(b) /\ ground' = ground \o b  BY <1>1 DEF Sends
<1>3. PICK r \in Nat : r = Len(rs)  BY DEF Listed
<1>4. Added(told, told', e)  BY OneMore DEF Reporting, ToldInv
<1>5. Stays(told, told')  BY <1>4 DEF Added, Stays
<1>6. CASE inContact
  <2>1. Len(b) = r + 1 /\ b[1].pkt = p /\ \A i \in 1 .. r : b[1 + i].pkt = rs[i]
    BY <1>1, <1>3, <1>6 DEF Sends
  <2>2. p.apid = "EVENT" /\ p.n = Len(offered) + 1  BY Offering DEF Reporting
  <2>3. ~Claims(b, 1)  BY <2>1, <2>2 DEF Claims
  <2>4. ASSUME NEW k \in 1 .. r + 1, Claims(b, k) PROVE Backed(b, told', k)
    <3>1. k # 1  BY <2>3, <2>4
    <3>2. r # 0 /\ 1 \in 1 .. k - 1  BY <1>3, <3>1
    <3>3. e.id = "SAFE_EXIT"  BY <1>3, <3>2
    <3>4. told'[Len(offered) + 1] = e  BY <1>4 DEF Added, ToldInv
    <3>5. Leaves(b, told', 1)  BY <2>1, <2>2, <3>3, <3>4 DEF Leaves
    <3>6. ASSUME NEW i \in 1 + 1 .. k PROVE b[i].pkt.apid = "CMD"
      <4>1. PICK j \in Int : j = i - 1  OBVIOUS
      <4>2. j \in 1 .. r /\ i = 1 + j  BY <1>3, <4>1
      <4>3. b[1 + j].pkt = rs[j] /\ rs[j].apid = "CMD"  BY <1>3, <2>1, <4>2
      <4> QED BY <4>2, <4>3
    <3> QED BY <3>2, <3>5, <3>6 DEF Backed
  <2>5. BackedAll(b, told')  BY <2>1, <2>4 DEF BackedAll
  <2>6. Among(ground, told) /\ Listed(ground)
    <3>1. \A k \in Of(Events, ground) : ground[k].pkt.n \in 1 .. Len(offered)  BY DEF OInv, Down
    <3> QED BY <3>1 DEF OInv, ToldInv, Of, Events, Among
  <2> QED BY <1>2, <1>5, <2>5, <2>6, BackedGrows
<1>7. CASE ~inContact
  <2>1. \A i \in 1 .. Len(b) : b[i].pass = 0  BY <1>1, <1>7 DEF Sends
  <2>2. \A i \in 1 .. Len(b) : ~Claims(b, i)  BY <2>1 DEF Claims
  <2> QED BY <1>2, <1>5, <2>2, BackedQuietly
<1> QED BY <1>6, <1>7

LEMMA BackedAnswers ==
    ASSUME OInv, ToldInv, BackedAll(ground, told), NEW tc, NEW rs, Answering(tc, rs)
    PROVE  BackedAll(ground', told')
<1>1. PICK b : Replies(b, rs)  BY DEF Answering
<1>2. Listed(b) /\ ground' = ground \o b /\ Len(b) = Len(rs) /\ \A i \in 1 .. Len(rs) : b[i].pkt = rs[i]
  BY <1>1 DEF Replies
<1>3. ASSUME NEW K, Kinds(out', K), "COMPLETE_OK" \notin K \/ tc.cmd = "CONN_TEST",
             NEW i \in 1 .. Len(rs)
      PROVE  ~Claims(b, i)
  <2>1. rs = Responses(tc)  BY DEF Answering
  <2>2. Len(rs) = Len(out') /\ rs[i].cmd = tc.cmd /\ rs[i].kind = out'[i].kind
    BY <1>3, <2>1, ResponsesAre
  <2>3. rs[i].kind \in K  BY <1>3, <2>2 DEF Kinds
  <2>4. b[i].pkt = rs[i]  BY <1>2
  <2> QED BY <1>3, <2>2, <2>3, <2>4 DEF Claims
<1>4. \A i \in 1 .. Len(b) : ~Claims(b, i)
  <2>1. CASE Ignored  BY <1>2, <1>3, <2>1 DEF Ignored
  <2>2. CASE Tested(tc)  BY <1>2, <1>3, <2>2 DEF Tested
  <2>3. CASE Refused
    <3>1. "COMPLETE_OK" \notin OkKinds \cup {"COMPLETE_FAIL"}  BY DEF OkKinds
    <3> QED BY <1>2, <1>3, <2>3, <3>1 DEF Refused
  <2> QED BY <2>1, <2>2, <2>3 DEF Answering
<1>5. Stays(told, told')  BY DEF Answering, Untold, Stays
<1> QED BY <1>2, <1>4, <1>5, BackedQuietly

LEMMA BackedStep ==
    ASSUME OInv, ToldInv, BackedAll(ground, told), [CraftNext]_craftVars
    PROVE  BackedAll(ground', told')
<1>1. CASE Idle  BY <1>1 DEF Idle, Untold
<1>2. CASE Acquiring  BY <1>2, BackedBacklog DEF Acquiring, Untold
<1>3. CASE \E p, e : Reporting(p, e, <<>>)
  <2>1. PICK p, e : Reporting(p, e, <<>>)  BY <1>3
  <2>2. PICK rs : rs = <<>>  OBVIOUS
  <2>3. Listed(rs) /\ Len(rs) = 0
    <3>1. <<>> \in Seq({0}) /\ Len(<<>>) = 0  OBVIOUS
    <3> QED BY <2>2, <3>1 DEF Listed
  <2>4. \A i \in 1 .. Len(rs) : rs[i].apid = "CMD"  BY <2>3
  <2>5. Reporting(p, e, rs)  BY <2>1, <2>2
  <2> QED BY <2>3, <2>4, <2>5, BackedReports
<1>4. CASE \E tc, rs : Answering(tc, rs)  BY <1>4, BackedAnswers
<1>5. CASE \E tc, rs, p, e : /\ Reporting(p, e, rs) /\ e.id = "SAFE_EXIT"
                             /\ rs = Responses(tc) /\ Obeyed
  <2>1. PICK tc, rs, p, e : /\ Reporting(p, e, rs) /\ e.id = "SAFE_EXIT"
                            /\ rs = Responses(tc) /\ Obeyed
    BY <1>5
  <2>2. PICK K : Kinds(out', K)  BY <2>1 DEF Obeyed
  <2>3. Listed(rs) /\ \A i \in 1 .. Len(rs) : rs[i].apid = "CMD"  BY <2>1, <2>2, ResponsesAre
  <2> QED BY <2>1, <2>3, BackedReports
<1>6. exits \in Nat /\ Listed(told)  BY DEF ToldInv
<1> QED BY <1>1, <1>2, <1>3, <1>4, <1>5, <1>6, CraftSteps

-----------------------------------------------------------------------------
(* What becomes of the commands that are executed *)

LeftSafe(t) == {n \in 1 .. Len(t) : t[n].id = "SAFE_EXIT"}
Fails(x)    == x.pkt.apid = "CMD" /\ x.pkt.kind = "COMPLETE_FAIL"
Failed(g)   == {k \in 1 .. Len(g) : Fails(g[k])}

Accounted == executed = connTests + Cardinality(LeftSafe(told)) + Cardinality(Failed(ground))

LEMMA AccountedIs == RefusedVisibly <=> Accounted
BY DEF RefusedVisibly, Accounted, SafeExits, Failures, LeftSafe, Failed, Fails

LEMMA Single == ASSUME NEW x PROVE Cardinality({x}) = 1
<1>1. IsFiniteSet({}) /\ Cardinality({}) = 0  BY FS_EmptySet
<1>2. Cardinality({} \cup {x}) = 0 + 1  BY <1>1, FS_AddElement
<1>3. {} \cup {x} = {x}  OBVIOUS
<1> QED BY <1>2, <1>3

LEMMA FailTally ==
    ASSUME NEW g, NEW b, Listed(g), Listed(b)
    PROVE  /\ Cardinality(Failed(g)) \in Nat /\ Cardinality(Failed(b)) \in Nat
           /\ Cardinality(Failed(g \o b)) = Cardinality(Failed(g)) + Cardinality(Failed(b))
<1>1. PICK h : h = g \o b  OBVIOUS
<1>2. PICK m \in Nat, n \in Nat : m = Len(g) /\ n = Len(b)  BY Joined
<1>3. /\ Len(h) = m + n /\ \A i \in 1 .. m : h[i] = g[i]
      /\ \A i \in 1 .. n : h[m + i] = b[i]
  BY <1>1, <1>2, Joined
<1>4. /\ Failed(g) = {k \in 1 .. m : Fails(g[k])} /\ Failed(b) = {k \in 1 .. n : Fails(b[k])}
      /\ Failed(h) = {k \in 1 .. m + n : Fails(h[k])}
  BY <1>2, <1>3 DEF Failed
<1>5. \A i \in 1 .. m : i \in 1 .. m + n  OBVIOUS
<1>6. \A i \in 1 .. n : m + i \in 1 .. m + n  OBVIOUS
<1>7. \A i \in 1 .. m : i \in Failed(h) <=> i \in Failed(g)  BY <1>3, <1>4, <1>5
<1>8. \A i \in 1 .. n : m + i \in Failed(h) <=> i \in Failed(b)  BY <1>3, <1>4, <1>6
<1>9. Parts(m, n, Failed(g), Failed(b), Failed(h))  BY <1>4, <1>7, <1>8 DEF Parts
<1> QED BY <1>1, <1>9, Tally

LEMMA LeftTally ==
    ASSUME NEW t, NEW e, NEW u, Listed(t), u = t \o <<e>>
    PROVE  /\ Cardinality(LeftSafe(t)) \in Nat
           /\ Cardinality(LeftSafe(u)) = Cardinality(LeftSafe(t)) + (IF e.id = "SAFE_EXIT" THEN 1 ELSE 0)
<1>1. PICK m \in Nat : m = Len(t)  BY DEF Listed
<1>2. Len(u) = m + 1 /\ u[m + 1] = e /\ \A n \in 1 .. m : u[n] = t[n]
  BY <1>1, OneMore DEF Added
<1>3. PICK Y : Y = IF e.id = "SAFE_EXIT" THEN {1} ELSE {}  OBVIOUS
<1>4. /\ LeftSafe(t) = {n \in 1 .. m : t[n].id = "SAFE_EXIT"}
      /\ LeftSafe(u) = {n \in 1 .. m + 1 : u[n].id = "SAFE_EXIT"}
  BY <1>1, <1>2 DEF LeftSafe
<1>5. \A i \in 1 .. m : i \in 1 .. m + 1  OBVIOUS
<1>6. \A i \in 1 .. 1 : i = 1 /\ m + i = m + 1 /\ m + i \in 1 .. m + 1  OBVIOUS
<1>7. \A i \in 1 .. m : i \in LeftSafe(u) <=> i \in LeftSafe(t)  BY <1>2, <1>4, <1>5
<1>8. \A i \in 1 .. 1 : m + i \in LeftSafe(u) <=> i \in Y  BY <1>2, <1>3, <1>4, <1>6
<1>9. Parts(m, 1, LeftSafe(t), Y, LeftSafe(u))  BY <1>3, <1>4, <1>7, <1>8 DEF Parts
<1>10. Cardinality(Y) = IF e.id = "SAFE_EXIT" THEN 1 ELSE 0  BY <1>3, Singles
<1> QED BY <1>9, <1>10, Tally

LEMMA NoFailure ==
    ASSUME NEW b, \A i \in 1 .. Len(b) : ~Fails(b[i]) PROVE Cardinality(Failed(b)) = 0
<1>1. Failed(b) = {}  BY DEF Failed
<1> QED BY <1>1, Singles

\* f failures come down in block b; FDIR leaves safe mode x times.
LEMMA AccountKept ==
    ASSUME Listed(ground), ToldInv, Accounted, NEW b, Listed(b), ground' = ground \o b,
           NEW f \in Nat, Cardinality(Failed(b)) = f, NEW x \in Nat,
           Cardinality(LeftSafe(told')) = Cardinality(LeftSafe(told)) + x,
           Cardinality(LeftSafe(told)) \in Nat,
           executed' = executed + (connTests' - connTests) + x + f, connTests' \in Nat
    PROVE  Accounted'
<1>1. PICK g, h : g = ground /\ h = ground'  OBVIOUS
<1>2. /\ Cardinality(Failed(g)) \in Nat
      /\ Cardinality(Failed(g \o b)) = Cardinality(Failed(g)) + Cardinality(Failed(b))
  BY <1>1, FailTally
<1>3. Cardinality(Failed(ground)) \in Nat
      /\ Cardinality(Failed(ground')) = Cardinality(Failed(ground)) + f
  BY <1>1, <1>2
<1>4. executed \in Nat /\ connTests \in Nat  BY DEF ToldInv
<1>5. PICK l \in Nat, r \in Nat : l = Cardinality(LeftSafe(told)) /\ r = Cardinality(Failed(ground))
  BY <1>3
<1>6. Cardinality(LeftSafe(told')) = l + x /\ Cardinality(Failed(ground')) = r + f  BY <1>3, <1>5
<1>7. executed = connTests + l + r  BY <1>5 DEF Accounted
<1>8. executed' = connTests' + (l + x) + (r + f)  BY <1>4, <1>7
<1> QED BY <1>6, <1>8 DEF Accounted

LEMMA AccountReports ==
    ASSUME OInv, ToldInv, Accounted, NEW p, NEW e, NEW rs, Reporting(p, e, rs), Listed(rs),
           \A i \in 1 .. Len(rs) : rs[i].kind # "COMPLETE_FAIL",
           \/ e.id # "SAFE_EXIT" /\ UNCHANGED Counts
           \/ e.id = "SAFE_EXIT" /\ Obeyed
    PROVE  Accounted'
<1>1. PICK b : Sends(b, p, rs)  BY DEF Reporting
<1>2. Listed(b) /\ ground' = ground \o b  BY <1>1 DEF Sends
<1>3. PICK r \in Nat : r = Len(rs)  BY DEF Listed
<1>4. \A i \in 1 .. Len(b) : ~Fails(b[i])
  <2>1. \A j \in 1 .. r : \A x : x.pkt = rs[j] => ~Fails(x)  BY <1>3 DEF Fails
  <2>2. CASE Len(b) = r + 1 /\ b[1].pkt = p /\ \A i \in 1 .. r : b[1 + i].pkt = rs[i]
    <3>1. ~Fails(b[1])  BY <2>2 DEF Fails, Reporting
    <3>2. \A j \in 1 .. r : ~Fails(b[1 + j])  BY <2>1, <2>2
    <3>3. ASSUME NEW i \in 1 .. r + 1 PROVE ~Fails(b[i])
      <4>1. CASE i = 1  BY <3>1, <4>1
      <4>2. CASE \E j \in 1 .. r : i = 1 + j  BY <3>2, <4>2
      <4>3. i \in 1 .. 1 \/ \E j \in 1 .. r : i = 1 + j
        <5>1. 1 \in Nat /\ r \in Nat /\ i \in 1 .. 1 + r  OBVIOUS
        <5> QED BY <5>1, Split
      <4>4. i \in 1 .. 1 => i = 1  OBVIOUS
      <4> QED BY <4>1, <4>2, <4>3, <4>4
    <3> QED BY <2>2, <3>3
  <2>3. CASE Len(b) = r /\ \A i \in 1 .. r : b[i].pkt = rs[i]  BY <2>1, <2>3
  <2> QED BY <1>1, <1>3, <2>2, <2>3 DEF Sends
<1>5. Cardinality(Failed(b)) = 0  BY <1>4, NoFailure
<1>6. /\ Cardinality(LeftSafe(told)) \in Nat
      /\ Cardinality(LeftSafe(told'))
           = Cardinality(LeftSafe(told)) + (IF e.id = "SAFE_EXIT" THEN 1 ELSE 0)
  <2>1. PICK t, u : t = told /\ u = told'  OBVIOUS
  <2>2. Listed(t) /\ u = t \o <<e>>  BY <2>1 DEF Reporting, ToldInv
  <2>3. /\ Cardinality(LeftSafe(t)) \in Nat
        /\ Cardinality(LeftSafe(u))
             = Cardinality(LeftSafe(t)) + (IF e.id = "SAFE_EXIT" THEN 1 ELSE 0)
    BY <2>2, LeftTally
  <2> QED BY <2>1, <2>3
<1>7. PICK x \in Nat : /\ x = IF e.id = "SAFE_EXIT" THEN 1 ELSE 0
                       /\ executed' = executed + x /\ connTests' = connTests
  <2>1. executed \in Nat  BY DEF ToldInv
  <2>2. CASE e.id # "SAFE_EXIT" /\ UNCHANGED Counts
    <3>1. executed' = executed + 0 /\ connTests' = connTests  BY <2>1, <2>2 DEF Counts
    <3> QED BY <2>2, <3>1
  <2>3. CASE e.id = "SAFE_EXIT" /\ Obeyed
    <3>1. executed' = executed + 1 /\ connTests' = connTests  BY <2>3 DEF Obeyed
    <3> QED BY <2>3, <3>1
  <2> QED BY <2>2, <2>3
<1>8. connTests \in Nat /\ executed \in Nat  BY DEF ToldInv
<1>9. Listed(ground)  BY DEF OInv
<1>10. Cardinality(LeftSafe(told')) = Cardinality(LeftSafe(told)) + x  BY <1>6, <1>7
<1>11. executed' = executed + (connTests' - connTests) + x + 0 /\ connTests' \in Nat
  BY <1>7, <1>8
<1> QED BY <1>2, <1>5, <1>6, <1>9, <1>10, <1>11, AccountKept

\* Nothing is told of FDIR, and f reports of a failure come down.
LEMMA AccountUntold ==
    ASSUME OInv, ToldInv, Accounted, told' = told, NEW b, Listed(b), ground' = ground \o b,
           NEW f \in Nat, Cardinality(Failed(b)) = f,
           executed' = executed + (connTests' - connTests) + f, connTests' \in Nat
    PROVE  Accounted'
<1>1. PICK t : t = told  OBVIOUS
<1>2. Listed(t)  BY <1>1 DEF ToldInv
<1>3. Cardinality(LeftSafe(t)) \in Nat
  <2>1. PICK e, u : u = t \o <<e>>  OBVIOUS
  <2> QED BY <1>2, <2>1, LeftTally
<1>4. Cardinality(LeftSafe(told)) \in Nat
      /\ Cardinality(LeftSafe(told')) = Cardinality(LeftSafe(told)) + 0
  BY <1>1, <1>3
<1>5. connTests \in Nat /\ executed \in Nat  BY DEF ToldInv
<1>6. executed' = executed + (connTests' - connTests) + 0 + f  BY <1>5
<1>7. Listed(ground)  BY DEF OInv
<1> QED BY <1>4, <1>6, <1>7, AccountKept

LEMMA AccountQuiet ==
    ASSUME OInv, ToldInv, Accounted, told' = told, NEW b, Listed(b), ground' = ground \o b,
           Cardinality(Failed(b)) = 0,
           executed' = executed + (connTests' - connTests), connTests' \in Nat
    PROVE  Accounted'
<1>1. PICK f \in Nat : f = 0  OBVIOUS
<1>2. executed \in Nat /\ connTests \in Nat  BY DEF ToldInv
<1>3. executed' = executed + (connTests' - connTests) + f  BY <1>1, <1>2
<1>4. Cardinality(Failed(b)) = f  BY <1>1
<1> QED BY <1>3, <1>4, AccountUntold

LEMMA AccountAnswers ==
    ASSUME OInv, ToldInv, Accounted, NEW tc, NEW rs, Answering(tc, rs) PROVE Accounted'
<1>1. PICK b : Replies(b, rs)  BY DEF Answering
<1>2. Listed(b) /\ ground' = ground \o b /\ Len(b) = Len(rs) /\ \A i \in 1 .. Len(rs) : b[i].pkt = rs[i]
  BY <1>1 DEF Replies
<1>3. ASSUME NEW K, Kinds(out', K)
      PROVE  /\ Len(b) = Len(out') /\ Len(out') \in Nat
             /\ \A i \in 1 .. Len(b) : Fails(b[i]) <=> out'[i].kind = "COMPLETE_FAIL"
             /\ \A i \in 1 .. Len(b) : out'[i].kind \in K
  <2>1. rs = Responses(tc)  BY DEF Answering
  <2>2. /\ Len(rs) = Len(out') /\ \A i \in 1 .. Len(rs) : rs[i].apid = "CMD" /\ rs[i].kind = out'[i].kind
    BY <1>3, <2>1, ResponsesAre
  <2>3. \A i \in 1 .. Len(b) : Fails(b[i]) <=> out'[i].kind = "COMPLETE_FAIL"
    BY <1>2, <2>2 DEF Fails
  <2> QED BY <1>2, <1>3, <2>2, <2>3 DEF Kinds
<1>4. told' = told  BY DEF Answering, Untold
<1>5. connTests \in Nat /\ executed \in Nat  BY DEF ToldInv
<1>6. ASSUME NEW K, Kinds(out', K), "COMPLETE_FAIL" \notin K PROVE Cardinality(Failed(b)) = 0
  <2>1. \A i \in 1 .. Len(b) : ~Fails(b[i])  BY <1>3, <1>6
  <2> QED BY <2>1, NoFailure
<1>7. CASE Ignored
  <2>1. Cardinality(Failed(b)) = 0  BY <1>6, <1>7 DEF Ignored
  <2>2. executed' = executed + (connTests' - connTests) /\ connTests' \in Nat
    BY <1>5, <1>7 DEF Ignored
  <2> QED BY <1>2, <1>4, <2>1, <2>2, AccountQuiet
<1>8. CASE Tested(tc)
  <2>1. "COMPLETE_FAIL" \notin OkKinds \cup {"CONN_TEST", "COMPLETE_OK"}  BY DEF OkKinds
  <2>2. Cardinality(Failed(b)) = 0  BY <1>6, <1>8, <2>1 DEF Tested
  <2>3. executed' = executed + (connTests' - connTests) /\ connTests' \in Nat
    BY <1>5, <1>8 DEF Tested
  <2> QED BY <1>2, <1>4, <2>2, <2>3, AccountQuiet
<1>9. CASE Refused
  <2>1. /\ Len(b) = Len(out') /\ Len(out') \in Nat /\ Len(out') >= 1
        /\ \A i \in 1 .. Len(b) : Fails(b[i]) <=> i = Len(out')
    BY <1>3, <1>9 DEF Refused
  <2>2. PICK n \in Nat : n = Len(b)  BY <2>1
  <2>3. n \in 1 .. n  BY <2>1, <2>2
  <2>4. Failed(b) = {n}  BY <2>1, <2>2, <2>3 DEF Failed
  <2>5. Cardinality(Failed(b)) = 1  BY <2>4, Single
  <2>6. executed' = executed + (connTests' - connTests) + 1 /\ connTests' \in Nat
    BY <1>5, <1>9 DEF Refused
  <2> QED BY <1>2, <1>4, <2>5, <2>6, AccountUntold
<1> QED BY <1>7, <1>8, <1>9 DEF Answering

LEMMA AccountStep == ASSUME OInv, ToldInv, Accounted, [CraftNext]_craftVars PROVE Accounted'
<1>1. CASE Idle  BY <1>1 DEF Idle, Untold, Counts, Accounted
<1>2. CASE Acquiring
  <2>1. PICK b : /\ Listed(b) /\ ground' = ground \o b
                 /\ \A k \in 1 .. Len(b) : b[k].pkt.apid # "CMD"
    BY <1>2, BacklogHasNoReports DEF Acquiring
  <2>2. Cardinality(Failed(b)) = 0
    <3>1. \A k \in 1 .. Len(b) : ~Fails(b[k])  BY <2>1 DEF Fails
    <3> QED BY <3>1, NoFailure
  <2>3. executed' = executed + (connTests' - connTests) /\ connTests' \in Nat /\ told' = told
    BY <1>2 DEF Acquiring, Untold, Counts, ToldInv
  <2> QED BY <2>1, <2>2, <2>3, AccountQuiet
<1>3. CASE \E p, e : Reporting(p, e, <<>>) /\ e.id # "SAFE_EXIT" /\ UNCHANGED Counts
  <2>1. PICK p, e : Reporting(p, e, <<>>) /\ e.id # "SAFE_EXIT" /\ UNCHANGED Counts  BY <1>3
  <2>2. PICK rs : rs = <<>>  OBVIOUS
  <2>3. Listed(rs) /\ Len(rs) = 0
    <3>1. <<>> \in Seq({0}) /\ Len(<<>>) = 0  OBVIOUS
    <3> QED BY <2>2, <3>1 DEF Listed
  <2>4. \A i \in 1 .. Len(rs) : rs[i].kind # "COMPLETE_FAIL"  BY <2>3
  <2>5. Reporting(p, e, rs)  BY <2>1, <2>2
  <2> QED BY <2>1, <2>3, <2>4, <2>5, AccountReports
<1>4. CASE \E tc, rs : Answering(tc, rs)  BY <1>4, AccountAnswers
<1>5. CASE \E tc, rs, p, e : /\ Reporting(p, e, rs) /\ e.id = "SAFE_EXIT"
                             /\ rs = Responses(tc) /\ Obeyed
  <2>1. PICK tc, rs, p, e : /\ Reporting(p, e, rs) /\ e.id = "SAFE_EXIT"
                            /\ rs = Responses(tc) /\ Obeyed
    BY <1>5
  <2>2. Kinds(out', OkKinds \cup {"COMPLETE_OK"})  BY <2>1 DEF Obeyed
  <2>3. Listed(rs) /\ Len(rs) = Len(out') /\ \A i \in 1 .. Len(rs) : rs[i].kind = out'[i].kind
    BY <2>1, <2>2, ResponsesAre
  <2>4. "COMPLETE_FAIL" \notin OkKinds \cup {"COMPLETE_OK"}  BY DEF OkKinds
  <2>5. \A i \in 1 .. Len(rs) : rs[i].kind # "COMPLETE_FAIL"  BY <2>2, <2>3, <2>4 DEF Kinds
  <2> QED BY <2>1, <2>3, <2>5, AccountReports
<1>6. exits \in Nat /\ Listed(told)  BY DEF ToldInv
<1> QED BY <1>1, <1>2, <1>3, <1>4, <1>5, <1>6, CraftSteps

-----------------------------------------------------------------------------
(* The theorems *)

\* In contact the last event on the ground tells the state FDIR is in and the attempts
\* it has made, whatever the blackout before lost (emit_event, and the event store).
THEOREM GroundKnows == CraftSpec => []GroundKnowsFdir
<1>1. OInv /\ ToldInv /\ LastKept => GroundKnowsFdir
  <2> SUFFICES ASSUME OInv, ToldInv, LastKept, inContact
               PROVE  LastTold = LastSaid(told)
    BY DEF GroundKnowsFdir, ToldInv
  <2>1. PICK got : got = ReceivedOf(Events)  OBVIOUS
  <2>2. got = Of(Events, ground)  BY <2>1 DEF ReceivedOf, Of
  <2>3. evStore.count = 0  BY DEF OInv, NothingHeldInContact
  <2>4. Len(offered) > 0 => \E k \in got : ground[k].pkt.n = Len(offered)
    BY <2>2, <2>3 DEF LastKept
  <2>5. /\ \A k \in got : ground[k].pkt.n \in 1 .. Len(offered)
        /\ \A j, k \in got : j < k => ground[j].pkt.n < ground[k].pkt.n
    BY <2>2 DEF OInv, Down
  <2>6. Len(told) = Len(offered) /\ Len(offered) \in Nat  BY DEF ToldInv
  <2>7. CASE got = {}
    <3>1. LastTold = [state |-> "NOMINAL", attempts |-> 0]  BY <2>1, <2>7 DEF LastTold
    <3>2. Len(told) = 0  BY <2>4, <2>6, <2>7
    <3> QED BY <3>1, <3>2 DEF LastSaid
  <2>8. CASE got # {}
    <3>1. Len(offered) > 0  BY <2>5, <2>6, <2>8
    <3>2. PICK k \in got : ground[k].pkt.n = Len(offered)  BY <2>4, <3>1
    <3>3. \A j \in got : j \in Nat  BY <2>2 DEF Of
    <3>4. \A j \in got : j <= k
      <4> SUFFICES ASSUME NEW j \in got, k < j PROVE FALSE  BY <3>3
      <4>1. ground[k].pkt.n < ground[j].pkt.n /\ ground[j].pkt.n \in 1 .. Len(offered)  BY <2>5
      <4> QED BY <2>6, <3>2, <4>1
    <3>5. PICK last : last = CHOOSE l \in got : \A j \in got : j <= l  OBVIOUS
    <3>6. last \in got /\ \A j \in got : j <= last  BY <3>4, <3>5
    <3>7. last = k  BY <3>3, <3>4, <3>6
    <3>8. LastTold = [state |-> told[Len(offered)].state, attempts |-> told[Len(offered)].attempts]
      BY <2>1, <2>8, <3>2, <3>5, <3>7 DEF LastTold
    <3> QED BY <2>6, <3>1, <3>8 DEF LastSaid
  <2> QED BY <2>7, <2>8
<1> QED BY <1>1, ToldInvariant, LastKeptInvariant, PTL

\* In contact the events that the ground misses, by their sequence counts, are exactly
\* those the event store counts as dropped (emit_event numbers every event it hands on).
THEOREM GapsTellLosses == CraftSpec => []GapsAreDrops
<1>1. OInv /\ ToldInv /\ LossVisible => GapsAreDrops
  <2> SUFFICES ASSUME OInv, ToldInv, LossVisible, inContact PROVE GapsAreDrops
    BY DEF GapsAreDrops
  <2>1. PICK m \in Nat : m = Len(offered) /\ m = Len(told)  BY DEF ToldInv
  <2>2. IsOf(Events) = 1 .. m  BY <2>1 DEF IsOf, ToldInv, Events
  <2>3. Cardinality(1 .. m) = m
    <3>1. CASE m = 0
      <4>1. 1 .. m = {}  BY <3>1
      <4> QED BY <3>1, <4>1, Singles
    <3>2. CASE m > 0
      <4>1. 1 \in Int /\ m \in Int /\ 1 <= m  BY <3>2
      <4>2. Cardinality(1 .. m) = m - 1 + 1  BY <4>1, FS_Interval
      <4> QED BY <4>2
    <3> QED BY <3>1, <3>2
  <2>4. evStore.count = 0 /\ evStore.dropped \in Nat
    BY CountTypes DEF OInv, NothingHeldInContact
  <2>5. ReceivedOf(Events) = Of(Events, ground) /\ Cardinality(Of(Events, ground)) \in Nat
    BY CountTypes DEF ReceivedOf, Of
  <2>6. m = Cardinality(ReceivedOf(Events)) + evStore.dropped
    <3>1. m = Cardinality(ReceivedOf(Events)) + evStore.count + evStore.dropped
      BY <2>2, <2>3 DEF LossVisible
    <3> QED BY <2>4, <2>5, <3>1
  <2>7. evSeq = m % SeqMod  BY <2>1 DEF ToldInv
  <2>8. \A j \in ReceivedOf(Events) : told[ground[j].pkt.n].seq = (ground[j].pkt.n - 1) % SeqMod
    <3>1. \A j \in ReceivedOf(Events) : ground[j].pkt.n \in 1 .. Len(told)
      BY <2>1, <2>5 DEF OInv, Down
    <3> QED BY <3>1 DEF ToldInv
  <2> QED BY <2>6, <2>7, <2>8 DEF GapsAreDrops
<1> QED BY <1>1, ToldInvariant, CraftImplementsParts, NothingLostUnseen, PTL
\* In contact success of an exit command comes behind the exit event, with nothing but
\* the command's reports in between (ingest_tc routes the reports after the dispatch).
THEOREM ExitBeforeSuccess == CraftSpec => []ExitEventFirst
<1>1. CraftInit => BackedAll(ground, told)
  <2>1. CraftInit => ground = <<>>  BY DEF CraftInit, ObdhInit
  <2>2. Len(<<>>) = 0  OBVIOUS
  <2> QED BY <2>1, <2>2 DEF BackedAll
<1>2. OInv /\ ToldInv /\ BackedAll(ground, told) /\ [CraftNext]_craftVars
      => BackedAll(ground, told)'
  BY BackedStep
<1> QED BY <1>1, <1>2, BackedIs, ToldInvariant, PTL DEF CraftSpec
\* An exit command outside SAFE, and no other, is executed and reported to have failed:
\* what is executed is tested, obeyed or refused on the link (exit_safe_trampoline).
THEOREM RefusalIsVisible == CraftSpec => []RefusedVisibly
<1>1. CraftInit => Accounted
  <2> SUFFICES ASSUME CraftInit PROVE Accounted  OBVIOUS
  <2>1. ground = <<>> /\ told = <<>> /\ executed = 0 /\ connTests = 0
    BY DEF CraftInit, ObdhInit, PathInit
  <2>2. Len(<<>>) = 0  OBVIOUS
  <2>3. LeftSafe(told) = {} /\ Failed(ground) = {}  BY <2>1, <2>2 DEF LeftSafe, Failed
  <2>4. Cardinality(LeftSafe(told)) = 0 /\ Cardinality(Failed(ground)) = 0  BY <2>3, Singles
  <2>5. 0 = 0 + 0 + 0  OBVIOUS
  <2> QED BY <2>1, <2>4, <2>5 DEF Accounted
<1>2. OInv /\ ToldInv /\ Accounted /\ [CraftNext]_craftVars => Accounted'  BY AccountStep
<1> QED BY <1>1, <1>2, AccountedIs, ToldInvariant, PTL DEF CraftSpec
=============================================================================
