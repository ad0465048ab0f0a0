----------------------------- MODULE Link_proofs -----------------------------
(***************************************************************************)
(* Theorems about what goes over the link.  Of Uplink, for any             *)
(* telecommands in any number and any width of the sequence count: they    *)
(* need what uplink.h provides, room for the four reports a telecommand    *)
(* can have.  Of TmStream and TcLink, about the octets, for every value of *)
(* the fields: telemetry reads back and is counted without a gap, a report *)
(* names its telecommand, the checksum sees every burst of damage within   *)
(* two octets and any odd number of bits, and a harmed telecommand is      *)
(* refused for what was done to it and never acts, unless the damage is    *)
(* one the checksum cannot see.                                            *)
(***************************************************************************)
EXTENDS Uplink, TcLink, TmStream, FiniteSetTheorems, SequenceTheorems, TLAPS

RoomForAll == MaxTmPerTc >= 4

-----------------------------------------------------------------------------
(* The reports of one telecommand *)

Report  == [kind : ReportKind, code : FailCode]
LogItem == [kind : ReportKind, code : FailCode, seq : 0 .. TmSeqMod - 1, cmd : Nat]

\* Reports of the stages lo to hi, each stage at most once, in order.
Chain(rs, lo, hi) ==
    /\ rs \in Seq(Report) /\ Len(rs) <= hi - lo + 1
    /\ \A i \in 1 .. Len(rs) : Rank(rs[i].kind) \in lo .. hi
    /\ \A i, j \in 1 .. Len(rs) : i < j => Rank(rs[i].kind) < Rank(rs[j].kind)

KindsOf(rs) == {rs[k].kind : k \in 1 .. Len(rs)}

LEMMA Ranks ==
    /\ Rank("ACCEPT_OK") = 1 /\ Rank("ACCEPT_FAIL") = 1 /\ Rank("START_OK") = 2
    /\ Rank("CONN_TEST") = 3 /\ Rank("COMPLETE_OK") = 4 /\ Rank("COMPLETE_FAIL") = 4
BY DEF Rank

LEMMA ChainJoin ==
    ASSUME NEW lo \in Nat, NEW mid \in Nat, NEW hi \in Nat, lo <= mid, mid < hi,
           NEW a, NEW b, Chain(a, lo, mid), Chain(b, mid + 1, hi)
    PROVE  Chain(a \o b, lo, hi) /\ KindsOf(a \o b) = KindsOf(a) \cup KindsOf(b)
<1>1. a \in Seq(Report) /\ b \in Seq(Report)  BY DEF Chain
<1>2. /\ a \o b \in Seq(Report)
      /\ Len(a) \in Nat /\ Len(b) \in Nat /\ Len(a \o b) = Len(a) + Len(b)
      /\ \A i \in 1 .. Len(a) : (a \o b)[i] = a[i]
      /\ \A i \in 1 .. Len(b) : (a \o b)[Len(a) + i] = b[i]
  BY <1>1, ConcatProperties, LenProperties
<1>3. PICK c, m, n : c = a \o b /\ m = Len(a) /\ n = Len(b)  OBVIOUS
<1>4. /\ c \in Seq(Report) /\ Len(c) = m + n /\ m \in Nat /\ n \in Nat
      /\ \A i \in 1 .. m : c[i] = a[i]
      /\ \A i \in 1 .. n : c[m + i] = b[i]
  BY <1>2, <1>3
<1>5. ASSUME NEW k \in 1 .. m + n PROVE k \in 1 .. m \/ (k - m \in 1 .. n /\ c[k] = b[k - m])
  <2>1. CASE k > m
    <3>1. k - m \in 1 .. n /\ m + (k - m) = k  BY <1>4, <2>1
    <3> QED BY <1>4, <3>1
  <2>2. CASE k <= m  BY <1>4, <2>2
  <2> QED BY <1>4, <2>1, <2>2
<1>6. m <= mid - lo + 1 /\ n <= hi - (mid + 1) + 1  BY <1>3 DEF Chain
<1>7. \A i \in 1 .. m : Rank(a[i].kind) \in lo .. mid  BY <1>3 DEF Chain
<1>8. \A i \in 1 .. n : Rank(b[i].kind) \in mid + 1 .. hi  BY <1>3 DEF Chain
<1>9. \A i \in 1 .. m + n : Rank(c[i].kind) \in lo .. hi
  <2> SUFFICES ASSUME NEW i \in 1 .. m + n PROVE Rank(c[i].kind) \in lo .. hi  OBVIOUS
  <2>1. CASE i \in 1 .. m
    <3>1. Rank(c[i].kind) \in lo .. mid  BY <1>4, <1>7, <2>1
    <3> QED BY <3>1
  <2>2. CASE i - m \in 1 .. n /\ c[i] = b[i - m]
    <3>1. Rank(c[i].kind) \in mid + 1 .. hi  BY <1>8, <2>2
    <3> QED BY <3>1
  <2> QED BY <1>5, <2>1, <2>2
<1>10. ASSUME NEW i \in 1 .. m + n, NEW j \in 1 .. m + n, i < j
       PROVE  Rank(c[i].kind) < Rank(c[j].kind)
  <2>1. CASE i \in 1 .. m /\ j \in 1 .. m
    <3>1. c[i] = a[i] /\ c[j] = a[j]  BY <1>4, <2>1
    <3> QED BY <1>3, <1>10, <2>1, <3>1 DEF Chain
  <2>2. CASE i \in 1 .. m /\ j - m \in 1 .. n /\ c[j] = b[j - m]
    <3>1. Rank(c[i].kind) \in lo .. mid /\ Rank(c[j].kind) \in mid + 1 .. hi
      BY <1>4, <1>7, <1>8, <2>2
    <3> QED BY <3>1
  <2>3. CASE i - m \in 1 .. n /\ c[i] = b[i - m] /\ j - m \in 1 .. n /\ c[j] = b[j - m]
    <3>1. i - m < j - m  BY <1>4, <1>10
    <3> QED BY <1>3, <2>3, <3>1 DEF Chain
  <2>4. ~(i - m \in 1 .. n /\ j \in 1 .. m)  BY <1>4, <1>10
  <2> QED BY <1>5, <2>1, <2>2, <2>3, <2>4
<1>11. KindsOf(c) = KindsOf(a) \cup KindsOf(b)
  <2>1. ASSUME NEW k \in 1 .. m + n PROVE c[k].kind \in KindsOf(a) \cup KindsOf(b)
    BY <1>3, <1>4, <1>5 DEF KindsOf
  <2>2. ASSUME NEW k \in 1 .. m PROVE a[k].kind \in KindsOf(c)
    <3>1. k \in 1 .. Len(c)  BY <1>4
    <3> QED BY <1>4, <3>1 DEF KindsOf
  <2>3. ASSUME NEW k \in 1 .. n PROVE b[k].kind \in KindsOf(c)
    <3>1. m + k \in 1 .. Len(c) /\ c[m + k] = b[k]  BY <1>4
    <3> QED BY <3>1 DEF KindsOf
  <2>4. KindsOf(c) \subseteq KindsOf(a) \cup KindsOf(b)
    <3>1. KindsOf(c) = {c[k].kind : k \in 1 .. m + n}  BY <1>4 DEF KindsOf
    <3> QED BY <2>1, <3>1
  <2>5. KindsOf(a) = {a[k].kind : k \in 1 .. m} /\ KindsOf(b) = {b[k].kind : k \in 1 .. n}
    BY <1>3 DEF KindsOf
  <2>6. KindsOf(a) \subseteq KindsOf(c) /\ KindsOf(b) \subseteq KindsOf(c)
    BY <2>2, <2>3, <2>5
  <2> QED BY <2>4, <2>6
<1>12. Len(c) <= hi - lo + 1  BY <1>4, <1>6
<1> QED BY <1>3, <1>4, <1>9, <1>10, <1>11, <1>12 DEF Chain

LEMMA One ==
    ASSUME NEW kind \in ReportKind, NEW code \in FailCode, NEW r \in Nat, r = Rank(kind)
    PROVE  Chain(Rep(kind, code), r, r) /\ KindsOf(Rep(kind, code)) = {kind}
<1>1. PICK x : x = [kind |-> kind, code |-> code]  OBVIOUS
<1>2. Rep(kind, code) = <<x>> /\ x \in Report /\ x.kind = kind  BY <1>1 DEF Rep, Report
<1>3. <<x>> \in Seq(Report) /\ Len(<<x>>) = 1 /\ <<x>>[1] = x  BY <1>2
<1> QED BY <1>2, <1>3 DEF Chain, KindsOf

LEMMA None == ASSUME NEW r \in Nat PROVE Chain(<<>>, r, r) /\ KindsOf(<<>>) = {}
<1>1. <<>> \in Seq(Report) /\ Len(<<>>) = 0  OBVIOUS
<1> QED BY <1>1 DEF Chain, KindsOf

LEMMA Wider ==
    ASSUME NEW a \in Nat, NEW b \in Nat, NEW lo \in Nat, NEW hi \in Nat, lo <= a, b <= hi,
           NEW rs, Chain(rs, a, b)
    PROVE  Chain(rs, lo, hi)
<1>1. Len(rs) \in Nat /\ Len(rs) <= hi - lo + 1  BY DEF Chain
<1>2. \A i \in 1 .. Len(rs) : Rank(rs[i].kind) \in a .. b  BY DEF Chain
<1>3. \A i \in 1 .. Len(rs) : Rank(rs[i].kind) \in lo .. hi  BY <1>2
<1> QED BY <1>1, <1>3 DEF Chain

LEMMA Asked ==
    ASSUME NEW tc, NEW stage, NEW kind \in ReportKind, NEW r \in Nat, r = Rank(kind)
    PROVE  /\ Chain(IfAsked(tc, stage, kind), r, r)
           /\ KindsOf(IfAsked(tc, stage, kind)) = IF stage \in tc.ack THEN {kind} ELSE {}
<1>1. "NONE" \in FailCode  BY DEF FailCode
<1> QED BY <1>1, One, None DEF IfAsked

LEMMA BegunIs ==
    ASSUME NEW tc
    PROVE  /\ Chain(Begun(tc), 1, 2)
           /\ KindsOf(Begun(tc)) = (IF "ACCEPT" \in tc.ack THEN {"ACCEPT_OK"} ELSE {})
                                      \cup (IF "START" \in tc.ack THEN {"START_OK"} ELSE {})
<1>1. "ACCEPT_OK" \in ReportKind /\ "START_OK" \in ReportKind  BY DEF ReportKind
<1>2. /\ Chain(IfAsked(tc, "ACCEPT", "ACCEPT_OK"), 1, 1)
      /\ KindsOf(IfAsked(tc, "ACCEPT", "ACCEPT_OK")) =
            IF "ACCEPT" \in tc.ack THEN {"ACCEPT_OK"} ELSE {}
  BY <1>1, Ranks, Asked
<1>3. /\ Chain(IfAsked(tc, "START", "START_OK"), 1 + 1, 2)
      /\ KindsOf(IfAsked(tc, "START", "START_OK")) = IF "START" \in tc.ack THEN {"START_OK"} ELSE {}
  BY <1>1, Ranks, Asked
<1>4. 1 \in Nat /\ 2 \in Nat /\ 1 <= 1 /\ 1 < 2  OBVIOUS
<1> QED BY <1>2, <1>3, <1>4, ChainJoin DEF Begun

LEMMA CompletionIs ==
    ASSUME NEW tc, NEW failed \in BOOLEAN
    PROVE  /\ Chain(Completion(tc, failed), 4, 4)
           /\ KindsOf(Completion(tc, failed)) =
                IF failed THEN {"COMPLETE_FAIL"}
                ELSE IF "COMPLETE" \in tc.ack THEN {"COMPLETE_OK"} ELSE {}
<1>1. /\ "COMPLETE_FAIL" \in ReportKind /\ "COMPLETE_OK" \in ReportKind
      /\ "EXEC_ERROR" \in FailCode
  BY DEF ReportKind, FailCode
<1>2. CASE failed  BY <1>1, <1>2, Ranks, One DEF Completion
<1>3. CASE ~failed  BY <1>1, <1>3, Ranks, Asked DEF Completion
<1> QED BY <1>2, <1>3

-----------------------------------------------------------------------------
(* What becomes of a telecommand *)

LEMMA FirstCheck ==
    ASSUME NEW bad, bad \in SUBSET {Check[i] : i \in 1 .. Len(Check)}, bad # {}
    PROVE  \E i \in 1 .. Len(Check) : Check[i] \in bad /\ \A j \in 1 .. i - 1 : Check[j] \notin bad
<1>1. /\ Len(Check) = 5 /\ Check[1] = "LENGTH" /\ Check[2] = "CRC" /\ Check[3] = "TYPE"
      /\ Check[4] = "APID" /\ Check[5] = "PUS_VERSION"
  BY DEF Check
<1>2. PICK i \in 1 .. 5 : Check[i] \in bad  BY <1>1
<1>3. CASE Check[1] \in bad  BY <1>1, <1>3
<1>4. CASE Check[1] \notin bad /\ Check[2] \in bad
  <2>1. \A j \in 1 .. 2 - 1 : j = 1  OBVIOUS
  <2> QED BY <1>1, <1>4, <2>1
<1>5. CASE Check[1] \notin bad /\ Check[2] \notin bad /\ Check[3] \in bad
  <2>1. \A j \in 1 .. 3 - 1 : j = 1 \/ j = 2  OBVIOUS
  <2> QED BY <1>1, <1>5, <2>1
<1>6. CASE /\ Check[1] \notin bad /\ Check[2] \notin bad /\ Check[3] \notin bad
           /\ Check[4] \in bad
  <2>1. \A j \in 1 .. 4 - 1 : j = 1 \/ j = 2 \/ j = 3  OBVIOUS
  <2> QED BY <1>1, <1>6, <2>1
<1>7. CASE /\ Check[1] \notin bad /\ Check[2] \notin bad /\ Check[3] \notin bad
           /\ Check[4] \notin bad
  <2>1. i = 1 \/ i = 2 \/ i = 3 \/ i = 4 \/ i = 5  OBVIOUS
  <2>2. Check[5] \in bad  BY <1>2, <1>7, <2>1
  <2>3. \A j \in 1 .. 5 - 1 : j = 1 \/ j = 2 \/ j = 3 \/ j = 4  OBVIOUS
  <2> QED BY <1>1, <1>7, <2>2, <2>3
<1> QED BY <1>3, <1>4, <1>5, <1>6, <1>7

LEMMA ParseIs ==
    ASSUME NEW tc \in Telecommand
    PROVE  /\ Parse(tc) = "OK" <=> tc.len \in TcMinLen .. TcMaxLen /\ tc.bad = {}
           /\ Parse(tc) # "OK" => FailureForParse(Parse(tc)) \in FailCode
<1>1. /\ tc.len \in Nat /\ TcMinLen \in Nat /\ TcMaxLen \in Nat
      /\ tc.bad \in SUBSET {Check[i] : i \in 1 .. Len(Check)}
  BY CommandPathAssumption DEF Telecommand
<1>2. CASE tc.len \notin TcMinLen .. TcMaxLen
  <2>1. Parse(tc) \in {"TOO_SHORT", "TOO_LONG"}  BY <1>1, <1>2 DEF Parse
  <2> QED BY <1>2, <2>1 DEF FailureForParse, FailCode
<1>3. CASE tc.len \in TcMinLen .. TcMaxLen /\ tc.bad = {}
  BY <1>1, <1>3 DEF Parse
<1>4. CASE tc.len \in TcMinLen .. TcMaxLen /\ tc.bad # {}
  <2> DEFINE k == CHOOSE i \in 1 .. Len(Check) :
                     Check[i] \in tc.bad /\ \A j \in 1 .. i - 1 : Check[j] \notin tc.bad
  <2>1. Parse(tc) = Check[k]  BY <1>1, <1>4 DEF Parse
  <2>2. k \in 1 .. Len(Check)  BY <1>1, <1>4, FirstCheck
  <2> HIDE DEF k
  <2>3. Check[k] \in {"LENGTH", "CRC", "TYPE", "APID", "PUS_VERSION"}  BY <2>2 DEF Check
  <2> QED BY <1>4, <2>1, <2>3 DEF FailureForParse, FailCode
<1> QED BY <1>2, <1>3, <1>4

LEMMA ValidIs ==
    ASSUME NEW tc \in Telecommand
    PROVE  /\ Parse(tc) = "OK" /\ Dispatch(tc) = "OK" <=> Valid(tc)
           /\ Parse(tc) = "OK" => tc.len >= 4
           /\ Dispatch(tc) # "OK" => Dispatch(tc) \in FailCode
<1>1. tc.len \in Nat /\ TcMinLen \in Nat /\ TcMaxLen \in Nat /\ TcMinLen >= 4
  BY CommandPathAssumption DEF Telecommand
<1> QED BY <1>1, ParseIs DEF Dispatch, Valid, FailCode

\* What GroundKnows says of one telecommand.
Fate(tc, hook, kinds) ==
    CASE tc.len < 4                -> kinds = {}
      [] tc.len >= 4 /\ ~Valid(tc) -> kinds = {"ACCEPT_FAIL"}
      [] OTHER ->
           LET works == tc.cmd = "CONN_TEST" \/ hook = "EXITED"
           IN  /\ "ACCEPT_FAIL" \notin kinds
               /\ "ACCEPT_OK" \in kinds <=> "ACCEPT" \in tc.ack
               /\ "START_OK" \in kinds <=> "START" \in tc.ack
               /\ "CONN_TEST" \in kinds <=> tc.cmd = "CONN_TEST"
               /\ "COMPLETE_FAIL" \in kinds <=> ~works
               /\ "COMPLETE_OK" \in kinds <=> "COMPLETE" \in tc.ack /\ works

LEMMA Outcome ==
    ASSUME RoomForAll, NEW tc \in Telecommand, NEW hook \in Hook, HandleTc(tc, hook)
    PROVE  \E rs : Chain(rs, 1, 4) /\ Send(rs) /\ Fate(tc, hook, KindsOf(rs))
<1>1. tc.len \in Nat  BY DEF Telecommand
<1>2. /\ 1 \in Nat /\ 2 \in Nat /\ 3 \in Nat /\ 4 \in Nat
      /\ 1 <= 1 /\ 1 <= 2 /\ 1 <= 3 /\ 1 <= 4 /\ 2 <= 4 /\ 3 <= 4 /\ 4 <= 4
      /\ 2 < 3 /\ 3 < 4 /\ 2 < 4
      /\ 2 + 1 = 3 /\ 3 + 1 = 4
  OBVIOUS
<1>3. \A code \in FailCode :
          /\ Chain(Rep("ACCEPT_FAIL", code), 1, 4)
          /\ KindsOf(Rep("ACCEPT_FAIL", code)) = {"ACCEPT_FAIL"}
  <2> SUFFICES ASSUME NEW code \in FailCode
               PROVE  /\ Chain(Rep("ACCEPT_FAIL", code), 1, 4)
                      /\ KindsOf(Rep("ACCEPT_FAIL", code)) = {"ACCEPT_FAIL"}
    OBVIOUS
  <2>1. "ACCEPT_FAIL" \in ReportKind  BY DEF ReportKind
  <2>2. Chain(Rep("ACCEPT_FAIL", code), 1, 1) /\ KindsOf(Rep("ACCEPT_FAIL", code)) = {"ACCEPT_FAIL"}
    BY <1>2, <2>1, One, Ranks
  <2> QED BY <1>2, <2>2, Wider
<1>4. CASE Unnameable(tc)
  <2>1. Chain(<<>>, 1, 4) /\ KindsOf(<<>>) = {}  BY <1>2, None, Wider
  <2>2. Send(<<>>) /\ tc.len < 4  BY <1>4 DEF Unnameable
  <2>3. Fate(tc, hook, KindsOf(<<>>))  BY <1>1, <2>1, <2>2 DEF Fate
  <2> QED BY <2>1, <2>2, <2>3
<1>5. CASE Malformed(tc)
  <2>1. ~Valid(tc) /\ tc.len >= 4 /\ ~(tc.len < 4)  BY <1>1, <1>5, ValidIs DEF Malformed
  <2>2. FailureForParse(Parse(tc)) \in FailCode  BY <1>5, ParseIs DEF Malformed
  <2> QED BY <1>3, <1>5, <2>1, <2>2 DEF Malformed, Fate
<1>6. CASE NotACommand(tc)
  <2>1. ~Valid(tc) /\ tc.len >= 4 /\ ~(tc.len < 4)  BY <1>1, <1>6, ValidIs DEF NotACommand
  <2>2. Dispatch(tc) \in FailCode  BY <1>6, ValidIs DEF NotACommand
  <2> QED BY <1>3, <1>6, <2>1, <2>2 DEF NotACommand, Fate
<1>7. ASSUME Parse(tc) = "OK", Dispatch(tc) = "OK"
      PROVE  Valid(tc) /\ tc.len >= 4 /\ ~(tc.len < 4)
  BY <1>1, <1>7, ValidIs
<1>8. CASE ConnectionTest(tc)
  <2> DEFINE late == Len(Begun(tc)) >= MaxTmPerTc
             rs   == Begun(tc) \o Rep("CONN_TEST", "NONE") \o Completion(tc, late)
  <2>1. ~late
    <3>1. Len(Begun(tc)) \in Nat /\ Len(Begun(tc)) <= 2 - 1 + 1  BY BegunIs DEF Chain
    <3> QED BY <3>1, CommandPathAssumption DEF RoomForAll
  <2>2. "CONN_TEST" \in ReportKind /\ "NONE" \in FailCode  BY DEF ReportKind, FailCode
  <2>3. /\ Chain(Rep("CONN_TEST", "NONE"), 3, 3)
        /\ KindsOf(Rep("CONN_TEST", "NONE")) = {"CONN_TEST"}
    BY <1>2, <2>2, One, Ranks
  <2> DEFINE ab == Begun(tc) \o Rep("CONN_TEST", "NONE")
  <2>4. Chain(ab, 1, 3) /\ KindsOf(ab) = KindsOf(Begun(tc)) \cup {"CONN_TEST"}
    BY <1>2, <2>3, BegunIs, ChainJoin
  <2>5. /\ Chain(Completion(tc, late), 4, 4)
        /\ KindsOf(Completion(tc, late)) = IF "COMPLETE" \in tc.ack THEN {"COMPLETE_OK"} ELSE {}
    <3>1. Len(Begun(tc)) \in Nat /\ MaxTmPerTc \in Nat
      BY BegunIs, CommandPathAssumption DEF Chain
    <3>2. late = FALSE  BY <2>1, <3>1
    <3>3. /\ Chain(Completion(tc, FALSE), 4, 4)
          /\ KindsOf(Completion(tc, FALSE)) = IF "COMPLETE" \in tc.ack THEN {"COMPLETE_OK"} ELSE {}
      BY CompletionIs
    <3> HIDE DEF late
    <3> QED BY <3>2, <3>3
  <2>6. rs = ab \o Completion(tc, late)  OBVIOUS
  <2>7. Send(rs) /\ tc.cmd = "CONN_TEST" /\ Valid(tc) /\ tc.len >= 4 /\ ~(tc.len < 4)
    BY <1>7, <1>8 DEF ConnectionTest
  <2> HIDE DEF late, rs, ab
  <2>8. Chain(rs, 1, 4) /\ KindsOf(rs) = KindsOf(ab) \cup KindsOf(Completion(tc, late))
    BY <1>2, <2>4, <2>5, <2>6, ChainJoin
  <2>9. KindsOf(rs) = (IF "ACCEPT" \in tc.ack THEN {"ACCEPT_OK"} ELSE {})
                        \cup (IF "START" \in tc.ack THEN {"START_OK"} ELSE {})
                        \cup {"CONN_TEST"}
                        \cup (IF "COMPLETE" \in tc.ack THEN {"COMPLETE_OK"} ELSE {})
    BY <2>4, <2>5, <2>8, BegunIs
  <2>10. Fate(tc, hook, KindsOf(rs))  BY <2>7, <2>9 DEF Fate
  <2> QED BY <2>7, <2>8, <2>10
<1>9. CASE ExitSafeMode(tc, hook)
  <2> DEFINE failed == hook # "EXITED"
             rs     == Begun(tc) \o Completion(tc, failed)
  <2>1. /\ Chain(Completion(tc, failed), 3, 4)
        /\ KindsOf(Completion(tc, failed)) =
             IF failed THEN {"COMPLETE_FAIL"}
             ELSE IF "COMPLETE" \in tc.ack THEN {"COMPLETE_OK"} ELSE {}
    <3>1. PICK f \in BOOLEAN : f = failed  OBVIOUS
    <3> HIDE DEF failed
    <3>2. Chain(Completion(tc, f), 4, 4)  BY CompletionIs
    <3>3. Chain(Completion(tc, f), 3, 4)  BY <1>2, <3>2, Wider
    <3> QED BY <3>1, <3>3, CompletionIs
  <2>2. /\ Send(rs) /\ tc.cmd = "EXIT_SAFE" /\ tc.cmd # "CONN_TEST"
        /\ Valid(tc) /\ tc.len >= 4 /\ ~(tc.len < 4)
    BY <1>7, <1>9 DEF ExitSafeMode
  <2>3. Chain(rs, 1, 4) /\ KindsOf(rs) = KindsOf(Begun(tc)) \cup KindsOf(Completion(tc, failed))
    BY <1>2, <2>1, BegunIs, ChainJoin
  <2> HIDE DEF rs
  <2>4. KindsOf(rs) = (IF "ACCEPT" \in tc.ack THEN {"ACCEPT_OK"} ELSE {})
                        \cup (IF "START" \in tc.ack THEN {"START_OK"} ELSE {})
                        \cup (IF failed THEN {"COMPLETE_FAIL"}
                              ELSE IF "COMPLETE" \in tc.ack THEN {"COMPLETE_OK"} ELSE {})
    BY <2>1, <2>3, BegunIs
  <2>5. Fate(tc, hook, KindsOf(rs))  BY <2>2, <2>4 DEF Fate
  <2> QED BY <2>2, <2>3, <2>5
<1> QED BY <1>4, <1>5, <1>6, <1>8, <1>9 DEF HandleTc

-----------------------------------------------------------------------------
(* Arithmetic of the sequence count *)

LEMMA Divided ==
    ASSUME NEW m \in Nat \ {0}, NEW x \in Nat
    PROVE  \E q \in Nat, r \in 0 .. m - 1 : x = m * q + r /\ r = x % m
<1>1. PICK q \in Int, r \in Int : q = x \div m /\ r = x % m  OBVIOUS
<1>2. x = m * q + r  BY <1>1
<1>3. q \in Nat /\ r \in 0 .. m - 1  BY <1>1
<1> QED BY <1>1, <1>2, <1>3

LEMMA Remainder ==
    ASSUME NEW m \in Nat \ {0}, NEW q \in Nat, NEW r \in 0 .. m - 1
    PROVE  (m * q + r) % m = r
OBVIOUS

LEMMA ModPlus ==
    ASSUME NEW m \in Nat \ {0}, NEW x \in Nat, NEW y \in Nat
    PROVE  ((x % m) + y) % m = (x + y) % m
<1>1. PICK q \in Nat, r \in 0 .. m - 1 : x = m * q + r /\ r = x % m  BY Divided
<1>2. PICK p \in Nat, s \in 0 .. m - 1 : r + y = m * p + s /\ s = (r + y) % m
  <2>1. r + y \in Nat  OBVIOUS
  <2> QED BY <2>1, Divided
<1>3. x + y = m * (q + p) + s
  <2>1. m * (q + p) = m * q + m * p  OBVIOUS
  <2>2. m * q \in Int /\ m * p \in Int /\ m * (q + p) \in Int  OBVIOUS
  <2>3. PICK a \in Int, b \in Int, c \in Int : a = m * q /\ b = m * p /\ c = m * (q + p)
    BY <2>2
  <2>4. x = a + r /\ r + y = b + s /\ c = a + b  BY <1>1, <1>2, <2>1, <2>3
  <2>5. x + y = c + s  BY <2>4
  <2> QED BY <2>3, <2>5
<1>4. q + p \in Nat  OBVIOUS
<1>5. (x + y) % m = s  BY <1>3, <1>4, Remainder
<1> QED BY <1>1, <1>2, <1>5

-----------------------------------------------------------------------------
(* The log *)

Numbered(g) == \A i \in 1 .. Len(g) : g[i].seq = (i - 1) % TmSeqMod

Staged(g) ==
    \A i, j \in 1 .. Len(g) :
        i < j => \/ g[i].cmd < g[j].cmd
                 \/ g[i].cmd = g[j].cmd /\ Rank(g[i].kind) < Rank(g[j].kind)

Upto(g, n)    == \A i \in 1 .. Len(g) : g[i].cmd \in 1 .. n
KindsIn(g, c) == {g[k].kind : k \in {i \in 1 .. Len(g) : g[i].cmd = c}}

\* h is the log g of n telecommands and the reports rs of the next.
Longer(g, n, rs, h) ==
    /\ h \in Seq(LogItem) /\ Len(h) = Len(g) + Len(rs)
    /\ Upto(h, n + 1) /\ Numbered(h) /\ Staged(h)
    /\ \A c \in 1 .. n : KindsIn(h, c) = KindsIn(g, c)
    /\ KindsIn(h, n + 1) = KindsOf(rs)

LEMMA LogGrows ==
    ASSUME NEW g \in Seq(LogItem), NEW n \in Nat, Upto(g, n), Numbered(g), Staged(g),
           NEW rs, Chain(rs, 1, 4), NEW s \in Nat, s = Len(g) % TmSeqMod,
           NEW t, t = [i \in 1 .. Len(rs) |-> [kind |-> rs[i].kind, code |-> rs[i].code,
                                               seq |-> (s + i - 1) % TmSeqMod, cmd |-> n + 1]]
    PROVE  Longer(g, n, rs, g \o t)
<1>1. TmSeqMod \in Nat \ {0}  BY CommandPathAssumption
<1>2. PICK h, l, c : h = g \o t /\ l = Len(g) /\ c = Len(rs)  OBVIOUS
<1>3. l \in Nat /\ c \in Nat /\ rs \in Seq(Report)  BY <1>2 DEF Chain
<1>4. \A i \in 1 .. c : rs[i].kind \in ReportKind /\ rs[i].code \in FailCode
  <2>1. \A i \in 1 .. c : rs[i] \in Report  BY <1>2, <1>3, ElementOfSeq
  <2> QED BY <2>1 DEF Report
<1>5. \A i \in 1 .. c : (s + i - 1) % TmSeqMod \in 0 .. TmSeqMod - 1
  <2> SUFFICES ASSUME NEW i \in 1 .. c PROVE (s + i - 1) % TmSeqMod \in 0 .. TmSeqMod - 1  OBVIOUS
  <2>1. s + i - 1 \in Nat  BY <1>3
  <2> QED BY <1>1, <2>1, Divided
<1>6. t \in Seq(LogItem) /\ Len(t) = c
  <2>1. \A i \in 1 .. c : t[i] \in LogItem  BY <1>2, <1>4, <1>5 DEF LogItem
  <2>2. t \in [1 .. c -> LogItem]
    <3>1. t = [i \in 1 .. c |-> t[i]]  BY <1>2
    <3> QED BY <2>1, <3>1
  <2>3. t \in Seq(LogItem)  BY <1>3, <2>2
  <2> QED BY <1>3, <2>2, <2>3, LenProperties
<1>7. /\ h \in Seq(LogItem) /\ Len(h) = l + c
      /\ \A i \in 1 .. l : h[i] = g[i]
      /\ \A i \in 1 .. c : h[l + i] = t[i]
  BY <1>2, <1>3, <1>6, ConcatProperties
<1>8. \A i \in 1 .. c : /\ h[l + i].kind = rs[i].kind /\ h[l + i].cmd = n + 1
                        /\ h[l + i].seq = (s + i - 1) % TmSeqMod
  BY <1>2, <1>7
<1>9. ASSUME NEW k \in 1 .. l + c PROVE k \in 1 .. l \/ (k - l \in 1 .. c /\ l + (k - l) = k)
  BY <1>3
<1>10. \A i \in 1 .. l : h[i] = g[i] /\ h[i].cmd \in 1 .. n  BY <1>2, <1>7 DEF Upto
<1>11. Upto(h, n + 1)
  <2> SUFFICES ASSUME NEW k \in 1 .. l + c PROVE h[k].cmd \in 1 .. n + 1  BY <1>7 DEF Upto
  <2>1. CASE k \in 1 .. l  BY <1>10, <2>1
  <2>2. CASE k - l \in 1 .. c /\ l + (k - l) = k
    <3>1. h[k].cmd = n + 1  BY <1>8, <2>2
    <3> QED BY <3>1
  <2> QED BY <1>9, <2>1, <2>2
<1>12. Numbered(h)
  <2> SUFFICES ASSUME NEW k \in 1 .. l + c PROVE h[k].seq = (k - 1) % TmSeqMod
    BY <1>7 DEF Numbered
  <2>1. CASE k \in 1 .. l  BY <1>2, <1>10, <2>1 DEF Numbered
  <2>2. CASE k - l \in 1 .. c /\ l + (k - l) = k
    <3>1. PICK i \in 1 .. c : i = k - l  BY <2>2
    <3>2. h[k].seq = (s + i - 1) % TmSeqMod  BY <1>8, <2>2, <3>1
    <3>3. i - 1 \in Nat  BY <3>1
    <3>4. (s + (i - 1)) % TmSeqMod = (l + (i - 1)) % TmSeqMod
      BY <1>1, <1>2, <1>3, <3>3, ModPlus
    <3>5. s + (i - 1) = s + i - 1 /\ l + (i - 1) = k - 1  BY <1>3, <3>1
    <3> QED BY <3>2, <3>4, <3>5
  <2> QED BY <1>9, <2>1, <2>2
<1>13. Staged(h)
  <2> SUFFICES ASSUME NEW i \in 1 .. l + c, NEW j \in 1 .. l + c, i < j
               PROVE  \/ h[i].cmd < h[j].cmd
                      \/ h[i].cmd = h[j].cmd /\ Rank(h[i].kind) < Rank(h[j].kind)
    BY <1>7 DEF Staged
  <2>1. CASE i \in 1 .. l /\ j \in 1 .. l
    <3>1. h[i] = g[i] /\ h[j] = g[j]  BY <1>10, <2>1
    <3> QED BY <1>2, <2>1, <3>1 DEF Staged
  <2>2. CASE i \in 1 .. l /\ j - l \in 1 .. c /\ l + (j - l) = j
    <3>1. h[i].cmd \in 1 .. n /\ h[j].cmd = n + 1  BY <1>8, <1>10, <2>2
    <3> QED BY <3>1
  <2>3. CASE /\ i - l \in 1 .. c /\ l + (i - l) = i
             /\ j - l \in 1 .. c /\ l + (j - l) = j
    <3>1. PICK a \in 1 .. c, b \in 1 .. c : a = i - l /\ b = j - l  BY <2>3
    <3>2. h[i].kind = rs[a].kind /\ h[j].kind = rs[b].kind /\ h[i].cmd = h[j].cmd
      BY <1>8, <2>3, <3>1
    <3>3. a < b  BY <1>3, <3>1
    <3> QED BY <1>2, <3>2, <3>3 DEF Chain
  <2>4. ~(i - l \in 1 .. c /\ j \in 1 .. l)  BY <1>3
  <2> QED BY <1>9, <2>1, <2>2, <2>3, <2>4
<1>14. ASSUME NEW d \in 1 .. n PROVE KindsIn(h, d) = KindsIn(g, d)
  <2>1. {i \in 1 .. Len(h) : h[i].cmd = d} = {i \in 1 .. Len(g) : g[i].cmd = d}
    <3>1. ASSUME NEW k \in 1 .. l + c, h[k].cmd = d PROVE k \in 1 .. l /\ g[k].cmd = d
      <4>1. CASE k \in 1 .. l  BY <1>10, <3>1, <4>1
      <4>2. CASE k - l \in 1 .. c /\ l + (k - l) = k
        <5>1. h[k].cmd = n + 1  BY <1>8, <4>2
        <5> QED BY <3>1, <5>1
      <4> QED BY <1>9, <4>1, <4>2
    <3>2. ASSUME NEW k \in 1 .. l, g[k].cmd = d PROVE k \in 1 .. l + c /\ h[k].cmd = d
      BY <1>3, <1>10, <3>2
    <3>3. Len(h) = l + c /\ Len(g) = l  BY <1>2, <1>7
    <3> QED BY <3>1, <3>2, <3>3
  <2>2. \A k \in {i \in 1 .. Len(g) : g[i].cmd = d} : h[k].kind = g[k].kind
    BY <1>2, <1>10
  <2> QED BY <2>1, <2>2 DEF KindsIn
<1>15. KindsIn(h, n + 1) = KindsOf(rs)
  <2>1. ASSUME NEW k \in 1 .. l + c, h[k].cmd = n + 1 PROVE h[k].kind \in KindsOf(rs)
    <3>1. ~(k \in 1 .. l)
      <4>1. ASSUME k \in 1 .. l PROVE FALSE
        <5>1. h[k].cmd \in 1 .. n  BY <1>10, <4>1
        <5> QED BY <2>1, <5>1
      <4> QED BY <4>1
    <3>2. PICK i \in 1 .. c : l + i = k  BY <1>9, <3>1
    <3> QED BY <1>2, <1>8, <3>2 DEF KindsOf
  <2>2. ASSUME NEW i \in 1 .. c PROVE rs[i].kind \in KindsIn(h, n + 1)
    <3>1. l + i \in 1 .. Len(h)  BY <1>3, <1>7
    <3>2. h[l + i].kind = rs[i].kind /\ h[l + i].cmd = n + 1  BY <1>8
    <3> QED BY <3>1, <3>2 DEF KindsIn
  <2>3. KindsIn(h, n + 1) \subseteq KindsOf(rs)  BY <1>7, <2>1 DEF KindsIn
  <2>4. KindsOf(rs) \subseteq KindsIn(h, n + 1)  BY <1>2, <2>2 DEF KindsOf
  <2> QED BY <2>3, <2>4
<1> QED BY <1>2, <1>7, <1>11, <1>12, <1>13, <1>14, <1>15 DEF Longer

-----------------------------------------------------------------------------
(* The counters *)

Valids(u)    == {i \in 1 .. Len(u) : Valid(u[i].tc)}
Shorts(u)    == {i \in 1 .. Len(u) : u[i].tc.len < 4}
Tests(u)     == {i \in 1 .. Len(u) : Valid(u[i].tc) /\ u[i].tc.cmd = "CONN_TEST"}
Leaves(u)    == {i \in 1 .. Len(u) : /\ Valid(u[i].tc) /\ u[i].tc.cmd = "EXIT_SAFE"
                                     /\ u[i].hook = "EXITED"}
OneIf(b)     == IF b THEN 1 ELSE 0

LEMMA CountOne ==
    ASSUME NEW n \in Nat, NEW A, A \subseteq 1 .. n, NEW B, NEW b \in BOOLEAN,
           B = A \cup (IF b THEN {n + 1} ELSE {})
    PROVE  Cardinality(A) \in Nat /\ Cardinality(B) = Cardinality(A) + OneIf(b)
<1>1. IsFiniteSet(1 .. n)  BY FS_Interval
<1>2. IsFiniteSet(A)  BY <1>1, FS_Subset
<1>3. Cardinality(A) \in Nat  BY <1>2, FS_CardinalityType
<1>4. n + 1 \notin A  OBVIOUS
<1>5. Cardinality(A \cup {n + 1}) = Cardinality(A) + 1  BY <1>2, <1>4, FS_AddElement
<1>6. CASE b  BY <1>3, <1>5, <1>6 DEF OneIf
<1>7. CASE ~b
  <2>1. B = A  BY <1>7
  <2> QED BY <1>3, <1>7, <2>1 DEF OneIf
<1> QED BY <1>6, <1>7

\* v is u with e behind its n members, and so are the sets that are counted.
OneMore(u, e, v, n) ==
    /\ n \in Nat /\ Len(v) = n + 1
    /\ \A i \in 1 .. n : v[i] = u[i]
    /\ v[n + 1] = e
    /\ Valids(v) = Valids(u) \cup (IF Valid(e.tc) THEN {n + 1} ELSE {})
    /\ Shorts(v) = Shorts(u) \cup (IF e.tc.len < 4 THEN {n + 1} ELSE {})
    /\ Tests(v) = Tests(u) \cup
         (IF Valid(e.tc) /\ e.tc.cmd = "CONN_TEST" THEN {n + 1} ELSE {})
    /\ Leaves(v) = Leaves(u) \cup
         (IF Valid(e.tc) /\ e.tc.cmd = "EXIT_SAFE" /\ e.hook = "EXITED" THEN {n + 1} ELSE {})
    /\ Valids(u) \subseteq 1 .. n /\ Shorts(u) \subseteq 1 .. n
    /\ Tests(u) \subseteq 1 .. n /\ Leaves(u) \subseteq 1 .. n

LEMMA SetsGrow ==
    ASSUME NEW S, NEW u \in Seq(S), NEW e \in S, NEW v, v = Append(u, e), NEW n, n = Len(u)
    PROVE  OneMore(u, e, v, n)
<1>1. /\ n \in Nat /\ Len(v) = n + 1 /\ v[n + 1] = e
      /\ \A i \in 1 .. n : v[i] = u[i]
  BY AppendProperties, LenProperties
<1>2. \A i \in 1 .. n + 1 : i \in 1 .. n \/ i = n + 1  BY <1>1
<1>3. \A i \in 1 .. n : i \in 1 .. n + 1 /\ i # n + 1  BY <1>1
<1>4. n + 1 \in 1 .. n + 1  BY <1>1
<1>5. Valids(v) = Valids(u) \cup (IF Valid(e.tc) THEN {n + 1} ELSE {})
  BY <1>1, <1>2, <1>3, <1>4 DEF Valids
<1>6. Shorts(v) = Shorts(u) \cup (IF e.tc.len < 4 THEN {n + 1} ELSE {})
  BY <1>1, <1>2, <1>3, <1>4 DEF Shorts
<1>7. Tests(v) = Tests(u) \cup
        (IF Valid(e.tc) /\ e.tc.cmd = "CONN_TEST" THEN {n + 1} ELSE {})
  BY <1>1, <1>2, <1>3, <1>4 DEF Tests
<1>8. Leaves(v) = Leaves(u) \cup
        (IF Valid(e.tc) /\ e.tc.cmd = "EXIT_SAFE" /\ e.hook = "EXITED" THEN {n + 1} ELSE {})
  BY <1>1, <1>2, <1>3, <1>4 DEF Leaves
<1>9. /\ Valids(u) \subseteq 1 .. n /\ Shorts(u) \subseteq 1 .. n
      /\ Tests(u) \subseteq 1 .. n /\ Leaves(u) \subseteq 1 .. n
  BY DEF Valids, Shorts, Tests, Leaves
<1> QED BY <1>1, <1>5, <1>6, <1>7, <1>8, <1>9 DEF OneMore

LEMMA CountersMove ==
    ASSUME NEW tc \in Telecommand, NEW hook \in Hook, HandleTc(tc, hook),
           {accepted, rejected, dropped, executed, connTests, exits} \subseteq Nat
    PROVE  /\ accepted' = accepted + OneIf(Valid(tc))
           /\ executed' = executed + OneIf(Valid(tc))
           /\ dropped' = dropped + OneIf(tc.len < 4)
           /\ rejected' = rejected + OneIf(~Valid(tc) /\ ~(tc.len < 4))
           /\ connTests' = connTests + OneIf(Valid(tc) /\ tc.cmd = "CONN_TEST")
           /\ exits' = exits + OneIf(Valid(tc) /\ tc.cmd = "EXIT_SAFE" /\ hook = "EXITED")
           /\ ~(Valid(tc) /\ tc.len < 4)
<1>1. tc.len \in Nat  BY DEF Telecommand
<1>2. ~(Valid(tc) /\ tc.len < 4)  BY <1>1, ValidIs
<1>3. CASE Unnameable(tc)
  <2>1. ~Valid(tc) /\ tc.len < 4  BY <1>3, ValidIs DEF Unnameable
  <2> QED BY <1>3, <2>1 DEF Unnameable, OneIf
<1>4. CASE Malformed(tc)
  <2>1. ~Valid(tc) /\ ~(tc.len < 4)  BY <1>1, <1>4, ValidIs DEF Malformed
  <2> QED BY <1>4, <2>1 DEF Malformed, OneIf
<1>5. CASE NotACommand(tc)
  <2>1. ~Valid(tc) /\ ~(tc.len < 4)  BY <1>1, <1>5, ValidIs DEF NotACommand
  <2> QED BY <1>5, <2>1 DEF NotACommand, OneIf
<1>6. CASE ConnectionTest(tc)
  <2>1. Valid(tc) /\ ~(tc.len < 4)  BY <1>2, <1>6, ValidIs DEF ConnectionTest
  <2> QED BY <1>6, <2>1 DEF ConnectionTest, OneIf
<1>7. CASE ExitSafeMode(tc, hook)
  <2>1. Valid(tc) /\ ~(tc.len < 4)  BY <1>2, <1>7, ValidIs DEF ExitSafeMode
  <2> QED BY <1>7, <2>1 DEF ExitSafeMode, OneIf
<1> QED BY <1>3, <1>4, <1>5, <1>6, <1>7 DEF HandleTc

-----------------------------------------------------------------------------
(* The inductive invariant *)

Tallied ==
    /\ {accepted, rejected, dropped, executed, connTests, exits} \subseteq Nat
    /\ accepted = Cardinality(Valids(uplinked)) /\ executed = accepted
    /\ dropped = Cardinality(Shorts(uplinked))
    /\ accepted + rejected + dropped = Len(uplinked)
    /\ connTests = Cardinality(Tests(uplinked))
    /\ exits = Cardinality(Leaves(uplinked))

Told ==
    \A i \in 1 .. Len(uplinked) : Fate(uplinked[i].tc, uplinked[i].hook, KindsIn(log, i))

UInv ==
    /\ uplinked \in Seq([tc : Sent, hook : Hook])
    /\ log \in Seq(LogItem)
    /\ tmSeq = Len(log) % TmSeqMod
    /\ built \in 0 .. 4 /\ Len(out) \in 0 .. 4
    /\ Upto(log, Len(uplinked)) /\ Numbered(log) /\ Staged(log)
    /\ Tallied
    /\ Told

LEMMA TalliedKept ==
    ASSUME UInv, NEW tc \in Sent, NEW hook \in Hook, Receive(tc, hook) PROVE Tallied'
<1>1. tc \in Telecommand  BY UplinkAssumption
<1>2. PICK e : e = [tc |-> tc, hook |-> hook]  OBVIOUS
<1>3. e \in [tc : Sent, hook : Hook] /\ e.tc = tc /\ e.hook = hook  BY <1>2
<1>4. PICK u, v, n : u = uplinked /\ v = uplinked' /\ n = Len(u)  OBVIOUS
<1>5. u \in Seq([tc : Sent, hook : Hook]) /\ v = Append(u, e)
  BY <1>2, <1>4 DEF UInv, Receive
<1>6. /\ n \in Nat /\ Len(v) = n + 1
      /\ Valids(v) = Valids(u) \cup (IF Valid(tc) THEN {n + 1} ELSE {})
      /\ Shorts(v) = Shorts(u) \cup (IF tc.len < 4 THEN {n + 1} ELSE {})
      /\ Tests(v) = Tests(u) \cup (IF Valid(tc) /\ tc.cmd = "CONN_TEST" THEN {n + 1} ELSE {})
      /\ Leaves(v) = Leaves(u) \cup
           (IF Valid(tc) /\ tc.cmd = "EXIT_SAFE" /\ hook = "EXITED" THEN {n + 1} ELSE {})
      /\ Valids(u) \subseteq 1 .. n /\ Shorts(u) \subseteq 1 .. n
      /\ Tests(u) \subseteq 1 .. n /\ Leaves(u) \subseteq 1 .. n
  <2>1. PICK S : S = [tc : Sent, hook : Hook]  OBVIOUS
  <2>2. u \in Seq(S) /\ e \in S /\ v = Append(u, e) /\ n = Len(u)  BY <1>3, <1>4, <1>5, <2>1
  <2>3. OneMore(u, e, v, n)  BY <2>2, SetsGrow
  <2> QED BY <1>3, <2>3 DEF OneMore
<1>7. PICK a \in BOOLEAN, d \in BOOLEAN, t \in BOOLEAN, x \in BOOLEAN :
          /\ a <=> Valid(tc)
          /\ d <=> tc.len < 4
          /\ t <=> Valid(tc) /\ tc.cmd = "CONN_TEST"
          /\ x <=> Valid(tc) /\ tc.cmd = "EXIT_SAFE" /\ hook = "EXITED"
  OBVIOUS
<1>8. /\ Cardinality(Valids(v)) = Cardinality(Valids(u)) + OneIf(a)
      /\ Cardinality(Shorts(v)) = Cardinality(Shorts(u)) + OneIf(d)
      /\ Cardinality(Tests(v)) = Cardinality(Tests(u)) + OneIf(t)
      /\ Cardinality(Leaves(v)) = Cardinality(Leaves(u)) + OneIf(x)
  <2>1. Valids(v) = Valids(u) \cup (IF a THEN {n + 1} ELSE {})  BY <1>6, <1>7
  <2>2. Shorts(v) = Shorts(u) \cup (IF d THEN {n + 1} ELSE {})  BY <1>6, <1>7
  <2>3. Tests(v) = Tests(u) \cup (IF t THEN {n + 1} ELSE {})  BY <1>6, <1>7
  <2>4. Leaves(v) = Leaves(u) \cup (IF x THEN {n + 1} ELSE {})  BY <1>6, <1>7
  <2>5. Cardinality(Valids(v)) = Cardinality(Valids(u)) + OneIf(a)
    BY <1>6, <2>1, CountOne, SMTT(30)
  <2>6. Cardinality(Shorts(v)) = Cardinality(Shorts(u)) + OneIf(d)  BY <1>6, <2>2, CountOne
  <2>7. Cardinality(Tests(v)) = Cardinality(Tests(u)) + OneIf(t)  BY <1>6, <2>3, CountOne
  <2>8. Cardinality(Leaves(v)) = Cardinality(Leaves(u)) + OneIf(x)  BY <1>6, <2>4, CountOne
  <2> QED BY <2>5, <2>6, <2>7, <2>8
<1>9. /\ accepted' = accepted + OneIf(a) /\ executed' = executed + OneIf(a)
      /\ dropped' = dropped + OneIf(d)
      /\ rejected' = rejected + OneIf(~a /\ ~d)
      /\ connTests' = connTests + OneIf(t) /\ exits' = exits + OneIf(x)
      /\ ~(a /\ d)
  <2>1. HandleTc(tc, hook)  BY DEF Receive
  <2>2. {accepted, rejected, dropped, executed, connTests, exits} \subseteq Nat
    BY DEF UInv, Tallied
  <2> QED BY <1>1, <1>7, <2>1, <2>2, CountersMove DEF OneIf
<1>10. /\ OneIf(a) \in 0 .. 1 /\ OneIf(d) \in 0 .. 1 /\ OneIf(t) \in 0 .. 1 /\ OneIf(x) \in 0 .. 1
       /\ OneIf(~a /\ ~d) \in 0 .. 1 /\ OneIf(a) + OneIf(~a /\ ~d) + OneIf(d) = 1
  BY <1>9 DEF OneIf
<1>11. /\ accepted \in Nat /\ rejected \in Nat /\ dropped \in Nat /\ executed \in Nat
       /\ connTests \in Nat /\ exits \in Nat /\ accepted + rejected + dropped = n
  BY <1>4 DEF UInv, Tallied
<1>12. {accepted', rejected', dropped', executed', connTests', exits'} \subseteq Nat
  BY <1>9, <1>10, <1>11
<1>13. accepted' + rejected' + dropped' = Len(v)
  <2>1. PICK i, j, k : i = OneIf(a) /\ j = OneIf(~a /\ ~d) /\ k = OneIf(d)  OBVIOUS
  <2>2. i \in 0 .. 1 /\ j \in 0 .. 1 /\ k \in 0 .. 1 /\ i + j + k = 1  BY <1>10, <2>1
  <2>3. accepted' = accepted + i /\ rejected' = rejected + j /\ dropped' = dropped + k
    BY <1>9, <2>1
  <2> QED BY <1>6, <1>11, <2>2, <2>3
<1> QED BY <1>4, <1>8, <1>9, <1>12, <1>13 DEF UInv, Tallied

LEMMA ReceiveKeeps ==
    ASSUME RoomForAll, UInv, NEW tc \in Sent, NEW hook \in Hook, Receive(tc, hook) PROVE UInv'
<1>1. tc \in Telecommand /\ HandleTc(tc, hook)  BY UplinkAssumption DEF Receive
<1>2. PICK rs : Chain(rs, 1, 4) /\ Send(rs) /\ Fate(tc, hook, KindsOf(rs))  BY <1>1, Outcome
<1>3. PICK c : c = Len(rs)  OBVIOUS
<1>4. c \in Nat /\ c <= 4 /\ ~(c > MaxTmPerTc)
  <2>1. Len(rs) \in Nat /\ Len(rs) <= 4 - 1 + 1  BY <1>2 DEF Chain
  <2> QED BY <1>3, <2>1, CommandPathAssumption DEF RoomForAll
<1>5. /\ out' = [i \in 1 .. c |-> [kind |-> rs[i].kind, code |-> rs[i].code,
                                   seq |-> (tmSeq + i - 1) % TmSeqMod]]
      /\ tmSeq' = (tmSeq + c) % TmSeqMod /\ built' = c
  BY <1>2, <1>3, <1>4 DEF Send, AfterReports
<1>6. Len(out') = c
  <2>1. PICK o : o = out'  OBVIOUS
  <2>2. o = [i \in 1 .. c |-> o[i]]  BY <1>5, <2>1
  <2>3. o \in Seq({o[i] : i \in 1 .. c}) /\ Len(o) = c  BY <1>4, <2>2
  <2> QED BY <2>1, <2>3
<1>7. PICK e : e = [tc |-> tc, hook |-> hook]  OBVIOUS
<1>8. PICK u, v, n : u = uplinked /\ v = uplinked' /\ n = Len(u)  OBVIOUS
<1>9. u \in Seq([tc : Sent, hook : Hook]) /\ v = Append(u, e) /\ e \in [tc : Sent, hook : Hook]
  BY <1>7, <1>8 DEF UInv, Receive
<1>10. /\ v \in Seq([tc : Sent, hook : Hook]) /\ n \in Nat /\ Len(v) = n + 1
       /\ \A i \in 1 .. n : v[i] = u[i]
       /\ v[n + 1] = e
  BY <1>8, <1>9, AppendProperties, LenProperties
<1>11. PICK t : t = [i \in 1 .. c |-> [kind |-> rs[i].kind, code |-> rs[i].code,
                                       seq |-> (tmSeq + i - 1) % TmSeqMod, cmd |-> n + 1]]
  OBVIOUS
<1>12. log' = log \o t
  <2>1. log' = log \o [i \in 1 .. c |-> [kind |-> out'[i].kind, code |-> out'[i].code,
                                         seq |-> out'[i].seq, cmd |-> n + 1]]
    BY <1>6, <1>8, <1>10 DEF Receive
  <2>2. [i \in 1 .. c |-> [kind |-> out'[i].kind, code |-> out'[i].code,
                           seq |-> out'[i].seq, cmd |-> n + 1]] = t
    BY <1>5, <1>11
  <2> QED BY <2>1, <2>2
<1>13. PICK g, l : g = log /\ l = Len(g)  OBVIOUS
<1>14. /\ g \in Seq(LogItem) /\ Upto(g, n) /\ Numbered(g) /\ Staged(g)
       /\ l \in Nat /\ tmSeq = l % TmSeqMod /\ TmSeqMod \in Nat \ {0}
  BY <1>8, <1>13, CommandPathAssumption, LenProperties DEF UInv
<1>15. tmSeq \in Nat
  <2>1. PICK q \in Nat, r \in 0 .. TmSeqMod - 1 : l = TmSeqMod * q + r /\ r = l % TmSeqMod
    BY <1>14, Divided
  <2> QED BY <1>14, <2>1
<1>16. /\ g \o t \in Seq(LogItem) /\ Len(g \o t) = l + c
       /\ Upto(g \o t, n + 1) /\ Numbered(g \o t) /\ Staged(g \o t)
       /\ \A i \in 1 .. n : KindsIn(g \o t, i) = KindsIn(g, i)
       /\ KindsIn(g \o t, n + 1) = KindsOf(rs)
  <2>1. PICK s \in Nat : s = tmSeq  BY <1>15
  <2>2. s = Len(g) % TmSeqMod  BY <1>13, <1>14, <2>1
  <2>3. t = [i \in 1 .. Len(rs) |-> [kind |-> rs[i].kind, code |-> rs[i].code,
                                      seq |-> (s + i - 1) % TmSeqMod, cmd |-> n + 1]]
    BY <1>3, <1>11, <2>1
  <2>4. Longer(g, n, rs, g \o t)  BY <1>2, <1>10, <1>14, <2>2, <2>3, LogGrows
  <2> QED BY <1>3, <1>13, <2>4 DEF Longer
<1>17. tmSeq' = (l + c) % TmSeqMod  BY <1>4, <1>5, <1>14, ModPlus
<1>18. Told'
  <2> SUFFICES ASSUME NEW i \in 1 .. n + 1
               PROVE  Fate(v[i].tc, v[i].hook, KindsIn(g \o t, i))
    BY <1>8, <1>10, <1>12, <1>13 DEF Told
  <2>1. CASE i \in 1 .. n
    <3>1. Fate(u[i].tc, u[i].hook, KindsIn(g, i))  BY <1>8, <1>13, <2>1 DEF UInv, Told
    <3> QED BY <1>10, <1>16, <2>1, <3>1
  <2>2. CASE i = n + 1
    <3>1. v[i].tc = tc /\ v[i].hook = hook  BY <1>7, <1>10, <2>2
    <3> QED BY <1>2, <1>16, <2>2, <3>1
  <2> QED BY <1>10, <2>1, <2>2
<1>19. Tallied'  BY TalliedKept
<1>20. built' \in 0 .. 4 /\ Len(out') \in 0 .. 4  BY <1>4, <1>5, <1>6
<1> QED BY <1>8, <1>10, <1>12, <1>13, <1>16, <1>17, <1>18, <1>19, <1>20 DEF UInv

LEMMA UplinkStart == ASSUME UplinkInit PROVE UInv
<1>1. /\ uplinked = <<>> /\ log = <<>> /\ out = <<>> /\ built = 0 /\ tmSeq = 0
      /\ accepted = 0 /\ rejected = 0 /\ dropped = 0 /\ executed = 0 /\ connTests = 0 /\ exits = 0
  BY DEF UplinkInit, PathInit
<1>2. Len(<<>>) = 0 /\ <<>> \in Seq([tc : Sent, hook : Hook]) /\ <<>> \in Seq(LogItem)
  OBVIOUS
<1>3. /\ Valids(uplinked) = {} /\ Shorts(uplinked) = {}
      /\ Tests(uplinked) = {} /\ Leaves(uplinked) = {}
  BY <1>1, <1>2 DEF Valids, Shorts, Tests, Leaves
<1>4. Cardinality({}) = 0  BY FS_EmptySet
<1>5. Tallied
  <2>1. 0 \in Nat /\ 0 + 0 + 0 = 0  OBVIOUS
  <2> QED BY <1>1, <1>2, <1>3, <1>4, <2>1, Zenon DEF Tallied
<1>6. 0 % TmSeqMod = 0  BY CommandPathAssumption
<1>7. Upto(log, Len(uplinked)) /\ Numbered(log) /\ Staged(log) /\ Told
  BY <1>1, <1>2 DEF Upto, Numbered, Staged, Told
<1> QED BY <1>1, <1>2, <1>5, <1>6, <1>7 DEF UInv

LEMMA UplinkKept == ASSUME RoomForAll, UInv, [UplinkNext]_uplinkVars PROVE UInv'
<1>1. CASE UplinkNext  BY <1>1, ReceiveKeeps DEF UplinkNext
<1>2. CASE UNCHANGED uplinkVars
  BY <1>2 DEF uplinkVars, UInv, Tallied, Told
<1> QED BY <1>1, <1>2

LEMMA UplinkInvariant == ASSUME RoomForAll PROVE UplinkSpec => []UInv
<1>1. UplinkInit => UInv  BY UplinkStart
<1>2. UInv /\ [UplinkNext]_uplinkVars => UInv'  BY UplinkKept
<1> QED BY <1>1, <1>2, PTL DEF UplinkSpec

-----------------------------------------------------------------------------
(* The theorems *)

\* Types, with a sequence count that wraps (tm_seq_count, uplink.h) and never
\* more reports in tm_out than it has room for.
THEOREM UplinkTypes == ASSUME RoomForAll PROVE UplinkSpec => []UplinkTypeOK
<1>1. UInv => UplinkTypeOK
  <2> SUFFICES ASSUME UInv PROVE UplinkTypeOK  OBVIOUS
  <2>1. Len(log) \in Nat  BY LenProperties DEF UInv
  <2>2. TmSeqMod \in Nat \ {0}  BY CommandPathAssumption
  <2>3. tmSeq \in 0 .. TmSeqMod - 1  BY <2>1, <2>2, Divided DEF UInv
  <2>4. Len(out) <= MaxTmPerTc
    <3>1. PICK n \in 0 .. 4 : n = Len(out)  BY DEF UInv
    <3>2. PICK m \in Nat : m = MaxTmPerTc /\ m >= 4  BY CommandPathAssumption DEF RoomForAll
    <3>3. n <= m  BY <3>2
    <3> QED BY <3>1, <3>2, <3>3
  <2>5. built \in Nat  BY DEF UInv
  <2> QED BY <2>3, <2>4, <2>5 DEF UInv, Tallied, UplinkTypeOK, LogItem
<1> QED BY <1>1, UplinkInvariant, PTL

\* No report is written behind the end of tm_out (uplink.c:79), whatever arrives.
THEOREM ReportsAlwaysFit == ASSUME RoomForAll PROVE UplinkSpec => []ReportsFit
<1>1. UInv => ReportsFit
  BY CommandPathAssumption DEF UInv, ReportsFit, RoomForAll
<1> QED BY <1>1, UplinkInvariant, PTL

\* Every telecommand is counted once, and only the valid ones act (uplink.c:109).
THEOREM EachCountedOnce == ASSUME RoomForAll PROVE UplinkSpec => []CountedOnce
<1>1. UInv => CountedOnce
  BY Zenon DEF UInv, Tallied, CountedOnce, Valids, Shorts, Tests, Leaves, Num, Received
<1> QED BY <1>1, UplinkInvariant, PTL

\* The reports of the whole uplink are numbered without a gap, over any number of
\* wraps, and those of one telecommand come stage by stage (verify.c:11).
THEOREM LogNumbered == ASSUME RoomForAll PROVE UplinkSpec => []LogInSequence
<1>1. UInv => LogInSequence
  BY DEF UInv, Numbered, Staged, LogInSequence
<1> QED BY <1>1, UplinkInvariant, PTL

\* The ground can tell the fate of every telecommand from its reports.
THEOREM FateKnown == ASSUME RoomForAll PROVE UplinkSpec => []GroundKnows
<1>1. UInv => GroundKnows
  BY DEF UInv, Told, Fate, GroundKnows, Received, Kinds, KindsIn, Works
<1> QED BY <1>1, UplinkInvariant, PTL

-----------------------------------------------------------------------------
(* Words in octets *)

Listed(s) == \E S : s \in Seq(S)

LEMMA Digits ==
    ASSUME NEW x \in Nat
    PROVE  \E q \in Nat, r \in 0 .. 7 : x = 8 * q + r
<1>1. PICK q \in Int, r \in Int : q = x \div 8 /\ r = x % 8  OBVIOUS
<1>2. x = 8 * q + r /\ r \in 0 .. 7  BY <1>1
<1>3. q \in Nat  BY <1>2
<1> QED BY <1>2, <1>3

LEMMA OctetIs ==
    ASSUME NEW n \in Nat, NEW w, NEW k \in 1 .. n
    PROVE  /\ Octets(w, n)[k] \in Octet
           /\ \A r \in 0 .. 7 : r \in Octets(w, n)[k]
                 <=> \E j \in w : j >= 8 * (n - k) /\ r = j - 8 * (n - k)
<1>1. PICK m \in Int : m = 8 * (n - k)  OBVIOUS
<1>2. Octets(w, n)[k] = Low(Shr(w, m), 8)  BY <1>1 DEF Octets
<1>3. 8 - 1 = 7  OBVIOUS
<1>4. Low(Shr(w, m), 8) = Shr(w, m) \cap 0 .. 7  BY <1>3 DEF Low
<1>5. \A r : r \in Shr(w, m) <=> \E j \in w : j >= m /\ r = j - m  BY DEF Shr
<1> QED BY <1>1, <1>2, <1>4, <1>5 DEF Octet

LEMMA OctetHas ==
    ASSUME NEW n \in Nat, NEW w \in SUBSET Nat, NEW k \in 1 .. n, NEW r \in 0 .. 7
    PROVE  r \in Octets(w, n)[k] <=> 8 * (n - k) + r \in w
<1>1. PICK m \in Nat : m = 8 * (n - k)  OBVIOUS
<1>2. r \in Octets(w, n)[k] <=> \E i \in w : i >= m /\ r = i - m
  <2>1. r \in Octets(w, n)[k] <=> \E j \in w : j >= 8 * (n - k) /\ r = j - 8 * (n - k)
    BY OctetIs
  <2> QED BY <1>1, <2>1
<1>3. \A i \in w : i >= m /\ r = i - m <=> i = m + r  BY <1>1
<1> QED BY <1>1, <1>2, <1>3

\* A word that lies in s in octets, the most significant first.
LEMMA JoinBack ==
    ASSUME NEW n \in Nat, NEW w \in SUBSET (0 .. 8 * n - 1),
           NEW s, Len(s) = n, \A k \in 1 .. n : s[k] = Octets(w, n)[k]
    PROVE  Join(s) = w
<1>1. w \in SUBSET Nat  OBVIOUS
<1>2. \A k \in 1 .. n : \A y : y \in Shl(s[k], 8 * (n - k)) <=> \E r \in s[k] : y = r + 8 * (n - k)
  BY DEF Shl
<1>3. ASSUME NEW k \in 1 .. n, NEW y \in Shl(s[k], 8 * (n - k)) PROVE y \in w
  <2>1. PICK r \in Octets(w, n)[k] : y = r + 8 * (n - k)
    <3>1. \E r \in s[k] : y = r + 8 * (n - k)  BY <1>2
    <3>2. s[k] = Octets(w, n)[k]  OBVIOUS
    <3> QED BY <3>1, <3>2
  <2>2. r \in 0 .. 7  BY OctetIs DEF Octet
  <2>3. 8 * (n - k) + r \in w  BY <1>1, <2>2, OctetHas
  <2> QED BY <2>1, <2>2, <2>3
<1>4. ASSUME NEW y \in w PROVE \E k \in 1 .. n : y \in Shl(s[k], 8 * (n - k))
  <2>0. y \in Nat  OBVIOUS
  <2>1. PICK q \in Nat, r \in 0 .. 7 : y = 8 * q + r  BY <2>0, Digits
  <2>2. y <= 8 * n - 1  OBVIOUS
  <2>3. q < n  BY <2>1, <2>2
  <2>4. PICK k \in 1 .. n : k = n - q  BY <2>3
  <2>5. n - k = q /\ 8 * (n - k) + r = y  BY <2>1, <2>4
  <2>6. r \in s[k]  BY <1>1, <2>5, OctetHas
  <2> QED BY <1>2, <2>5, <2>6
<1>5. Join(s) = UNION {Shl(s[k], 8 * (n - k)) : k \in 1 .. n}  BY DEF Join
<1> QED BY <1>3, <1>4, <1>5, ZenonT(40)

-----------------------------------------------------------------------------
(* Numbers as words *)

LEMMA BitWord ==
    ASSUME NEW n, NEW i \in 0 .. 15 PROVE i \in Word(n) <=> (n \div 2 ^ i) % 2 = 1
BY Zenon DEF Word

LEMMA WordTyped == ASSUME NEW n PROVE Word(n) \in SUBSET (0 .. 15)
<1>1. \A i \in Word(n) : i \in 0 .. 15  BY Zenon DEF Word
<1> QED BY <1>1

\* The powers of two up to 2^15.
LEMMA Powers ==
    /\ 2 ^ 0 = 1 /\ 2 ^ 1 = 2 /\ 2 ^ 2 = 4 /\ 2 ^ 3 = 8 /\ 2 ^ 4 = 16 /\ 2 ^ 5 = 32
    /\ 2 ^ 6 = 64 /\ 2 ^ 7 = 128 /\ 2 ^ 8 = 256 /\ 2 ^ 9 = 512 /\ 2 ^ 10 = 1024
    /\ 2 ^ 11 = 2048 /\ 2 ^ 12 = 4096 /\ 2 ^ 13 = 8192 /\ 2 ^ 14 = 16384 /\ 2 ^ 15 = 32768
OBVIOUS

LEMMA CountWord == ASSUME NEW n \in Nat, n < 16384 PROVE Word(n) \in SUBSET (0 .. 13)
<1>1. Word(n) \in SUBSET (0 .. 15)  BY WordTyped
<1>2. n \div 16384 = 0 /\ n \div 32768 = 0  OBVIOUS
<1>3. (n \div 2 ^ 14) % 2 = 0 /\ (n \div 2 ^ 15) % 2 = 0  BY <1>2, Powers
<1>4. 14 \notin Word(n) /\ 15 \notin Word(n)  BY <1>3, BitWord
<1>5. \A i \in 0 .. 15 : i # 14 /\ i # 15 => i \in 0 .. 13  OBVIOUS
<1> QED BY <1>1, <1>4, <1>5

LEMMA ApidWord == ASSUME NEW n \in Nat, n < 2048 PROVE Word(n) \in SUBSET (0 .. 10)
<1>1. Word(n) \in SUBSET (0 .. 13)  BY CountWord
<1>3. n \div 2048 = 0 /\ n \div 4096 = 0 /\ n \div 8192 = 0  OBVIOUS
<1>4. (n \div 2 ^ 11) % 2 = 0 /\ (n \div 2 ^ 12) % 2 = 0 /\ (n \div 2 ^ 13) % 2 = 0
  BY <1>3, Powers
<1>5. 11 \notin Word(n) /\ 12 \notin Word(n) /\ 13 \notin Word(n)  BY <1>4, BitWord
<1>6. \A i \in 0 .. 13 : i # 11 /\ i # 12 /\ i # 13 => i \in 0 .. 10  OBVIOUS
<1> QED BY <1>1, <1>5, <1>6

LEMMA OctetWord == ASSUME NEW n \in Nat, n < 256 PROVE Word(n) \in Octet
<1>1. Word(n) \in SUBSET (0 .. 10)  BY ApidWord
<1>2. n \div 256 = 0 /\ n \div 512 = 0 /\ n \div 1024 = 0  OBVIOUS
<1>3. (n \div 2 ^ 8) % 2 = 0 /\ (n \div 2 ^ 9) % 2 = 0 /\ (n \div 2 ^ 10) % 2 = 0
  BY <1>2, Powers
<1>4. 8 \notin Word(n) /\ 9 \notin Word(n) /\ 10 \notin Word(n)  BY <1>3, BitWord
<1>5. \A i \in 0 .. 10 : i # 8 /\ i # 9 /\ i # 10 => i \in 0 .. 7  OBVIOUS
<1> QED BY <1>1, <1>4, <1>5 DEF Octet

LEMMA NoBits == Word(0) = {}
<1>1. Word(0) \in SUBSET (0 .. 10)  BY ApidWord
<1>2. /\ (0 \div 2 ^ 0) % 2 = 0 /\ (0 \div 2 ^ 1) % 2 = 0 /\ (0 \div 2 ^ 2) % 2 = 0
      /\ (0 \div 2 ^ 3) % 2 = 0 /\ (0 \div 2 ^ 4) % 2 = 0 /\ (0 \div 2 ^ 5) % 2 = 0
      /\ (0 \div 2 ^ 6) % 2 = 0 /\ (0 \div 2 ^ 7) % 2 = 0 /\ (0 \div 2 ^ 8) % 2 = 0
      /\ (0 \div 2 ^ 9) % 2 = 0 /\ (0 \div 2 ^ 10) % 2 = 0  BY Powers
<1>3. \A i \in 0 .. 10 : \/ i = 0 \/ i = 1 \/ i = 2 \/ i = 3 \/ i = 4 \/ i = 5 \/ i = 6
                         \/ i = 7 \/ i = 8 \/ i = 9 \/ i = 10  OBVIOUS
<1>4. \A i \in 0 .. 10 : (0 \div 2 ^ i) % 2 = 0  BY <1>2, <1>3
<1>5. \A i \in 0 .. 10 : i \in 0 .. 15  OBVIOUS
<1> QED BY <1>1, <1>4, <1>5, BitWord

LEMMA OneBit == Word(1) = {0}
<1>1. Word(1) \in SUBSET (0 .. 10)  BY ApidWord
<1>2. /\ (1 \div 2 ^ 1) % 2 = 0 /\ (1 \div 2 ^ 2) % 2 = 0 /\ (1 \div 2 ^ 3) % 2 = 0
      /\ (1 \div 2 ^ 4) % 2 = 0 /\ (1 \div 2 ^ 5) % 2 = 0 /\ (1 \div 2 ^ 6) % 2 = 0
      /\ (1 \div 2 ^ 7) % 2 = 0 /\ (1 \div 2 ^ 8) % 2 = 0 /\ (1 \div 2 ^ 9) % 2 = 0
      /\ (1 \div 2 ^ 10) % 2 = 0  BY Powers
<1>3. \A i \in 1 .. 10 : \/ i = 1 \/ i = 2 \/ i = 3 \/ i = 4 \/ i = 5 \/ i = 6
                         \/ i = 7 \/ i = 8 \/ i = 9 \/ i = 10  OBVIOUS
<1>4. \A i \in 1 .. 10 : (1 \div 2 ^ i) % 2 = 0  BY <1>2, <1>3
<1>9. \A i \in 1 .. 10 : i \in 0 .. 15  OBVIOUS
<1>5. \A i \in 1 .. 10 : i \notin Word(1)  BY <1>4, <1>9, BitWord
<1>6. \A i \in Word(1) : i = 0  BY <1>1, <1>5
<1>7. (1 \div 2 ^ 0) % 2 = 1  BY Powers
<1>8. 0 \in Word(1)  BY <1>7, BitWord
<1> QED BY <1>6, <1>8

-----------------------------------------------------------------------------
(* The primary header *)

\* The first two words of a header, and the bits of the first.
FirstWord(h)  == UNION {Shl(Low(h.version, 3), 13), Shl(Low(h.type, 1), 12),
                        Shl(Low(h.sec_hdr_flag, 1), 11), Low(h.apid, 11)}
SecondWord(h) == Shl(Low(h.seq_flags, 2), 14) \cup Low(h.seq_count, 14)

LEMMA PacketId ==
    ASSUME NEW type \in {0, 1}, NEW apid, Word(apid) \in SUBSET (0 .. 10),
           NEW h, h.version = {}, h.type = Word(type), h.sec_hdr_flag = {0}, h.apid = Word(apid),
           NEW w, w = FirstWord(h)
    PROVE  \A y : y \in w <=> (y = 12 /\ type = 1) \/ y = 11 \/ y \in Word(apid)
<1>1. PICK none, zero : none = {} /\ zero = {0}  OBVIOUS
<1>2. h.version = none /\ h.sec_hdr_flag = zero  BY <1>1
<1>3. Low(none, 3) = none /\ Low(none, 1) = none /\ Low(zero, 1) = zero  BY <1>1, SMT DEF Low
<1>4. Shl(none, 13) = none /\ Shl(none, 12) = none  BY <1>1, SMT DEF Shl
<1>5. \A y : y \in Shl(zero, 11) <=> y = 11  BY <1>1, SMT DEF Shl
<1>6. \A y : y \in Shl(zero, 12) <=> y = 12  BY <1>1, SMT DEF Shl
<1>7. Low(Word(apid), 11) = Word(apid)  BY SMT DEF Low
<1>8. \A y : y \in Shl(Low(h.type, 1), 12) <=> y = 12 /\ type = 1
  <2>1. CASE type = 0
    <3>1. h.type = none  BY <1>1, <2>1, NoBits
    <3> QED BY <1>1, <1>3, <1>4, <2>1, <3>1
  <2>2. CASE type = 1
    <3>1. h.type = zero  BY <1>1, <2>2, OneBit
    <3> QED BY <1>3, <1>6, <2>2, <3>1
  <2> QED BY <2>1, <2>2
<1>9. Shl(Low(h.version, 3), 13) = {}  BY <1>1, <1>2, <1>3, <1>4
<1>10. \A y : y \in Shl(Low(h.sec_hdr_flag, 1), 11) <=> y = 11  BY <1>2, <1>3, <1>5
<1>11. PICK a, b, c : a = Shl(Low(h.version, 3), 13) /\ b = Shl(Low(h.type, 1), 12)
                      /\ c = Shl(Low(h.sec_hdr_flag, 1), 11)  OBVIOUS
<1>12. w = UNION {a, b, c, Word(apid)}  BY <1>7, <1>11 DEF FirstWord
<1> QED BY <1>8, <1>9, <1>10, <1>11, <1>12

LEMMA OctetsSeq ==
    ASSUME NEW w, NEW n \in Nat
    PROVE  Octets(w, n) \in Seq(Octet) /\ Len(Octets(w, n)) = n
<1>1. PICK s : s = Octets(w, n)  OBVIOUS
<1>2. s = [k \in 1 .. n |-> s[k]]  BY <1>1 DEF Octets
<1>3. \A k \in 1 .. n : s[k] \in Octet  BY <1>1, OctetIs
<1>4. s \in [1 .. n -> Octet]  BY <1>2, <1>3
<1>5. s \in Seq(Octet) /\ Len(s) = n  BY <1>4
<1> QED BY <1>1, <1>5

\* One sequence behind another.
Follows(c, a, b) == c = a \o b

LEMMA Behind ==
    ASSUME NEW a \in Seq(Octet), NEW b \in Seq(Octet), NEW c, Follows(c, a, b)
    PROVE  /\ c \in Seq(Octet) /\ Len(a) \in Nat /\ Len(b) \in Nat /\ Len(c) = Len(a) + Len(b)
           /\ \A k \in 1 .. Len(a) : c[k] = a[k]
           /\ \A k \in 1 .. Len(b) : c[Len(a) + k] = b[k]
BY ConcatProperties, LenProperties DEF Follows

\* The word w lies in n octets of buf behind offset at.
Holds(buf, at, w, n) == \A k \in 1 .. n : buf[at + k] = Octets(w, n)[k]

LEMMA HoldsStill ==
    ASSUME NEW a \in Seq(Octet), NEW b \in Seq(Octet), NEW c, Follows(c, a, b),
           NEW at \in Nat, NEW n \in Nat, NEW w
    PROVE  /\ Holds(a, at, w, n) /\ at + n <= Len(a) => Holds(c, at, w, n)
           /\ Holds(b, at, w, n) /\ at + n <= Len(b) => Holds(c, Len(a) + at, w, n)
<1>1. /\ Len(a) \in Nat /\ Len(b) \in Nat
      /\ \A k \in 1 .. Len(a) : c[k] = a[k]
      /\ \A k \in 1 .. Len(b) : c[Len(a) + k] = b[k]
  BY Behind
<1>2. ASSUME Holds(a, at, w, n), at + n <= Len(a) PROVE Holds(c, at, w, n)
  <2>1. \A k \in 1 .. n : at + k \in 1 .. Len(a)  BY <1>1, <1>2
  <2> QED BY <1>1, <1>2, <2>1 DEF Holds
<1>3. ASSUME Holds(b, at, w, n), at + n <= Len(b) PROVE Holds(c, Len(a) + at, w, n)
  <2>1. \A k \in 1 .. n : at + k \in 1 .. Len(b) /\ (Len(a) + at) + k = Len(a) + (at + k)
    BY <1>1, <1>3
  <2>2. \A k \in 1 .. n : c[Len(a) + (at + k)] = b[at + k]  BY <1>1, <2>1
  <2> QED BY <1>3, <2>1, <2>2 DEF Holds
<1> QED BY <1>2, <1>3

LEMMA WordHeld ==
    ASSUME NEW w, NEW n \in Nat, NEW a, a = Octets(w, n), NEW z, z = 0
    PROVE  a \in Seq(Octet) /\ Len(a) = n /\ Holds(a, z, w, n)
<1>1. \A k \in 1 .. n : z + k = k  OBVIOUS
<1> QED BY <1>1, OctetsSeq DEF Holds

\* A word written behind what is there.
LEMMA Appended ==
    ASSUME NEW a \in Seq(Octet), NEW m, m = Len(a), NEW w, NEW n \in Nat,
           NEW b, b = Octets(w, n), NEW c, Follows(c, a, b)
    PROVE  /\ c \in Seq(Octet) /\ m \in Nat /\ Len(c) = m + n /\ Holds(c, m, w, n)
           /\ \A at \in Nat, l \in Nat : \A v :
                 Holds(a, at, v, l) /\ at + l <= m => Holds(c, at, v, l)
<1>1. PICK z \in Nat : z = 0  OBVIOUS
<1>2. b \in Seq(Octet) /\ Len(b) = n /\ Holds(b, z, w, n)  BY <1>1, WordHeld
<1>3. c \in Seq(Octet) /\ Len(a) \in Nat /\ Len(c) = Len(a) + n  BY <1>2, Behind
<1>4. m + z = m /\ z + n <= n  BY <1>1, <1>3
<1>5. Holds(c, m, w, n)  BY <1>2, <1>4, HoldsStill
<1>6. \A at \in Nat, l \in Nat : \A v : Holds(a, at, v, l) /\ at + l <= m => Holds(c, at, v, l)
  BY <1>2, HoldsStill
<1> QED BY <1>3, <1>5, <1>6

\* Where the octets of a word lie in a packet, it is read back.
LEMMA FieldBack ==
    ASSUME NEW buf, Listed(buf), NEW a \in Nat, NEW n \in Nat, a + n <= Len(buf),
           NEW w \in SUBSET (0 .. 8 * n - 1), Holds(buf, a, w, n),
           NEW from, from = a + 1, NEW to, to = a + n
    PROVE  Join(SubSeq(buf, from, to)) = w
<1>1. PICK S : buf \in Seq(S)  BY DEF Listed
<1>2. PICK s : s = SubSeq(buf, a + 1, a + n)  OBVIOUS
<1>3. Len(s) = n /\ \A k \in 1 .. n : s[k] = buf[a + k]
  <2>1. s = [k \in 1 .. (a + n) - (a + 1) + 1 |-> buf[k + (a + 1) - 1]]  BY <1>1, <1>2
  <2>2. (a + n) - (a + 1) + 1 = n  OBVIOUS
  <2>3. s = [k \in 1 .. n |-> buf[k + (a + 1) - 1]]  BY <2>1, <2>2
  <2>4. \A k \in 1 .. n : k + (a + 1) - 1 = a + k  OBVIOUS
  <2>5. \A k \in 1 .. n : s[k] = buf[a + k]  BY <2>3, <2>4
  <2>6. Len(s) = n  BY <2>3
  <2> QED BY <2>5, <2>6
<1>4. \A k \in 1 .. n : s[k] = Octets(w, n)[k]  BY <1>3 DEF Holds
<1> QED BY <1>2, <1>3, <1>4, JoinBack

\* A shift and a mask cut bits out of a word.
LEMMA Cut ==
    ASSUME NEW w \in SUBSET (0 .. 15), NEW m \in Nat, NEW n \in Nat
    PROVE  \A r : r \in Low(Shr(w, m), n) <=> r \in 0 .. n - 1 /\ r + m \in w
<1>1. \A r : r \in Shr(w, m) <=> \E j \in w : j >= m /\ r = j - m  BY DEF Shr
<1>2. PICK v : v = Shr(w, m)  OBVIOUS
<1>4. \A r : r \in Low(v, n) <=> r \in v /\ r \in 0 .. n - 1  BY SMT DEF Low
<1>3. \A r \in 0 .. n - 1 : \A j \in w : j >= m /\ r = j - m <=> j = r + m  OBVIOUS
<1> QED BY <1>1, <1>2, <1>3, <1>4

HasHeader(buf, h) ==
    /\ Holds(buf, 0, FirstWord(h), 2) /\ Holds(buf, 2, SecondWord(h), 2)
    /\ Holds(buf, 4, h.data_length, 2)

LEMMA HeaderHeld ==
    ASSUME NEW h, NEW p, p = ccsds_pack_primary(h)
    PROVE  p \in Seq(Octet) /\ Len(p) = 6 /\ HasHeader(p, h)
<1>1. PICK w0 : w0 = FirstWord(h)  OBVIOUS
<1>2. PICK w1 : w1 = SecondWord(h)  OBVIOUS
<1>3. PICK w2 : w2 = h.data_length  OBVIOUS
<1>4. PICK a : a = Octets(w0, 2)  OBVIOUS
<1>5. PICK b : b = Octets(w1, 2)  OBVIOUS
<1>6. PICK c : c = Octets(w2, 2)  OBVIOUS
<1>7. PICK ab : ab = a \o b  OBVIOUS
<1>8. Follows(ab, a, b) /\ Follows(p, ab, c)
  BY <1>1, <1>2, <1>3, <1>4, <1>5, <1>6, <1>7 DEF Follows, ccsds_pack_primary, FirstWord, SecondWord
<1>9. PICK z \in Nat : z = 0  OBVIOUS
<1>10. PICK two \in Nat : two = 2  OBVIOUS
<1>17. a = Octets(w0, two) /\ b = Octets(w1, two) /\ c = Octets(w2, two)
  BY <1>4, <1>5, <1>6, <1>10
<1>11. a \in Seq(Octet) /\ Len(a) = two /\ Holds(a, z, w0, two)  BY <1>9, <1>17, WordHeld
<1>12. /\ ab \in Seq(Octet) /\ Len(ab) = two + two /\ Holds(ab, two, w1, two)
       /\ \A at \in Nat, l \in Nat : \A v :
             Holds(a, at, v, l) /\ at + l <= two => Holds(ab, at, v, l)
  BY <1>8, <1>11, <1>17, Appended
<1>13. PICK four \in Nat : four = 4  OBVIOUS
<1>18. Len(ab) = four  BY <1>10, <1>12, <1>13
<1>14. /\ p \in Seq(Octet) /\ Len(p) = four + two /\ Holds(p, four, w2, two)
       /\ \A at \in Nat, l \in Nat : \A v :
             Holds(ab, at, v, l) /\ at + l <= four => Holds(p, at, v, l)
  BY <1>8, <1>12, <1>17, <1>18, Appended
<1>15. Holds(ab, z, w0, two)  BY <1>9, <1>10, <1>11, <1>12
<1>19. z + two <= four /\ two + two <= four  BY <1>9, <1>10, <1>13
<1>16. Holds(p, z, w0, two) /\ Holds(p, two, w1, two)  BY <1>9, <1>10, <1>12, <1>14, <1>15, <1>19
<1> QED BY <1>1, <1>2, <1>3, <1>9, <1>10, <1>13, <1>14, <1>16 DEF HasHeader

\* ccsds_parse_primary undoes ccsds_pack_primary, whatever follows the header.
LEMMA HeaderBack ==
    ASSUME NEW type \in {0, 1}, NEW apid, Word(apid) \in SUBSET (0 .. 10),
           NEW count, Word(count) \in SUBSET (0 .. 13),
           NEW total, NEW h, h = Header(type, apid, count, total),
           NEW buf \in Seq(Octet), Len(buf) >= 6, HasHeader(buf, h)
    PROVE  ccsds_parse_primary(buf) = h
<1>1. /\ h.version = {} /\ h.type = Word(type) /\ h.sec_hdr_flag = {0} /\ h.apid = Word(apid)
      /\ h.seq_flags = {0, 1} /\ h.seq_count = Word(count)
      /\ h.data_length = Word(total - CCSDS_PRI_HDR_LEN - 1)
  BY DEF Header
<1>2. PICK w0 : w0 = FirstWord(h)  OBVIOUS
<1>3. \A y : y \in w0 <=> (y = 12 /\ type = 1) \/ y = 11 \/ y \in Word(apid)
  BY <1>1, <1>2, PacketId
<1>4. PICK w1 : w1 = SecondWord(h)  OBVIOUS
<1>5. \A y : y \in w1 <=> y = 14 \/ y = 15 \/ y \in Word(count)
  <2>1. PICK both : both = {0, 1}  BY Zenon
  <2>2. Low(both, 2) = both  BY <2>1, SMT DEF Low
  <2>3. PICK a : a = Shl(both, 14)  OBVIOUS
  <2>4. \A y : y \in a <=> y = 14 \/ y = 15  BY <2>1, <2>3, SMT DEF Shl
  <2>5. Low(Word(count), 14) = Word(count)  BY SMT DEF Low
  <2>6. h.seq_flags = both  BY <1>1, <2>1
  <2>8. Low(h.seq_flags, 2) = both /\ Low(h.seq_count, 14) = Word(count)
    BY <1>1, <2>2, <2>5, <2>6
  <2>9. w1 = Shl(Low(h.seq_flags, 2), 14) \cup Low(h.seq_count, 14)  BY <1>4, Zenon DEF SecondWord
  <2>7. w1 = a \cup Word(count)  BY <2>3, <2>8, <2>9, Zenon
  <2> QED BY <2>4, <2>7
<1>6. PICK w2 : w2 = h.data_length  OBVIOUS
<1>8. Holds(buf, 0, w0, 2) /\ Holds(buf, 2, w1, 2) /\ Holds(buf, 4, w2, 2)
  BY <1>2, <1>4, <1>6 DEF HasHeader
<1>9. w0 \in SUBSET (0 .. 15) /\ w1 \in SUBSET (0 .. 15) /\ w2 \in SUBSET (0 .. 15)
  BY <1>1, <1>3, <1>5, <1>6, WordTyped
<1>10. Listed(buf) /\ Len(buf) \in Nat  BY DEF Listed
<1>7. PICK two \in Nat : two = 2  OBVIOUS
<1>11. Join(SubSeq(buf, 1, 2)) = w0
  <2>1. PICK at \in Nat : at = 0  OBVIOUS
  <2>2. PICK from : from = 1  OBVIOUS
  <2>6. PICK to : to = 2  OBVIOUS
  <2>3. at + two <= Len(buf) /\ 8 * two - 1 = 15 /\ from = at + 1 /\ to = at + two
    BY <1>7, <1>10, <2>1, <2>2, <2>6
  <2>4. Holds(buf, at, w0, two)  BY <1>7, <1>8, <2>1
  <2>5. Join(SubSeq(buf, from, to)) = w0  BY <1>7, <2>1, <1>9, <1>10, <2>3, <2>4, FieldBack
  <2> QED BY <2>2, <2>5, <2>6
<1>12. Join(SubSeq(buf, 3, 4)) = w1
  <2>2. PICK from : from = 3  OBVIOUS
  <2>6. PICK to : to = 4  OBVIOUS
  <2>3. two + two <= Len(buf) /\ 8 * two - 1 = 15 /\ from = two + 1 /\ to = two + two
    BY <1>7, <1>10, <2>2, <2>6
  <2>4. Holds(buf, two, w1, two)  BY <1>7, <1>8
  <2>5. Join(SubSeq(buf, from, to)) = w1  BY <1>9, <1>10, <2>3, <2>4, FieldBack
  <2> QED BY <2>2, <2>5, <2>6
<1>13. Join(SubSeq(buf, 5, 6)) = w2
  <2>1. PICK at \in Nat : at = 4  OBVIOUS
  <2>2. PICK from : from = 5  OBVIOUS
  <2>6. PICK to : to = 6  OBVIOUS
  <2>3. at + two <= Len(buf) /\ 8 * two - 1 = 15 /\ from = at + 1 /\ to = at + two
    BY <1>7, <1>10, <2>1, <2>2, <2>6
  <2>4. Holds(buf, at, w2, two)  BY <1>7, <1>8, <2>1
  <2>5. Join(SubSeq(buf, from, to)) = w2  BY <1>7, <2>1, <1>9, <1>10, <2>3, <2>4, FieldBack
  <2> QED BY <2>2, <2>5, <2>6
<1>14. \A y \in Word(apid) : y \in 0 .. 10  OBVIOUS
<1>15. \A y \in Word(count) : y \in 0 .. 13  OBVIOUS
<1>16. Low(Shr(w0, 13), 3) = {}
  <2>1. PICK v : v = Low(Shr(w0, 13), 3)  OBVIOUS
  <2>2. \A r : r \in v <=> r \in 0 .. 3 - 1 /\ r + 13 \in w0  BY <1>9, <2>1, Cut
  <2>3. \A r \in 0 .. 3 - 1 : r + 13 \notin w0  BY <1>3, <1>14
  <2> QED BY <2>1, <2>2, <2>3
<1>17. Low(Shr(w0, 12), 1) = Word(type)
  <2>1. PICK v : v = Low(Shr(w0, 12), 1)  OBVIOUS
  <2>2. \A r : r \in v <=> r \in 0 .. 1 - 1 /\ r + 12 \in w0  BY <1>9, <2>1, Cut
  <2>3. \A r : r \in v <=> r = 0 /\ type = 1  BY <1>3, <1>14, <2>2
  <2>4. \A r : r \in Word(type) <=> r = 0 /\ type = 1
    <3>1. CASE type = 0  BY <3>1, NoBits
    <3>2. CASE type = 1  BY <3>2, OneBit
    <3> QED BY <3>1, <3>2
  <2>5. v = Word(type)  BY <2>3, <2>4, Zenon
  <2> QED BY <2>1, <2>5
<1>18. Low(Shr(w0, 11), 1) = {0}
  <2>1. PICK v : v = Low(Shr(w0, 11), 1)  OBVIOUS
  <2>2. \A r : r \in v <=> r \in 0 .. 1 - 1 /\ r + 11 \in w0  BY <1>9, <2>1, Cut
  <2>3. \A r : r \in v <=> r = 0  BY <1>3, <2>2
  <2> QED BY <2>1, <2>3
<1>19. Low(w0, 11) = Word(apid)
  <2>1. PICK v : v = Low(w0, 11)  OBVIOUS
  <2>2. \A y : y \in v <=> y \in w0 /\ y \in 0 .. 10  BY <2>1, SMT DEF Low
  <2>3. \A y : y \in v <=> y \in Word(apid)  BY <1>3, <1>14, <2>2
  <2>4. v = Word(apid)  BY <2>3, Zenon
  <2> QED BY <2>1, <2>4
<1>20. Low(Shr(w1, 14), 2) = {0, 1}
  <2>1. PICK v : v = Low(Shr(w1, 14), 2)  OBVIOUS
  <2>2. \A r : r \in v <=> r \in 0 .. 2 - 1 /\ r + 14 \in w1  BY <1>9, <2>1, Cut
  <2>3. \A r : r \in v <=> r = 0 \/ r = 1  BY <1>5, <2>2
  <2> QED BY <2>1, <2>3
<1>21. Low(w1, 14) = Word(count)
  <2>1. PICK v : v = Low(w1, 14)  OBVIOUS
  <2>2. \A y : y \in v <=> y \in w1 /\ y \in 0 .. 13  BY <2>1, SMT DEF Low
  <2>3. \A y : y \in v <=> y \in Word(count)  BY <1>5, <1>15, <2>2
  <2>4. v = Word(count)  BY <2>3, Zenon
  <2> QED BY <2>1, <2>4
<1> QED BY <1>1, <1>6, <1>11, <1>12, <1>13, <1>16, <1>17, <1>18, <1>19, <1>20, <1>21
     DEF ccsds_parse_primary, Header

-----------------------------------------------------------------------------
(* Telemetry packets *)

\* What the ground reads in a telemetry packet.
Reads(p, apid, count, service, subtype, payload) ==
    /\ p \in Seq(Octet) /\ Len(payload) \in Nat /\ Len(p) = 11 + Len(payload)
    /\ ccsds_parse_primary(p) = Header(0, apid, count, Len(p))
    /\ p[8] = Word(service) /\ p[9] = Word(subtype)
    /\ Join(SubSeq(p, 10, 11)) = Word(count)
    /\ \A k \in 1 .. Len(payload) : p[11 + k] = payload[k]
    /\ SubSeq(p, 12, Len(p)) = payload

\* The secondary header: three octets and the count.
LEMMA SecondaryHeld ==
    ASSUME NEW service, Word(service) \in Octet, NEW subtype, Word(subtype) \in Octet,
           NEW w, NEW s, s = pus_pack_secondary(service, subtype, w), NEW three, three = 3,
           NEW two, two = 2
    PROVE  /\ s \in Seq(Octet) /\ Len(s) = 5 /\ s[2] = Word(service) /\ s[3] = Word(subtype)
           /\ Holds(s, three, w, two)
<1>1. Word(32) \in Octet  BY OctetWord
<1>2. PICK x : x = Word(32)  OBVIOUS
<1>12. PICK y : y = Word(service)  OBVIOUS
<1>13. PICK z : z = Word(subtype)  OBVIOUS
<1>14. PICK a : a = <<x, y, z>>  OBVIOUS
<1>3. x \in Octet /\ y \in Octet /\ z \in Octet  BY <1>1, <1>2, <1>12, <1>13
<1>4. a \in Seq(Octet) /\ Len(a) = 3 /\ a[2] = y /\ a[3] = z  BY <1>3, <1>14
<1>5. PICK b : b = Octets(w, two)  OBVIOUS
<1>6. Follows(s, a, b)
  BY <1>2, <1>5, <1>12, <1>13, <1>14 DEF Follows, pus_pack_secondary, PUS_TM_VERSION
<1>7. three = Len(a) /\ two \in Nat /\ a \in Seq(Octet)  BY <1>4
<1>15. PICK m : m = Len(a)  OBVIOUS
<1>16. PICK n \in Nat : n = two  BY <1>7
<1>17. b = Octets(w, n)  BY <1>5, <1>16
<1>18. s \in Seq(Octet) /\ Len(s) = m + n /\ Holds(s, m, w, n)
  BY <1>6, <1>7, <1>15, <1>16, <1>17, Appended
<1>8. s \in Seq(Octet) /\ Len(s) = three + two /\ Holds(s, three, w, two)
  BY <1>7, <1>15, <1>16, <1>18
<1>9. b \in Seq(Octet)  BY <1>5, <1>7, OctetsSeq
<1>10. \A k \in 1 .. Len(a) : s[k] = a[k]  BY <1>6, <1>7, <1>9, Behind
<1>11. s[2] = a[2] /\ s[3] = a[3]  BY <1>4, <1>10
<1> QED BY <1>4, <1>8, <1>11, <1>12, <1>13

\* Where the parts of a telemetry packet lie.
Placed(p, apid, count, service, subtype, payload) ==
    /\ p \in Seq(Octet) /\ Len(payload) \in Nat /\ Len(p) = 11 + Len(payload)
    /\ HasHeader(p, Header(0, apid, count, Len(p)))
    /\ p[8] = Word(service) /\ p[9] = Word(subtype)
    /\ Holds(p, 9, Word(count), 2)
    /\ \A k \in 1 .. Len(payload) : p[11 + k] = payload[k]

LEMMA TmPlaces ==
    ASSUME NEW apid, NEW count,
           NEW service, Word(service) \in Octet, NEW subtype, Word(subtype) \in Octet,
           NEW payload \in Seq(Octet),
           NEW p, p = TmPacketOf(apid, count, service, subtype, payload)
    PROVE  Placed(p, apid, count, service, subtype, payload)
<1>1. PICK total : total = CCSDS_PRI_HDR_LEN + PUS_TM_SEC_HDR_LEN + Len(payload)  OBVIOUS
<1>2. PICK h : h = Header(0, apid, count, total)  OBVIOUS
<1>3. PICK a : a = ccsds_pack_primary(h)  OBVIOUS
<1>4. PICK w : w = Word(count)  OBVIOUS
<1>5. PICK b : b = pus_pack_secondary(service, subtype, w)  OBVIOUS
<1>6. PICK c : c = a \o b  OBVIOUS
<1>7. Follows(c, a, b) /\ Follows(p, c, payload)
  BY <1>1, <1>2, <1>3, <1>4, <1>5, <1>6 DEF Follows, TmPacketOf
<1>8. a \in Seq(Octet) /\ Len(a) = 6 /\ HasHeader(a, h)  BY <1>3, HeaderHeld
<1>9. PICK two \in Nat : two = 2  OBVIOUS
<1>10. PICK three \in Nat : three = 3  OBVIOUS
<1>11. /\ b \in Seq(Octet) /\ Len(b) = 5 /\ b[2] = Word(service) /\ b[3] = Word(subtype)
       /\ Holds(b, three, w, two)
  BY <1>5, <1>9, <1>10, SecondaryHeld
<1>12. /\ c \in Seq(Octet) /\ Len(c) = 11
       /\ \A k \in 1 .. 6 : c[k] = a[k]
       /\ \A k \in 1 .. 5 : c[6 + k] = b[k]
  <2>0. a \in Seq(Octet) /\ b \in Seq(Octet) /\ Follows(c, a, b)  BY <1>7, <1>8, <1>11
  <2>1. /\ c \in Seq(Octet) /\ Len(c) = Len(a) + Len(b)
        /\ \A k \in 1 .. Len(a) : c[k] = a[k]
        /\ \A k \in 1 .. Len(b) : c[Len(a) + k] = b[k]
    BY <2>0, Behind
  <2> QED BY <1>8, <1>11, <2>1
<1>13. /\ p \in Seq(Octet) /\ Len(payload) \in Nat /\ Len(p) = 11 + Len(payload)
       /\ \A k \in 1 .. 11 : p[k] = c[k]
       /\ \A k \in 1 .. Len(payload) : p[11 + k] = payload[k]
  <2>0. c \in Seq(Octet)  BY <1>12
  <2>1. /\ p \in Seq(Octet) /\ Len(payload) \in Nat /\ Len(p) = Len(c) + Len(payload)
        /\ \A k \in 1 .. Len(c) : p[k] = c[k]
        /\ \A k \in 1 .. Len(payload) : p[Len(c) + k] = payload[k]
    BY <1>7, <2>0, Behind
  <2> QED BY <1>12, <2>1
<1>14. total = Len(p)  BY <1>1, <1>13 DEF CCSDS_PRI_HDR_LEN, PUS_TM_SEC_HDR_LEN
<1>15. \A k \in 1 .. 6 : p[k] = a[k]  BY <1>12, <1>13
<1>16. HasHeader(p, h)
  <2>1. \A k \in 1 .. 2 : 0 + k \in 1 .. 6 /\ 2 + k \in 1 .. 6 /\ 4 + k \in 1 .. 6  OBVIOUS
  <2> QED BY <1>8, <1>15, <2>1 DEF HasHeader, Holds
<1>18. \A k \in 1 .. 5 : p[6 + k] = b[k]
  <2>1. \A k \in 1 .. 5 : 6 + k \in 1 .. 11  OBVIOUS
  <2> QED BY <1>12, <1>13, <2>1
<1>19. p[8] = Word(service) /\ p[9] = Word(subtype)
  <2>1. p[6 + 2] = b[2] /\ p[6 + 3] = b[3]  BY <1>18
  <2> QED BY <1>11, <2>1
<1>20. Holds(p, 9, w, 2)
  <2>1. PICK nine \in Nat : nine = 9  OBVIOUS
  <2>4. \A k \in 1 .. two : three + k \in 1 .. 5 /\ nine + k = 6 + (three + k)  BY <1>9, <1>10, <2>1
  <2>5. Holds(p, nine, w, two)  BY <1>11, <1>18, <2>4 DEF Holds
  <2> QED BY <1>9, <2>1, <2>5
<1>21. HasHeader(p, Header(0, apid, count, Len(p)))  BY <1>2, <1>14, <1>16
<1> QED BY <1>4, <1>13, <1>19, <1>20, <1>21 DEF Placed

LEMMA TmReads ==
    ASSUME NEW apid, Word(apid) \in SUBSET (0 .. 10), NEW count, Word(count) \in SUBSET (0 .. 13),
           NEW service, Word(service) \in Octet, NEW subtype, Word(subtype) \in Octet,
           NEW payload \in Seq(Octet),
           NEW p, p = TmPacketOf(apid, count, service, subtype, payload)
    PROVE  Reads(p, apid, count, service, subtype, payload)
<1>1. Placed(p, apid, count, service, subtype, payload)  BY TmPlaces
<1>2. PICK total : total = Len(p)  OBVIOUS
<1>3. PICK h : h = Header(0, apid, count, total)  OBVIOUS
<1>4. PICK w : w = Word(count)  OBVIOUS
<1>13. /\ p \in Seq(Octet) /\ Len(payload) \in Nat /\ Len(p) = 11 + Len(payload)
       /\ \A k \in 1 .. Len(payload) : p[11 + k] = payload[k]
  BY <1>1 DEF Placed
<1>16. HasHeader(p, h)  BY <1>1, <1>2, <1>3 DEF Placed
<1>17. ccsds_parse_primary(p) = h
  <2>1. PICK type \in {0, 1} : type = 0  OBVIOUS
  <2>2. h = Header(type, apid, count, total)  BY <1>3, <2>1
  <2>3. Len(p) >= 6  BY <1>13
  <2> QED BY <1>13, <1>16, <2>2, <2>3, HeaderBack
<1>20. Join(SubSeq(p, 10, 11)) = Word(count)
  <2>0. PICK two \in Nat : two = 2  OBVIOUS
  <2>1. PICK nine \in Nat : nine = 9  OBVIOUS
  <2>2. PICK from : from = 10  OBVIOUS
  <2>3. PICK to : to = 11  OBVIOUS
  <2>5. Holds(p, nine, w, two)  BY <1>1, <1>4, <2>0, <2>1 DEF Placed
  <2>6. nine + two <= Len(p) /\ 8 * two - 1 = 15 /\ from = nine + 1 /\ to = nine + two
    BY <1>13, <2>0, <2>1, <2>2, <2>3
  <2>7. w \in SUBSET (0 .. 15)  BY <1>4, WordTyped
  <2>8. Listed(p)  BY <1>13 DEF Listed
  <2>9. Join(SubSeq(p, from, to)) = w  BY <2>0, <2>1, <2>5, <2>6, <2>7, <2>8, FieldBack
  <2> QED BY <1>4, <2>2, <2>3, <2>9
<1>21. SubSeq(p, 12, Len(p)) = payload
  <2>1. PICK n \in Nat : n = Len(payload)  BY <1>13
  <2>2. PICK s : s = SubSeq(p, 12, Len(p))  OBVIOUS
  <2>3. s = [k \in 1 .. Len(p) - 12 + 1 |-> p[k + 12 - 1]]  BY <1>13, <2>2
  <2>4. Len(p) - 12 + 1 = n /\ \A k \in 1 .. n : k + 12 - 1 = 11 + k  BY <1>13, <2>1
  <2>5. s = [k \in 1 .. n |-> p[k + 12 - 1]]  BY <2>3, <2>4
  <2>6. \A k \in 1 .. n : p[k + 12 - 1] = payload[k]  BY <1>13, <2>1, <2>4
  <2>7. s = [k \in 1 .. n |-> payload[k]]  BY <2>5, <2>6
  <2>8. payload = [k \in 1 .. n |-> payload[k]]  BY <2>1
  <2> QED BY <2>2, <2>7, <2>8
<1>22. p[8] = Word(service) /\ p[9] = Word(subtype)  BY <1>1 DEF Placed
<1> QED BY <1>2, <1>3, <1>13, <1>17, <1>20, <1>21, <1>22 DEF Reads

-----------------------------------------------------------------------------
(* Payloads *)

At(fields, i)   == fields[i].at
Long(fields, i) == fields[i].len

\* The fields cover the octets of a payload, each octet once.
Tiled(fields) ==
    /\ Len(fields) \in Nat /\ Size(fields) \in Nat
    /\ \A i \in 1 .. Len(fields) : /\ At(fields, i) \in Nat /\ Long(fields, i) \in Nat
                                   /\ At(fields, i) + Long(fields, i) <= Size(fields)
    /\ \A i, j \in 1 .. Len(fields) : i < j => At(fields, i) + Long(fields, i) <= At(fields, j)
    /\ \A k \in 1 .. Size(fields) :
          \E i \in 1 .. Len(fields) : k - At(fields, i) \in 1 .. Long(fields, i)

\* The words fit their fields, one each.
Filled(fields, words) ==
    /\ words = [i \in 1 .. Len(fields) |-> words[i]]
    /\ \A i \in 1 .. Len(fields) : words[i] \in SUBSET (0 .. 8 * Long(fields, i) - 1)

Carries(payload, fields, words) ==
    /\ payload \in Seq(Octet) /\ Len(payload) = Size(fields)
    /\ \A i \in 1 .. Len(fields) : Holds(payload, At(fields, i), words[i], Long(fields, i))

LEMMA PackedCarries ==
    ASSUME NEW fields, Tiled(fields), NEW words, NEW p, p = Packed(fields, words)
    PROVE  Carries(p, fields, words)
<1>1. PICK n \in Nat : n = Len(fields)  BY DEF Tiled
<1>2. PICK size \in Nat : size = Size(fields)  BY DEF Tiled
<1>3. PICK in : in = [k \in 1 .. size |->
                        CHOOSE i \in 1 .. n : k - At(fields, i) \in 1 .. Long(fields, i)]
  OBVIOUS
<1>4. ASSUME NEW k \in 1 .. size
      PROVE  in[k] \in 1 .. n /\ k - At(fields, in[k]) \in 1 .. Long(fields, in[k])
  <2>1. \E i \in 1 .. n : k - At(fields, i) \in 1 .. Long(fields, i)  BY <1>1, <1>2 DEF Tiled
  <2>2. in[k] = CHOOSE i \in 1 .. n : k - At(fields, i) \in 1 .. Long(fields, i)  BY <1>3
  <2> QED BY <2>1, <2>2, Zenon
<1>5. p = [k \in 1 .. size |-> Octets(words[in[k]], Long(fields, in[k]))[k - At(fields, in[k])]]
  BY <1>1, <1>2, <1>3 DEF Packed, At, Long
<1>6. \A k \in 1 .. size : p[k] \in Octet
  <2> SUFFICES ASSUME NEW k \in 1 .. size PROVE p[k] \in Octet  OBVIOUS
  <2>1. PICK i \in 1 .. n : i = in[k]  BY <1>4
  <2>2. PICK j \in 1 .. Long(fields, i) : j = k - At(fields, i)  BY <1>4, <2>1
  <2>3. p[k] = Octets(words[i], Long(fields, i))[j]  BY <1>5, <2>1, <2>2
  <2>4. Long(fields, i) \in Nat  BY <1>1 DEF Tiled
  <2> QED BY <2>3, <2>4, OctetIs
<1>7. p \in Seq(Octet) /\ Len(p) = size
  <2>1. p = [k \in 1 .. size |-> p[k]]  BY <1>5
  <2>2. p \in [1 .. size -> Octet]  BY <1>6, <2>1
  <2> QED BY <2>2
<1>8. ASSUME NEW i \in 1 .. n, NEW j \in 1 .. Long(fields, i)
      PROVE  p[At(fields, i) + j] = Octets(words[i], Long(fields, i))[j]
  <2>1. /\ At(fields, i) \in Nat /\ Long(fields, i) \in Nat
        /\ At(fields, i) + Long(fields, i) <= size
    BY <1>1, <1>2 DEF Tiled
  <2>2. PICK k \in 1 .. size : k = At(fields, i) + j  BY <2>1
  <2>3. PICK l \in 1 .. n : l = in[k]  BY <1>4
  <2>4. k - At(fields, l) \in 1 .. Long(fields, l)  BY <1>4, <2>3
  <2>5. At(fields, l) \in Nat /\ Long(fields, l) \in Nat  BY <1>1 DEF Tiled
  <2>6. l < i => At(fields, l) + Long(fields, l) <= At(fields, i)  BY <1>1 DEF Tiled
  <2>7. i < l => At(fields, i) + Long(fields, i) <= At(fields, l)  BY <1>1 DEF Tiled
  <2>8. l = i
    <3>1. ~(l < i)  BY <2>1, <2>2, <2>4, <2>5, <2>6
    <3>2. ~(i < l)  BY <2>1, <2>2, <2>4, <2>5, <2>7
    <3> QED BY <3>1, <3>2
  <2>9. k - At(fields, i) = j  BY <2>1, <2>2
  <2>10. p[k] = Octets(words[l], Long(fields, l))[k - At(fields, l)]  BY <1>5, <2>3
  <2>11. p[k] = Octets(words[i], Long(fields, i))[k - At(fields, i)]  BY <2>8, <2>10
  <2> QED BY <2>2, <2>9, <2>11
<1> QED BY <1>1, <1>2, <1>7, <1>8 DEF Carries, Holds

LEMMA Unpacks ==
    ASSUME NEW fields, Tiled(fields), NEW words, Filled(fields, words),
           NEW p, Carries(p, fields, words)
    PROVE  Unpacked(fields, p) = words
<1>1. PICK n \in Nat : n = Len(fields)  BY DEF Tiled
<1>2. Listed(p)  BY DEF Listed, Carries
<1>3. ASSUME NEW i \in 1 .. n
      PROVE  Join(SubSeq(p, At(fields, i) + 1, At(fields, i) + Long(fields, i))) = words[i]
  <2>1. PICK a \in Nat : a = At(fields, i)  BY <1>1 DEF Tiled
  <2>2. PICK l \in Nat : l = Long(fields, i)  BY <1>1 DEF Tiled
  <2>3. a + l <= Len(p)  BY <1>1, <2>1, <2>2 DEF Tiled, Carries
  <2>4. Holds(p, a, words[i], l)  BY <1>1, <2>1, <2>2 DEF Carries
  <2>5. words[i] \in SUBSET (0 .. 8 * l - 1)  BY <1>1, <2>2 DEF Filled
  <2>6. PICK from : from = a + 1  OBVIOUS
  <2>7. PICK to : to = a + l  OBVIOUS
  <2>8. Join(SubSeq(p, from, to)) = words[i]  BY <1>2, <2>3, <2>4, <2>5, <2>6, <2>7, FieldBack
  <2> QED BY <2>1, <2>2, <2>6, <2>7, <2>8
<1>4. Unpacked(fields, p) = [i \in 1 .. n |-> words[i]]  BY <1>1, <1>3 DEF Unpacked, At, Long
<1>5. words = [i \in 1 .. n |-> words[i]]  BY <1>1 DEF Filled
<1> QED BY <1>4, <1>5

\* Fields that follow on one another, of which a payload has at most seven.
InARow(fields, n) ==
    /\ n \in 1 .. 7 /\ Len(fields) = n /\ At(fields, 1) = 0
    /\ \A i \in 1 .. n : Long(fields, i) \in Nat \ {0}
    /\ \A i \in 1 .. n - 1 : At(fields, i + 1) = At(fields, i) + Long(fields, i)
    /\ Size(fields) = At(fields, n) + Long(fields, n)

LEMMA RowTiled == ASSUME NEW f, NEW n, InARow(f, n) PROVE Tiled(f)
<1>1. PICK e : e = [i \in 1 .. 8 |-> IF i <= n THEN At(f, i) ELSE Size(f)]  OBVIOUS
<1>2. n \in 1 .. 7 /\ Len(f) = n  BY DEF InARow
<1>3. \A i \in 1 .. n : e[i] = At(f, i)
  <2>1. \A i \in 1 .. n : i \in 1 .. 8 /\ i <= n  BY <1>2
  <2> QED BY <1>1, <2>1
<1>4. \A i \in 1 .. 8 : i > n => e[i] = Size(f)  BY <1>1, <1>2
<1>5. \A i \in 1 .. n : Long(f, i) \in Nat \ {0}  BY DEF InARow
<1>6. \A i \in 1 .. n : e[i + 1] = e[i] + Long(f, i)
  <2> SUFFICES ASSUME NEW i \in 1 .. n PROVE e[i + 1] = e[i] + Long(f, i)  OBVIOUS
  <2>1. CASE i = n
    <3>1. i + 1 \in 1 .. 8 /\ i + 1 > n  BY <1>2, <2>1
    <3>2. e[i + 1] = Size(f)  BY <1>4, <3>1
    <3> QED BY <1>2, <1>3, <2>1, <3>2 DEF InARow
  <2>2. CASE i # n
    <3>1. i \in 1 .. n - 1 /\ i + 1 \in 1 .. n  BY <1>2, <2>2
    <3>2. At(f, i + 1) = At(f, i) + Long(f, i)  BY <3>1 DEF InARow
    <3> QED BY <1>3, <3>1, <3>2
  <2> QED BY <2>1, <2>2
<1>7. e[1] = 0
  <2>1. 1 \in 1 .. n  BY <1>2
  <2> QED BY <1>3, <2>1 DEF InARow
<1>8. \A i \in 1 .. 7 : e[i] \in Nat => e[i + 1] \in Nat /\ e[i] <= e[i + 1]
  <2> SUFFICES ASSUME NEW i \in 1 .. 7, e[i] \in Nat PROVE e[i + 1] \in Nat /\ e[i] <= e[i + 1]
    OBVIOUS
  <2>1. CASE i \in 1 .. n  BY <1>5, <1>6, <2>1
  <2>2. CASE i > n
    <3>1. i \in 1 .. 8 /\ i + 1 \in 1 .. 8 /\ i + 1 > n  BY <1>2, <2>2
    <3>2. e[i] = Size(f) /\ e[i + 1] = Size(f)  BY <1>4, <2>2, <3>1
    <3> QED BY <3>2
  <2> QED BY <1>2, <2>1, <2>2
<1>9. /\ e[1] \in Nat /\ e[2] \in Nat /\ e[3] \in Nat /\ e[4] \in Nat
      /\ e[5] \in Nat /\ e[6] \in Nat /\ e[7] \in Nat /\ e[8] \in Nat
      /\ e[1] <= e[2] /\ e[2] <= e[3] /\ e[3] <= e[4] /\ e[4] <= e[5]
      /\ e[5] <= e[6] /\ e[6] <= e[7] /\ e[7] <= e[8]
  <2>1. e[2] \in Nat /\ e[1] <= e[2]  BY <1>7, <1>8
  <2>2. e[3] \in Nat /\ e[2] <= e[3]  BY <1>8, <2>1
  <2>3. e[4] \in Nat /\ e[3] <= e[4]  BY <1>8, <2>2
  <2>4. e[5] \in Nat /\ e[4] <= e[5]  BY <1>8, <2>3
  <2>5. e[6] \in Nat /\ e[5] <= e[6]  BY <1>8, <2>4
  <2>6. e[7] \in Nat /\ e[6] <= e[7]  BY <1>8, <2>5
  <2>7. e[8] \in Nat /\ e[7] <= e[8]  BY <1>8, <2>6
  <2> QED BY <1>7, <2>1, <2>2, <2>3, <2>4, <2>5, <2>6, <2>7
<1>10. \A i \in 1 .. 8, j \in 1 .. 8 : e[i] \in Nat /\ (i <= j => e[i] <= e[j])
  <2> SUFFICES ASSUME NEW i \in 1 .. 8, NEW j \in 1 .. 8
               PROVE  e[i] \in Nat /\ (i <= j => e[i] <= e[j])
    OBVIOUS
  <2>1. i = 1 \/ i = 2 \/ i = 3 \/ i = 4 \/ i = 5 \/ i = 6 \/ i = 7 \/ i = 8  OBVIOUS
  <2>2. j = 1 \/ j = 2 \/ j = 3 \/ j = 4 \/ j = 5 \/ j = 6 \/ j = 7 \/ j = 8  OBVIOUS
  <2> QED BY <1>9, <2>1, <2>2
<1>11. Size(f) = e[n + 1] /\ n + 1 \in 1 .. 8
  <2>1. n + 1 \in 1 .. 8 /\ n + 1 > n  BY <1>2
  <2> QED BY <1>4, <2>1
<1>12. ASSUME NEW k \in 1 .. e[n + 1] PROVE \E i \in 1 .. n : k > e[i] /\ k <= e[i + 1]
  <2>1. n = 1 \/ n = 2 \/ n = 3 \/ n = 4 \/ n = 5 \/ n = 6 \/ n = 7  BY <1>2
  <2>2. k \in Int  OBVIOUS
  <2> QED BY <1>7, <1>9, <2>1, <2>2
<1>13. ASSUME NEW i \in 1 .. n
       PROVE  /\ At(f, i) \in Nat /\ Long(f, i) \in Nat /\ At(f, i) + Long(f, i) <= Size(f)
              /\ At(f, i) = e[i] /\ e[i + 1] = At(f, i) + Long(f, i)
  <2>1. i \in 1 .. 8 /\ i + 1 \in 1 .. 8 /\ i + 1 <= n + 1  BY <1>2
  <2>2. At(f, i) = e[i] /\ e[i + 1] = e[i] + Long(f, i) /\ Long(f, i) \in Nat
    BY <1>3, <1>5, <1>6
  <2> QED BY <1>10, <1>11, <2>1, <2>2
<1>14. \A i, j \in 1 .. n : i < j => At(f, i) + Long(f, i) <= At(f, j)
  <2> SUFFICES ASSUME NEW i \in 1 .. n, NEW j \in 1 .. n, i < j
               PROVE  At(f, i) + Long(f, i) <= At(f, j)
    OBVIOUS
  <2>1. i + 1 \in 1 .. 8 /\ j \in 1 .. 8 /\ i + 1 <= j  BY <1>2
  <2> QED BY <1>10, <1>13, <2>1
<1>15. \A k \in 1 .. Size(f) : \E i \in 1 .. n : k - At(f, i) \in 1 .. Long(f, i)
  <2> SUFFICES ASSUME NEW k \in 1 .. Size(f)
               PROVE  \E i \in 1 .. n : k - At(f, i) \in 1 .. Long(f, i)
    OBVIOUS
  <2>1. PICK i \in 1 .. n : k > e[i] /\ k <= e[i + 1]  BY <1>11, <1>12
  <2>2. At(f, i) \in Nat /\ Long(f, i) \in Nat /\ k \in Int  BY <1>13
  <2>3. k > At(f, i) /\ k <= At(f, i) + Long(f, i)  BY <1>13, <2>1
  <2>4. k - At(f, i) \in 1 .. Long(f, i)  BY <2>2, <2>3
  <2> QED BY <2>4
<1>16. Size(f) \in Nat  BY <1>10, <1>11
<1> QED BY <1>2, <1>13, <1>14, <1>15, <1>16 DEF Tiled

LEMMA HkTiled == Tiled(HkFields)
<1>1. PICK f : f = HkFields  OBVIOUS
<1>2. Len(f) = 5 /\ f # <<>>  BY <1>1 DEF HkFields
<1>3. /\ At(f, 1) = 0 /\ Long(f, 1) = 4 /\ At(f, 2) = 4 /\ Long(f, 2) = 1
      /\ At(f, 3) = 5 /\ Long(f, 3) = 4 /\ At(f, 4) = 9 /\ Long(f, 4) = 4
      /\ At(f, 5) = 13 /\ Long(f, 5) = 1
  BY <1>1 DEF HkFields, Field, At, Long
<1>4. Size(f) = At(f, 5) + Long(f, 5)  BY <1>2 DEF Size, At, Long
<1>5. InARow(f, 5)  BY <1>2, <1>3, <1>4 DEF InARow
<1> QED BY <1>1, <1>5, RowTiled

Fields(k) == Layout[k].fields

LEMMA EventTiled == Tiled(Fields("EVENT"))
<1>1. PICK f : f = <<Field(0, 2), Field(2, 1), Field(3, 1), Field(4, 1), Field(5, 1), Field(6, 1)>>
  OBVIOUS
<1>2. Fields("EVENT") = f  BY <1>1 DEF Fields, Layout
<1>3. Len(f) = 6 /\ f # <<>>  BY <1>1
<1>4. /\ At(f, 1) = 0 /\ Long(f, 1) = 2 /\ At(f, 2) = 2 /\ Long(f, 2) = 1
      /\ At(f, 3) = 3 /\ Long(f, 3) = 1 /\ At(f, 4) = 4 /\ Long(f, 4) = 1
      /\ At(f, 5) = 5 /\ Long(f, 5) = 1 /\ At(f, 6) = 6 /\ Long(f, 6) = 1
  BY <1>1 DEF Field, At, Long
<1>5. Size(f) = At(f, 6) + Long(f, 6)  BY <1>3 DEF Size, At, Long
<1>6. InARow(f, 6)  BY <1>3, <1>4, <1>5 DEF InARow
<1> QED BY <1>2, <1>6, RowTiled

LEMMA RouterTiled == Tiled(Fields("OBDH_HK"))
<1>1. PICK f : f = <<Field(0, 1), Field(1, 1), Field(2, 4), Field(6, 4), Field(10, 4)>>  OBVIOUS
<1>2. Fields("OBDH_HK") = f  BY <1>1 DEF Fields, Layout
<1>3. Len(f) = 5 /\ f # <<>>  BY <1>1
<1>4. /\ At(f, 1) = 0 /\ Long(f, 1) = 1 /\ At(f, 2) = 1 /\ Long(f, 2) = 1
      /\ At(f, 3) = 2 /\ Long(f, 3) = 4 /\ At(f, 4) = 6 /\ Long(f, 4) = 4
      /\ At(f, 5) = 10 /\ Long(f, 5) = 4
  BY <1>1 DEF Field, At, Long
<1>5. Size(f) = At(f, 5) + Long(f, 5)  BY <1>3 DEF Size, At, Long
<1>6. InARow(f, 5)  BY <1>3, <1>4, <1>5 DEF InARow
<1> QED BY <1>2, <1>6, RowTiled

LEMMA FdirTiled == Tiled(Fields("FDIR_HK"))
<1>1. PICK f : f = <<Field(0, 1), Field(1, 1), Field(2, 1), Field(3, 1),
                     Field(4, 2), Field(6, 2), Field(8, 2)>>
  OBVIOUS
<1>2. Fields("FDIR_HK") = f  BY <1>1 DEF Fields, Layout
<1>3. Len(f) = 7 /\ f # <<>>  BY <1>1
<1>4. /\ At(f, 1) = 0 /\ Long(f, 1) = 1 /\ At(f, 2) = 1 /\ Long(f, 2) = 1
      /\ At(f, 3) = 2 /\ Long(f, 3) = 1 /\ At(f, 4) = 3 /\ Long(f, 4) = 1
      /\ At(f, 5) = 4 /\ Long(f, 5) = 2 /\ At(f, 6) = 6 /\ Long(f, 6) = 2
      /\ At(f, 7) = 8 /\ Long(f, 7) = 2
  BY <1>1 DEF Field, At, Long
<1>5. Size(f) = At(f, 7) + Long(f, 7)  BY <1>3 DEF Size, At, Long
<1>6. InARow(f, 7)  BY <1>3, <1>4, <1>5 DEF InARow
<1> QED BY <1>2, <1>6, RowTiled

LEMMA SuccessTiled == Tiled(Fields("SUCCESS"))
<1>1. PICK f : f = <<Field(0, 2), Field(2, 2)>>  OBVIOUS
<1>2. Fields("SUCCESS") = f  BY <1>1 DEF Fields, Layout
<1>3. Len(f) = 2 /\ f # <<>>  BY <1>1
<1>4. /\ At(f, 1) = 0 /\ Long(f, 1) = 2 /\ At(f, 2) = 2 /\ Long(f, 2) = 2
  BY <1>1 DEF Field, At, Long
<1>5. Size(f) = At(f, 2) + Long(f, 2)  BY <1>3 DEF Size, At, Long
<1>6. InARow(f, 2)  BY <1>3, <1>4, <1>5 DEF InARow
<1> QED BY <1>2, <1>6, RowTiled

LEMMA FailureTiled == Tiled(Fields("FAILURE"))
<1>1. PICK f : f = <<Field(0, 2), Field(2, 2), Field(4, 1)>>  OBVIOUS
<1>2. Fields("FAILURE") = f  BY <1>1 DEF Fields, Layout
<1>3. Len(f) = 3 /\ f # <<>>  BY <1>1
<1>4. /\ At(f, 1) = 0 /\ Long(f, 1) = 2 /\ At(f, 2) = 2 /\ Long(f, 2) = 2
      /\ At(f, 3) = 4 /\ Long(f, 3) = 1
  BY <1>1 DEF Field, At, Long
<1>5. Size(f) = At(f, 3) + Long(f, 3)  BY <1>3 DEF Size, At, Long
<1>6. InARow(f, 3)  BY <1>3, <1>4, <1>5 DEF InARow
<1> QED BY <1>2, <1>6, RowTiled

LEMMA NoneTiled == Tiled(<<>>)
BY DEF Tiled, Size

LEMMA KindTiled == ASSUME NEW k \in Kind PROVE Tiled(Fields(k))
<1>1. k \in {"HK", "EVENT", "OBDH_HK", "FDIR_HK", "SUCCESS", "FAILURE", "TEST"}  BY DEF Kind, Layout
<1>2. CASE k = "HK"
  <2>1. Fields("HK") = HkFields  BY DEF Fields, Layout
  <2> QED BY <1>2, <2>1, HkTiled
<1>3. CASE k = "TEST"
  <2>1. Fields("TEST") = <<>>  BY DEF Fields, Layout
  <2> QED BY <1>3, <2>1, NoneTiled
<1> QED BY <1>1, <1>2, <1>3, EventTiled, RouterTiled, FdirTiled, SuccessTiled, FailureTiled

LEMMA KindFacts ==
    ASSUME NEW k \in Kind
    PROVE  /\ Layout[k].apid \in {100, 101, 102, 103, 104}
           /\ Layout[k].service \in {1, 3, 5, 17}
           /\ Layout[k].subtypes \in SUBSET (1 .. 25)
<1>1. k \in {"HK", "EVENT", "OBDH_HK", "FDIR_HK", "SUCCESS", "FAILURE", "TEST"}  BY DEF Kind, Layout
<1>2. CASE k = "HK"  BY <1>2 DEF Layout
<1>3. CASE k = "EVENT"  BY <1>3 DEF Layout
<1>4. CASE k = "OBDH_HK"  BY <1>4 DEF Layout
<1>5. CASE k = "FDIR_HK"  BY <1>5 DEF Layout
<1>6. CASE k = "SUCCESS"  BY <1>6 DEF Layout
<1>7. CASE k = "FAILURE"  BY <1>7 DEF Layout
<1>8. CASE k = "TEST"  BY <1>8 DEF Layout
<1> QED BY <1>1, <1>2, <1>3, <1>4, <1>5, <1>6, <1>7, <1>8

\* A report's payload: packet id and sequence control of the telecommand, and the
\* code behind them in a failure.
IsQuote(p, a, b) == p = Octets(a, 2) \o Octets(b, 2)

LEMMA QuoteHeld ==
    ASSUME NEW a, NEW b, NEW two, two = 2, NEW z, z = 0,
           NEW p, IsQuote(p, a, b)
    PROVE  p \in Seq(Octet) /\ Len(p) = 4 /\ Holds(p, z, a, two) /\ Holds(p, two, b, two)
<1>1. PICK m \in Nat : m = two  OBVIOUS
<1>2. PICK x : x = Octets(a, m)  OBVIOUS
<1>3. PICK y : y = Octets(b, m)  OBVIOUS
<1>4. Follows(p, x, y)  BY <1>1, <1>2, <1>3 DEF Follows, IsQuote
<1>5. x \in Seq(Octet) /\ Len(x) = m /\ Holds(x, z, a, m)  BY <1>2, WordHeld
<1>6. x \in Seq(Octet) /\ m = Len(x)  BY <1>5
<1>7. /\ p \in Seq(Octet) /\ Len(p) = m + m /\ Holds(p, m, b, m)
      /\ \A at \in Nat, l \in Nat : \A v : Holds(x, at, v, l) /\ at + l <= m => Holds(p, at, v, l)
  BY <1>3, <1>4, <1>6, Appended
<1>8. z \in Nat /\ z + m <= m  BY <1>1
<1>9. Holds(p, z, a, m)  BY <1>5, <1>7, <1>8
<1> QED BY <1>1, <1>7, <1>9

\* The same with c behind it, and where its parts lie.
Quoting(q, a, b, c) == q = Octets(a, 2) \o Octets(b, 2) \o c
Lies(q, a, b, c) ==
    /\ q \in Seq(Octet) /\ Len(q) = 4 + Len(c) /\ Len(c) \in Nat
    /\ Holds(q, 0, a, 2) /\ Holds(q, 2, b, 2)
    /\ \A k \in 1 .. Len(c) : q[4 + k] = c[k]

LEMMA QuoteLies ==
    ASSUME NEW a, NEW b, NEW c \in Seq(Octet), NEW q, Quoting(q, a, b, c)
    PROVE  Lies(q, a, b, c)
<1>8. PICK p : IsQuote(p, a, b)  BY DEF IsQuote
<1>9. Follows(q, p, c)  BY <1>8 DEF Follows, IsQuote, Quoting
<1>10. PICK two : two = 2  OBVIOUS
<1>11. PICK z : z = 0  OBVIOUS
<1>1. p \in Seq(Octet) /\ Len(p) = 4 /\ Holds(p, z, a, two) /\ Holds(p, two, b, two)
  BY <1>8, <1>10, <1>11, QuoteHeld
<1>2. p \in Seq(Octet)  BY <1>1
<1>3. /\ q \in Seq(Octet) /\ Len(c) \in Nat /\ Len(q) = Len(p) + Len(c)
      /\ \A k \in 1 .. Len(c) : q[Len(p) + k] = c[k]
  BY <1>2, <1>9, Behind
<1>4. two \in Nat /\ z \in Nat  BY <1>10, <1>11
<1>5. z + two <= Len(p) /\ two + two <= Len(p)  BY <1>1, <1>10, <1>11
<1>6. Holds(p, z, a, two) /\ z + two <= Len(p) => Holds(q, z, a, two)
  BY <1>2, <1>4, <1>9, HoldsStill
<1>7. Holds(p, two, b, two) /\ two + two <= Len(p) => Holds(q, two, b, two)
  BY <1>2, <1>4, <1>9, HoldsStill
<1>12. Holds(q, z, a, two) /\ Holds(q, two, b, two)  BY <1>1, <1>5, <1>6, <1>7
<1>13. Holds(q, 0, a, 2) /\ Holds(q, 2, b, 2)  BY <1>10, <1>11, <1>12
<1> QED BY <1>1, <1>3, <1>13 DEF Lies

LEMMA SuccessCarries ==
    ASSUME NEW words, NEW q, Quoting(q, words[1], words[2], <<>>)
    PROVE  Carries(q, Fields("SUCCESS"), words)
<1>1. PICK f : f = <<Field(0, 2), Field(2, 2)>>  OBVIOUS
<1>2. Fields("SUCCESS") = f  BY <1>1 DEF Fields, Layout
<1>3. Len(f) = 2 /\ f # <<>>  BY <1>1
<1>4. At(f, 1) = 0 /\ Long(f, 1) = 2 /\ At(f, 2) = 2 /\ Long(f, 2) = 2
  BY <1>1 DEF Field, At, Long
<1>5. Size(f) = 4  BY <1>3, <1>4 DEF Size, At, Long
<1>9. PICK c : c = <<>>  OBVIOUS
<1>10. Quoting(q, words[1], words[2], c)  BY <1>9
<1>11. c \in Seq(Octet) /\ Len(c) = 0  BY <1>9
<1>12. Lies(q, words[1], words[2], c)  BY <1>10, <1>11, QuoteLies
<1>15. /\ q \in Seq(Octet) /\ Len(q) = 4 + Len(c)
       /\ Holds(q, 0, words[1], 2) /\ Holds(q, 2, words[2], 2)
  BY <1>12 DEF Lies
<1>16. Holds(q, At(f, 1), words[1], Long(f, 1)) /\ Holds(q, At(f, 2), words[2], Long(f, 2))
  BY <1>4, <1>15
<1>17. \A i \in 1 .. Len(f) : Holds(q, At(f, i), words[i], Long(f, i))
  <2>1. \A i \in 1 .. 2 : i = 1 \/ i = 2  OBVIOUS
  <2> QED BY <1>3, <1>16, <2>1
<1>18. Len(q) = Size(f)  BY <1>5, <1>11, <1>15
<1> QED BY <1>2, <1>15, <1>17, <1>18 DEF Carries

LEMMA FailureCarries ==
    ASSUME NEW words, words[3] \in Octet,
           NEW q, Quoting(q, words[1], words[2], <<words[3]>>)
    PROVE  Carries(q, Fields("FAILURE"), words)
<1>1. PICK f : f = <<Field(0, 2), Field(2, 2), Field(4, 1)>>  OBVIOUS
<1>2. Fields("FAILURE") = f  BY <1>1 DEF Fields, Layout
<1>3. Len(f) = 3 /\ f # <<>>  BY <1>1
<1>4. /\ At(f, 1) = 0 /\ Long(f, 1) = 2 /\ At(f, 2) = 2 /\ Long(f, 2) = 2
      /\ At(f, 3) = 4 /\ Long(f, 3) = 1
  BY <1>1 DEF Field, At, Long
<1>5. Size(f) = 5  BY <1>3, <1>4 DEF Size, At, Long
<1>19. PICK d \in Octet : d = words[3]  OBVIOUS
<1>9. PICK c : c = <<d>>  OBVIOUS
<1>10. Quoting(q, words[1], words[2], c)  BY <1>9, <1>19
<1>11. c \in Seq(Octet) /\ Len(c) = 1 /\ c[1] = d  BY <1>9, <1>19
<1>12. Lies(q, words[1], words[2], c)  BY <1>10, <1>11, QuoteLies
<1>15. /\ q \in Seq(Octet) /\ Len(q) = 4 + Len(c)
       /\ Holds(q, 0, words[1], 2) /\ Holds(q, 2, words[2], 2)
       /\ \A k \in 1 .. Len(c) : q[4 + k] = c[k]
  BY <1>12 DEF Lies
<1>16. Holds(q, At(f, 1), words[1], Long(f, 1)) /\ Holds(q, At(f, 2), words[2], Long(f, 2))
  BY <1>4, <1>15
<1>20. Holds(q, At(f, 3), words[3], Long(f, 3))
  <2>1. q[4 + 1] = d  BY <1>11, <1>15
  <2>2. PICK n \in Nat : n = 1  OBVIOUS
  <2>3. PICK m \in 1 .. n : m = 1  BY <2>2
  <2>4. \A r \in 0 .. 7 : r \in Octets(d, n)[m] <=> 8 * (n - m) + r \in d
    <3>1. d \in SUBSET Nat  BY <1>19 DEF Octet
    <3> QED BY <3>1, OctetHas
  <2>5. \A r \in 0 .. 7 : 8 * (n - m) + r = r  BY <2>2, <2>3
  <2>6. Octets(d, n)[m] \in Octet  BY OctetIs
  <2>7. Octets(d, n)[m] = d  BY <1>19, <2>4, <2>5, <2>6 DEF Octet
  <2>8. \A j \in 1 .. 1 : j = 1  OBVIOUS
  <2> QED BY <1>4, <1>19, <2>1, <2>2, <2>3, <2>7, <2>8 DEF Holds
<1>17. \A i \in 1 .. Len(f) : Holds(q, At(f, i), words[i], Long(f, i))
  <2>1. \A i \in 1 .. 3 : i = 1 \/ i = 2 \/ i = 3  OBVIOUS
  <2> QED BY <1>3, <1>16, <1>20, <2>1
<1>18. Len(q) = Size(f)  BY <1>5, <1>11, <1>15
<1> QED BY <1>2, <1>15, <1>17, <1>18 DEF Carries
-----------------------------------------------------------------------------
(* What the builders build *)

Count(k) == seq[Layout[k].apid]

LEMMA KindNames ==
    ASSUME NEW k \in Kind
    PROVE  \/ k \in {"EVENT", "OBDH_HK", "FDIR_HK"}
           \/ k = "HK" \/ k = "SUCCESS" \/ k = "FAILURE" \/ k = "TEST"
BY DEF Kind, Layout

LEMMA KindWords ==
    ASSUME NEW k \in Kind, NEW subtype \in Layout[k].subtypes
    PROVE  /\ Word(Layout[k].apid) \in SUBSET (0 .. 10)
           /\ Word(Layout[k].service) \in Octet /\ Word(subtype) \in Octet
<1>1. PICK a : a = Layout[k].apid  OBVIOUS
<1>2. PICK s : s = Layout[k].service  OBVIOUS
<1>3. a \in Nat /\ a < 2048 /\ s \in Nat /\ s < 256 /\ subtype \in Nat /\ subtype < 256
  BY <1>1, <1>2, KindFacts
<1>4. Word(a) \in SUBSET (0 .. 10)  BY <1>3, ApidWord
<1>5. Word(s) \in Octet /\ Word(subtype) \in Octet  BY <1>3, OctetWord
<1> QED BY <1>1, <1>2, <1>4, <1>5

LEMMA SeqWord ==
    ASSUME NEW n \in 0 .. SeqCounts - 1
    PROVE  Word(n) \in SUBSET (0 .. 13) /\ n % SeqCounts = n
<1>1. n \in Nat /\ n < 16384  BY DEF SeqCounts
<1>2. Word(n) \in SUBSET (0 .. 13)  BY <1>1, CountWord
<1>3. n % SeqCounts = n  BY DEF SeqCounts
<1> QED BY <1>2, <1>3

\* A packet of kind k: the headers with the count of its APID, and its fields.
Made(p, k, subtype, words) ==
    \E payload : /\ Carries(payload, Fields(k), words)
                 /\ p = TmPacketOf(Layout[k].apid, Count(k), Layout[k].service, subtype, payload)

LEMMA PackedMade ==
    ASSUME NEW k \in {"EVENT", "OBDH_HK", "FDIR_HK"}, NEW subtype, NEW words, NEW room,
           Count(k) \in 0 .. SeqCounts - 1,
           NEW p, p = Build(k, room, subtype, words)
    PROVE  p = <<>> \/ Made(p, k, subtype, words)
<1>1. k \in Kind  BY DEF Kind, Layout
<1>2. Tiled(Fields(k))  BY <1>1, KindTiled
<1>3. PICK payload : payload = Packed(Fields(k), words)  OBVIOUS
<1>4. Carries(payload, Fields(k), words)  BY <1>2, <1>3, PackedCarries
<1>5. k # "HK"  OBVIOUS
<1>6. p = obdh_pack_tm(room, Layout[k].apid, Count(k), Layout[k].service, subtype, payload)
  BY <1>3, <1>5 DEF Build, Fields, Count
<1>7. Count(k) % SeqCounts = Count(k)  BY SeqWord
<1>8. \/ p = <<>>
      \/ p = TmPacketOf(Layout[k].apid, Count(k), Layout[k].service, subtype, payload)
  BY <1>6, <1>7 DEF obdh_pack_tm
<1> QED BY <1>4, <1>8 DEF Made

LEMMA HkMade ==
    ASSUME NEW k, k = "HK", NEW subtype, NEW words, NEW room,
           NEW p, p = Build(k, room, subtype, words)
    PROVE  Made(p, k, subtype, words)
<1>1. Fields(k) = HkFields  BY DEF Fields, Layout
<1>2. PICK payload : payload = Packed(HkFields, words)  OBVIOUS
<1>3. Carries(payload, Fields(k), words)  BY <1>1, <1>2, HkTiled, PackedCarries
<1>4. p = TmPacketOf(Layout[k].apid, Count(k), Layout[k].service, subtype, payload)
  BY <1>2 DEF Build, Count, pus_serialize_hk_payload
<1> QED BY <1>3, <1>4 DEF Made

LEMMA SuccessMade ==
    ASSUME NEW k, k = "SUCCESS", NEW subtype \in {1, 3, 5, 7}, NEW words, NEW room,
           NEW p, p = Build(k, room, subtype, words)
    PROVE  Made(p, k, subtype, words)
<1>1. Layout[k].apid = CCSDS_APID_CMD /\ Layout[k].service = 1  BY DEF Layout, CCSDS_APID_CMD
<1>2. PICK payload : Quoting(payload, words[1], words[2], <<>>)  BY DEF Quoting
<1>3. Carries(payload, Fields(k), words)  BY <1>2, SuccessCarries
<1>4. ~(subtype % 2 = 0)  OBVIOUS
<1>5. PICK odd \in BOOLEAN : odd = (subtype % 2 = 0)  OBVIOUS
<1>6. p = build_verification(Count(k), subtype, words[1], words[2], {})
  BY DEF Build, Count
<1>7. p = TmPacketOf(CCSDS_APID_CMD, Count(k), 1, subtype, payload)
  BY <1>2, <1>4, <1>6 DEF build_verification, Quoting
<1> QED BY <1>1, <1>3, <1>7 DEF Made

LEMMA FailureMade ==
    ASSUME NEW k, k = "FAILURE", NEW subtype \in {2, 4, 6, 8}, NEW words, words[3] \in Octet,
           NEW room, NEW p, p = Build(k, room, subtype, words)
    PROVE  Made(p, k, subtype, words)
<1>1. Layout[k].apid = CCSDS_APID_CMD /\ Layout[k].service = 1  BY DEF Layout, CCSDS_APID_CMD
<1>2. PICK payload : Quoting(payload, words[1], words[2], <<words[3]>>)  BY DEF Quoting
<1>3. Carries(payload, Fields(k), words)  BY <1>2, FailureCarries
<1>4. subtype % 2 = 0  OBVIOUS
<1>6. p = build_verification(Count(k), subtype, words[1], words[2], words[3])
  BY DEF Build, Count
<1>7. p = TmPacketOf(CCSDS_APID_CMD, Count(k), 1, subtype, payload)
  BY <1>2, <1>4, <1>6 DEF build_verification, Quoting
<1> QED BY <1>1, <1>3, <1>7 DEF Made

LEMMA TestMade ==
    ASSUME NEW k, k = "TEST", NEW subtype \in {2}, NEW words,
           NEW room, NEW p, p = Build(k, room, subtype, words)
    PROVE  Made(p, k, subtype, words)
<1>1. /\ Layout[k].apid = CCSDS_APID_CMD /\ Layout[k].service = 17
      /\ Fields(k) = <<>>
  BY DEF Layout, CCSDS_APID_CMD, Fields
<1>2. PICK payload : payload = <<>>  OBVIOUS
<1>3. PICK f : f = <<>>  OBVIOUS
<1>4. Carries(payload, f, words)  BY <1>2, <1>3 DEF Carries, Size
<1>5. p = TmPacketOf(CCSDS_APID_CMD, Count(k), 17, subtype, payload)
  BY <1>2 DEF Build, Count, build_conn_test_report
<1> QED BY <1>1, <1>3, <1>4, <1>5 DEF Made

\* Every builder packs its fields behind the headers of its kind, or nothing.
LEMMA BuildReads ==
    ASSUME NEW k \in Kind, NEW subtype \in Layout[k].subtypes, NEW words,
           Filled(Fields(k), words), Count(k) \in 0 .. SeqCounts - 1,
           NEW room, NEW p, p = Build(k, room, subtype, words)
    PROVE  \/ p = <<>>
           \/ \E payload : /\ Carries(payload, Fields(k), words)
                           /\ Reads(p, Layout[k].apid, Count(k), Layout[k].service, subtype,
                                    payload)
<1>1. p = <<>> \/ Made(p, k, subtype, words)
  <2>1. CASE k \in {"EVENT", "OBDH_HK", "FDIR_HK"}  BY <2>1, PackedMade
  <2>2. CASE k = "HK"  BY <2>2, HkMade
  <2>3. CASE k = "SUCCESS"
    <3>1. subtype \in {1, 3, 5, 7}  BY <2>3 DEF Layout
    <3> QED BY <2>3, <3>1, SuccessMade
  <2>4. CASE k = "FAILURE"
    <3>1. subtype \in {2, 4, 6, 8}  BY <2>4 DEF Layout
    <3>2. PICK f : f = <<Field(0, 2), Field(2, 2), Field(4, 1)>>  OBVIOUS
    <3>3. Fields(k) = f  BY <2>4, <3>2 DEF Fields, Layout
    <3>4. Len(f) = 3 /\ Long(f, 3) = 1  BY <3>2 DEF Field, Long
    <3>5. words[3] \in SUBSET (0 .. 8 * 1 - 1)  BY <3>3, <3>4 DEF Filled
    <3>6. words[3] \in Octet  BY <3>5 DEF Octet
    <3> QED BY <2>4, <3>1, <3>6, FailureMade
  <2>5. CASE k = "TEST"
    <3>1. subtype \in {2}  BY <2>5 DEF Layout
    <3> QED BY <2>5, <3>1, TestMade
  <2> QED BY <2>1, <2>2, <2>3, <2>4, <2>5, KindNames
<1>2. ASSUME Made(p, k, subtype, words)
      PROVE  \E payload : /\ Carries(payload, Fields(k), words)
                          /\ Reads(p, Layout[k].apid, Count(k), Layout[k].service, subtype, payload)
  <2>1. PICK payload : /\ Carries(payload, Fields(k), words)
                       /\ p = TmPacketOf(Layout[k].apid, Count(k), Layout[k].service, subtype,
                                         payload)
    BY <1>2 DEF Made
  <2>2. payload \in Seq(Octet)  BY <2>1 DEF Carries
  <2>3. Word(Count(k)) \in SUBSET (0 .. 13)  BY SeqWord
  <2>4. Reads(p, Layout[k].apid, Count(k), Layout[k].service, subtype, payload)
    BY <2>1, <2>2, <2>3, KindWords, TmReads
  <2> QED BY <2>1, <2>4
<1> QED BY <1>1, <1>2

-----------------------------------------------------------------------------
(* Where the router sends it *)

LEMMA WordsApart ==
    /\ Word(101) \notin {Word(n) : n \in {100, 102, 103, 104}}
    /\ \A n \in {100, 102, 103, 104} : Word(n) \in {Word(m) : m \in {100, 102, 103, 104}}
<1>1. 0 \in Word(101) /\ 1 \notin Word(101)  BY BitWord, Powers
<1>2. 0 \notin Word(100) /\ 0 \notin Word(102) /\ 0 \notin Word(104)  BY BitWord, Powers
<1>3. 1 \in Word(103)  BY BitWord, Powers
<1> QED BY <1>1, <1>2, <1>3

\* A packet the ground can read is consistent, and goes where its APID belongs.
LEMMA Routed ==
    ASSUME NEW apid \in {100, 101, 102, 103, 104}, NEW count, NEW service, NEW subtype,
           NEW payload, NEW p, Reads(p, apid, count, service, subtype, payload)
    PROVE  /\ Destination(p, TRUE) = "DOWNLINK"
           /\ apid = 101 => Destination(p, FALSE) = "DOWNLINK"
           /\ apid # 101 => Destination(p, FALSE) = "STORE"
<1>1. PICK h : h = ccsds_parse_primary(p)  OBVIOUS
<1>2. h = Header(0, apid, count, Len(p))  BY <1>1 DEF Reads
<1>3. /\ h.type = Word(0) /\ h.apid = Word(apid)
      /\ h.data_length = Word(Len(p) - CCSDS_PRI_HDR_LEN - 1)
  BY <1>2 DEF Header
<1>4. h.type = {}  BY <1>3, NoBits
<1>5. LengthAgrees(p)  BY <1>1, <1>3 DEF LengthAgrees
<1>6. ~(Len(p) < CCSDS_PRI_HDR_LEN)  BY DEF Reads, CCSDS_PRI_HDR_LEN
<1>7. /\ Destination(p, TRUE) = obdh_route(h.apid, h.type, TRUE)
      /\ Destination(p, FALSE) = obdh_route(h.apid, h.type, FALSE)
  BY <1>1, <1>5, <1>6 DEF Destination
<1>8. h.type # {0}  BY <1>4
<1>9. CASE apid = 101
  <2>1. Word(apid) \notin {Word(n) : n \in {100, 102, 103, 104}}  BY <1>9, WordsApart
  <2>2. /\ obdh_route(h.apid, h.type, TRUE) = "DOWNLINK"
        /\ obdh_route(h.apid, h.type, FALSE) = "DOWNLINK"
    BY <1>3, <1>8, <1>9, <2>1 DEF obdh_route, CCSDS_APID_CMD
  <2> QED BY <1>7, <1>9, <2>2
<1>10. CASE apid # 101
  <2>1. Word(apid) \in {Word(n) : n \in {100, 102, 103, 104}}  BY <1>10
  <2>2. /\ obdh_route(h.apid, h.type, TRUE) = "DOWNLINK"
        /\ obdh_route(h.apid, h.type, FALSE) = "STORE"
    BY <1>3, <1>8, <2>1 DEF obdh_route
  <2> QED BY <1>7, <1>10, <2>2
<1> QED BY <1>9, <1>10

-----------------------------------------------------------------------------
(* The stream *)

LEMMA CountStep ==
    ASSUME NEW x \in Nat
    PROVE  /\ x % SeqCounts \in 0 .. SeqCounts - 1
           /\ ((x % SeqCounts) + 1) % SeqCounts = (x + 1) % SeqCounts
BY DEF SeqCounts

LEMMA WordsFill ==
    ASSUME NEW k \in Kind, NEW words \in Filling[k] PROVE Filled(Fields(k), words)
<1>1. PICK f : f = Fields(k)  OBVIOUS
<1>2. f = Layout[k].fields  BY <1>1 DEF Fields
<1>3. /\ words \in Seq(SUBSET (0 .. 31)) /\ Len(words) = Len(f)
      /\ \A i \in 1 .. Len(words) : words[i] \subseteq 0 .. 8 * f[i].len - 1
  BY <1>2, TmStreamAssumption
<1>4. words = [i \in 1 .. Len(words) |-> words[i]]  BY <1>3
<1>5. words = [i \in 1 .. Len(f) |-> words[i]]  BY <1>3, <1>4
<1>6. \A i \in 1 .. Len(f) : words[i] \in SUBSET (0 .. 8 * Long(f, i) - 1)  BY <1>3 DEF Long
<1> QED BY <1>1, <1>5, <1>6 DEF Filled

\* The packets of APID a among the first n of d, and the count behind them.
OfApid(d, a, n)  == {j \in 1 .. n : Layout[d[j].kind].apid = a}
Counted(d, a, n) == (StartSeq + Cardinality(OfApid(d, a, n))) % SeqCounts

LEMMA OfApidFinite ==
    ASSUME NEW d, NEW a, NEW n \in Nat
    PROVE  /\ IsFiniteSet(OfApid(d, a, n)) /\ Cardinality(OfApid(d, a, n)) \in Nat
           /\ Counted(d, a, n) \in 0 .. SeqCounts - 1
<1>1. IsFiniteSet(1 .. n)  BY FS_Interval
<1>2. OfApid(d, a, n) \subseteq 1 .. n  BY DEF OfApid
<1>3. IsFiniteSet(OfApid(d, a, n))  BY <1>1, <1>2, FS_Subset
<1>4. Cardinality(OfApid(d, a, n)) \in Nat  BY <1>3, FS_CardinalityType
<1>5. StartSeq \in Nat  BY TmStreamAssumption DEF SeqCounts
<1>6. PICK x \in Nat : x = StartSeq + Cardinality(OfApid(d, a, n))  BY <1>4, <1>5
<1> QED BY <1>3, <1>4, <1>6, CountStep DEF Counted

Adds(dd, d, e) == dd = Append(d, e)

LEMMA OneMoreOf ==
    ASSUME NEW d, Listed(d), NEW e, NEW dd, Adds(dd, d, e), NEW a
    PROVE  /\ Listed(dd) /\ Len(d) \in Nat /\ Len(dd) = Len(d) + 1 /\ dd[Len(d) + 1] = e
           /\ \A i \in 1 .. Len(d) : dd[i] = d[i]
           /\ \A n \in 0 .. Len(d) : Counted(dd, a, n) = Counted(d, a, n)
           /\ Layout[e.kind].apid = a =>
                 Counted(dd, a, Len(d) + 1) = (Counted(d, a, Len(d)) + 1) % SeqCounts
           /\ Layout[e.kind].apid # a => Counted(dd, a, Len(d) + 1) = Counted(d, a, Len(d))
<1>1. PICK S : d \in Seq(S)  BY DEF Listed
<1>2. d \in Seq(S \cup {e}) /\ e \in S \cup {e}  BY <1>1
<1>3. /\ dd \in Seq(S \cup {e}) /\ Len(d) \in Nat /\ Len(dd) = Len(d) + 1 /\ dd[Len(d) + 1] = e
      /\ \A i \in 1 .. Len(d) : dd[i] = d[i]
  BY <1>2 DEF Adds
<1>4. ASSUME NEW n \in 0 .. Len(d) PROVE OfApid(dd, a, n) = OfApid(d, a, n)
  <2>1. \A j \in 1 .. n : dd[j] = d[j]  BY <1>3
  <2> QED BY <2>1 DEF OfApid
<1>5. PICK m \in Nat : m = Len(d)  BY <1>3
<1>6. m + 1 \notin OfApid(d, a, m)  BY <1>5 DEF OfApid
<1>7. \A j : j \in OfApid(dd, a, m + 1) <=>
               j \in OfApid(d, a, m) \/ (j = m + 1 /\ Layout[e.kind].apid = a)
  BY <1>3, <1>5 DEF OfApid
<1>8. CASE Layout[e.kind].apid = a
  <2>1. OfApid(dd, a, m + 1) = OfApid(d, a, m) \cup {m + 1}  BY <1>7, <1>8
  <2>2. Cardinality(OfApid(dd, a, m + 1)) = Cardinality(OfApid(d, a, m)) + 1
    BY <1>6, <2>1, OfApidFinite, FS_AddElement
  <2>3. StartSeq \in Nat  BY TmStreamAssumption DEF SeqCounts
  <2>4. PICK x \in Nat : x = StartSeq + Cardinality(OfApid(d, a, m))  BY <2>3, OfApidFinite
  <2>5. StartSeq + Cardinality(OfApid(dd, a, m + 1)) = x + 1
    BY <2>2, <2>3, <2>4, OfApidFinite
  <2>6. Counted(dd, a, m + 1) = (Counted(d, a, m) + 1) % SeqCounts
    BY <2>4, <2>5, CountStep DEF Counted
  <2> QED BY <1>1, <1>3, <1>4, <1>5, <1>8, <2>6 DEF Listed, Counted
<1>9. CASE Layout[e.kind].apid # a
  <2>1. OfApid(dd, a, m + 1) = OfApid(d, a, m)  BY <1>7, <1>9
  <2> QED BY <1>1, <1>3, <1>4, <1>5, <1>9, <2>1 DEF Listed, Counted
<1> QED BY <1>8, <1>9

\* An entry of the history: a packet that reads as it was to, with this count.
SaysSo(e, count) ==
    /\ e.kind \in Kind /\ e.subtype \in Layout[e.kind].subtypes
    /\ Filled(Fields(e.kind), e.words)
    /\ \E payload : /\ Carries(payload, Fields(e.kind), e.words)
                    /\ Reads(e.octets, Layout[e.kind].apid, count, Layout[e.kind].service,
                             e.subtype, payload)

\* Each packet carries the count of those of its APID before it; the counters stand
\* behind the last ones.
StreamInv ==
    /\ Listed(downlink)
    /\ \A i \in 1 .. Len(downlink) : SaysSo(downlink[i], Counted(downlink, ApidOf(i), i - 1))
    /\ seq = [a \in Apid |-> Counted(downlink, a, Len(downlink))]

LEMMA StreamInvInit == ASSUME StreamInit PROVE StreamInv
<1>1. PICK d : d = downlink  OBVIOUS
<1>2. d \in Seq({}) /\ Len(d) = 0  BY <1>1 DEF StreamInit
<1>3. ASSUME NEW a PROVE Counted(d, a, 0) = StartSeq
  <2>1. OfApid(d, a, 0) = {}  BY DEF OfApid
  <2>2. Cardinality(OfApid(d, a, 0)) = 0  BY <2>1, FS_EmptySet
  <2>3. StartSeq \in 0 .. SeqCounts - 1  BY TmStreamAssumption
  <2>4. StartSeq + 0 = StartSeq  BY <2>3 DEF SeqCounts
  <2>5. StartSeq % SeqCounts = StartSeq  BY <2>3, SeqWord
  <2> QED BY <2>2, <2>4, <2>5 DEF Counted
<1>4. seq = [a \in Apid |-> Counted(d, a, Len(d))]  BY <1>2, <1>3 DEF StreamInit
<1> QED BY <1>1, <1>2, <1>4 DEF StreamInv, Listed

LEMMA StreamInvStep == ASSUME StreamInv, StreamNext PROVE StreamInv'
<1>0. PICK k \in Kind, room \in Room :
         \E subtype \in Layout[k].subtypes, words \in Filling[k] : Emit(k, room, subtype, words)
  BY DEF StreamNext
<1>1. PICK subtype \in Layout[k].subtypes, words \in Filling[k] : Emit(k, room, subtype, words)
  BY <1>0
<1>2. PICK p : p = Build(k, room, subtype, words)  OBVIOUS
<1>3. PICK a : a = Layout[k].apid  OBVIOUS
<1>4. a \in Apid  BY <1>3 DEF Apid
<1>5. PICK d : d = downlink  OBVIOUS
<1>6. Listed(d) /\ Len(d) \in Nat  BY <1>5 DEF StreamInv, Listed
<1>7. Count(k) = Counted(d, a, Len(d))  BY <1>3, <1>4, <1>5 DEF StreamInv, Count
<1>8. Count(k) \in 0 .. SeqCounts - 1  BY <1>6, <1>7, OfApidFinite
<1>9. Filled(Fields(k), words)  BY WordsFill
<1>10. CASE p = <<>>
  <2>1. downlink' = downlink  BY <1>1, <1>2, <1>10 DEF Emit
  <2>2. seq' = seq
    <3>1. seq' = [seq EXCEPT ![a] = seq[a]]  BY <1>1, <1>2, <1>3, <1>10 DEF Emit, After
    <3>2. seq = [b \in Apid |-> seq[b]]  BY DEF StreamInv
    <3> QED BY <3>1, <3>2
  <2> QED BY <2>1, <2>2 DEF StreamInv, ApidOf, SaysSo
<1>11. CASE p # <<>>
  <2>1. PICK e : e = [kind |-> k, subtype |-> subtype, words |-> words, octets |-> p]  OBVIOUS
  <2>2. PICK dd : Adds(dd, d, e)  BY DEF Adds
  <2>3. downlink' = dd  BY <1>1, <1>2, <1>5, <1>11, <2>1, <2>2 DEF Emit, Adds
  <2>4. /\ Listed(dd) /\ Len(dd) = Len(d) + 1 /\ dd[Len(d) + 1] = e
        /\ \A i \in 1 .. Len(d) : dd[i] = d[i]
    BY <1>6, <2>2, OneMoreOf
  <2>5. \A b : \A n \in 0 .. Len(d) : Counted(dd, b, n) = Counted(d, b, n)
    BY <1>6, <2>2, OneMoreOf
  <2>6. SaysSo(e, Count(k))
    <3>1. \E payload : /\ Carries(payload, Fields(k), words)
                       /\ Reads(p, Layout[k].apid, Count(k), Layout[k].service, subtype, payload)
      BY <1>2, <1>8, <1>9, <1>11, BuildReads
    <3>2. e.kind = k /\ e.subtype = subtype /\ e.words = words /\ e.octets = p  BY <2>1
    <3> QED BY <1>9, <3>1, <3>2 DEF SaysSo
  <2>7. ASSUME NEW i \in 1 .. Len(dd)
        PROVE  SaysSo(dd[i], Counted(dd, Layout[dd[i].kind].apid, i - 1))
    <3>1. CASE i \in 1 .. Len(d)
      <4>1. dd[i] = d[i] /\ i - 1 \in 0 .. Len(d)  BY <1>6, <2>4, <3>1
      <4>2. SaysSo(d[i], Counted(d, Layout[d[i].kind].apid, i - 1))
        BY <1>5, <3>1 DEF StreamInv, ApidOf
      <4> QED BY <2>5, <4>1, <4>2
    <3>2. CASE i = Len(d) + 1
      <4>1. dd[i] = e /\ Layout[e.kind].apid = a /\ i - 1 = Len(d)
        BY <1>3, <1>6, <2>1, <2>4, <3>2
      <4>2. Counted(dd, a, Len(d)) = Counted(d, a, Len(d))  BY <1>6, <2>5
      <4> QED BY <1>7, <2>6, <4>1, <4>2
    <3> QED BY <1>6, <2>4, <3>1, <3>2
  <2>8. ASSUME NEW b \in Apid PROVE seq'[b] = Counted(dd, b, Len(dd))
    <3>1. /\ b = a => seq'[b] = (seq[a] + 1) % SeqCounts
          /\ b # a => seq'[b] = seq[b]
      <4>1. seq' = [seq EXCEPT ![a] = After(seq[a], p)]  BY <1>1, <1>2, <1>3 DEF Emit
      <4>2. After(seq[a], p) = (seq[a] + 1) % SeqCounts  BY <1>11 DEF After
      <4>3. PICK next : next = After(seq[a], p)  OBVIOUS
      <4>4. seq' = [seq EXCEPT ![a] = next]  BY <4>1, <4>3
      <4>5. PICK was : was = seq /\ was = [c \in Apid |-> was[c]]
        <5>1. PICK n : n = Len(downlink)  OBVIOUS
        <5> QED BY <5>1 DEF StreamInv
      <4>6. seq' = [was EXCEPT ![a] = next]  BY <4>4, <4>5
      <4>7. /\ b = a => seq'[b] = next
            /\ b # a => seq'[b] = was[b]
        BY <4>5, <4>6
      <4> QED BY <4>2, <4>3, <4>5, <4>7
    <3>2. seq[b] = Counted(d, b, Len(d)) /\ seq[a] = Counted(d, a, Len(d))
      BY <1>4, <1>5 DEF StreamInv
    <3>3. Layout[e.kind].apid = a  BY <1>3, <2>1
    <3>4. /\ a = b => Counted(dd, b, Len(d) + 1) = (Counted(d, b, Len(d)) + 1) % SeqCounts
          /\ a # b => Counted(dd, b, Len(d) + 1) = Counted(d, b, Len(d))
      BY <1>6, <2>2, <3>3, OneMoreOf
    <3> QED BY <2>4, <3>1, <3>2, <3>4
  <2>9. seq' = [b \in Apid |-> Counted(dd, b, Len(dd))]
    <3>1. seq' = [seq EXCEPT ![a] = After(seq[a], p)]  BY <1>1, <1>2, <1>3 DEF Emit
    <3>2. seq' = [b \in Apid |-> seq'[b]]  BY <3>1 DEF StreamInv
    <3> QED BY <2>8, <3>2
  <2> QED BY <2>3, <2>4, <2>7, <2>9 DEF StreamInv, ApidOf
<1> QED BY <1>10, <1>11

LEMMA StreamInvHolds == StreamSpec => []StreamInv
<1>1. StreamInv /\ UNCHANGED streamVars => StreamInv'
  BY DEF StreamInv, streamVars, ApidOf, SaysSo
<1> QED BY <1>1, StreamInvInit, StreamInvStep, PTL DEF StreamSpec

LEMMA StreamReads == ASSUME StreamInv PROVE ReadsBack
<1> SUFFICES ASSUME NEW i \in 1 .. Len(downlink)
             PROVE  LET l == Layout[downlink[i].kind]
                        payload == SubSeq(Packet(i), 12, Len(Packet(i)))
                    IN  /\ Destination(Packet(i), TRUE) = "DOWNLINK"
                        /\ Destination(Packet(i), FALSE) =
                              IF l.apid = 101 THEN "DOWNLINK" ELSE "STORE"
                        /\ ccsds_parse_primary(Packet(i)).apid = Word(l.apid)
                        /\ Packet(i)[8] = Word(l.service)
                        /\ Packet(i)[9] = Word(downlink[i].subtype)
                        /\ Unpacked(l.fields, payload) = downlink[i].words
                        /\ downlink[i].kind = "HK" =>
                              pus_deserialize_hk_payload(payload) = downlink[i].words
  BY DEF ReadsBack
<1>1. PICK k : k = downlink[i].kind  OBVIOUS
<1>2. PICK words : words = downlink[i].words  OBVIOUS
<1>3. PICK sub : sub = downlink[i].subtype  OBVIOUS
<1>4. PICK p : p = Packet(i)  OBVIOUS
<1>5. PICK count : SaysSo(downlink[i], count)  BY DEF StreamInv
<1>6. k \in Kind /\ Filled(Fields(k), words)  BY <1>1, <1>2, <1>5 DEF SaysSo
<1>7. PICK payload : /\ Carries(payload, Fields(k), words)
                     /\ Reads(p, Layout[k].apid, count, Layout[k].service, sub, payload)
  BY <1>1, <1>2, <1>3, <1>4, <1>5 DEF SaysSo, Packet
<1>8. PICK a : a = Layout[k].apid  OBVIOUS
<1>9. PICK s : s = Layout[k].service  OBVIOUS
<1>10. a \in {100, 101, 102, 103, 104}  BY <1>6, <1>8, KindFacts
<1>11. Reads(p, a, count, s, sub, payload)  BY <1>7, <1>8, <1>9
<1>12. /\ Destination(p, TRUE) = "DOWNLINK"
       /\ a = 101 => Destination(p, FALSE) = "DOWNLINK"
       /\ a # 101 => Destination(p, FALSE) = "STORE"
  BY <1>10, <1>11, Routed, ZenonT(40)
<1>13. ccsds_parse_primary(p).apid = Word(a)  BY <1>11 DEF Reads, Header
<1>14. p[8] = Word(s) /\ p[9] = Word(sub) /\ SubSeq(p, 12, Len(p)) = payload  BY <1>11 DEF Reads
<1>15. Tiled(Fields(k))  BY <1>6, KindTiled
<1>16. Unpacked(Fields(k), payload) = words  BY <1>6, <1>7, <1>15, Unpacks
<1>17. k = "HK" => pus_deserialize_hk_payload(payload) = words
  <2> SUFFICES ASSUME k = "HK" PROVE Unpacked(HkFields, payload) = words
    BY DEF pus_deserialize_hk_payload
  <2>1. Fields(k) = HkFields  BY DEF Fields, Layout
  <2> QED BY <1>16, <2>1
<1> QED BY <1>1, <1>2, <1>3, <1>4, <1>8, <1>9, <1>12, <1>13, <1>14, <1>16, <1>17 DEF Fields

LEMMA StreamCounts == ASSUME StreamInv PROVE CountsWithoutGap
<1> SUFFICES ASSUME NEW i \in 1 .. Len(downlink)
             PROVE  LET before == Cardinality({j \in 1 .. i - 1 : ApidOf(j) = ApidOf(i)})
                    IN  /\ CountOf(i) = Word((StartSeq + before) % SeqCounts)
                        /\ Join(SubSeq(Packet(i), 10, 11)) = CountOf(i)
  BY DEF CountsWithoutGap
<1>1. PICK count : count = Counted(downlink, ApidOf(i), i - 1)  OBVIOUS
<1>2. OfApid(downlink, ApidOf(i), i - 1) = {j \in 1 .. i - 1 : ApidOf(j) = ApidOf(i)}
  BY DEF OfApid, ApidOf
<1>3. count = (StartSeq + Cardinality({j \in 1 .. i - 1 : ApidOf(j) = ApidOf(i)})) % SeqCounts
  BY <1>1, <1>2 DEF Counted
<1>4. SaysSo(downlink[i], count)  BY <1>1 DEF StreamInv
<1>5. PICK p : p = Packet(i)  OBVIOUS
<1>6. PICK apid, service, subtype, payload : Reads(p, apid, count, service, subtype, payload)
  BY <1>4, <1>5 DEF SaysSo, Packet
<1>7. ccsds_parse_primary(p).seq_count = Word(count)  BY <1>6 DEF Reads, Header
<1>8. Join(SubSeq(p, 10, 11)) = Word(count)  BY <1>6 DEF Reads
<1> QED BY <1>3, <1>5, <1>7, <1>8 DEF CountOf

\* Whatever telemetry the builders build, the router takes it and sends it where its
\* APID belongs, and the ground reads in it what was put in, in every field.
THEOREM PacketsReadBack == StreamSpec => []ReadsBack
BY StreamInvHolds, StreamReads, PTL

\* A gap in the counts of an APID means a loss: the packets of each APID carry the
\* counts from StartSeq on, modulo 16384, whatever is built between them.
THEOREM CountsFollow == StreamSpec => []CountsWithoutGap
BY StreamInvHolds, StreamCounts, PTL

-----------------------------------------------------------------------------
(* The reports to a telecommand, in octets *)

LEMMA Chained ==
    ASSUME NEW tc \in Telecommand, NEW hook, HandleTc(tc, hook)
    PROVE  \E rs : Chain(rs, 1, 4) /\ Send(rs)
<1>1. /\ 1 \in Nat /\ 2 \in Nat /\ 3 \in Nat /\ 4 \in Nat
      /\ 1 <= 1 /\ 1 <= 2 /\ 1 <= 3 /\ 1 <= 4 /\ 2 <= 4 /\ 2 < 3 /\ 3 < 4 /\ 3 <= 4 /\ 4 <= 4
      /\ 2 + 1 = 3 /\ 3 + 1 = 4
  OBVIOUS
<1>2. ASSUME NEW code \in FailCode PROVE Chain(Rep("ACCEPT_FAIL", code), 1, 4)
  <2>1. "ACCEPT_FAIL" \in ReportKind  BY DEF ReportKind
  <2>2. Chain(Rep("ACCEPT_FAIL", code), 1, 1)  BY <1>1, <2>1, One, Ranks
  <2> QED BY <1>1, <2>2, Wider
<1>3. CASE Unnameable(tc)
  <2>1. Chain(<<>>, 1, 4)  BY <1>1, None, Wider
  <2> QED BY <1>3, <2>1 DEF Unnameable
<1>4. CASE Malformed(tc)
  <2>1. FailureForParse(Parse(tc)) \in FailCode  BY <1>4, ParseIs DEF Malformed
  <2> QED BY <1>2, <1>4, <2>1 DEF Malformed
<1>5. CASE NotACommand(tc)
  <2>1. Dispatch(tc) \in FailCode  BY <1>5, ValidIs DEF NotACommand
  <2> QED BY <1>2, <1>5, <2>1 DEF NotACommand
<1>6. Chain(Begun(tc), 1, 2)  BY BegunIs
<1>7. CASE ConnectionTest(tc)
  <2>0. PICK late \in BOOLEAN : late <=> Len(Begun(tc)) >= MaxTmPerTc  OBVIOUS
  <2>1. Completion(tc, late) = Completion(tc, Len(Begun(tc)) >= MaxTmPerTc)
    BY <2>0 DEF Completion
  <2>2. Chain(Completion(tc, late), 4, 4)  BY CompletionIs
  <2>3. "CONN_TEST" \in ReportKind /\ "NONE" \in FailCode  BY DEF ReportKind, FailCode
  <2>4. Chain(Rep("CONN_TEST", "NONE"), 3, 3)  BY <1>1, <2>3, One, Ranks
  <2>5. PICK ab : ab = Begun(tc) \o Rep("CONN_TEST", "NONE")  OBVIOUS
  <2>6. Chain(ab, 1, 3)  BY <1>1, <1>6, <2>4, <2>5, ChainJoin
  <2>7. PICK rs : rs = ab \o Completion(tc, late)  OBVIOUS
  <2>8. Chain(rs, 1, 4)  BY <1>1, <2>2, <2>6, <2>7, ChainJoin
  <2>9. Send(rs)  BY <1>7, <2>1, <2>5, <2>7 DEF ConnectionTest
  <2> QED BY <2>8, <2>9
<1>8. CASE ExitSafeMode(tc, hook)
  <2>1. PICK failed \in BOOLEAN : failed = (hook # "EXITED")  OBVIOUS
  <2>2. Chain(Completion(tc, failed), 4, 4)  BY CompletionIs
  <2>3. Chain(Completion(tc, failed), 3, 4)  BY <1>1, <2>2, Wider
  <2>4. PICK rs : rs = Begun(tc) \o Completion(tc, failed)  OBVIOUS
  <2>5. Chain(rs, 1, 4)  BY <1>1, <1>6, <2>3, <2>4, ChainJoin
  <2>6. Send(rs)  BY <1>8, <2>1, <2>4 DEF ExitSafeMode
  <2> QED BY <2>5, <2>6
<1> QED BY <1>3, <1>4, <1>5, <1>7, <1>8 DEF HandleTc

LEMMA KindsSent ==
    ASSUME NEW tc \in Telecommand, NEW hook, HandleTc(tc, hook)
    PROVE  \E n \in Nat : /\ Len(out') = n
                          /\ \A i \in 1 .. n : /\ out'[i].kind \in ReportKind
                                               /\ out'[i].code \in FailCode
<1>1. PICK rs : Chain(rs, 1, 4) /\ Send(rs)  BY Chained
<1>2. rs \in Seq(Report)  BY <1>1 DEF Chain
<1>3. PICK n \in Nat : n = IF Len(rs) > MaxTmPerTc THEN MaxTmPerTc ELSE Len(rs)
  BY <1>2, CommandPathAssumption
<1>4. out' = [i \in 1 .. n |-> [kind |-> rs[i].kind, code |-> rs[i].code,
                                seq |-> (tmSeq + i - 1) % TmSeqMod]]
  BY <1>1, <1>3 DEF Send
<1>5. Len(out') = n
  <2>1. PICK o : o = out'  OBVIOUS
  <2>2. o = [i \in 1 .. n |-> o[i]]  BY <1>4, <2>1
  <2>3. o \in Seq({o[i] : i \in 1 .. n}) /\ Len(o) = n  BY <1>3, <2>2
  <2> QED BY <2>1, <2>3
<1>6. ASSUME NEW i \in 1 .. n PROVE out'[i].kind \in ReportKind /\ out'[i].code \in FailCode
  <2>1. i \in 1 .. Len(rs)  BY <1>2, <1>3, CommandPathAssumption
  <2>2. rs[i] \in Report  BY <1>2, <2>1
  <2>3. out'[i].kind = rs[i].kind /\ out'[i].code = rs[i].code  BY <1>4
  <2> QED BY <2>2, <2>3 DEF Report
<1> QED BY <1>5, <1>6

\* What the router hands on is a telecommand as CommandPath takes it.
LEMMA SeenTyped == ASSUME NEW buf, Len(buf) \in Nat PROVE AsSeen(buf) \in Telecommand
<1>1. /\ Len(Check) = 5 /\ Check[1] = "LENGTH" /\ Check[2] = "CRC" /\ Check[3] = "TYPE"
      /\ Check[4] = "APID" /\ Check[5] = "PUS_VERSION"
  BY DEF Check
<1>2. {"LENGTH", "CRC", "TYPE", "APID", "PUS_VERSION"} \subseteq {Check[i] : i \in 1 .. Len(Check)}
  BY <1>1
<1>3. DOMAIN Fails(buf) = {"LENGTH", "CRC", "TYPE", "APID", "PUS_VERSION"}  BY DEF Fails
<1>4. CASE Len(buf) < TC_MIN_PACKET_LEN
  <2>1. AsSeen(buf) = [len |-> Len(buf), bad |-> {}, cmd |-> "UNKNOWN", ack |-> {}]
    BY <1>4 DEF AsSeen
  <2> QED BY <2>1 DEF Telecommand
<1>5. CASE ~(Len(buf) < TC_MIN_PACKET_LEN)
  <2>1. PICK bad : bad = {c \in DOMAIN Fails(buf) : Fails(buf)[c]}  OBVIOUS
  <2>2. PICK cmd : cmd = CASE <<buf[8], buf[9]>> = <<Word(17), Word(1)>>  -> "CONN_TEST"
                           [] <<buf[8], buf[9]>> = <<Word(130), Word(1)>> -> "EXIT_SAFE"
                           [] OTHER                                       -> "UNKNOWN"
    OBVIOUS
  <2>3. PICK ack : ack = {s \in Stage : AckBit[s] \in buf[7]}  OBVIOUS
  <2>4. AsSeen(buf) = [len |-> Len(buf), bad |-> bad, cmd |-> cmd, ack |-> ack]
    BY <1>5, <2>1, <2>2, <2>3 DEF AsSeen
  <2>5. bad \in SUBSET {Check[i] : i \in 1 .. Len(Check)}  BY <1>2, <1>3, <2>1
  <2>6. ack \in SUBSET Stage  BY <2>3
  <2>7. cmd \in Command \cup {"UNKNOWN"}  BY <2>2 DEF Command
  <2> QED BY <2>4, <2>5, <2>6, <2>7 DEF Telecommand
<1> QED BY <1>4, <1>5

\* A verification report quotes the two words it is given.
LEMMA ReportQuotes ==
    ASSUME NEW r, r.kind \in ReportKind, r.code \in FailCode, NEW quote,
           NEW p, p = ReportOctets(r, quote), IsVerification(p)
    PROVE  /\ p \in Seq(Octet) /\ Len(p) >= 15
           /\ Holds(p, 11, quote[1], 2) /\ Holds(p, 13, quote[2], 2)
<1>1. r.kind # "CONN_TEST"
  <2> SUFFICES ASSUME r.kind = "CONN_TEST" PROVE FALSE  OBVIOUS
  <2>1. p = build_conn_test_report(r.seq)  BY DEF ReportOctets
  <2>2. PICK e : e = <<>>  OBVIOUS
  <2>3. p = TmPacketOf(CCSDS_APID_CMD, r.seq, 17, 2, e)  BY <2>1, <2>2 DEF build_conn_test_report
  <2>4. e \in Seq(Octet)  BY <2>2
  <2>5. PICK s \in Nat : s = 17 /\ s < 256  OBVIOUS
  <2>6. PICK t \in Nat : t = 2 /\ t < 256  OBVIOUS
  <2>7. Word(s) \in Octet /\ Word(t) \in Octet  BY <2>5, <2>6, OctetWord
  <2>8. p = TmPacketOf(CCSDS_APID_CMD, r.seq, s, t, e)  BY <2>3, <2>5, <2>6
  <2>11. Placed(p, CCSDS_APID_CMD, r.seq, s, t, e)  BY <2>4, <2>7, <2>8, TmPlaces
  <2>9. p[8] = Word(s)  BY <2>11 DEF Placed
  <2>10. 4 \in Word(17) /\ 4 \notin Word(1)  BY BitWord, Powers
  <2> QED BY <2>5, <2>9, <2>10 DEF IsVerification
<1>2. p = build_verification(r.seq, Subtype[r.kind], quote[1], quote[2], Word(FailureCode[r.code]))
  BY <1>1 DEF ReportOctets
<1>3. PICK t : t = Subtype[r.kind]  OBVIOUS
<1>4. t \in 1 .. 8  BY <1>1, <1>3 DEF Subtype, ReportKind
<1>5. PICK code : code = Word(FailureCode[r.code])  OBVIOUS
<1>6. code \in Octet
  <2>1. FailureCode[r.code] \in 0 .. 7  BY DEF FailureCode, FailCode
  <2>2. FailureCode[r.code] \in Nat /\ FailureCode[r.code] < 256  BY <2>1
  <2> QED BY <1>5, <2>2, OctetWord
<1>7. PICK tail : tail = IF t % 2 = 0 THEN <<code>> ELSE <<>>  OBVIOUS
<1>8. tail \in Seq(Octet)
  <2>1. <<code>> \in Seq(Octet) /\ <<>> \in Seq(Octet)  BY <1>6
  <2> QED BY <1>7, <2>1
<1>9. PICK payload : Quoting(payload, quote[1], quote[2], tail)  BY DEF Quoting
<1>10. Lies(payload, quote[1], quote[2], tail)  BY <1>8, <1>9, QuoteLies
<1>11. payload \in Seq(Octet) /\ Len(payload) = 4 + Len(tail) /\ Len(tail) \in Nat
  BY <1>10 DEF Lies
<1>12. PICK s \in Nat : s = 1 /\ s < 256  OBVIOUS
<1>13. t \in Nat /\ t < 256  BY <1>4
<1>14. Word(s) \in Octet /\ Word(t) \in Octet  BY <1>12, <1>13, OctetWord
<1>15. p = TmPacketOf(CCSDS_APID_CMD, r.seq, s, t, payload)
  BY <1>2, <1>3, <1>5, <1>7, <1>9, <1>12 DEF build_verification, Quoting
<1>16. Placed(p, CCSDS_APID_CMD, r.seq, s, t, payload)  BY <1>11, <1>14, <1>15, TmPlaces
<1>17. /\ p \in Seq(Octet) /\ Len(p) = 11 + Len(payload)
       /\ \A k \in 1 .. Len(payload) : p[11 + k] = payload[k]
  BY <1>16 DEF Placed
<1>18. \A k \in 1 .. 4 : p[11 + k] = payload[k]  BY <1>11, <1>17
<1>19. Holds(payload, 0, quote[1], 2) /\ Holds(payload, 2, quote[2], 2)  BY <1>10 DEF Lies
<1>20. Holds(p, 11, quote[1], 2)
  <2>1. \A k \in 1 .. 2 : k \in 1 .. 4 /\ 0 + k = k  OBVIOUS
  <2> QED BY <1>18, <1>19, <2>1 DEF Holds
<1>21. Holds(p, 13, quote[2], 2)
  <2>1. \A k \in 1 .. 2 : 2 + k \in 1 .. 4 /\ 11 + (2 + k) = 13 + k  OBVIOUS
  <2> QED BY <1>18, <1>19, <2>1 DEF Holds
<1> QED BY <1>11, <1>17, <1>20, <1>21

-----------------------------------------------------------------------------
(* A sequence, sealed, with a bit turned, cut off *)

LEMMA ListedBehind ==
    ASSUME NEW a, Listed(a), NEW b, Listed(b), NEW c, Follows(c, a, b)
    PROVE  /\ Listed(c) /\ Len(a) \in Nat /\ Len(b) \in Nat /\ Len(c) = Len(a) + Len(b)
           /\ \A k \in 1 .. Len(a) : c[k] = a[k]
<1>1. PICK S : a \in Seq(S)  BY DEF Listed
<1>2. PICK T : b \in Seq(T)  BY DEF Listed
<1>3. PICK U : U = S \cup T  OBVIOUS
<1>4. a \in Seq(U) /\ b \in Seq(U)  BY <1>1, <1>2, <1>3
<1>5. /\ c \in Seq(U) /\ Len(a) \in Nat /\ Len(b) \in Nat /\ Len(c) = Len(a) + Len(b)
      /\ \A k \in 1 .. Len(a) : c[k] = a[k]
  BY <1>4, ConcatProperties, LenProperties DEF Follows
<1> QED BY <1>5 DEF Listed

\* The checksum goes behind the body.
LEMMA SealedIs ==
    ASSUME NEW body, Listed(body), NEW s, s = Sealed(body)
    PROVE  /\ Listed(s) /\ Len(body) \in Nat /\ Len(s) = Len(body) + 2
           /\ \A k \in 1 .. Len(body) : s[k] = body[k]
<1>1. PICK w : w = tc_crc16(body)  OBVIOUS
<1>2. PICK n \in Nat : n = 2  OBVIOUS
<1>3. PICK b : b = Octets(w, n)  OBVIOUS
<1>4. Follows(s, body, b)  BY <1>1, <1>2, <1>3 DEF Sealed, Follows
<1>5. b \in Seq(Octet) /\ Len(b) = n  BY <1>3, OctetsSeq
<1>6. Listed(b)  BY <1>5 DEF Listed
<1>7. /\ Listed(s) /\ Len(body) \in Nat /\ Len(s) = Len(body) + Len(b)
      /\ \A k \in 1 .. Len(body) : s[k] = body[k]
  BY <1>4, <1>6, ListedBehind
<1> QED BY <1>2, <1>5, <1>7

LEMMA Flipped ==
    ASSUME NEW s, Listed(s), NEW p \in Nat, NEW t, t = Flip(s, p)
    PROVE  /\ Listed(t) /\ Len(t) = Len(s) /\ Len(s) \in Nat
           /\ p \notin 0 .. 31 => \A k \in 1 .. 4 : k <= Len(s) => t[k] = s[k]
<1>1. PICK S : s \in Seq(S)  BY DEF Listed
<1>2. PICK n \in Nat : n = Len(s)  BY <1>1
<1>3. s = [k \in 1 .. n |-> s[k]]  BY <1>1, <1>2
<1>4. PICK q \in Nat : q = p \div 8
  <2>1. p \div 8 \in Nat  OBVIOUS
  <2> QED BY <2>1
<1>5. PICK x : x = SymDiff(s[q + 1], {7 - (p % 8)})  OBVIOUS
<1>6. t = [s EXCEPT ![q + 1] = x]  BY <1>4, <1>5 DEF Flip
<1>7. t = [k \in 1 .. n |-> t[k]]  BY <1>3, <1>6
<1>8. t \in Seq({t[k] : k \in 1 .. n}) /\ Len(t) = n  BY <1>7
<1>9. \A k \in 1 .. n : k # q + 1 => t[k] = s[k]  BY <1>3, <1>6
<1>10. ASSUME p \notin 0 .. 31, NEW k \in 1 .. 4, k <= Len(s) PROVE t[k] = s[k]
  <2>1. q >= 4  BY <1>4, <1>10
  <2>2. k # q + 1 /\ k \in 1 .. n  BY <1>2, <1>10, <2>1
  <2> QED BY <1>9, <2>2
<1> QED BY <1>2, <1>8, <1>10 DEF Listed

LEMMA CutOff ==
    ASSUME NEW s, Listed(s), NEW n \in Nat, n <= Len(s), NEW t, t = SubSeq(s, 1, n)
    PROVE  Listed(t) /\ Len(t) = n /\ \A k \in 1 .. n : t[k] = s[k]
<1>1. PICK S : s \in Seq(S)  BY DEF Listed
<1>2. t \in Seq(S) /\ Len(t) = n /\ \A k \in 1 .. n : t[k] = s[k]
  <2>1. t = [k \in 1 .. n |-> s[k]]  BY <1>1
  <2>2. \A k \in 1 .. n : s[k] \in S  BY <1>1
  <2> QED BY <2>1, <2>2
<1> QED BY <1>2 DEF Listed

LEMMA HeaderWords ==
    ASSUME NEW n \in 0 .. SeqCounts - 1, NEW total,
           NEW h, h = Header(1, CCSDS_APID_CMD, n, total)
    PROVE  FirstWord(h) \in SUBSET (0 .. 15) /\ SecondWord(h) \in SUBSET (0 .. 15)
<1>1. PICK apid \in Nat : apid = CCSDS_APID_CMD /\ apid < 2048  BY DEF CCSDS_APID_CMD
<1>2. PICK type \in {0, 1} : type = 1  OBVIOUS
<1>3. h = Header(type, apid, n, total)  BY <1>1, <1>2
<1>4. Word(apid) \in SUBSET (0 .. 10)  BY <1>1, ApidWord
<1>5. h.version = {} /\ h.type = Word(type) /\ h.sec_hdr_flag = {0} /\ h.apid = Word(apid)
  BY <1>3 DEF Header
<1>6. PICK w : w = FirstWord(h)  OBVIOUS
<1>7. \A y : y \in w <=> (y = 12 /\ type = 1) \/ y = 11 \/ y \in Word(apid)
  BY <1>4, <1>5, <1>6, PacketId
<1>8. \A y : y \in w => y \in 0 .. 15
  <2>1. \A y \in 0 .. 10 : y \in 0 .. 15  OBVIOUS
  <2>2. 12 \in 0 .. 15 /\ 11 \in 0 .. 15  OBVIOUS
  <2>3. \A y : y \in Word(apid) => y \in 0 .. 10  BY <1>4
  <2> QED BY <1>7, <2>1, <2>2, <2>3
<1>9. h.seq_flags = {0, 1} /\ h.seq_count = Word(n)  BY <1>3 DEF Header
<1>10. PICK v : v = SecondWord(h)  OBVIOUS
<1>11. PICK f : f = Low(h.seq_flags, 2)  OBVIOUS
<1>12. PICK l : l = Low(h.seq_count, 14)  OBVIOUS
<1>13. v = Shl(f, 14) \cup l  BY <1>10, <1>11, <1>12 DEF SecondWord
<1>14. f \subseteq 0 .. 1 /\ l \subseteq 0 .. 13
  <2>1. 2 - 1 = 1 /\ 14 - 1 = 13  OBVIOUS
  <2>2. Low(h.seq_flags, 2) = h.seq_flags \cap 0 .. 1  BY <2>1 DEF Low
  <2>3. Low(h.seq_count, 14) = h.seq_count \cap 0 .. 13  BY <2>1 DEF Low
  <2> QED BY <1>11, <1>12, <2>2, <2>3
<1>15. \A y : y \in Shl(f, 14) => y \in 0 .. 15
  <2>1. \A y : y \in Shl(f, 14) <=> \E i \in f : y = i + 14  BY DEF Shl
  <2>2. \A i \in 0 .. 1 : i + 14 \in 0 .. 15  OBVIOUS
  <2> QED BY <1>14, <2>1, <2>2
<1>16. \A y : y \in l => y \in 0 .. 15
  <2>1. \A y \in 0 .. 13 : y \in 0 .. 15  OBVIOUS
  <2> QED BY <1>14, <2>1
<1>17. \A y : y \in v => y \in 0 .. 15  BY <1>13, <1>15, <1>16
<1> QED BY <1>6, <1>8, <1>10, <1>17

-----------------------------------------------------------------------------
(* Induction and recursion *)

\* Induction over the naturals, from the pigeonhole principle: were n missing, k would
\* go to k when it is there and to k - 1 when it is not, from n + 1 numbers into n.
LEMMA Inductive ==
    ASSUME NEW P, 0 \in P, \A k \in Nat : k \in P => k + 1 \in P
    PROVE  Nat \subseteq P
<1> SUFFICES ASSUME NEW n \in Nat, n \notin P PROVE FALSE  OBVIOUS
<1>1. n # 0  OBVIOUS
<1>2. PICK f : f = [k \in 0 .. n |-> IF k \in P THEN k ELSE k - 1]  OBVIOUS
<1>3. f \in [0 .. n -> 0 .. n - 1]
  <2>1. ASSUME NEW k \in 0 .. n PROVE (IF k \in P THEN k ELSE k - 1) \in 0 .. n - 1
    <3>1. CASE k \in P
      <4>1. k # n  BY <3>1
      <4> QED BY <3>1, <4>1
    <3>2. CASE k \notin P
      <4>1. k # 0  BY <3>2
      <4> QED BY <3>2, <4>1
    <3> QED BY <3>1, <3>2
  <2> QED BY <1>2, <2>1
<1>4. PICK S, T : S = 0 .. n /\ T = 0 .. n - 1  OBVIOUS
<1>5. IsFiniteSet(S) /\ IsFiniteSet(T) /\ Cardinality(S) = n + 1 /\ Cardinality(T) = n
  <2>1. 0 \in Int /\ n \in Int /\ n - 1 \in Int  OBVIOUS
  <2>2. IsFiniteSet(0 .. n) /\ Cardinality(0 .. n) = n + 1  BY <2>1, FS_Interval
  <2>3. IsFiniteSet(0 .. n - 1) /\ Cardinality(0 .. n - 1) = n  BY <1>1, <2>1, FS_Interval
  <2> QED BY <1>4, <2>2, <2>3
<1>6. Cardinality(T) < Cardinality(S)  BY <1>5
<1>7. f \in [S -> T]  BY <1>3, <1>4
<1>8. PICK x, y \in S : x # y /\ f[x] = f[y]  BY <1>5, <1>6, <1>7, FS_PigeonHole
<1>9. x \in 0 .. n /\ y \in 0 .. n  BY <1>4
<1>10. ASSUME NEW k \in 0 .. n, NEW l \in 0 .. n, k \in P, l \notin P, f[k] = f[l] PROVE FALSE
  <2>1. k = l - 1 /\ l # 0  BY <1>2, <1>10
  <2>2. l - 1 \in Nat  BY <2>1
  <2>3. (l - 1) + 1 \in P  BY <1>10, <2>1, <2>2
  <2> QED BY <1>10, <2>3
<1>11. CASE x \in P /\ y \in P  BY <1>2, <1>8, <1>9, <1>11
<1>12. CASE x \notin P /\ y \notin P  BY <1>2, <1>8, <1>9, <1>12
<1> QED BY <1>8, <1>9, <1>10, <1>11, <1>12

\* The function that starts with a and takes g[i][v] behind v.
Iterates(f, n, a, W, g) ==
    f \in [0 .. n -> W] /\ f[0] = a /\ \A i \in 1 .. n : f[i] = g[i][f[i - 1]]

LEMMA Recursion ==
    ASSUME NEW n \in Nat, NEW a, NEW W, a \in W, NEW g \in [1 .. n -> [W -> W]]
    PROVE  \E f : Iterates(f, n, a, W, g)
<1>1. PICK P : P = {m \in Nat : m <= n =>
                       \E f \in [0 .. m -> W] :
                          f[0] = a /\ \A i \in 1 .. m : f[i] = g[i][f[i - 1]]}
  OBVIOUS
<1>2. 0 \in P
  <2>1. PICK f : f = [i \in 0 .. 0 |-> a]  OBVIOUS
  <2>2. f \in [0 .. 0 -> W] /\ f[0] = a /\ \A i \in 1 .. 0 : f[i] = g[i][f[i - 1]]  BY <2>1
  <2> QED BY <1>1, <2>2
<1>3. ASSUME NEW k \in Nat, k \in P PROVE k + 1 \in P
  <2> SUFFICES ASSUME k + 1 <= n
               PROVE  \E f \in [0 .. k + 1 -> W] :
                         f[0] = a /\ \A i \in 1 .. k + 1 : f[i] = g[i][f[i - 1]]
    BY <1>1
  <2>1. PICK f \in [0 .. k -> W] : f[0] = a /\ \A i \in 1 .. k : f[i] = g[i][f[i - 1]]
    BY <1>1, <1>3
  <2>2. f[k] \in W /\ k + 1 \in 1 .. n  BY <2>1
  <2>3. PICK b : b = g[k + 1][f[k]]  OBVIOUS
  <2>4. b \in W  BY <2>2, <2>3
  <2>5. PICK h : h = [i \in 0 .. k + 1 |-> IF i = k + 1 THEN b ELSE f[i]]  OBVIOUS
  <2>6. h[k + 1] = b /\ \A i \in 0 .. k : h[i] = f[i]  BY <2>5
  <2>7. h \in [0 .. k + 1 -> W]
    <3>1. ASSUME NEW i \in 0 .. k + 1 PROVE (IF i = k + 1 THEN b ELSE f[i]) \in W
      <4>1. CASE i = k + 1  BY <2>4, <4>1
      <4>2. CASE i # k + 1
        <5>1. i \in 0 .. k  BY <4>2
        <5> QED BY <2>1, <4>2, <5>1
      <4> QED BY <4>1, <4>2
    <3> QED BY <2>5, <3>1
  <2>8. h[0] = a  BY <2>1, <2>6
  <2>9. ASSUME NEW i \in 1 .. k + 1 PROVE h[i] = g[i][h[i - 1]]
    <3>1. CASE i = k + 1
      <4>1. i - 1 = k /\ k \in 0 .. k  BY <3>1
      <4> QED BY <2>3, <2>6, <3>1, <4>1
    <3>2. CASE i # k + 1
      <4>1. i \in 1 .. k /\ i \in 0 .. k /\ i - 1 \in 0 .. k  BY <3>2
      <4> QED BY <2>1, <2>6, <4>1
    <3> QED BY <3>1, <3>2
  <2> QED BY <2>7, <2>8, <2>9
<1>4. Nat \subseteq P  BY <1>2, <1>3, Inductive
<1>5. n \in P  BY <1>4
<1> QED BY <1>1, <1>5 DEF Iterates

-----------------------------------------------------------------------------
(* The checksum *)

Register == SUBSET (0 .. 15)

\* A bit of the register moves up by one; what leaves it is fed back at 12, 5 and 0.
LEMMA CrcBit ==
    ASSUME NEW c \in Register, NEW d, d = crc_bit(c)
    PROVE  /\ d \in Register
           /\ 0 \in d <=> 15 \in c
           /\ \A i \in 0 .. 14 : i \notin {4, 11} => (i + 1 \in d <=> i \in c)
           /\ \A i \in {4, 11} : (i + 1 \in d <=> (i \in c) # (15 \in c))
<1>1. \A x : x \in Shl(c, 1) <=> \E i \in c : x = i + 1  BY DEF Shl
<1>2. \A i \in Int : i + 1 \in Shl(c, 1) <=> i \in c
  <2>1. \A i \in c : i \in Int  BY DEF Register
  <2> QED BY <1>1, <2>1
<1>3. 0 \notin Shl(c, 1)
  <2>1. \A i \in c : 0 # i + 1  BY DEF Register
  <2> QED BY <1>1, <2>1
<1>4. PICK s : s = Shl(c, 1)  OBVIOUS
<1>5. \A i \in 0 .. 14 : i + 1 \in s <=> i \in c  BY <1>2, <1>4
<1>6. s \subseteq 1 .. 16
  <2>1. \A i \in c : i + 1 \in 1 .. 16  BY DEF Register
  <2> QED BY <1>1, <1>4, <2>1
<1>7. CASE 15 \in c
  <2>1. d = SymDiff(Low(s, 16), {12, 5, 0})  BY <1>4, <1>7 DEF crc_bit
  <2>2. 16 - 1 = 15  OBVIOUS
  <2>3. \A x : x \in d <=> ((x \in s /\ x \in 0 .. 15) # (x \in {12, 5, 0}))
    BY <2>1, <2>2 DEF Low, SymDiff
  <2>4. \A i \in 0 .. 14 : i + 1 \in d <=> ((i + 1 \in s) # (i + 1 \in {12, 5, 0}))
    BY <2>3
  <2>5. \A i \in 0 .. 14 : i + 1 \in {12, 5, 0} <=> i \in {4, 11}  OBVIOUS
  <2>6. 0 \in d  BY <1>3, <1>4, <2>3
  <2>7. d \in Register  BY <2>3 DEF Register
  <2> QED BY <1>5, <1>7, <2>4, <2>5, <2>6, <2>7
<1>8. CASE 15 \notin c
  <2>1. d = s  BY <1>4, <1>8 DEF crc_bit
  <2>2. 16 \notin s  BY <1>2, <1>4, <1>8
  <2>3. d \in Register  BY <1>6, <2>1, <2>2 DEF Register
  <2> QED BY <1>3, <1>4, <1>5, <1>8, <2>1, <2>3
<1> QED BY <1>7, <1>8

\* Two registers that agree below m + 1 after a bit: the same bit left both, and they
\* agreed below m before.
Agree(c, e, m) == \A i \in 0 .. m - 1 : i \in c <=> i \in e

LEMMA BitBack ==
    ASSUME NEW c \in Register, NEW e \in Register, NEW m \in 0 .. 7,
           Agree(crc_bit(c), crc_bit(e), m + 1)
    PROVE  Agree(c, e, m) /\ (15 \in c <=> 15 \in e)
<1>1. PICK d, f : d = crc_bit(c) /\ f = crc_bit(e)  OBVIOUS
<1>2. \A i \in 0 .. m : i \in d <=> i \in f
  <2>1. (m + 1) - 1 = m  OBVIOUS
  <2> QED BY <1>1, <2>1 DEF Agree
<1>3. 15 \in c <=> 15 \in e
  <2>1. 0 \in d <=> 15 \in c  BY <1>1, CrcBit
  <2>2. 0 \in f <=> 15 \in e  BY <1>1, CrcBit
  <2> QED BY <1>2, <2>1, <2>2
<1>4. ASSUME NEW i \in 0 .. m - 1 PROVE i \in c <=> i \in e
  <2>1. i \in 0 .. 14 /\ i + 1 \in 0 .. m  OBVIOUS
  <2>2. i + 1 \in d <=> i + 1 \in f  BY <1>2, <2>1
  <2>3. CASE i \in {4, 11}
    <3>1. i + 1 \in d <=> (i \in c) # (15 \in c)  BY <1>1, <2>3, CrcBit
    <3>2. i + 1 \in f <=> (i \in e) # (15 \in e)  BY <1>1, <2>3, CrcBit
    <3> QED BY <1>3, <2>2, <3>1, <3>2
  <2>4. CASE i \notin {4, 11}
    <3>1. i + 1 \in d <=> i \in c  BY <1>1, <2>1, <2>4, CrcBit
    <3>2. i + 1 \in f <=> i \in e  BY <1>1, <2>1, <2>4, CrcBit
    <3> QED BY <2>2, <3>1, <3>2
  <2> QED BY <2>3, <2>4
<1> QED BY <1>3, <1>4 DEF Agree

\* Two registers from which the same bit leaves differ where they differed, one up.
LEMMA BitOn ==
    ASSUME NEW c \in Register, NEW e \in Register, 15 \in c <=> 15 \in e, NEW i \in 0 .. 14
    PROVE  (i + 1 \in crc_bit(c) <=> i + 1 \in crc_bit(e)) <=> (i \in c <=> i \in e)
<1>1. PICK d, f : d = crc_bit(c) /\ f = crc_bit(e)  OBVIOUS
<1>2. CASE i \in {4, 11}
  <2>1. i + 1 \in d <=> (i \in c) # (15 \in c)  BY <1>1, <1>2, CrcBit
  <2>2. i + 1 \in f <=> (i \in e) # (15 \in e)  BY <1>1, <1>2, CrcBit
  <2> QED BY <1>1, <2>1, <2>2
<1>3. CASE i \notin {4, 11}
  <2>1. i + 1 \in d <=> i \in c  BY <1>1, <1>3, CrcBit
  <2>2. i + 1 \in f <=> i \in e  BY <1>1, <1>3, CrcBit
  <2> QED BY <1>1, <2>1, <2>2
<1> QED BY <1>2, <1>3

\* So of two registers that agree in their lowest m + 1 and highest 7 - m bits after a
\* bit, one more agreed at the top before and one less at the bottom.
Ends(c, e, m) == Agree(c, e, m) /\ \A i \in 8 + m .. 15 : i \in c <=> i \in e

LEMMA EndsBack ==
    ASSUME NEW c \in Register, NEW e \in Register, NEW m \in 0 .. 7,
           Ends(crc_bit(c), crc_bit(e), m + 1)
    PROVE  Ends(c, e, m)
<1>1. Agree(crc_bit(c), crc_bit(e), m + 1)  BY DEF Ends
<1>2. Agree(c, e, m) /\ (15 \in c <=> 15 \in e)  BY <1>1, BitBack
<1>3. ASSUME NEW i \in 8 + m .. 15 PROVE i \in c <=> i \in e
  <2>1. CASE i = 15  BY <1>2, <2>1
  <2>2. CASE i # 15
    <3>1. i \in 0 .. 14 /\ i + 1 \in 8 + (m + 1) .. 15  BY <2>2
    <3>2. i + 1 \in crc_bit(c) <=> i + 1 \in crc_bit(e)  BY <3>1 DEF Ends
    <3> QED BY <1>2, <3>1, <3>2, BitOn
  <2> QED BY <2>1, <2>2
<1> QED BY <1>2, <1>3 DEF Ends

LEMMA ShiftsBack ==
    ASSUME NEW c \in Register, NEW e \in Register, Agree(crc_shifts(c), crc_shifts(e), 8)
    PROVE  \A i \in 8 .. 15 : i \in c <=> i \in e
<1>1. PICK c1, c2, c3, c4 : /\ c1 = crc_bit(c) /\ c2 = crc_bit(c1)
                            /\ c3 = crc_bit(c2) /\ c4 = crc_bit(c3)
  OBVIOUS
<1>2. PICK c5, c6, c7, c8 : /\ c5 = crc_bit(c4) /\ c6 = crc_bit(c5)
                            /\ c7 = crc_bit(c6) /\ c8 = crc_bit(c7)
  OBVIOUS
<1>3. PICK e1, e2, e3, e4 : /\ e1 = crc_bit(e) /\ e2 = crc_bit(e1)
                            /\ e3 = crc_bit(e2) /\ e4 = crc_bit(e3)
  OBVIOUS
<1>4. PICK e5, e6, e7, e8 : /\ e5 = crc_bit(e4) /\ e6 = crc_bit(e5)
                            /\ e7 = crc_bit(e6) /\ e8 = crc_bit(e7)
  OBVIOUS
<1>5. c1 \in Register /\ e1 \in Register  BY <1>1, <1>3, CrcBit
<1>6. c2 \in Register /\ e2 \in Register  BY <1>1, <1>3, <1>5, CrcBit
<1>7. c3 \in Register /\ e3 \in Register  BY <1>1, <1>3, <1>6, CrcBit
<1>8. c4 \in Register /\ e4 \in Register  BY <1>1, <1>3, <1>7, CrcBit
<1>9. c5 \in Register /\ e5 \in Register  BY <1>2, <1>4, <1>8, CrcBit
<1>10. c6 \in Register /\ e6 \in Register  BY <1>2, <1>4, <1>9, CrcBit
<1>11. c7 \in Register /\ e7 \in Register  BY <1>2, <1>4, <1>10, CrcBit
<1>12. crc_shifts(c) = c8 /\ crc_shifts(e) = e8
  BY <1>1, <1>2, <1>3, <1>4 DEF crc_shifts
<1>13. Ends(c8, e8, 8)
  <2>1. 8 + 8 .. 15 = {}  OBVIOUS
  <2> QED BY <1>12, <2>1 DEF Ends
<1>14. Ends(c7, e7, 7)
  <2>1. 7 \in 0 .. 7 /\ 7 + 1 = 8  OBVIOUS
  <2> QED BY <1>2, <1>4, <1>11, <1>13, <2>1, EndsBack
<1>15. Ends(c6, e6, 6)
  <2>1. 6 \in 0 .. 7 /\ 6 + 1 = 7  OBVIOUS
  <2> QED BY <1>2, <1>4, <1>10, <1>14, <2>1, EndsBack
<1>16. Ends(c5, e5, 5)
  <2>1. 5 \in 0 .. 7 /\ 5 + 1 = 6  OBVIOUS
  <2> QED BY <1>2, <1>4, <1>9, <1>15, <2>1, EndsBack
<1>17. Ends(c4, e4, 4)
  <2>1. 4 \in 0 .. 7 /\ 4 + 1 = 5  OBVIOUS
  <2> QED BY <1>2, <1>4, <1>8, <1>16, <2>1, EndsBack
<1>18. Ends(c3, e3, 3)
  <2>1. 3 \in 0 .. 7 /\ 3 + 1 = 4  OBVIOUS
  <2> QED BY <1>1, <1>3, <1>7, <1>17, <2>1, EndsBack
<1>19. Ends(c2, e2, 2)
  <2>1. 2 \in 0 .. 7 /\ 2 + 1 = 3  OBVIOUS
  <2> QED BY <1>1, <1>3, <1>6, <1>18, <2>1, EndsBack
<1>20. Ends(c1, e1, 1)
  <2>1. 1 \in 0 .. 7 /\ 1 + 1 = 2  OBVIOUS
  <2> QED BY <1>1, <1>3, <1>5, <1>19, <2>1, EndsBack
<1>21. Ends(c, e, 0)
  <2>1. 0 \in 0 .. 7 /\ 0 + 1 = 1  OBVIOUS
  <2> QED BY <1>1, <1>3, <1>20, <2>1, EndsBack
<1>22. 8 + 0 = 8  OBVIOUS
<1> QED BY <1>21, <1>22 DEF Ends

\* Eight bits of an empty register leave it empty.
LEMMA ShiftsOfNone == crc_shifts({}) = {}
<1>1. crc_bit({}) = {}  BY DEF crc_bit, Shl
<1> QED BY <1>1 DEF crc_shifts

LEMMA ShiftsTyped == ASSUME NEW c \in Register PROVE crc_shifts(c) \in Register
<1>1. \A d \in Register : crc_bit(d) \in Register  BY CrcBit
<1> QED BY <1>1 DEF crc_shifts

\* An octet: what is added to the upper half, and where the lower half goes.
Upper(s, o) == SymDiff(Shr(s, 8), o)

LEMMA Halves ==
    ASSUME NEW s \in Register
    PROVE  /\ Shr(s, 8) \in Octet /\ Low(s, 8) \in Octet
           /\ \A i \in 0 .. 7 : i \in Shr(s, 8) <=> i + 8 \in s
           /\ \A i \in 0 .. 7 : i \in Low(s, 8) <=> i \in s
           /\ \A i \in Int : i \in Shl(Low(s, 8), 8) <=> i - 8 \in 0 .. 7 /\ i - 8 \in s
           /\ Shl(Low(s, 8), 8) \in Register
<1>1. \A x : x \in Shr(s, 8) <=> \E j \in s : j >= 8 /\ x = j - 8  BY DEF Shr
<1>2. s \subseteq 0 .. 15  BY DEF Register
<1>3. \A x : x \in Low(s, 8) <=> x \in s /\ x \in 0 .. 7
  <2>1. 8 - 1 = 7  OBVIOUS
  <2> QED BY <2>1 DEF Low
<1>4. PICK l : l = Low(s, 8)  OBVIOUS
<1>5. \A x : x \in Shl(l, 8) <=> \E i \in l : x = i + 8  BY DEF Shl
<1>6. l \subseteq 0 .. 7  BY <1>3, <1>4
<1>7. Shr(s, 8) \in Octet /\ \A i \in 0 .. 7 : i \in Shr(s, 8) <=> i + 8 \in s
  <2>1. \A x \in Shr(s, 8) : x \in 0 .. 7  BY <1>1, <1>2
  <2>2. ASSUME NEW i \in 0 .. 7 PROVE i \in Shr(s, 8) <=> i + 8 \in s
    <3>1. \A j \in s : j >= 8 /\ i = j - 8 <=> j = i + 8  BY <1>2
    <3> QED BY <1>1, <3>1
  <2> QED BY <2>1, <2>2 DEF Octet
<1>8. \A i \in Int : i \in Shl(l, 8) <=> i - 8 \in l  BY <1>5, <1>6
<1>9. Shl(l, 8) \in Register  BY <1>5, <1>6 DEF Register
<1> QED BY <1>3, <1>4, <1>6, <1>7, <1>8, <1>9 DEF Octet

LEMMA UpperTyped ==
    ASSUME NEW s \in Register, NEW o \in Octet
    PROVE  Upper(s, o) \in Octet /\ \A i : i \in Upper(s, o) <=> (i \in Shr(s, 8)) # (i \in o)
<1>1. Shr(s, 8) \in Octet  BY Halves
<1>2. \A i : i \in Upper(s, o) <=> (i \in Shr(s, 8)) # (i \in o)  BY DEF Upper, SymDiff
<1>3. Upper(s, o) \subseteq Shr(s, 8) \cup o  BY DEF Upper, SymDiff
<1>4. Upper(s, o) \subseteq 0 .. 7  BY <1>1, <1>3 DEF Octet
<1> QED BY <1>2, <1>4 DEF Octet

LEMMA OctetUp ==
    ASSUME NEW u \in Octet
    PROVE  Shl(u, 8) \in Register /\ \A i \in 0 .. 7 : i + 8 \in Shl(u, 8) <=> i \in u
<1>1. \A x : x \in Shl(u, 8) <=> \E i \in u : x = i + 8  BY DEF Shl
<1>2. u \subseteq 0 .. 7  BY DEF Octet
<1>3. \A i \in 0 .. 7 : i + 8 \in Shl(u, 8) <=> i \in u  BY <1>1, <1>2
<1> QED BY <1>1, <1>2, <1>3 DEF Register

\* The register behind an octet: what the upper half feeds back, and s moved up.
Fed(t, w, s) == /\ w \in Register /\ t \in Register
                /\ \A i \in 0 .. 7 : i \in t <=> i \in w
                /\ \A i \in 0 .. 7 : i + 8 \in w => (i + 8 \in t <=> i \notin s)
                /\ \A i \in 0 .. 7 : i + 8 \notin w => (i + 8 \in t <=> i \in s)

LEMMA CrcOctet ==
    ASSUME NEW s \in Register, NEW o \in Octet, NEW x, x = Upper(s, o),
           NEW c, c = Shl(x, 8), NEW w, w = crc_shifts(c), NEW t, t = crc_octet(s, o)
    PROVE  Fed(t, w, s)
<1>1. x \in Octet  BY UpperTyped
<1>2. w \in Register  BY <1>1, OctetUp, ShiftsTyped
<1>4. crc_upper[x] = w  BY <1>1 DEF crc_upper
<1>5. PICK l : l = Shl(Low(s, 8), 8)  OBVIOUS
<1>6. t = SymDiff(w, l)  BY <1>4, <1>5 DEF crc_octet, Upper
<1>7. l \in Register /\ \A i \in Int : i \in l <=> i - 8 \in 0 .. 7 /\ i - 8 \in s
  BY <1>5, Halves
<1>8. \A i : i \in t <=> (i \in w) # (i \in l)  BY <1>6 DEF SymDiff
<1>9. t \in Register
  <2>1. t \subseteq w \cup l  BY <1>6 DEF SymDiff
  <2> QED BY <1>2, <1>7, <2>1 DEF Register
<1>10. \A i \in 0 .. 7 : i \notin l /\ (i + 8 \in l <=> i \in s)  BY <1>7
<1> QED BY <1>2, <1>8, <1>9, <1>10 DEF Fed

\* What an octet leaves in the register tells the lower half before, and the upper half
\* with the octet added.
LEMMA OctetBack ==
    ASSUME NEW s \in Register, NEW o \in Octet, NEW t \in Register, NEW p \in Octet,
           crc_octet(s, o) = crc_octet(t, p)
    PROVE  Upper(s, o) = Upper(t, p) /\ \A i \in 0 .. 7 : i \in s <=> i \in t
<1>1. PICK x, y : x = Upper(s, o) /\ y = Upper(t, p)  OBVIOUS
<1>2. x \in Octet /\ y \in Octet  BY <1>1, UpperTyped
<1>3. PICK c, e : c = Shl(x, 8) /\ e = Shl(y, 8)  OBVIOUS
<1>4. c \in Register /\ e \in Register  BY <1>2, <1>3, OctetUp
<1>5. PICK v, w : v = crc_shifts(c) /\ w = crc_shifts(e)  OBVIOUS
<1>6. PICK r : r = crc_octet(s, o)  OBVIOUS
<1>7. Fed(r, v, s)  BY <1>1, <1>3, <1>5, <1>6, CrcOctet
<1>8. Fed(r, w, t)  BY <1>1, <1>3, <1>5, <1>6, CrcOctet
<1>9. Agree(crc_shifts(c), crc_shifts(e), 8)
  <2>1. 8 - 1 = 7  OBVIOUS
  <2> QED BY <1>5, <1>7, <1>8, <2>1 DEF Agree, Fed
<1>10. \A i \in 8 .. 15 : i \in c <=> i \in e  BY <1>4, <1>9, ShiftsBack
<1>11. x = y
  <2>1. \A i \in 0 .. 7 : i + 8 \in c <=> i \in x  BY <1>2, <1>3, OctetUp
  <2>2. \A i \in 0 .. 7 : i + 8 \in e <=> i \in y  BY <1>2, <1>3, OctetUp
  <2>3. \A i \in 0 .. 7 : i + 8 \in 8 .. 15  OBVIOUS
  <2>4. \A i \in 0 .. 7 : i \in x <=> i \in y  BY <1>10, <2>1, <2>2, <2>3
  <2> QED BY <1>2, <2>4 DEF Octet
<1>12. v = w  BY <1>3, <1>5, <1>11
<1>13. \A i \in 0 .. 7 : i \in s <=> i \in t  BY <1>7, <1>8, <1>12 DEF Fed
<1> QED BY <1>1, <1>11, <1>13

LEMMA CrcTyped ==
    ASSUME NEW s \in Register, NEW o \in Octet PROVE crc_octet(s, o) \in Register
<1>1. PICK x, c, w, t : x = Upper(s, o) /\ c = Shl(x, 8) /\ w = crc_shifts(c) /\ t = crc_octet(s, o)
  OBVIOUS
<1>2. Fed(t, w, s)  BY <1>1, CrcOctet
<1> QED BY <1>1, <1>2 DEF Fed

\* When nothing is fed in, the lower half moves up.
LEMMA CrcQuiet ==
    ASSUME NEW s \in Register, NEW o \in Octet, Upper(s, o) = {}, NEW t, t = crc_octet(s, o)
    PROVE  t \in Register /\ \A i \in 0 .. 7 : i \notin t /\ (i + 8 \in t <=> i \in s)
<1>1. PICK x, c, w : x = Upper(s, o) /\ c = Shl(x, 8) /\ w = crc_shifts(c)  OBVIOUS
<1>2. w = {}
  <2>1. c = {}  BY <1>1 DEF Shl
  <2> QED BY <1>1, <2>1, ShiftsOfNone
<1>3. Fed(t, w, s)  BY <1>1, CrcOctet
<1>4. ASSUME NEW i \in 0 .. 7 PROVE i \notin t /\ (i + 8 \in t <=> i \in s)
  <2>1. i \notin w /\ i + 8 \notin w  BY <1>2
  <2> QED BY <1>3, <2>1 DEF Fed
<1> QED BY <1>3, <1>4 DEF Fed

\* The same octet keeps different registers apart, and so do two different octets.
LEMMA SameOctet ==
    ASSUME NEW s \in Register, NEW t \in Register, NEW o \in Octet,
           crc_octet(s, o) = crc_octet(t, o)
    PROVE  s = t
<1>1. Upper(s, o) = Upper(t, o) /\ \A i \in 0 .. 7 : i \in s <=> i \in t  BY OctetBack
<1>2. \A i : (i \in Shr(s, 8)) # (i \in o) <=> (i \in Shr(t, 8)) # (i \in o)
  BY <1>1, UpperTyped
<1>3. \A i : i \in Shr(s, 8) <=> i \in Shr(t, 8)  BY <1>2
<1>4. \A i \in 0 .. 7 : i + 8 \in s <=> i + 8 \in t
  <2>1. \A i \in 0 .. 7 : i \in Shr(s, 8) <=> i + 8 \in s  BY Halves
  <2>2. \A i \in 0 .. 7 : i \in Shr(t, 8) <=> i + 8 \in t  BY Halves
  <2> QED BY <1>3, <2>1, <2>2
<1>5. ASSUME NEW x \in 0 .. 15 PROVE x \in s <=> x \in t
  <2>1. CASE x \in 0 .. 7  BY <1>1, <2>1
  <2>2. CASE x \notin 0 .. 7
    <3>1. x - 8 \in 0 .. 7 /\ (x - 8) + 8 = x  BY <2>2
    <3> QED BY <1>4, <3>1
  <2> QED BY <2>1, <2>2
<1> QED BY <1>5 DEF Register

LEMMA SameUpper ==
    ASSUME NEW s, NEW o \in Octet, NEW p \in Octet, Upper(s, o) = Upper(s, p)
    PROVE  o = p
<1>1. \A i : i \in Upper(s, o) <=> (i \in Shr(s, 8)) # (i \in o)  BY DEF Upper, SymDiff
<1>2. \A i : i \in Upper(s, p) <=> (i \in Shr(s, 8)) # (i \in p)  BY DEF Upper, SymDiff
<1>3. \A i : (i \in Shr(s, 8)) # (i \in o) <=> (i \in Shr(s, 8)) # (i \in p)
  BY <1>1, <1>2
<1>4. \A i : i \in o <=> i \in p  BY <1>3
<1> QED BY <1>4

\* Two octets in a row can be told from what they leave.
LEMMA TwoOctets ==
    ASSUME NEW s \in Register, NEW o \in Octet, NEW p \in Octet, NEW v \in Octet, NEW w \in Octet,
           crc_octet(crc_octet(s, o), p) = crc_octet(crc_octet(s, v), w)
    PROVE  o = v /\ p = w
<1>1. PICK t, u : t = crc_octet(s, o) /\ u = crc_octet(s, v)  OBVIOUS
<1>2. t \in Register /\ u \in Register  BY <1>1, CrcTyped
<1>3. crc_octet(t, p) = crc_octet(u, w)  BY <1>1
<1>4. \A i \in 0 .. 7 : i \in t <=> i \in u  BY <1>2, <1>3, OctetBack
<1>5. PICK x, y, c, e : x = Upper(s, o) /\ y = Upper(s, v) /\ c = Shl(x, 8) /\ e = Shl(y, 8)
  OBVIOUS
<1>6. x \in Octet /\ y \in Octet  BY <1>5, UpperTyped
<1>7. c \in Register /\ e \in Register  BY <1>5, <1>6, OctetUp
<1>8. Agree(crc_shifts(c), crc_shifts(e), 8)
  <2>1. PICK f, g : f = crc_shifts(c) /\ g = crc_shifts(e)  OBVIOUS
  <2>2. Fed(t, f, s) /\ Fed(u, g, s)  BY <1>1, <1>5, <2>1, CrcOctet
  <2>3. \A i \in 0 .. 7 : (i \in t <=> i \in f) /\ (i \in u <=> i \in g)  BY <2>2 DEF Fed
  <2>4. 8 - 1 = 7  OBVIOUS
  <2> QED BY <1>4, <2>1, <2>3, <2>4 DEF Agree
<1>9. \A i \in 8 .. 15 : i \in c <=> i \in e  BY <1>7, <1>8, ShiftsBack
<1>10. Upper(s, o) = Upper(s, v)
  <2>2. \A i \in 0 .. 7 : i + 8 \in c <=> i \in x  BY <1>5, <1>6, OctetUp
  <2>3. \A i \in 0 .. 7 : i + 8 \in e <=> i \in y  BY <1>5, <1>6, OctetUp
  <2>4. \A i \in 0 .. 7 : i + 8 \in 8 .. 15  OBVIOUS
  <2>5. \A i \in 0 .. 7 : i \in x <=> i \in y  BY <1>9, <2>2, <2>3, <2>4
  <2> QED BY <1>5, <1>6, <2>5 DEF Octet
<1>11. o = v  BY <1>10, SameUpper
<1>12. t = u  BY <1>1, <1>11
<1>13. Upper(t, p) = Upper(t, w)  BY <1>2, <1>3, <1>12, OctetBack
<1> QED BY <1>11, <1>13, SameUpper

\* The register is empty behind two octets exactly when they are the register itself.
LEMMA Residue ==
    ASSUME NEW s \in Register, NEW o \in Octet, NEW p \in Octet
    PROVE  crc_octet(crc_octet(s, o), p) = {} <=> o = Shr(s, 8) /\ p = Low(s, 8)
<1>1. PICK v, w : v = Shr(s, 8) /\ w = Low(s, 8)  OBVIOUS
<1>2. v \in Octet /\ w \in Octet  BY <1>1, Halves
<1>3. PICK t : t = crc_octet(s, v)  OBVIOUS
<1>4. t \in Register  BY <1>2, <1>3, CrcTyped
<1>5. Upper(s, v) = {}  BY <1>1 DEF Upper, SymDiff
<1>8. \A i \in 0 .. 7 : i \notin t /\ (i + 8 \in t <=> i \in s)  BY <1>2, <1>3, <1>5, CrcQuiet
<1>9. Shr(t, 8) = w
  <2>1. Shr(t, 8) \in Octet /\ \A i \in 0 .. 7 : i \in Shr(t, 8) <=> i + 8 \in t
    BY <1>4, Halves
  <2>2. \A i \in 0 .. 7 : i \in w <=> i \in s  BY <1>1, Halves
  <2>3. \A i \in 0 .. 7 : i \in Shr(t, 8) <=> i \in w  BY <1>8, <2>1, <2>2
  <2> QED BY <1>2, <2>1, <2>3 DEF Octet
<1>10. crc_octet(t, w) = {}
  <2>1. Upper(t, w) = {}  BY <1>9 DEF Upper, SymDiff
  <2>5. PICK r : r = crc_octet(t, w)  OBVIOUS
  <2>6. r \in Register /\ \A i \in 0 .. 7 : i \notin r /\ (i + 8 \in r <=> i \in t)
    BY <1>2, <1>4, <2>1, <2>5, CrcQuiet
  <2>7. \A i \in 0 .. 7 : i \notin r /\ i + 8 \notin r  BY <1>8, <2>6
  <2>8. ASSUME NEW x \in r PROVE FALSE
    <3>1. x \in 0 .. 15  BY <2>6 DEF Register
    <3>2. x \in 0 .. 7 \/ (x - 8 \in 0 .. 7 /\ (x - 8) + 8 = x)  BY <3>1
    <3> QED BY <2>7, <3>2
  <2> QED BY <2>5, <2>8
<1>11. ASSUME crc_octet(crc_octet(s, o), p) = {} PROVE o = v /\ p = w
  <2>1. crc_octet(crc_octet(s, o), p) = crc_octet(crc_octet(s, v), w)  BY <1>3, <1>10, <1>11
  <2> QED BY <1>2, <2>1, TwoOctets
<1> QED BY <1>1, <1>3, <1>10, <1>11

-----------------------------------------------------------------------------
(* Runs of the register *)

\* f holds the register behind each octet of b.
Run(f, b) == /\ f \in [0 .. Len(b) -> Register]
             /\ f[0] = 0 .. 15
             /\ \A i \in 1 .. Len(b) : f[i] = crc_octet(f[i - 1], b[i])

LEMMA CrcRun ==
    ASSUME NEW b \in Seq(Octet)
    PROVE  \E f : Run(f, b) /\ tc_crc16(b) = f[Len(b)]
<1>1. PICK n : n = Len(b)  OBVIOUS
<1>2. n \in Nat /\ \A i \in 1 .. n : b[i] \in Octet  BY <1>1
<1>3. PICK a : a = 0 .. 15  OBVIOUS
<1>4. a \in Register  BY <1>3 DEF Register
<1>5. PICK g : g = [i \in 1 .. n |-> [s \in Register |-> crc_octet(s, b[i])]]  OBVIOUS
<1>6. g \in [1 .. n -> [Register -> Register]]
  <2>1. \A i \in 1 .. n : \A s \in Register : crc_octet(s, b[i]) \in Register
    BY <1>2, CrcTyped
  <2> QED BY <1>5, <2>1
<1>7. PICK f : f \in [0 .. n -> Register] /\ f[0] = a /\ \A i \in 1 .. n : f[i] = g[i][f[i - 1]]
  <2>1. \E f : Iterates(f, n, a, Register, g)  BY <1>2, <1>4, <1>6, Recursion
  <2> QED BY <2>1 DEF Iterates
<1>8. ASSUME NEW i \in 1 .. n PROVE f[i] = crc_octet(f[i - 1], b[i])
  <2>1. i - 1 \in 0 .. n  BY <1>2
  <2>2. f[i - 1] \in Register  BY <1>7, <2>1
  <2>3. PICK r : r = f[i - 1]  OBVIOUS
  <2>4. g[i] = [s \in Register |-> crc_octet(s, b[i])]  BY <1>5
  <2>5. r \in Register  BY <2>2, <2>3
  <2>6. g[i][r] = crc_octet(r, b[i])  BY <2>4, <2>5
  <2>7. f[i] = g[i][r]  BY <1>7, <2>3
  <2> QED BY <2>3, <2>6, <2>7
<1>9. Run(f, b)  BY <1>1, <1>3, <1>7, <1>8 DEF Run
<1>10. DEFINE F(c) == [m \in 0 .. n |-> IF m = 0 THEN a ELSE crc_octet(c[m - 1], b[m])]
<1>11. f = F(f)
  <2>1. ASSUME NEW m \in 0 .. n PROVE f[m] = IF m = 0 THEN a ELSE crc_octet(f[m - 1], b[m])
    <3>1. CASE m = 0  BY <1>7, <3>1
    <3>2. CASE m # 0
      <4>1. m \in 1 .. n  BY <1>2, <3>2
      <4> QED BY <1>8, <3>2, <4>1
    <3> QED BY <3>1, <3>2
  <2> QED BY <1>7, <2>1
<1>12. PICK c : c = CHOOSE h : h = F(h)  OBVIOUS
<1>13. c = F(c)  BY <1>11, <1>12
<1>14. tc_crc16(b) = c[n]  BY <1>1, <1>3, <1>12 DEF tc_crc16
<1>15. PICK P : P = {m \in Nat : m <= n => c[m] = f[m]}  OBVIOUS
<1>16. 0 \in P
  <2>1. 0 \in 0 .. n  BY <1>2
  <2>2. c[0] = a  BY <1>13, <2>1
  <2> QED BY <1>7, <1>15, <2>2
<1>17. ASSUME NEW k \in Nat, k \in P PROVE k + 1 \in P
  <2> SUFFICES ASSUME k + 1 <= n PROVE c[k + 1] = f[k + 1]  BY <1>15
  <2>1. c[k] = f[k]  BY <1>2, <1>15, <1>17
  <2>2. k + 1 \in 1 .. n /\ k + 1 \in 0 .. n /\ k + 1 # 0 /\ (k + 1) - 1 = k  BY <1>2
  <2>3. c[k + 1] = crc_octet(c[k], b[k + 1])  BY <1>13, <2>2
  <2>4. f[k + 1] = crc_octet(f[k], b[k + 1])  BY <1>8, <2>2
  <2> QED BY <2>1, <2>3, <2>4
<1>18. Nat \subseteq P  BY <1>16, <1>17, Inductive
<1>19. c[n] = f[n]  BY <1>2, <1>15, <1>18
<1> QED BY <1>1, <1>9, <1>14, <1>19

\* Equal octets up to m leave equal registers up to m.
LEMMA RunsAgree ==
    ASSUME NEW b, NEW d, NEW f, NEW h, NEW m \in Nat, Len(b) \in Nat, Len(d) \in Nat,
           m <= Len(b), m <= Len(d), Run(f, b), Run(h, d), \A i \in 1 .. m : b[i] = d[i]
    PROVE  \A i \in 0 .. m : f[i] = h[i]
<1>1. PICK P : P = {k \in Nat : k <= m => f[k] = h[k]}  OBVIOUS
<1>2. 0 \in P  BY <1>1 DEF Run
<1>3. ASSUME NEW k \in Nat, k \in P PROVE k + 1 \in P
  <2> SUFFICES ASSUME k + 1 <= m PROVE f[k + 1] = h[k + 1]  BY <1>1
  <2>1. f[k] = h[k]  BY <1>1, <1>3
  <2>2. k + 1 \in 1 .. m /\ (k + 1) - 1 = k  OBVIOUS
  <2>3. k + 1 \in 1 .. Len(b) /\ k + 1 \in 1 .. Len(d)  OBVIOUS
  <2>4. f[k + 1] = crc_octet(f[k], b[k + 1])  BY <2>2, <2>3 DEF Run
  <2>5. h[k + 1] = crc_octet(h[k], d[k + 1])  BY <2>2, <2>3 DEF Run
  <2>6. b[k + 1] = d[k + 1]  BY <2>2
  <2> QED BY <2>1, <2>4, <2>5, <2>6
<1>4. Nat \subseteq P  BY <1>2, <1>3, Inductive
<1> QED BY <1>1, <1>4

\* Different registers stay different while the octets are the same.
LEMMA RunsApart ==
    ASSUME NEW b \in Seq(Octet), NEW d \in Seq(Octet), NEW f, NEW h, NEW m \in Nat,
           Len(b) = Len(d), m <= Len(b), Run(f, b), Run(h, d),
           f[m] # h[m], \A i \in m + 1 .. Len(b) : b[i] = d[i]
    PROVE  f[Len(b)] # h[Len(d)]
<1>1. PICK n : n = Len(b)  OBVIOUS
<1>2. n \in Nat /\ Len(d) = n /\ m <= n  BY <1>1
<1>3. PICK P : P = {k \in Nat : m + k <= n => f[m + k] # h[m + k]}  OBVIOUS
<1>4. 0 \in P  BY <1>3
<1>5. ASSUME NEW k \in Nat, k \in P PROVE k + 1 \in P
  <2> SUFFICES ASSUME m + (k + 1) <= n, f[m + (k + 1)] = h[m + (k + 1)] PROVE FALSE
    BY <1>3
  <2>1. PICK j : j = m + k  OBVIOUS
  <2>2. m + (k + 1) = j + 1 /\ j \in Nat /\ j + 1 \in 1 .. n /\ j \in 0 .. n /\ (j + 1) - 1 = j
    BY <1>2, <2>1
  <2>3. f[j] # h[j]  BY <1>2, <1>3, <1>5, <2>1, <2>2
  <2>4. f[j] \in Register /\ h[j] \in Register  BY <1>1, <1>2, <2>2 DEF Run
  <2>5. f[j + 1] = crc_octet(f[j], b[j + 1])  BY <1>1, <2>2 DEF Run
  <2>6. h[j + 1] = crc_octet(h[j], d[j + 1])  BY <1>2, <2>2 DEF Run
  <2>7. b[j + 1] = d[j + 1] /\ b[j + 1] \in Octet
    <3>1. j + 1 \in m + 1 .. n  BY <1>2, <2>1, <2>2
    <3> QED BY <1>1, <2>2, <3>1
  <2>8. crc_octet(f[j], b[j + 1]) = crc_octet(h[j], b[j + 1])  BY <2>2, <2>5, <2>6, <2>7
  <2>9. f[j] = h[j]  BY <2>4, <2>7, <2>8, SameOctet
  <2> QED BY <2>3, <2>9
<1>6. Nat \subseteq P  BY <1>4, <1>5, Inductive
<1>7. n - m \in P /\ m + (n - m) = n  BY <1>2, <1>6
<1>8. f[n] # h[n]  BY <1>2, <1>3, <1>7
<1> QED BY <1>1, <1>2, <1>8

LEMMA PairJoined ==
    ASSUME NEW s \in Register, NEW o \in Octet, NEW p \in Octet, NEW w, Len(w) = 2,
           w[1] = o, w[2] = p
    PROVE  s = Join(w) <=> o = Shr(s, 8) /\ p = Low(s, 8)
<1>1. \A x : x \in Shl(o, 8) <=> \E i \in o : x = i + 8  BY DEF Shl
<1>2. \A x : x \in Shl(p, 0) <=> \E i \in p : x = i + 0  BY DEF Shl
<1>3. o \subseteq 0 .. 7 /\ p \subseteq 0 .. 7  BY DEF Octet
<1>4. PICK j : j = Join(w)  OBVIOUS
<1>5. \A x : x \in j <=> x \in Shl(o, 8) \/ x \in Shl(p, 0)
  <2>1. j = UNION {Shl(w[k], 8 * (2 - k)) : k \in 1 .. 2}  BY <1>4 DEF Join
  <2>2. 8 * (2 - 1) = 8 /\ 8 * (2 - 2) = 0  OBVIOUS
  <2>3. \A k \in 1 .. 2 : k = 1 \/ k = 2  OBVIOUS
  <2>4. Shl(w[1], 8 * (2 - 1)) = Shl(o, 8) /\ Shl(w[2], 8 * (2 - 2)) = Shl(p, 0)  BY <2>2
  <2>5. 1 \in 1 .. 2 /\ 2 \in 1 .. 2  OBVIOUS
  <2> QED BY <2>1, <2>3, <2>4, <2>5
<1>6. \A i \in 0 .. 7 : i + 8 \in j <=> i \in o
  <2>1. \A i \in 0 .. 7 : i + 8 \notin Shl(p, 0)  BY <1>2, <1>3
  <2>2. \A i \in 0 .. 7 : i + 8 \in Shl(o, 8) <=> i \in o  BY <1>1, <1>3
  <2> QED BY <1>5, <2>1, <2>2
<1>7. \A i \in 0 .. 7 : i \in j <=> i \in p
  <2>1. \A i \in 0 .. 7 : i \notin Shl(o, 8)  BY <1>1, <1>3
  <2>2. \A i \in 0 .. 7 : i \in Shl(p, 0) <=> i \in p  BY <1>2, <1>3
  <2> QED BY <1>5, <2>1, <2>2
<1>8. \A x \in j : x \in 0 .. 15
  <2>1. \A x \in Shl(o, 8) : x \in 0 .. 15  BY <1>1, <1>3
  <2>2. \A x \in Shl(p, 0) : x \in 0 .. 15  BY <1>2, <1>3
  <2> QED BY <1>5, <2>1, <2>2
<1>9. s \subseteq 0 .. 15  BY DEF Register
<1>10. \A x \in 0 .. 15 : x \in 0 .. 7 \/ (x - 8 \in 0 .. 7 /\ (x - 8) + 8 = x)  OBVIOUS
<1>11. PICK v, l : v = Shr(s, 8) /\ l = Low(s, 8)  OBVIOUS
<1>12. /\ v \in Octet /\ l \in Octet
       /\ \A i \in 0 .. 7 : i \in v <=> i + 8 \in s
       /\ \A i \in 0 .. 7 : i \in l <=> i \in s
  BY <1>11, Halves
<1>13. v \subseteq 0 .. 7 /\ l \subseteq 0 .. 7  BY <1>12 DEF Octet
<1>14. ASSUME s = j PROVE o = v /\ p = l
  <2>1. \A i \in 0 .. 7 : (i \in v <=> i \in o) /\ (i \in l <=> i \in p)
    BY <1>6, <1>7, <1>12, <1>14
  <2>2. o = v  BY <1>3, <1>13, <2>1
  <2>3. p = l  BY <1>3, <1>13, <2>1
  <2> QED BY <2>2, <2>3
<1>15. ASSUME o = v, p = l PROVE s = j
  <2>1. \A i \in 0 .. 7 : (i \in s <=> i \in j) /\ (i + 8 \in s <=> i + 8 \in j)
    BY <1>6, <1>7, <1>12, <1>15
  <2>2. \A x \in 0 .. 15 : x \in s <=> x \in j  BY <1>10, <2>1
  <2> QED BY <1>8, <1>9, <2>2
<1> QED BY <1>4, <1>11, <1>14, <1>15

\* The check of a packet's last two octets is whether a run over all of it ends empty.
LEMMA CheckIsResidue ==
    ASSUME NEW buf \in Seq(Octet), NEW n, n = Len(buf), n >= 2, NEW f, Run(f, buf)
    PROVE  Fails(buf).CRC <=> f[n] # {}
<1>1. PICK m : m = n - 2  OBVIOUS
<1>2. n \in Nat /\ m \in Nat /\ m + 1 = n - 1 /\ m + 2 = n /\ m <= n  BY <1>1
<1>3. PICK b : b = SubSeq(buf, 1, m)  OBVIOUS
<1>4. b \in Seq(Octet) /\ Len(b) = m /\ \A k \in 1 .. m : b[k] = buf[k]
  <2>1. b = [k \in 1 .. m |-> buf[k]]  BY <1>2, <1>3
  <2>2. \A k \in 1 .. m : buf[k] \in Octet  BY <1>2
  <2> QED BY <1>2, <2>1, <2>2
<1>5. PICK h : Run(h, b) /\ tc_crc16(b) = h[m]  BY <1>4, CrcRun
<1>6. \A i \in 0 .. m : f[i] = h[i]
  <2>1. m <= Len(buf) /\ m <= Len(b) /\ Len(buf) \in Nat /\ Len(b) \in Nat  BY <1>2, <1>4
  <2>2. \A i \in 1 .. m : buf[i] = b[i]  BY <1>4
  <2> QED BY <1>2, <1>5, <2>1, <2>2, RunsAgree
<1>7. PICK s : s = f[m]  OBVIOUS
<1>8. s \in Register /\ tc_crc16(b) = s
  <2>1. m \in 0 .. m /\ m \in 0 .. n  BY <1>2
  <2> QED BY <1>5, <1>6, <1>7, <2>1 DEF Run
<1>9. PICK o, p : o = buf[m + 1] /\ p = buf[m + 2]  OBVIOUS
<1>10. m + 1 \in 1 .. n /\ m + 2 \in 1 .. n /\ (m + 1) - 1 = m /\ (m + 2) - 1 = m + 1  BY <1>2
<1>11. o \in Octet /\ p \in Octet  BY <1>9, <1>10
<1>12. f[n] = crc_octet(crc_octet(s, o), p)
  <2>1. f[m + 1] = crc_octet(f[m], buf[m + 1])  BY <1>10 DEF Run
  <2>2. f[m + 2] = crc_octet(f[m + 1], buf[m + 2])  BY <1>10 DEF Run
  <2> QED BY <1>2, <1>7, <1>9, <2>1, <2>2
<1>13. f[n] = {} <=> o = Shr(s, 8) /\ p = Low(s, 8)  BY <1>8, <1>11, <1>12, Residue
<1>14. PICK w : w = SubSeq(buf, n - 1, n)  OBVIOUS
<1>15. Len(w) = 2 /\ w[1] = o /\ w[2] = p
  <2>1. w = [k \in 1 .. n - (n - 1) + 1 |-> buf[k + (n - 1) - 1]]  BY <1>2, <1>14
  <2>2. n - (n - 1) + 1 = 2  BY <1>2
  <2>3. w = [k \in 1 .. 2 |-> buf[k + (n - 1) - 1]]  BY <2>1, <2>2
  <2>4. 1 + (n - 1) - 1 = m + 1 /\ 2 + (n - 1) - 1 = m + 2  BY <1>2
  <2>5. w[1] = buf[m + 1] /\ w[2] = buf[m + 2]  BY <2>3, <2>4
  <2>6. Len(w) = 2  BY <2>3
  <2> QED BY <1>9, <2>5, <2>6
<1>16. s = Join(w) <=> o = Shr(s, 8) /\ p = Low(s, 8)  BY <1>8, <1>11, <1>15, PairJoined
<1>17. Fails(buf).CRC = (tc_crc16(b) # Join(w))
  <2>1. Len(buf) - TC_PEC_LEN = m  BY <1>1 DEF TC_PEC_LEN
  <2> QED BY <1>3, <1>14, <2>1 DEF Fails
<1> QED BY <1>8, <1>13, <1>16, <1>17

\* What tc_build seals passes the check.
LEMMA SealPasses ==
    ASSUME NEW body \in Seq(Octet), NEW buf, buf = Sealed(body)
    PROVE  buf \in Seq(Octet) /\ ~Fails(buf).CRC
<1>1. PICK n \in Nat : n = Len(body)  OBVIOUS
<1>2. PICK h : Run(h, body) /\ tc_crc16(body) = h[n]  BY <1>1, CrcRun
<1>3. PICK s : s = h[n]  OBVIOUS
<1>4. s \in Register
  <2>1. n \in 0 .. Len(body)  BY <1>1
  <2> QED BY <1>2, <1>3, <2>1 DEF Run
<1>5. PICK two \in Nat : two = 2  OBVIOUS
<1>6. PICK t : t = Octets(s, two)  OBVIOUS
<1>7. t \in Seq(Octet) /\ Len(t) = two  BY <1>6, OctetsSeq
<1>8. Follows(buf, body, t)  BY <1>1, <1>2, <1>3, <1>5, <1>6 DEF Sealed, Follows
<1>9. /\ buf \in Seq(Octet) /\ Len(buf) = n + two
      /\ \A k \in 1 .. n : buf[k] = body[k]
      /\ \A k \in 1 .. two : buf[n + k] = t[k]
  BY <1>1, <1>7, <1>8, Behind
<1>10. t[1] = Shr(s, 8) /\ t[2] = Low(s, 8)
  <2>1. 8 * (2 - 1) = 8 /\ 8 * (2 - 2) = 0 /\ 1 \in 1 .. 2 /\ 2 \in 1 .. 2  OBVIOUS
  <2>2. t[1] = Low(Shr(s, 8), 8) /\ t[2] = Low(Shr(s, 0), 8)  BY <1>5, <1>6, <2>1 DEF Octets
  <2>3. Shr(s, 8) \in Octet  BY <1>4, Halves
  <2>4. 8 - 1 = 7  OBVIOUS
  <2>5. Low(Shr(s, 8), 8) = Shr(s, 8)  BY <2>3, <2>4 DEF Low, Octet
  <2>6. Shr(s, 0) = s
    <3>1. \A x : x \in Shr(s, 0) <=> \E j \in s : j >= 0 /\ x = j - 0  BY DEF Shr
    <3>2. \A j \in s : j \in 0 .. 15  BY <1>4 DEF Register
    <3>3. \A x : x \in Shr(s, 0) <=> x \in s  BY <3>1, <3>2
    <3> QED BY <3>3
  <2> QED BY <2>2, <2>5, <2>6
<1>11. PICK f : Run(f, buf)  BY <1>9, CrcRun
<1>12. f[n] = s
  <2>1. Len(buf) \in Nat /\ Len(body) \in Nat /\ n <= Len(buf) /\ n <= Len(body) /\ n \in 0 .. n
    BY <1>1, <1>5, <1>9
  <2>2. \A i \in 0 .. n : f[i] = h[i]  BY <1>1, <1>2, <1>9, <1>11, <2>1, RunsAgree
  <2> QED BY <1>3, <2>1, <2>2
<1>13. PICK o, p : o = t[1] /\ p = t[2]  OBVIOUS
<1>14. o \in Octet /\ p \in Octet  BY <1>4, <1>10, <1>13, Halves
<1>15. PICK m : m = n + two  OBVIOUS
<1>16. f[m] = crc_octet(crc_octet(s, o), p)
  <2>1. n + 1 \in 1 .. Len(buf) /\ n + 2 \in 1 .. Len(buf) /\ (n + 1) - 1 = n /\ (n + 2) - 1 = n + 1
    BY <1>5, <1>9
  <2>2. f[n + 1] = crc_octet(f[n], buf[n + 1])  BY <1>11, <2>1 DEF Run
  <2>3. f[n + 2] = crc_octet(f[n + 1], buf[n + 2])  BY <1>11, <2>1 DEF Run
  <2>4. buf[n + 1] = o /\ buf[n + 2] = p  BY <1>5, <1>9, <1>13
  <2> QED BY <1>5, <1>12, <1>15, <2>2, <2>3, <2>4
<1>17. f[m] = {}  BY <1>4, <1>10, <1>13, <1>14, <1>16, Residue
<1>18. m = Len(buf) /\ m >= 2  BY <1>5, <1>9, <1>15
<1> QED BY <1>9, <1>11, <1>17, <1>18, CheckIsResidue

\* Of two packets of one length that differ only within two octets in a row, one at
\* most passes the check.
LEMMA BurstSeen ==
    ASSUME NEW a \in Seq(Octet), NEW b \in Seq(Octet), NEW n, n = Len(a), Len(b) = n, n >= 2,
           NEW k \in 1 .. n - 1, \A i \in 1 .. n : i \notin {k, k + 1} => a[i] = b[i],
           ~Fails(a).CRC, ~Fails(b).CRC
    PROVE  a = b
<1>1. n \in Nat /\ k \in Nat /\ k - 1 \in Nat /\ k + 1 <= n  OBVIOUS
<1>2. PICK f : Run(f, a)  BY CrcRun
<1>3. PICK h : Run(h, b)  BY CrcRun
<1>4. f[n] = {} /\ h[n] = {}
  <2>1. f[n] = {}  BY <1>2, CheckIsResidue
  <2>2. h[n] = {}  BY <1>3, CheckIsResidue
  <2> QED BY <2>1, <2>2
<1>5. PICK m : m = k - 1  OBVIOUS
<1>6. m \in Nat /\ m <= n /\ m \in 0 .. m /\ m \in 0 .. n  BY <1>1, <1>5
<1>7. f[m] = h[m]
  <2>1. \A i \in 1 .. m : a[i] = b[i]  BY <1>1, <1>5
  <2>2. Len(a) \in Nat /\ Len(b) \in Nat /\ m <= Len(a) /\ m <= Len(b)  BY <1>1, <1>6
  <2>3. \A i \in 0 .. m : f[i] = h[i]  BY <1>2, <1>3, <1>6, <2>1, <2>2, RunsAgree
  <2> QED BY <1>6, <2>3
<1>8. PICK l : l = k + 1  OBVIOUS
<1>9. f[l] = h[l]
  <2>1. l \in Nat /\ l <= Len(a)  BY <1>1, <1>8
  <2>2. \A i \in l + 1 .. Len(a) : a[i] = b[i]  BY <1>1, <1>8
  <2>3. ASSUME f[l] # h[l] PROVE FALSE
    <3>1. Len(a) = Len(b)  OBVIOUS
    <3>2. f[Len(a)] # h[Len(b)]  BY <1>2, <1>3, <2>1, <2>2, <2>3, <3>1, RunsApart, SMTT(30)
    <3> QED BY <1>4, <3>2
  <2> QED BY <2>3
<1>10. PICK s : s = f[m]  OBVIOUS
<1>11. s \in Register  BY <1>2, <1>6, <1>10 DEF Run
<1>12. PICK o, p, v, w : o = a[k] /\ p = a[k + 1] /\ v = b[k] /\ w = b[k + 1]  OBVIOUS
<1>13. o \in Octet /\ p \in Octet /\ v \in Octet /\ w \in Octet  BY <1>1, <1>12
<1>14. k \in 1 .. n /\ k + 1 \in 1 .. n /\ (k + 1) - 1 = k  BY <1>1
<1>15. f[l] = crc_octet(crc_octet(s, o), p)
  <2>1. f[k] = crc_octet(f[k - 1], a[k])  BY <1>2, <1>14 DEF Run
  <2>2. f[k + 1] = crc_octet(f[k], a[k + 1])  BY <1>2, <1>14 DEF Run
  <2> QED BY <1>5, <1>8, <1>10, <1>12, <2>1, <2>2
<1>16. h[l] = crc_octet(crc_octet(s, v), w)
  <2>1. h[k] = crc_octet(h[k - 1], b[k])  BY <1>3, <1>14 DEF Run
  <2>2. h[k + 1] = crc_octet(h[k], b[k + 1])  BY <1>3, <1>14 DEF Run
  <2> QED BY <1>5, <1>7, <1>8, <1>10, <1>12, <2>1, <2>2
<1>17. o = v /\ p = w
  <2>1. crc_octet(crc_octet(s, o), p) = crc_octet(crc_octet(s, v), w)  BY <1>9, <1>15, <1>16
  <2> QED BY <1>11, <1>13, <2>1, TwoOctets
<1>18. \A i \in 1 .. n : a[i] = b[i]  BY <1>12, <1>17
<1> QED BY <1>1, <1>18

-----------------------------------------------------------------------------
(* Numbers that share no word *)

LEMMA WordInjective ==
    ASSUME NEW n \in Nat, n < 256, NEW m \in Nat, m < 256, Word(n) = Word(m)
    PROVE  n = m
<1>1. \A i \in 0 .. 15 : (n \div 2 ^ i) % 2 = 1 <=> (m \div 2 ^ i) % 2 = 1
  <2>1. \A i \in 0 .. 15 : i \in Word(n) <=> (n \div 2 ^ i) % 2 = 1  BY BitWord
  <2>2. \A i \in 0 .. 15 : i \in Word(m) <=> (m \div 2 ^ i) % 2 = 1  BY BitWord
  <2> QED BY <2>1, <2>2
<1>2. /\ (n \div 2 ^ 0) % 2 = 1 <=> (m \div 2 ^ 0) % 2 = 1
      /\ (n \div 2 ^ 1) % 2 = 1 <=> (m \div 2 ^ 1) % 2 = 1
      /\ (n \div 2 ^ 2) % 2 = 1 <=> (m \div 2 ^ 2) % 2 = 1
      /\ (n \div 2 ^ 3) % 2 = 1 <=> (m \div 2 ^ 3) % 2 = 1
  BY <1>1
<1>3. /\ (n \div 2 ^ 4) % 2 = 1 <=> (m \div 2 ^ 4) % 2 = 1
      /\ (n \div 2 ^ 5) % 2 = 1 <=> (m \div 2 ^ 5) % 2 = 1
      /\ (n \div 2 ^ 6) % 2 = 1 <=> (m \div 2 ^ 6) % 2 = 1
      /\ (n \div 2 ^ 7) % 2 = 1 <=> (m \div 2 ^ 7) % 2 = 1
  BY <1>1
<1>4. n \div 128 = m \div 128
  <2>1. (n \div 128) % 2 = 1 <=> (m \div 128) % 2 = 1  BY <1>3, Powers
  <2>2. n \div 128 \in 0 .. 1 /\ m \div 128 \in 0 .. 1  OBVIOUS
  <2> QED BY <2>1, <2>2
<1>5. n \div 64 = m \div 64
  <2>1. (n \div 64) % 2 = 1 <=> (m \div 64) % 2 = 1  BY <1>3, Powers
  <2>2. n \div 64 = 2 * (n \div 128) + ((n \div 64) % 2)  OBVIOUS
  <2>3. m \div 64 = 2 * (m \div 128) + ((m \div 64) % 2)  OBVIOUS
  <2>4. (n \div 64) % 2 \in 0 .. 1 /\ (m \div 64) % 2 \in 0 .. 1  OBVIOUS
  <2> QED BY <1>4, <2>1, <2>2, <2>3, <2>4
<1>6. n \div 32 = m \div 32
  <2>1. (n \div 32) % 2 = 1 <=> (m \div 32) % 2 = 1  BY <1>3, Powers
  <2>2. n \div 32 = 2 * (n \div 64) + ((n \div 32) % 2)  OBVIOUS
  <2>3. m \div 32 = 2 * (m \div 64) + ((m \div 32) % 2)  OBVIOUS
  <2>4. (n \div 32) % 2 \in 0 .. 1 /\ (m \div 32) % 2 \in 0 .. 1  OBVIOUS
  <2> QED BY <1>5, <2>1, <2>2, <2>3, <2>4
<1>7. n \div 16 = m \div 16
  <2>1. (n \div 16) % 2 = 1 <=> (m \div 16) % 2 = 1  BY <1>3, Powers
  <2>2. n \div 16 = 2 * (n \div 32) + ((n \div 16) % 2)  OBVIOUS
  <2>3. m \div 16 = 2 * (m \div 32) + ((m \div 16) % 2)  OBVIOUS
  <2>4. (n \div 16) % 2 \in 0 .. 1 /\ (m \div 16) % 2 \in 0 .. 1  OBVIOUS
  <2> QED BY <1>6, <2>1, <2>2, <2>3, <2>4
<1>8. n \div 8 = m \div 8
  <2>1. (n \div 8) % 2 = 1 <=> (m \div 8) % 2 = 1  BY <1>2, Powers
  <2>2. n \div 8 = 2 * (n \div 16) + ((n \div 8) % 2)  OBVIOUS
  <2>3. m \div 8 = 2 * (m \div 16) + ((m \div 8) % 2)  OBVIOUS
  <2>4. (n \div 8) % 2 \in 0 .. 1 /\ (m \div 8) % 2 \in 0 .. 1  OBVIOUS
  <2> QED BY <1>7, <2>1, <2>2, <2>3, <2>4
<1>9. n \div 4 = m \div 4
  <2>1. (n \div 4) % 2 = 1 <=> (m \div 4) % 2 = 1  BY <1>2, Powers
  <2>2. n \div 4 = 2 * (n \div 8) + ((n \div 4) % 2)  OBVIOUS
  <2>3. m \div 4 = 2 * (m \div 8) + ((m \div 4) % 2)  OBVIOUS
  <2>4. (n \div 4) % 2 \in 0 .. 1 /\ (m \div 4) % 2 \in 0 .. 1  OBVIOUS
  <2> QED BY <1>8, <2>1, <2>2, <2>3, <2>4
<1>10. n \div 2 = m \div 2
  <2>1. (n \div 2) % 2 = 1 <=> (m \div 2) % 2 = 1  BY <1>2, Powers
  <2>2. n \div 2 = 2 * (n \div 4) + ((n \div 2) % 2)  OBVIOUS
  <2>3. m \div 2 = 2 * (m \div 4) + ((m \div 2) % 2)  OBVIOUS
  <2>4. (n \div 2) % 2 \in 0 .. 1 /\ (m \div 2) % 2 \in 0 .. 1  OBVIOUS
  <2> QED BY <1>9, <2>1, <2>2, <2>3, <2>4
<1>11. n % 2 = 1 <=> m % 2 = 1
  <2>1. (n \div 1) % 2 = 1 <=> (m \div 1) % 2 = 1  BY <1>2, Powers
  <2>2. n \div 1 = n /\ m \div 1 = m  OBVIOUS
  <2> QED BY <2>1, <2>2
<1>12. n = 2 * (n \div 2) + (n % 2) /\ m = 2 * (m \div 2) + (m % 2)  OBVIOUS
<1>13. n % 2 \in 0 .. 1 /\ m % 2 \in 0 .. 1  OBVIOUS
<1> QED BY <1>10, <1>11, <1>12, <1>13

-----------------------------------------------------------------------------
(* What harm does to a field *)

\* Bit 8k - 1 - j on the way is bit j of octet k: octet k of a is that of b with the
\* bits of H turned over.
Turned(a, b, H, k) ==
    \A j \in 0 .. 7 : /\ 8 * k - 1 - j \notin H => (j \in a[k] <=> j \in b[k])
                      /\ 8 * k - 1 - j \in H    => (j \in a[k] <=> j \notin b[k])

LEMMA FlipTurns ==
    ASSUME NEW a \in Seq(Octet), NEW p \in 0 .. 8 * Len(a) - 1, NEW t, t = Flip(a, p)
    PROVE  /\ t \in Seq(Octet) /\ Len(t) = Len(a)
           /\ \A b, H : \A k \in 1 .. Len(a) :
                 p \notin H /\ Turned(a, b, H, k) => Turned(t, b, H \cup {p}, k)
<1>1. PICK n \in Nat : n = Len(a)  OBVIOUS
<1>2. PICK q \in Nat, r \in 0 .. 7 : p = 8 * q + r
  <2>1. p \in Nat  OBVIOUS
  <2> QED BY <2>1, Digits
<1>3. p \div 8 = q /\ p % 8 = r  BY <1>2
<1>4. q + 1 \in 1 .. n  BY <1>1, <1>2
<1>5. PICK i \in 0 .. 7 : i = 7 - r  OBVIOUS
<1>6. PICK x : x = SymDiff(a[q + 1], {i})  OBVIOUS
<1>7. t = [a EXCEPT ![q + 1] = x]  BY <1>3, <1>5, <1>6 DEF Flip
<1>8. \A j : j # i => (j \in x <=> j \in a[q + 1])  BY <1>6 DEF SymDiff
<1>9. i \in x <=> i \notin a[q + 1]  BY <1>6 DEF SymDiff
<1>10. a = [k \in 1 .. n |-> a[k]] /\ \A k \in 1 .. n : a[k] \in Octet  BY <1>1
<1>11. x \in Octet
  <2>1. x \subseteq a[q + 1] \cup {i}  BY <1>6 DEF SymDiff
  <2>2. a[q + 1] \in Octet  BY <1>4, <1>10
  <2> QED BY <2>1, <2>2 DEF Octet
<1>12. t = [k \in 1 .. n |-> IF k = q + 1 THEN x ELSE a[k]]  BY <1>7, <1>10
<1>13. t[q + 1] = x /\ \A k \in 1 .. n : k # q + 1 => t[k] = a[k]  BY <1>4, <1>12
<1>14. t \in Seq(Octet) /\ Len(t) = n
  <2>1. \A k \in 1 .. n : (IF k = q + 1 THEN x ELSE a[k]) \in Octet  BY <1>10, <1>11
  <2> QED BY <1>12, <2>1
<1>15. ASSUME NEW b, NEW H, NEW k \in 1 .. n, p \notin H, Turned(a, b, H, k)
       PROVE  Turned(t, b, H \cup {p}, k)
  <2>1. CASE k = q + 1
    <3>1. \A j \in 0 .. 7 : 8 * k - 1 - j = p <=> j = i  BY <1>2, <1>5, <2>1
    <3>2. ASSUME NEW j \in 0 .. 7, j # i
          PROVE  /\ 8 * k - 1 - j \in H \cup {p} <=> 8 * k - 1 - j \in H
                 /\ j \in t[k] <=> j \in a[k]
      BY <1>8, <1>13, <2>1, <3>1, <3>2
    <3>3. 8 * k - 1 - i \notin H /\ 8 * k - 1 - i \in H \cup {p}  BY <1>15, <3>1
    <3>4. i \in t[k] <=> i \notin b[k]
      <4>1. i \in a[k] <=> i \in b[k]  BY <1>15, <3>3 DEF Turned
      <4>2. i \in t[k] <=> i \notin a[k]  BY <1>9, <1>13, <2>1
      <4> QED BY <4>1, <4>2
    <3>5. ASSUME NEW j \in 0 .. 7
          PROVE  /\ 8 * k - 1 - j \notin H \cup {p} => (j \in t[k] <=> j \in b[k])
                 /\ 8 * k - 1 - j \in H \cup {p}    => (j \in t[k] <=> j \notin b[k])
      <4>1. CASE j = i  BY <3>3, <3>4, <4>1
      <4>2. CASE j # i  BY <1>15, <3>2, <4>2 DEF Turned
      <4> QED BY <4>1, <4>2
    <3> QED BY <3>5 DEF Turned
  <2>2. CASE k # q + 1
    <3>1. \A j \in 0 .. 7 : 8 * k - 1 - j # p  BY <1>2, <2>2
    <3>2. t[k] = a[k]  BY <1>13, <2>2
    <3> QED BY <1>15, <3>1, <3>2 DEF Turned
  <2> QED BY <2>1, <2>2
<1> QED BY <1>1, <1>14, <1>15

\* Two octets as a word.
LEMMA PairBits ==
    ASSUME NEW buf \in Seq(Octet), NEW a \in Nat, a + 2 <= Len(buf),
           NEW from, from = a + 1, NEW to, to = a + 2, NEW w, w = Join(SubSeq(buf, from, to))
    PROVE  /\ w \in SUBSET (0 .. 15)
           /\ \A j \in 0 .. 7 : j + 8 \in w <=> j \in buf[a + 1]
           /\ \A j \in 0 .. 7 : j \in w <=> j \in buf[a + 2]
<1>1. PICK n \in Nat : n = Len(buf)  OBVIOUS
<1>2. PICK v : v = SubSeq(buf, from, to)  OBVIOUS
<1>3. PICK o, p : o = buf[a + 1] /\ p = buf[a + 2]  OBVIOUS
<1>4. a + 1 \in 1 .. n /\ a + 2 \in 1 .. n  BY <1>1
<1>5. o \in Octet /\ p \in Octet  BY <1>1, <1>3, <1>4
<1>6. v[1] = o /\ v[2] = p /\ Len(v) = 2
  <2>1. v = [k \in 1 .. (a + 2) - (a + 1) + 1 |-> buf[k + (a + 1) - 1]]  BY <1>2
  <2>2. (a + 2) - (a + 1) + 1 = 2  OBVIOUS
  <2>3. v = [k \in 1 .. 2 |-> buf[k + (a + 1) - 1]]  BY <2>1, <2>2
  <2>4. 1 + (a + 1) - 1 = a + 1 /\ 2 + (a + 1) - 1 = a + 2  OBVIOUS
  <2>5. v[1] = buf[a + 1] /\ v[2] = buf[a + 2]  BY <2>3, <2>4
  <2>6. Len(v) = 2  BY <2>3
  <2> QED BY <1>3, <2>5, <2>6
<1>7. \A x : x \in Shl(o, 8) <=> \E i \in o : x = i + 8  BY DEF Shl
<1>8. \A x : x \in Shl(p, 0) <=> \E i \in p : x = i + 0  BY DEF Shl
<1>9. o \subseteq 0 .. 7 /\ p \subseteq 0 .. 7  BY <1>5 DEF Octet
<1>10. \A x : x \in w <=> x \in Shl(o, 8) \/ x \in Shl(p, 0)
  <2>1. w = UNION {Shl(v[k], 8 * (2 - k)) : k \in 1 .. 2}  BY <1>2, <1>6 DEF Join
  <2>2. 8 * (2 - 1) = 8 /\ 8 * (2 - 2) = 0  OBVIOUS
  <2>3. \A k \in 1 .. 2 : k = 1 \/ k = 2  OBVIOUS
  <2>4. Shl(v[1], 8 * (2 - 1)) = Shl(o, 8) /\ Shl(v[2], 8 * (2 - 2)) = Shl(p, 0)
    BY <1>6, <2>2
  <2>5. 1 \in 1 .. 2 /\ 2 \in 1 .. 2  OBVIOUS
  <2> QED BY <2>1, <2>3, <2>4, <2>5
<1>11. \A i \in 0 .. 7 : i + 8 \in w <=> i \in o
  <2>1. \A i \in 0 .. 7 : i + 8 \notin Shl(p, 0)  BY <1>8, <1>9
  <2>2. \A i \in 0 .. 7 : i + 8 \in Shl(o, 8) <=> i \in o  BY <1>7, <1>9
  <2> QED BY <1>10, <2>1, <2>2
<1>12. \A i \in 0 .. 7 : i \in w <=> i \in p
  <2>1. \A i \in 0 .. 7 : i \notin Shl(o, 8)  BY <1>7, <1>9
  <2>2. \A i \in 0 .. 7 : i \in Shl(p, 0) <=> i \in p  BY <1>8, <1>9
  <2> QED BY <1>10, <2>1, <2>2
<1>13. \A x \in w : x \in 0 .. 15
  <2>1. \A x \in Shl(o, 8) : x \in 0 .. 15  BY <1>7, <1>9
  <2>2. \A x \in Shl(p, 0) : x \in 0 .. 15  BY <1>8, <1>9
  <2> QED BY <1>10, <2>1, <2>2
<1> QED BY <1>3, <1>11, <1>12, <1>13

\* Bit c - r on the way is bit r of a word.
TurnedWord(w, v, H, c) ==
    /\ w \in SUBSET (0 .. 15) /\ v \in SUBSET (0 .. 15) /\ c \in Nat
    /\ \A r \in 0 .. 15 : /\ c - r \notin H => (r \in w <=> r \in v)
                          /\ c - r \in H    => (r \in w <=> r \notin v)

LEMMA PairTurned ==
    ASSUME NEW a \in Seq(Octet), NEW b \in Seq(Octet), NEW at \in Nat,
           at + 2 <= Len(a), at + 2 <= Len(b), NEW H,
           Turned(a, b, H, at + 1), Turned(a, b, H, at + 2),
           NEW from, from = at + 1, NEW to, to = at + 2, NEW c, c = 8 * at + 15
    PROVE  TurnedWord(Join(SubSeq(a, from, to)), Join(SubSeq(b, from, to)), H, c)
<1>1. PICK w, v : w = Join(SubSeq(a, from, to)) /\ v = Join(SubSeq(b, from, to))  OBVIOUS
<1>2. /\ w \in SUBSET (0 .. 15)
      /\ \A j \in 0 .. 7 : j + 8 \in w <=> j \in a[at + 1]
      /\ \A j \in 0 .. 7 : j \in w <=> j \in a[at + 2]
  BY <1>1, PairBits
<1>3. /\ v \in SUBSET (0 .. 15)
      /\ \A j \in 0 .. 7 : j + 8 \in v <=> j \in b[at + 1]
      /\ \A j \in 0 .. 7 : j \in v <=> j \in b[at + 2]
  BY <1>1, PairBits
<1>4. ASSUME NEW r \in 0 .. 15
      PROVE  /\ c - r \notin H => (r \in w <=> r \in v)
             /\ c - r \in H    => (r \in w <=> r \notin v)
  <2>1. CASE r \in 0 .. 7
    <3>1. 8 * (at + 2) - 1 - r = c - r  OBVIOUS
    <3> QED BY <1>2, <1>3, <2>1, <3>1 DEF Turned
  <2>2. CASE r \notin 0 .. 7
    <3>1. PICK j \in 0 .. 7 : j + 8 = r  BY <2>2
    <3>2. 8 * (at + 1) - 1 - j = c - r  BY <3>1
    <3> QED BY <1>2, <1>3, <3>1, <3>2 DEF Turned
  <2> QED BY <2>1, <2>2
<1>5. c \in Nat  OBVIOUS
<1> QED BY <1>1, <1>2, <1>3, <1>4, <1>5 DEF TurnedWord

\* A field has its value when and only when none of its bits is harmed.
LEMMA FieldHit ==
    ASSUME NEW w, NEW v, NEW H, NEW c, TurnedWord(w, v, H, c),
           NEW m \in Nat, NEW n \in Nat, m + n <= 16,
           NEW lo, lo = c - m - n + 1, NEW hi, hi = c - m,
           NEW x, x = Low(Shr(w, m), n), NEW y, y = Low(Shr(v, m), n)
    PROVE  x = y <=> H \cap lo .. hi = {}
<1>1. /\ w \in SUBSET (0 .. 15) /\ v \in SUBSET (0 .. 15) /\ c \in Nat
      /\ \A r \in 0 .. 15 : /\ c - r \notin H => (r \in w <=> r \in v)
                            /\ c - r \in H    => (r \in w <=> r \notin v)
  BY DEF TurnedWord
<1>2. \A r : r \in x <=> r \in 0 .. n - 1 /\ r + m \in w  BY <1>1, Cut
<1>3. \A r : r \in y <=> r \in 0 .. n - 1 /\ r + m \in v  BY <1>1, Cut
<1>4. ASSUME x = y, NEW p \in H, p \in lo .. hi PROVE FALSE
  <2>1. PICK r \in 0 .. n - 1 : p = c - (r + m)
    <3>1. (hi - p) \in 0 .. n - 1 /\ p = c - ((hi - p) + m)  BY <1>1, <1>4
    <3> QED BY <3>1
  <2>2. r + m \in 0 .. 15  OBVIOUS
  <2>3. r + m \in w <=> r + m \notin v  BY <1>1, <1>4, <2>1, <2>2
  <2> QED BY <1>2, <1>3, <1>4, <2>3
<1>5. ASSUME H \cap lo .. hi = {} PROVE x = y
  <2>1. ASSUME NEW r \in 0 .. n - 1 PROVE r + m \in w <=> r + m \in v
    <3>1. r + m \in 0 .. 15 /\ c - (r + m) \in lo .. hi  BY <1>1
    <3>2. c - (r + m) \notin H  BY <1>5, <3>1
    <3> QED BY <1>1, <3>1, <3>2
  <2>2. \A r : r \in x <=> r \in y  BY <1>2, <1>3, <2>1
  <2> QED BY <2>2
<1> QED BY <1>4, <1>5

-----------------------------------------------------------------------------
(* What the ground builds *)

Total(c) == TC_MIN_PACKET_LEN + Len(c.app)

LEMMA RequestFields ==
    ASSUME NEW c \in Commands
    PROVE  /\ c.app \in Seq(Octet) /\ Len(c.app) \in Nat /\ c.seq \in 0 .. SeqCounts - 1
           /\ c.ack \in SUBSET (0 .. 3)
           /\ c.service \in Nat /\ c.service < 256 /\ c.subtype \in Nat /\ c.subtype < 256
           /\ Total(c) \in 13 .. 256
<1>1. c \in Request /\ TC_MIN_PACKET_LEN + Len(c.app) <= TC_MAX_PACKET_LEN
  BY TcLinkAssumption, Zenon
<1>2. PICK A : A = Seq(Octet)  OBVIOUS
<1>3. PICK N : N = 0 .. SeqCounts - 1  OBVIOUS
<1>4. PICK F, O, S : F = SUBSET (0 .. 3) /\ O = 0 .. 2 ^ 8 - 1 /\ S = 0 .. 2 ^ 16 - 1  OBVIOUS
<1>5. c \in [seq : N, ack : F, service : O, subtype : O, source : S, app : A]
  BY <1>1, <1>2, <1>3, <1>4, Zenon DEF Request
<1>6. c.app \in A /\ c.seq \in N /\ c.ack \in F /\ c.service \in O /\ c.subtype \in O  BY <1>5
<1>7. \A x \in O : x \in Nat /\ x < 256
  <2>1. 2 ^ 8 - 1 = 255  BY Powers
  <2>2. O = 0 .. 255  BY <1>4, <2>1
  <2> QED BY <2>2
<1>8. Len(c.app) \in Nat  BY <1>2, <1>6
<1>9. Total(c) \in 13 .. 256
  <2>1. PICK l \in Nat : l = Len(c.app)  BY <1>8
  <2>2. TC_MIN_PACKET_LEN + l <= TC_MAX_PACKET_LEN /\ Total(c) = TC_MIN_PACKET_LEN + l
    BY <1>1, <2>1 DEF Total
  <2> QED BY <2>2 DEF TC_MIN_PACKET_LEN, TC_MAX_PACKET_LEN, CCSDS_PRI_HDR_LEN,
                            PUS_TC_SEC_HDR_LEN, TC_PEC_LEN
<1> QED BY <1>2, <1>3, <1>4, <1>6, <1>7, <1>8, <1>9

\* The PUS version goes into the upper half of the seventh octet.
LEMMA VersionOctet ==
    ASSUME NEW ack \in SUBSET (0 .. 3), NEW x, x = Shl(Word(PUS_TC_VERSION), 4) \cup Low(ack, 4)
    PROVE  x \in Octet /\ Shr(x, 4) = Word(PUS_TC_VERSION)
<1>1. Word(2) = {1}
  <2>1. Word(2) \in Octet
    <3>1. PICK two \in Nat : two = 2 /\ two < 256  OBVIOUS
    <3> QED BY <3>1, OctetWord
  <2>2. 1 \in Word(2) /\ \A i \in {0, 2, 3, 4, 5, 6, 7} : i \notin Word(2)
    <3>1. 0 \notin Word(2) /\ 1 \in Word(2) /\ 2 \notin Word(2) /\ 3 \notin Word(2)
      BY BitWord, Powers
    <3>2. 4 \notin Word(2) /\ 5 \notin Word(2) /\ 6 \notin Word(2) /\ 7 \notin Word(2)
      BY BitWord, Powers
    <3> QED BY <3>1, <3>2
  <2>3. \A i \in 0 .. 7 : i = 1 \/ i \in {0, 2, 3, 4, 5, 6, 7}  OBVIOUS
  <2>4. \A i : i \in Word(2) <=> i = 1  BY <2>1, <2>2, <2>3 DEF Octet
  <2> QED BY <2>4
<1>2. PICK one : one = {1}  OBVIOUS
<1>3. Word(PUS_TC_VERSION) = one  BY <1>1, <1>2 DEF PUS_TC_VERSION
<1>4. \A y : y \in Shl(one, 4) <=> y = 5  BY <1>2, SMT DEF Shl
<1>5. \A y : y \in Low(ack, 4) <=> y \in ack
  <2>1. 4 - 1 = 3  OBVIOUS
  <2> QED BY <2>1 DEF Low
<1>6. \A y : y \in x <=> y = 5 \/ y \in ack  BY <1>3, <1>4, <1>5
<1>7. \A y \in ack : y \in 0 .. 3  OBVIOUS
<1>8. x \in Octet
  <2>2. 5 \in 0 .. 7 /\ \A y \in 0 .. 3 : y \in 0 .. 7  OBVIOUS
  <2>1. \A y \in x : y \in 0 .. 7  BY <1>6, <1>7, <2>2, Zenon
  <2> QED BY <2>1 DEF Octet
<1>9. \A y : y \in Shr(x, 4) <=> \E j \in x : j >= 4 /\ y = j - 4  BY DEF Shr
<1>10. \A y : y \in Shr(x, 4) <=> y = 1
  <2>1. \A j \in 0 .. 3 : ~(j >= 4)  OBVIOUS
  <2>2. 5 >= 4 /\ 5 - 4 = 1  OBVIOUS
  <2> QED BY <1>6, <1>7, <1>9, <2>1, <2>2
<1>11. Shr(x, 4) = one  BY <1>2, <1>10
<1> QED BY <1>3, <1>8, <1>11

\* What tc_build makes of a command.
Built(b, c) ==
    /\ b \in Seq(Octet) /\ Len(b) = Total(c) /\ ~Fails(b).CRC
    /\ HasHeader(b, Header(1, CCSDS_APID_CMD, c.seq, Total(c)))
    /\ Shr(b[7], 4) = Word(PUS_TC_VERSION)
    /\ b[8] = Word(c.service) /\ b[9] = Word(c.subtype)

LEMMA SixThree ==
    ASSUME NEW a \in Seq(Octet), NEW m \in Seq(Octet), NEW head, Follows(head, a, m)
    PROVE  Len(a) = 6 /\ Len(m) = 3 =>
           /\ head \in Seq(Octet) /\ Len(head) = 9 /\ \A k \in 1 .. 6 : head[k] = a[k]
           /\ head[7] = m[1] /\ head[8] = m[2] /\ head[9] = m[3]
<1>1. head \in Seq(Octet) /\ Len(head) = Len(a) + Len(m)  BY Behind
<1>2. \A k \in 1 .. Len(a) : head[k] = a[k]  BY Behind
<1>8. \A k \in 1 .. Len(m) : head[Len(a) + k] = m[k]  BY Behind
<1> HAVE Len(a) = 6 /\ Len(m) = 3
<1>3. Len(head) = 9  BY <1>1
<1>4. \A k \in 1 .. 6 : head[k] = a[k]  BY <1>2
<1>5. \A k \in 1 .. 3 : head[6 + k] = m[k]  BY <1>8
<1>6. 1 \in 1 .. 3 /\ 2 \in 1 .. 3 /\ 3 \in 1 .. 3 /\ 6 + 1 = 7 /\ 6 + 2 = 8 /\ 6 + 3 = 9
  OBVIOUS
<1>7. head[7] = m[1] /\ head[8] = m[2] /\ head[9] = m[3]
  <2>1. head[6 + 1] = m[1] /\ head[6 + 2] = m[2] /\ head[6 + 3] = m[3]  BY <1>5, <1>6
  <2> QED BY <1>6, <2>1
<1> QED BY <1>1, <1>3, <1>4, <1>7

LEMMA BuildIs == ASSUME NEW c \in Commands, NEW b, b = tc_build(c) PROVE Built(b, c)
<1>1. /\ c.app \in Seq(Octet) /\ Len(c.app) \in Nat /\ c.ack \in SUBSET (0 .. 3)
      /\ c.service \in Nat /\ c.service < 256 /\ c.subtype \in Nat /\ c.subtype < 256
      /\ Total(c) \in 13 .. 256
  BY RequestFields
<1>2. PICK total : total = Total(c)  OBVIOUS
<1>3. PICK h : h = Header(1, CCSDS_APID_CMD, c.seq, total)  OBVIOUS
<1>4. PICK a : a = ccsds_pack_primary(h)  OBVIOUS
<1>5. PICK x, y, z : x = Shl(Word(PUS_TC_VERSION), 4) \cup Low(c.ack, 4)
                     /\ y = Word(c.service) /\ z = Word(c.subtype)
  OBVIOUS
<1>6. PICK s : s = <<x, y, z>>  OBVIOUS
<1>7. PICK two \in Nat : two = 2  OBVIOUS
<1>8. PICK o : o = Octets(Word(c.source), two)  OBVIOUS
<1>9. PICK head : head = a \o s  OBVIOUS
<1>10. PICK front : front = head \o o  OBVIOUS
<1>11. PICK body : body = front \o c.app  OBVIOUS
<1>12. b = Sealed(body)
  <2>0. total \in 13 .. 256  BY <1>1, <1>2
  <2>1. ~(total > TC_MAX_PACKET_LEN)  BY <2>0 DEF TC_MAX_PACKET_LEN
  <2>2. b = Sealed(ccsds_pack_primary(Header(1, CCSDS_APID_CMD, c.seq, total))
                   \o <<Shl(Word(PUS_TC_VERSION), 4) \cup Low(c.ack, 4),
                        Word(c.service), Word(c.subtype)>>
                   \o Octets(Word(c.source), 2) \o c.app)
    BY <1>2, <2>1 DEF tc_build, Total
  <2> QED BY <1>3, <1>4, <1>5, <1>6, <1>7, <1>8, <1>9, <1>10, <1>11, <2>2
<1>13. a \in Seq(Octet) /\ Len(a) = 6 /\ HasHeader(a, h)  BY <1>4, HeaderHeld
<1>14. s \in Seq(Octet) /\ Len(s) = 3 /\ s[1] = x /\ s[2] = y /\ s[3] = z
  <2>1. x \in Octet  BY <1>1, <1>5, VersionOctet
  <2>2. y \in Octet /\ z \in Octet  BY <1>1, <1>5, OctetWord
  <2> QED BY <1>6, <2>1, <2>2
<1>15. o \in Seq(Octet) /\ Len(o) = two  BY <1>8, OctetsSeq
<1>16. /\ head \in Seq(Octet) /\ Len(head) = 9 /\ \A k \in 1 .. 6 : head[k] = a[k]
       /\ head[7] = x /\ head[8] = y /\ head[9] = z
  <2>1. Follows(head, a, s)  BY <1>9 DEF Follows
  <2>2. PICK m : m = s  OBVIOUS
  <2>3. a \in Seq(Octet) /\ m \in Seq(Octet) /\ Len(a) = 6 /\ Len(m) = 3 /\ Follows(head, a, m)
    BY <1>13, <1>14, <2>1, <2>2
  <2>4. /\ head \in Seq(Octet) /\ Len(head) = 9 /\ \A k \in 1 .. 6 : head[k] = a[k]
        /\ head[7] = m[1] /\ head[8] = m[2] /\ head[9] = m[3]
    BY <2>3, SixThree
  <2> QED BY <1>14, <2>2, <2>4
<1>17. /\ front \in Seq(Octet) /\ Len(front) = 9 + two /\ \A k \in 1 .. 9 : front[k] = head[k]
  <2>1. Follows(front, head, o)  BY <1>10 DEF Follows
  <2>2. head \in Seq(Octet) /\ o \in Seq(Octet)  BY <1>15, <1>16
  <2>3. /\ front \in Seq(Octet) /\ Len(front) = Len(head) + Len(o)
        /\ \A k \in 1 .. Len(head) : front[k] = head[k]
    BY <2>1, <2>2, Behind
  <2> QED BY <1>15, <1>16, <2>3
<1>18. /\ body \in Seq(Octet) /\ Len(body) = 11 + Len(c.app) /\ \A k \in 1 .. 9 : body[k] = front[k]
  <2>1. Follows(body, front, c.app)  BY <1>11 DEF Follows
  <2>2. front \in Seq(Octet) /\ c.app \in Seq(Octet)  BY <1>1, <1>17
  <2>3. /\ body \in Seq(Octet) /\ Len(body) = Len(front) + Len(c.app)
        /\ \A k \in 1 .. Len(front) : body[k] = front[k]
    BY <2>1, <2>2, Behind
  <2>4. Len(front) = 11 /\ \A k \in 1 .. 9 : k \in 1 .. 11  BY <1>7, <1>17
  <2> QED BY <2>3, <2>4
<1>19. b \in Seq(Octet) /\ ~Fails(b).CRC  BY <1>12, <1>18, SealPasses
<1>20. Len(b) = Len(body) + 2 /\ \A k \in 1 .. Len(body) : b[k] = body[k]
  <2>1. Listed(body)  BY <1>18 DEF Listed
  <2> QED BY <1>12, <2>1, SealedIs
<1>21. Len(b) = total
  <2>1. PICK l \in Nat : l = Len(c.app)  BY <1>1
  <2> QED BY <1>2, <1>18, <1>20, <2>1 DEF Total, TC_MIN_PACKET_LEN, CCSDS_PRI_HDR_LEN,
                                          PUS_TC_SEC_HDR_LEN, TC_PEC_LEN
<1>22. \A k \in 1 .. 9 : b[k] = head[k]
  <2>1. \A k \in 1 .. 9 : k \in 1 .. Len(body)  BY <1>1, <1>18
  <2> QED BY <1>17, <1>18, <1>20, <2>1
<1>23. HasHeader(b, h)
  <2>1. \A k \in 1 .. 6 : k \in 1 .. 9  OBVIOUS
  <2>2. \A k \in 1 .. 6 : b[k] = a[k]  BY <1>16, <1>22, <2>1
  <2>3. \A k \in 1 .. 2 : 0 + k \in 1 .. 6 /\ 2 + k \in 1 .. 6 /\ 4 + k \in 1 .. 6  OBVIOUS
  <2> QED BY <1>13, <2>2, <2>3 DEF HasHeader, Holds
<1>24. b[7] = x /\ b[8] = y /\ b[9] = z
  <2>1. 7 \in 1 .. 9 /\ 8 \in 1 .. 9 /\ 9 \in 1 .. 9  OBVIOUS
  <2> QED BY <1>16, <1>22, <2>1
<1>25. Shr(x, 4) = Word(PUS_TC_VERSION)  BY <1>1, <1>5, VersionOctet
<1> QED BY <1>2, <1>3, <1>5, <1>19, <1>21, <1>23, <1>24, <1>25 DEF Built

\* What ccsds_parse_primary reads in it.
LEMMA BuildReadsBack ==
    ASSUME NEW c \in Commands, NEW b, Built(b, c)
    PROVE  ccsds_parse_primary(b) = Header(1, CCSDS_APID_CMD, c.seq, Total(c))
<1>1. PICK total : total = Total(c)  OBVIOUS
<1>2. PICK h : h = Header(1, CCSDS_APID_CMD, c.seq, total)  OBVIOUS
<1>3. b \in Seq(Octet) /\ HasHeader(b, h) /\ Len(b) = total  BY <1>1, <1>2 DEF Built
<1>4. Len(b) >= 6
  <2>1. total \in 13 .. 256  BY <1>1, RequestFields
  <2> QED BY <1>3, <2>1
<1>5. PICK type \in {0, 1} : type = 1  OBVIOUS
<1>6. PICK apid \in Nat : apid = CCSDS_APID_CMD /\ apid < 2048  BY DEF CCSDS_APID_CMD
<1>7. Word(apid) \in SUBSET (0 .. 10)  BY <1>6, ApidWord
<1>8. c.seq \in 0 .. SeqCounts - 1  BY RequestFields
<1>9. Word(c.seq) \in SUBSET (0 .. 13)  BY <1>8, SeqWord
<1>10. h = Header(type, apid, c.seq, total)  BY <1>2, <1>5, <1>6
<1>11. ccsds_parse_primary(b) = h  BY <1>3, <1>4, <1>7, <1>9, <1>10, HeaderBack
<1> QED BY <1>1, <1>2, <1>11

LEMMA BuildHead ==
    ASSUME NEW c \in Commands, NEW b, b = tc_build(c)
    PROVE  /\ Listed(b) /\ Len(b) >= 6
           /\ \E total : HasHeader(b, Header(1, CCSDS_APID_CMD, c.seq, total))
<1>1. PICK n : n = Total(c)  OBVIOUS
<1>2. n \in 13 .. 256  BY <1>1, RequestFields
<1>3. b \in Seq(Octet) /\ Len(b) = n /\ HasHeader(b, Header(1, CCSDS_APID_CMD, c.seq, n))
  BY <1>1, BuildIs DEF Built
<1>4. Listed(b)  BY <1>3 DEF Listed
<1> QED BY <1>2, <1>3, <1>4

-----------------------------------------------------------------------------
(* The telecommand on the way *)

\* As long as no bit of the first four octets is harmed, what is left of them is what
\* the ground built.
Heads == \A k \in 1 .. 4 : k <= Len(octets) => octets[k] = tc_build(command)[k]

LinkInv ==
    /\ sent \in Seq(Commands)
    /\ Listed(octets)
    /\ dest = <<>> => answers = <<>>
    /\ sent # <<>> /\ ~Hit(0, 31) => Heads
    /\ ReportsNameTheCommand

LEMMA LastSent ==
    ASSUME sent \in Seq(Commands), sent # <<>> PROVE command \in Commands
<1>1. PICK n \in Nat : n = Len(sent)  OBVIOUS
<1>2. n # 0
  <2>1. sent = [k \in 1 .. n |-> sent[k]]  BY <1>1
  <2> QED BY <1>1, <2>1
<1>3. n \in 1 .. Len(sent)  BY <1>1, <1>2
<1> QED BY <1>1, <1>3 DEF command

\* Nothing said, nothing named wrong.
LEMMA NoAnswers == ASSUME answers = <<>> PROVE ReportsNameTheCommand
<1>1. PICK e : e = answers  OBVIOUS
<1>2. Len(e) = 0  BY <1>1
<1>3. 1 .. Len(answers) = {}  BY <1>1, <1>2
<1> QED BY <1>3 DEF ReportsNameTheCommand

LEMMA LinkInvInit == ASSUME LinkInit PROVE LinkInv
<1>1. sent \in Seq(Commands) /\ sent = <<>> /\ answers = <<>>  BY DEF LinkInit
<1>2. octets \in Seq({0})  BY DEF LinkInit
<1> QED BY <1>1, <1>2, NoAnswers DEF LinkInv, Listed

LEMMA UplinkKeeps ==
    ASSUME LinkInv, NEW c \in Commands, Uplink(c) PROVE LinkInv'
<1>1. PICK s : s = sent'  OBVIOUS
<1>2. s = Append(sent, c)  BY <1>1 DEF Uplink
<1>3. sent \in Seq(Commands)  BY DEF LinkInv
<1>4. s \in Seq(Commands) /\ s[Len(s)] = c  BY <1>2, <1>3
<1>5. command' = c  BY <1>1, <1>4 DEF command
<1>6. PICK b : b = tc_build(c)  OBVIOUS
<1>7. octets' = b /\ answers' = <<>>  BY <1>6 DEF Uplink
<1>8. Listed(b)  BY <1>6, BuildHead
<1>9. Heads'  BY <1>5, <1>6, <1>7 DEF Heads
<1>10. ReportsNameTheCommand'
  <2>1. 1 .. Len(answers') = {}
    <3>1. PICK e : e = answers'  OBVIOUS
    <3>2. Len(e) = 0  BY <1>7, <3>1
    <3> QED BY <3>1, <3>2
  <2> QED BY <2>1 DEF ReportsNameTheCommand
<1> QED BY <1>1, <1>4, <1>7, <1>8, <1>9, <1>10 DEF LinkInv, Listed

\* A step on the way: the telecommand stays the same one, nothing is answered, and
\* the first four octets change only when one of their bits is hit.
LEMMA OnTheWay ==
    ASSUME LinkInv, inFlight, UNCHANGED <<sent, dest, answers>>, NEW o, o = octets', Listed(o),
           ~Hit(0, 31)' => /\ ~Hit(0, 31)
                           /\ \A k \in 1 .. 4 : k <= Len(o) => k <= Len(octets) /\ o[k] = octets[k]
    PROVE  LinkInv'
<1>1. command' = command  BY DEF command
<1>2. answers = <<>> /\ answers' = <<>> /\ sent # <<>>  BY DEF LinkInv, inFlight
<1>3. ~Hit(0, 31)' => Heads'
  <2> SUFFICES ASSUME ~Hit(0, 31)' PROVE Heads'  OBVIOUS
  <2>1. Heads  BY <1>2 DEF LinkInv
  <2>2. \A k \in 1 .. 4 : k <= Len(o) => o[k] = tc_build(command)[k]  BY <2>1 DEF Heads
  <2> QED BY <1>1, <2>2 DEF Heads
<1>4. ReportsNameTheCommand'
  <2>1. 1 .. Len(answers') = {}
    <3>1. PICK e : e = answers'  OBVIOUS
    <3>2. Len(e) = 0  BY <1>2, <3>1
    <3> QED BY <3>1, <3>2
  <2> QED BY <2>1 DEF ReportsNameTheCommand
<1>5. Listed(octets')  OBVIOUS
<1>6. sent' \in Seq(Commands)  BY DEF LinkInv
<1> QED BY <1>2, <1>3, <1>4, <1>5, <1>6 DEF LinkInv, Listed

LEMMA MisbuildKeeps ==
    ASSUME LinkInv, NEW p \in HeaderBit, Misbuild(p) PROVE LinkInv'
<1>1. /\ inFlight /\ Whole /\ UNCHANGED <<sent, noise, dest, answers>> /\ wrong' = wrong \cup {p}
  BY DEF Misbuild
<1>2. command \in Commands  BY <1>1, LastSent DEF LinkInv, inFlight
<1>3. command.app \in Seq(Octet)  BY <1>2, RequestFields
<1>4. PICK l \in Nat : l = Len(command.app)  BY <1>3
<1>5. PICK n \in Nat : n = Len(octets) - TC_PEC_LEN /\ n >= 4 /\ n <= Len(octets)
  BY <1>1, <1>4 DEF Whole, TC_MIN_PACKET_LEN, CCSDS_PRI_HDR_LEN, PUS_TC_SEC_HDR_LEN, TC_PEC_LEN
<1>6. PICK b : b = SubSeq(octets, 1, n)  OBVIOUS
<1>7. Listed(octets)  BY DEF LinkInv
<1>8. Listed(b) /\ Len(b) = n /\ \A k \in 1 .. n : b[k] = octets[k]
  BY <1>5, <1>6, <1>7, CutOff, ZenonT(40)
<1>9. p \in Nat  BY DEF HeaderBit
<1>10. PICK t : t = Flip(b, p)  OBVIOUS
<1>11. /\ Listed(t) /\ Len(t) = n
       /\ p \notin 0 .. 31 => \A k \in 1 .. 4 : k <= n => t[k] = b[k]
  <2>1. Listed(b)  BY <1>8
  <2>2. /\ Listed(t) /\ Len(t) = Len(b)
        /\ p \notin 0 .. 31 => \A k \in 1 .. 4 : k <= Len(b) => t[k] = b[k]
    BY <1>9, <1>10, <2>1, Flipped
  <2> QED BY <1>8, <2>2
<1>12. PICK o : o = Sealed(t)  OBVIOUS
<1>13. Listed(o) /\ \A k \in 1 .. n : o[k] = t[k]  BY <1>11, <1>12, SealedIs
<1>14. octets' = o  BY <1>5, <1>6, <1>10, <1>12 DEF Misbuild
<1>15. ASSUME ~Hit(0, 31)'
       PROVE  /\ ~Hit(0, 31)
              /\ \A k \in 1 .. 4 : k <= Len(o) => k <= Len(octets) /\ o[k] = octets[k]
  <2>1. ~Hit(0, 31) /\ p \notin 0 .. 31  BY <1>1, <1>15 DEF Hit, Harmed
  <2>2. \A k \in 1 .. 4 : k \in 1 .. n /\ k <= n /\ k <= Len(octets)  BY <1>5
  <2>3. \A k \in 1 .. 4 : o[k] = octets[k]  BY <1>8, <1>11, <1>13, <2>1, <2>2
  <2> QED BY <2>1, <2>2, <2>3
<1>16. Listed(o)  BY <1>13
<1> QED BY <1>1, <1>14, <1>15, <1>16, OnTheWay

LEMMA DamageKeeps ==
    ASSUME LinkInv, NEW p \in Bit, Damage(p) PROVE LinkInv'
<1>1. inFlight /\ UNCHANGED <<sent, wrong, dest, answers>> /\ noise' = noise \cup {p}
  BY DEF Damage
<1>2. p \in Nat  BY DEF Bit
<1>3. PICK o : o = Flip(octets, p)  OBVIOUS
<1>4. octets' = o  BY <1>3 DEF Damage
<1>5. Listed(octets)  BY DEF LinkInv
<1>6. /\ Listed(o) /\ Len(o) = Len(octets)
      /\ p \notin 0 .. 31 => \A k \in 1 .. 4 : k <= Len(octets) => o[k] = octets[k]
  BY <1>2, <1>3, <1>5, Flipped
<1>7. ASSUME ~Hit(0, 31)'
      PROVE  /\ ~Hit(0, 31)
             /\ \A k \in 1 .. 4 : k <= Len(o) => k <= Len(octets) /\ o[k] = octets[k]
  <2>1. ~Hit(0, 31) /\ p \notin 0 .. 31  BY <1>1, <1>7 DEF Hit, Harmed
  <2> QED BY <1>6, <2>1
<1>8. Listed(o)  BY <1>6
<1> QED BY <1>1, <1>4, <1>7, <1>8, OnTheWay

LEMMA ResizeKeeps ==
    ASSUME LinkInv, NEW n \in 0 .. Len(octets) + 1, Resize(n) PROVE LinkInv'
<1>1. inFlight /\ UNCHANGED <<sent, wrong, noise, dest, answers>> /\ Whole  BY DEF Resize
<1>2. PICK o : o = octets'  OBVIOUS
<1>3. Listed(octets)  BY DEF LinkInv
<1>4. Len(octets) \in Nat  BY <1>3 DEF Listed
<1>5. command \in Commands  BY <1>1, LastSent DEF LinkInv, inFlight
<1>6. Len(octets) >= 4
  <2>1. command.app \in Seq(Octet)  BY <1>5, RequestFields
  <2>2. PICK l \in Nat : l = Len(command.app)  BY <2>1
  <2> QED BY <1>1, <2>2 DEF Whole, TC_MIN_PACKET_LEN, CCSDS_PRI_HDR_LEN, PUS_TC_SEC_HDR_LEN,
                            TC_PEC_LEN
<1>7. Listed(o) /\ \A k \in 1 .. 4 : k <= Len(o) => k <= Len(octets) /\ o[k] = octets[k]
  <2>1. CASE n <= Len(octets)
    <3>0. n \in Nat  BY <1>4
    <3>1. o = SubSeq(octets, 1, n)  BY <1>2, <2>1 DEF Resize
    <3>2. Listed(o) /\ Len(o) = n /\ \A k \in 1 .. n : o[k] = octets[k]
      BY <1>3, <2>1, <3>0, <3>1, CutOff
    <3> QED BY <1>4, <1>6, <2>1, <3>2
  <2>2. CASE ~(n <= Len(octets))
    <3>1. PICK e : e = {}  OBVIOUS
    <3>2. o = Append(octets, e)  BY <1>2, <2>2, <3>1 DEF Resize
    <3>3. PICK S : octets \in Seq(S)  BY <1>3 DEF Listed
    <3>4. octets \in Seq(S \cup {e}) /\ e \in S \cup {e}  BY <3>3
    <3>5. /\ o \in Seq(S \cup {e})
          /\ \A k \in 1 .. Len(octets) : o[k] = octets[k]
      BY <3>2, <3>4
    <3> QED BY <1>4, <1>6, <3>5 DEF Listed
  <2> QED BY <2>1, <2>2
<1>8. ~Hit(0, 31)' => ~Hit(0, 31)  BY <1>1 DEF Hit, Harmed
<1> QED BY <1>1, <1>2, <1>7, <1>8, OnTheWay

\* The router hands on what has a whole header: at least its six octets.
LEMMA Headed ==
    ASSUME NEW buf, Len(buf) \in Nat, Destination(buf, TRUE) = "DISPATCH" PROVE Len(buf) >= 6
<1>1. ASSUME Len(buf) < CCSDS_PRI_HDR_LEN PROVE FALSE
  <2>1. Destination(buf, TRUE) = "DROP"  BY <1>1 DEF Destination
  <2> QED BY <2>1
<1> QED BY <1>1 DEF CCSDS_PRI_HDR_LEN

\* What is quoted of a telecommand whose first four octets are what the ground built.
LEMMA QuotedIs ==
    ASSUME NEW c \in Commands, NEW b, b = tc_build(c),
           NEW buf, Listed(buf), Len(buf) >= 6, \A k \in 1 .. 4 : buf[k] = b[k]
    PROVE  Holds(b, 0, Quoted(buf)[1], 2) /\ Holds(b, 2, Quoted(buf)[2], 2)
<1>1. PICK total : HasHeader(b, Header(1, CCSDS_APID_CMD, c.seq, total))  BY BuildHead
<1>2. PICK h : h = Header(1, CCSDS_APID_CMD, c.seq, total)  OBVIOUS
<1>3. c.seq \in 0 .. SeqCounts - 1  BY RequestFields
<1>4. PICK v : v = FirstWord(h)  OBVIOUS
<1>5. PICK w : w = SecondWord(h)  OBVIOUS
<1>6. v \in SUBSET (0 .. 15) /\ w \in SUBSET (0 .. 15)  BY <1>2, <1>3, <1>4, <1>5, HeaderWords
<1>7. Holds(b, 0, v, 2) /\ Holds(b, 2, w, 2)  BY <1>1, <1>2, <1>4, <1>5 DEF HasHeader
<1>8. PICK two \in Nat : two = 2  OBVIOUS
<1>9. PICK z \in Nat : z = 0  OBVIOUS
<1>10. Holds(buf, z, v, two) /\ Holds(buf, two, w, two)
  <2>1. \A k \in 1 .. 2 : 0 + k \in 1 .. 4 /\ 2 + k \in 1 .. 4  OBVIOUS
  <2>2. Holds(buf, 0, v, 2) /\ Holds(buf, 2, w, 2)  BY <1>7, <2>1 DEF Holds
  <2> QED BY <1>8, <1>9, <2>2
<1>11. PICK one, thr, fou : one = 1 /\ thr = 3 /\ fou = 4  OBVIOUS
<1>12. /\ z + two <= Len(buf) /\ two + two <= Len(buf) /\ 8 * two - 1 = 15
       /\ one = z + 1 /\ two = z + two /\ thr = two + 1 /\ fou = two + two
  <2>1. Len(buf) \in Nat  BY DEF Listed
  <2> QED BY <1>8, <1>9, <1>11, <2>1
<1>13. v \in SUBSET (0 .. 8 * two - 1) /\ w \in SUBSET (0 .. 8 * two - 1)  BY <1>6, <1>12
<1>14. Join(SubSeq(buf, one, two)) = v  BY <1>8, <1>9, <1>10, <1>12, <1>13, FieldBack
<1>15. Join(SubSeq(buf, thr, fou)) = w  BY <1>8, <1>10, <1>12, <1>13, FieldBack
<1>16. Join(SubSeq(buf, 1, 2)) = v /\ Join(SubSeq(buf, 3, 4)) = w
  BY <1>8, <1>11, <1>14, <1>15
<1>17. Quoted(buf)[1] = v /\ Quoted(buf)[2] = w  BY <1>16 DEF Quoted
<1> QED BY <1>7, <1>17

LEMMA SameFour ==
    ASSUME NEW a, Listed(a), Len(a) >= 15, NEW b, Listed(b), Len(b) >= 6, NEW v, NEW w,
           Holds(a, 11, v, 2), Holds(a, 13, w, 2), Holds(b, 0, v, 2), Holds(b, 2, w, 2)
    PROVE  SubSeq(a, 12, 15) = SubSeq(b, 1, 4)
<1>1. PICK S : a \in Seq(S)  BY DEF Listed
<1>2. PICK T : b \in Seq(T)  BY DEF Listed
<1>3. PICK x : x = SubSeq(a, 12, 15)  OBVIOUS
<1>4. PICK y : y = SubSeq(b, 1, 4)  OBVIOUS
<1>5. x = [k \in 1 .. 15 - 12 + 1 |-> a[k + 12 - 1]]  BY <1>1, <1>3
<1>6. y = [k \in 1 .. 4 - 1 + 1 |-> b[k + 1 - 1]]  BY <1>2, <1>4
<1>7. 15 - 12 + 1 = 4 /\ 4 - 1 + 1 = 4  OBVIOUS
<1>8. \A k \in 1 .. 2 : a[11 + k] = b[0 + k]  BY DEF Holds
<1>9. \A k \in 1 .. 2 : a[13 + k] = b[2 + k]  BY DEF Holds
<1>10. ASSUME NEW k \in 1 .. 4 PROVE a[k + 12 - 1] = b[k + 1 - 1]
  <2>1. CASE k \in 1 .. 2
    <3>1. k + 12 - 1 = 11 + k /\ k + 1 - 1 = 0 + k  OBVIOUS
    <3> QED BY <1>8, <2>1, <3>1
  <2>2. CASE k \notin 1 .. 2
    <3>1. PICK j \in 1 .. 2 : j = k - 2  BY <2>2
    <3>2. k + 12 - 1 = 13 + j /\ k + 1 - 1 = 2 + j  BY <3>1
    <3> QED BY <1>9, <3>2
  <2> QED BY <2>1, <2>2
<1>11. /\ x = [k \in 1 .. 4 |-> a[k + 12 - 1]]
       /\ y = [k \in 1 .. 4 |-> b[k + 1 - 1]]
  BY <1>5, <1>6, <1>7
<1>12. x = y  BY <1>10, <1>11
<1> QED BY <1>3, <1>4, <1>12

LEMMA IngestKeeps ==
    ASSUME LinkInv, NEW hook \in Hook, Ingest(hook) PROVE LinkInv'
<1>1. inFlight /\ UNCHANGED <<sent, wrong, noise, octets>> /\ dest' = <<Destination(octets, TRUE)>>
  BY DEF Ingest
<1>2. sent \in Seq(Commands) /\ Listed(octets) /\ sent # <<>> /\ answers = <<>>
      /\ (~Hit(0, 31) => Heads)
  BY <1>1 DEF LinkInv, inFlight
<1>3. command \in Commands  BY <1>2, LastSent
<1>4. command' = command /\ (Hit(0, 31)' <=> Hit(0, 31)) /\ (Heads' <=> Heads)
  BY <1>1 DEF command, Hit, Harmed, Heads
<1>5. dest' # <<>>
  <2>1. PICK d : d = Destination(octets, TRUE)  OBVIOUS
  <2>2. <<d>> # <<>>  OBVIOUS
  <2> QED BY <1>1, <2>1, <2>2
<1>6. ReportsNameTheCommand'
  <2>1. CASE dest' # <<"DISPATCH">>
    <3>1. answers' = <<>>  BY <1>2, <2>1 DEF Ingest
    <3>2. 1 .. Len(answers') = {}
      <4>1. PICK e : e = answers'  OBVIOUS
      <4>2. Len(e) = 0  BY <3>1, <4>1
      <4> QED BY <4>1, <4>2
    <3> QED BY <3>2 DEF ReportsNameTheCommand
  <2>2. CASE dest' = <<"DISPATCH">>
    <3>1. HandleTc(AsSeen(octets), hook)  BY <2>2 DEF Ingest
    <3>2. Len(octets) \in Nat  BY <1>2 DEF Listed
    <3>3. AsSeen(octets) \in Telecommand  BY <3>2, SeenTyped
    <3>4. PICK n \in Nat : /\ Len(out') = n
                           /\ \A i \in 1 .. n : /\ out'[i].kind \in ReportKind
                                                /\ out'[i].code \in FailCode
      BY <3>1, <3>3, KindsSent
    <3>5. PICK quote : quote = Quoted(octets)  OBVIOUS
    <3>6. answers' = [i \in 1 .. n |-> ReportOctets(out'[i], quote)]
      BY <2>2, <3>4, <3>5 DEF Ingest
    <3>7. Len(answers') = n
      <4>1. PICK a : a = answers'  OBVIOUS
      <4>2. a = [i \in 1 .. n |-> a[i]]  BY <3>6, <4>1
      <4>3. a \in Seq({a[i] : i \in 1 .. n}) /\ Len(a) = n  BY <3>4, <4>2
      <4> QED BY <4>1, <4>3
    <3>8. Len(octets) >= 6
      <4>1. PICK d : d = Destination(octets, TRUE)  OBVIOUS
      <4>2. <<d>> = <<"DISPATCH">>  BY <1>1, <2>2, <4>1
      <4>3. d = "DISPATCH"  BY <4>2
      <4> QED BY <3>2, <4>1, <4>3, Headed
    <3>9. PICK b : b = tc_build(command)  OBVIOUS
    <3>10. ASSUME ~Hit(0, 31), NEW i \in 1 .. n, IsVerification(answers'[i])
           PROVE  SubSeq(answers'[i], 12, 15) = SubSeq(b, 1, 4)
      <4>1. \A k \in 1 .. 4 : octets[k] = b[k]
        <5>1. Heads  BY <1>2, <3>10
        <5>2. \A k \in 1 .. 4 : k <= Len(octets)  BY <3>2, <3>8
        <5> QED BY <3>9, <5>1, <5>2 DEF Heads
      <4>2. Holds(b, 0, quote[1], 2) /\ Holds(b, 2, quote[2], 2)
        BY <1>2, <1>3, <3>5, <3>8, <3>9, <4>1, QuotedIs
      <4>3. PICK r : r = out'[i]  OBVIOUS
      <4>4. PICK p : p = answers'[i]  OBVIOUS
      <4>5. r.kind \in ReportKind /\ r.code \in FailCode  BY <3>4, <4>3
      <4>6. p = ReportOctets(r, quote)  BY <3>6, <4>3, <4>4
      <4>7. /\ p \in Seq(Octet) /\ Len(p) >= 15
            /\ Holds(p, 11, quote[1], 2) /\ Holds(p, 13, quote[2], 2)
        <5>1. IsVerification(p)  BY <3>10, <4>4
        <5> QED BY <4>5, <4>6, <5>1, ReportQuotes
      <4>8. Listed(p)  BY <4>7 DEF Listed
      <4>9. Listed(b) /\ Len(b) >= 6  BY <1>3, <3>9, BuildHead
      <4>10. PICK v : v = quote[1]  OBVIOUS
      <4>11. PICK w : w = quote[2]  OBVIOUS
      <4>12. Holds(p, 11, v, 2) /\ Holds(p, 13, w, 2) /\ Holds(b, 0, v, 2) /\ Holds(b, 2, w, 2)
        BY <4>2, <4>7, <4>10, <4>11
      <4>13. SubSeq(p, 12, 15) = SubSeq(b, 1, 4)  BY <4>7, <4>8, <4>9, <4>12, SameFour
      <4> QED BY <4>4, <4>13
    <3> QED BY <1>4, <3>7, <3>9, <3>10 DEF ReportsNameTheCommand
  <2> QED BY <2>1, <2>2
<1>7. sent' \in Seq(Commands) /\ Listed(octets')  BY <1>1, <1>2
<1>8. sent' # <<>> /\ ~Hit(0, 31)' => Heads'  BY <1>2, <1>4
<1> QED BY <1>5, <1>6, <1>7, <1>8 DEF LinkInv

LEMMA LinkInvHolds == LinkSpec => []LinkInv
<1>1. ASSUME LinkInv, LinkNext PROVE LinkInv'
  <2>1. ASSUME NEW c \in Commands, Uplink(c) PROVE LinkInv'  BY <1>1, <2>1, UplinkKeeps
  <2>2. ASSUME NEW p \in HeaderBit, Misbuild(p) PROVE LinkInv'  BY <1>1, <2>2, MisbuildKeeps
  <2>3. ASSUME NEW p \in Bit, Damage(p) PROVE LinkInv'  BY <1>1, <2>3, DamageKeeps
  <2>4. ASSUME NEW n \in 0 .. Len(octets) + 1, Resize(n) PROVE LinkInv'  BY <1>1, <2>4, ResizeKeeps
  <2>5. ASSUME NEW hook \in Hook, Ingest(hook) PROVE LinkInv'  BY <1>1, <2>5, IngestKeeps
  <2> QED BY <1>1, <2>1, <2>2, <2>3, <2>4, <2>5 DEF LinkNext
<1>2. LinkInv /\ UNCHANGED linkVars => LinkInv'
  BY DEF LinkInv, linkVars, command, Hit, Harmed, Heads, ReportsNameTheCommand
<1> QED BY <1>1, <1>2, LinkInvInit, PTL DEF LinkSpec

\* A report names the telecommand it is about by the packet id and the sequence
\* control the ground sent, for any telecommand and any harm done to it behind its
\* fourth octet.
THEOREM ReportsNameIt == LinkSpec => []ReportsNameTheCommand
<1>1. LinkInv => ReportsNameTheCommand  BY DEF LinkInv
<1> QED BY <1>1, LinkInvHolds, PTL

-----------------------------------------------------------------------------
(* What the harm has done *)

\* The first n octets of a, as far as a has them, are those of b with the bits of H
\* turned.
Marks(a, b, H, n) == \A k \in 1 .. n : k <= Len(a) => Turned(a, b, H, k)

LEMMA TurnedNot == ASSUME NEW a, NEW H, H = {}, NEW k PROVE Turned(a, a, H, k)
<1>1. \A j \in 0 .. 7 : 8 * k - 1 - j \notin H  BY Zenon
<1> QED BY <1>1, Zenon DEF Turned

LEMMA TurnedOf ==
    ASSUME NEW a, NEW t, NEW b, NEW H, NEW k, t[k] = a[k], Turned(a, b, H, k)
    PROVE  Turned(t, b, H, k)
BY Zenon DEF Turned

LEMMA Unturned ==
    ASSUME NEW a \in Seq(Octet), NEW b \in Seq(Octet), NEW k \in 1 .. Len(a), Len(b) = Len(a),
           NEW H, \A j \in 0 .. 7 : 8 * k - 1 - j \notin H, Turned(a, b, H, k)
    PROVE  a[k] = b[k]
<1>1. \A j \in 0 .. 7 : j \in a[k] <=> j \in b[k]  BY Zenon DEF Turned
<1>2. a[k] \in Octet /\ b[k] \in Octet  OBVIOUS
<1> QED BY <1>1, <1>2 DEF Octet

\* A bit more is turned.
LEMMA FlipMarks ==
    ASSUME NEW a \in Seq(Octet), NEW p \in 0 .. 8 * Len(a) - 1, NEW t, t = Flip(a, p),
           NEW b, NEW H, p \notin H, NEW n \in Nat, Marks(a, b, H, n)
    PROVE  Marks(t, b, H \cup {p}, n)
<1>1. PICK G : G = H \cup {p}  OBVIOUS
<1>2. Len(t) = Len(a) /\ Len(a) \in Nat  BY FlipTurns
<1>3. ASSUME NEW k \in 1 .. n, k <= Len(t) PROVE Turned(t, b, G, k)
  <2>1. k \in 1 .. Len(a)  BY <1>2, <1>3
  <2>2. Turned(a, b, H, k)  BY <1>2, <1>3 DEF Marks
  <2>3. p \notin H /\ Turned(a, b, H, k) => Turned(t, b, H \cup {p}, k)  BY <2>1, FlipTurns
  <2> QED BY <1>1, <2>2, <2>3
<1> QED BY <1>1, <1>3 DEF Marks

\* The same of what has the same octets.
LEMMA MarksOf ==
    ASSUME NEW a, NEW t, NEW b, NEW H, NEW n,
           \A k \in 1 .. n : k <= Len(t) => k <= Len(a) /\ t[k] = a[k], Marks(a, b, H, n)
    PROVE  Marks(t, b, H, n)
<1>1. ASSUME NEW k \in 1 .. n, k <= Len(t) PROVE Turned(t, b, H, k)
  <2>1. k <= Len(a) /\ t[k] = a[k]  BY <1>1
  <2>2. Turned(a, b, H, k)  BY <2>1 DEF Marks
  <2> QED BY <2>1, <2>2, TurnedOf
<1> QED BY <1>1 DEF Marks

-----------------------------------------------------------------------------
(* The telecommand under way *)

\* A packet that passed the check and is buf but for the bits of noise.
Clean(buf, s) ==
    /\ s \in Seq(Octet) /\ Len(s) = Len(buf) /\ ~Fails(s).CRC
    /\ Marks(buf, s, noise, Len(buf))

\* Up to the checksum the octets are those of tc_build but for the bits harmed, and
\* a whole packet is but for its noise one that was sealed.
Carried ==
    /\ octets \in Seq(Octet)
    /\ wrong \subseteq HeaderBit
    /\ ~Whole => wrong = {}
    /\ Whole => noise \subseteq Bit
    /\ IsFiniteSet(Harmed) /\ Harms <= MaxHarm
    /\ Marks(octets, tc_build(command), Harmed, Total(command) - TC_PEC_LEN)
    /\ Whole => \E s : Clean(octets, s)

\* Damage the checks of length and checksum do not see.
Missed ==
    /\ Len(octets) >= TC_MIN_PACKET_LEN /\ noise # {}
    /\ ~Fails(octets).LENGTH /\ ~Fails(octets).CRC

WayInv ==
    /\ connTests \in Nat
    /\ sent # <<>> => Carried
    /\ dest # <<>> => sent # <<>>
    /\ dest = <<"DISPATCH">> => Missed \/ RefusedForItsCause

LEMMA WayInvInit == ASSUME LinkInit PROVE WayInv
<1>1. connTests = 0 /\ sent = <<>>  BY DEF LinkInit, PathInit
<1>2. dest = <<>> /\ dest # <<"DISPATCH">>
  <2>1. dest = <<>>  BY DEF LinkInit
  <2>2. PICK d : d = "DISPATCH"  OBVIOUS
  <2>3. <<>> # <<d>>  OBVIOUS
  <2> QED BY <2>1, <2>2, <2>3
<1> QED BY <1>1, <1>2 DEF WayInv

\* Until it is ingested there is nothing to judge.
LEMMA NotYet == ASSUME dest' = <<>>, (sent # <<>> => Carried)', connTests' \in Nat PROVE WayInv'
<1>1. PICK d : d = "DISPATCH"  OBVIOUS
<1>2. <<>> # <<d>>  OBVIOUS
<1> QED BY <1>1, <1>2 DEF WayInv

LEMMA UplinkCarries ==
    ASSUME LinkInv, WayInv, NEW c \in Commands, Uplink(c) PROVE WayInv'
<1>1. PICK s : s = sent'  OBVIOUS
<1>2. s = Append(sent, c)  BY <1>1 DEF Uplink
<1>3. sent \in Seq(Commands)  BY DEF LinkInv
<1>4. s \in Seq(Commands) /\ s[Len(s)] = c  BY <1>2, <1>3
<1>5. command' = c  BY <1>1, <1>4 DEF command
<1>6. PICK b : b = tc_build(c)  OBVIOUS
<1>7. octets' = b /\ wrong' = {} /\ noise' = {} /\ dest' = <<>>  BY <1>6 DEF Uplink
<1>8. b \in Seq(Octet) /\ Len(b) = Total(c) /\ ~Fails(b).CRC  BY <1>6, BuildIs DEF Built
<1>9. Whole'  BY <1>5, <1>7, <1>8 DEF Whole, Total
<1>10. Harmed' = {}  BY <1>7 DEF Harmed
<1>11. IsFiniteSet({}) /\ Cardinality({}) = 0  BY FS_EmptySet
<1>12. Harms' <= MaxHarm
  <2>1. Harms' = 0 + 0  BY <1>9, <1>10, <1>11 DEF Harms
  <2> QED BY <2>1, TcLinkAssumption
<1>13. PICK e : e = {}  OBVIOUS
<1>14. \A n : Marks(b, b, e, n)  BY <1>13, TurnedNot DEF Marks
<1>15. Marks(octets, tc_build(command), Harmed, Total(command) - TC_PEC_LEN)'
  BY <1>5, <1>6, <1>7, <1>10, <1>13, <1>14
<1>16. Clean(octets, b)'  BY <1>7, <1>8, <1>13, <1>14 DEF Clean
<1>17. connTests' \in Nat  BY DEF Uplink, pathVars, WayInv
<1>18. Carried'  BY <1>7, <1>8, <1>9, <1>10, <1>11, <1>12, <1>15, <1>16 DEF Carried
<1> QED BY <1>7, <1>17, <1>18, NotYet

\* One bit more.
LEMMA OneHarmMore ==
    ASSUME IsFiniteSet(Harmed), Harms < MaxHarm, NEW p, p \notin Harmed,
           Harmed' = Harmed \cup {p}, Whole' <=> Whole
    PROVE  IsFiniteSet(Harmed') /\ Harms' <= MaxHarm
<1>1. /\ IsFiniteSet(Harmed \cup {p}) /\ Cardinality(Harmed \cup {p}) = Cardinality(Harmed) + 1
      /\ Cardinality(Harmed) \in Nat
  BY FS_AddElement, FS_CardinalityType
<1>2. MaxHarm \in Nat  BY TcLinkAssumption
<1>3. PICK n \in Nat : n = Cardinality(Harmed)  BY <1>1
<1>4. CASE Whole
  <2>1. Harms = n + 0 /\ Harms' = (n + 1) + 0  BY <1>1, <1>3, <1>4 DEF Harms
  <2> QED BY <1>1, <1>2, <2>1
<1>5. CASE ~Whole
  <2>1. Harms = n + 1 /\ Harms' = (n + 1) + 1  BY <1>1, <1>3, <1>5 DEF Harms
  <2> QED BY <1>1, <1>2, <2>1
<1> QED BY <1>4, <1>5

LEMMA DamageCarries ==
    ASSUME LinkInv, WayInv, NEW p \in Bit, Damage(p) PROVE WayInv'
<1>1. /\ inFlight /\ UNCHANGED <<pathVars, sent, wrong, dest, answers>>
      /\ noise' = noise \cup {p} /\ p \notin Harmed /\ Harms < MaxHarm
      /\ octets' = Flip(octets, p)
  BY DEF Damage
<1>2. Carried /\ dest' = <<>> /\ connTests' \in Nat  BY <1>1 DEF WayInv, inFlight, pathVars
<1>3. octets \in Seq(Octet)  BY <1>2 DEF Carried
<1>4. PICK a : a = octets  OBVIOUS
<1>5. PICK t : t = Flip(a, p)  OBVIOUS
<1>6. a \in Seq(Octet) /\ octets' = t /\ p \in 0 .. 8 * Len(a) - 1
  BY <1>1, <1>3, <1>4, <1>5 DEF Bit
<1>7. t \in Seq(Octet) /\ Len(t) = Len(a)  BY <1>5, <1>6, FlipTurns
<1>8. command' = command  BY <1>1 DEF command
<1>9. Whole' <=> Whole  BY <1>4, <1>6, <1>7, <1>8 DEF Whole
<1>10. Harmed' = Harmed \cup {p}  BY <1>1 DEF Harmed
<1>11. IsFiniteSet(Harmed') /\ Harms' <= MaxHarm
  BY <1>1, <1>2, <1>9, <1>10, OneHarmMore DEF Carried
<1>12. Marks(octets, tc_build(command), Harmed, Total(command) - TC_PEC_LEN)'
  <2>1. PICK b : b = tc_build(command)  OBVIOUS
  <2>2. PICK n : n = Total(command) - TC_PEC_LEN  OBVIOUS
  <2>3. n \in Nat
    <3>1. command \in Commands  BY <1>1, LastSent DEF LinkInv, inFlight
    <3>2. Total(command) \in 13 .. 256  BY <3>1, RequestFields
    <3> QED BY <2>2, <3>2 DEF TC_PEC_LEN
  <2>4. Marks(a, b, Harmed, n)  BY <1>2, <1>4, <2>1, <2>2 DEF Carried
  <2>5. Marks(t, b, Harmed \cup {p}, n)  BY <1>1, <1>5, <1>6, <2>3, <2>4, FlipMarks
  <2>6. tc_build(command)' = b /\ Total(command)' = Total(command)  BY <1>8, <2>1
  <2> QED BY <1>6, <1>10, <2>2, <2>5, <2>6
<1>13. ASSUME Whole PROVE \E s : Clean(octets, s)'
  <2>1. PICK s : Clean(octets, s)  BY <1>2, <1>13 DEF Carried
  <2>2. PICK n \in Nat : n = Len(a)  BY <1>6
  <2>3. Marks(a, s, noise, n) /\ p \notin noise  BY <1>1, <1>4, <2>1, <2>2 DEF Clean, Harmed
  <2>4. Marks(t, s, noise \cup {p}, n)  BY <1>5, <1>6, <2>3, FlipMarks
  <2>5. Clean(octets, s)'  BY <1>1, <1>4, <1>6, <1>7, <2>1, <2>2, <2>4 DEF Clean
  <2> QED BY <2>5
<1>14. ASSUME Whole PROVE noise' \subseteq Bit'
  <2>1. noise \subseteq Bit  BY <1>2, <1>14 DEF Carried
  <2>2. Bit' = Bit  BY <1>4, <1>6, <1>7 DEF Bit
  <2> QED BY <1>1, <2>1, <2>2
<1>15. wrong' \subseteq HeaderBit /\ (~Whole => wrong' = {})  BY <1>1, <1>2 DEF Carried, HeaderBit
<1>16. Carried'
  BY <1>6, <1>7, <1>9, <1>11, <1>12, <1>13, <1>14, <1>15 DEF Carried, HeaderBit
<1> QED BY <1>2, <1>16, NotYet

\* A cut is one harm; the octets that are left are what they were.
LEMMA ResizeCarries ==
    ASSUME LinkInv, WayInv, NEW n \in 0 .. Len(octets) + 1, Resize(n) PROVE WayInv'
<1>1. /\ inFlight /\ UNCHANGED <<pathVars, sent, wrong, noise, dest, answers>>
      /\ Whole /\ wrong = {} /\ Harms < MaxHarm
  BY DEF Resize
<1>2. Carried /\ dest' = <<>> /\ connTests' \in Nat  BY <1>1 DEF WayInv, inFlight, pathVars
<1>3. PICK a : a = octets  OBVIOUS
<1>4. PICK t : t = octets'  OBVIOUS
<1>5. a \in Seq(Octet) /\ Len(a) \in Nat  BY <1>2, <1>3 DEF Carried
<1>6. command' = command  BY <1>1 DEF command
<1>7. Whole <=> Len(a) = Total(command)  BY <1>3 DEF Whole, Total
<1>8. Whole' <=> Len(t) = Total(command)  BY <1>4, <1>6 DEF Whole, Total
<1>9. command \in Commands  BY <1>1, LastSent DEF LinkInv, inFlight
<1>10. PICK m \in Nat : m = Total(command) - TC_PEC_LEN /\ m < Total(command)
  <2>1. PICK x \in 13 .. 256 : x = Total(command)  BY <1>9, RequestFields
  <2>2. x - TC_PEC_LEN \in Nat /\ x - TC_PEC_LEN < x  BY DEF TC_PEC_LEN
  <2> QED BY <2>1, <2>2
<1>11. /\ t \in Seq(Octet) /\ \A k \in 1 .. m : k <= Len(t) => k <= Len(a) /\ t[k] = a[k]
       /\ Len(t) = Len(a) => t = a
  <2>0. n \in Nat /\ m < Len(a)  BY <1>1, <1>3, <1>5, <1>7, <1>10
  <2>1. CASE n <= Len(a)
    <3>1. t = SubSeq(a, 1, n)  BY <1>3, <1>4, <2>1 DEF Resize
    <3>2. t = [k \in 1 .. n |-> a[k]]  BY <1>5, <2>0, <3>1
    <3>3. \A k \in 1 .. n : a[k] \in Octet  BY <1>5, <2>0, <2>1
    <3>4. t \in Seq(Octet) /\ Len(t) = n /\ \A k \in 1 .. n : t[k] = a[k]  BY <2>0, <3>2, <3>3
    <3>5. ASSUME n = Len(a) PROVE t = a
      <4>1. a = [k \in 1 .. n |-> a[k]]  BY <1>5, <3>5
      <4> QED BY <3>2, <4>1
    <3> QED BY <1>5, <2>0, <2>1, <3>4, <3>5
  <2>2. CASE ~(n <= Len(a))
    <3>1. PICK e : e = {}  OBVIOUS
    <3>2. t = Append(a, e)  BY <1>3, <1>4, <2>2, <3>1 DEF Resize
    <3>3. e \in Octet  BY <3>1 DEF Octet
    <3>4. t \in Seq(Octet) /\ Len(t) = Len(a) + 1 /\ \A k \in 1 .. Len(a) : t[k] = a[k]
      BY <1>5, <3>2, <3>3
    <3> QED BY <1>5, <2>0, <3>4
  <2> QED BY <2>1, <2>2
<1>12. Whole' => octets' = octets  BY <1>1, <1>3, <1>4, <1>7, <1>8, <1>11
<1>13. Harmed' = Harmed  BY <1>1 DEF Harmed
<1>14. Harms' <= MaxHarm
  <2>1. PICK c : c = Cardinality(Harmed)  OBVIOUS
  <2>2. c \in Nat  BY <1>2, <2>1, FS_CardinalityType DEF Carried
  <2>3. Harms = c + 0  BY <1>1, <2>1 DEF Harms
  <2>4. Harms' = c + 0 \/ Harms' = c + 1  BY <1>13, <2>1 DEF Harms
  <2> QED BY <1>1, <2>2, <2>3, <2>4, TcLinkAssumption
<1>15. Marks(octets, tc_build(command), Harmed, Total(command) - TC_PEC_LEN)'
  <2>1. PICK b : b = tc_build(command)  OBVIOUS
  <2>2. Marks(a, b, Harmed, m)  BY <1>2, <1>3, <1>10, <2>1 DEF Carried
  <2>3. Marks(t, b, Harmed, m)  BY <1>11, <2>2, MarksOf
  <2> QED BY <1>4, <1>6, <1>10, <1>13, <2>1, <2>3
<1>16. ASSUME Whole' PROVE \E s : Clean(octets, s)'
  <2>1. PICK s : Clean(octets, s)  BY <1>1, <1>2 DEF Carried
  <2>2. Clean(octets, s)'  BY <1>1, <1>12, <1>16, <2>1 DEF Clean
  <2> QED BY <2>2
<1>17. ASSUME Whole' PROVE noise' \subseteq Bit'
  BY <1>1, <1>2, <1>12, <1>17 DEF Carried, Bit
<1>18. Carried'
  <2>1. IsFiniteSet(Harmed') /\ wrong' \subseteq HeaderBit' /\ wrong' = {}
    BY <1>1, <1>2, <1>13 DEF Carried, HeaderBit
  <2> QED BY <1>4, <1>11, <1>14, <1>15, <1>16, <1>17, <2>1 DEF Carried
<1> QED BY <1>2, <1>18, NotYet

\* What is set wrong is set before the packet is sealed, and it is still whole.
LEMMA MisbuildCarries ==
    ASSUME LinkInv, WayInv, NEW p \in HeaderBit, Misbuild(p) PROVE WayInv'
<1>1. /\ inFlight /\ UNCHANGED <<pathVars, sent, noise, dest, answers>>
      /\ Whole /\ noise = {} /\ p \notin wrong /\ Harms < MaxHarm
      /\ wrong' = wrong \cup {p}
      /\ octets' = Sealed(Flip(SubSeq(octets, 1, Len(octets) - TC_PEC_LEN), p))
  BY DEF Misbuild
<1>2. Carried /\ dest' = <<>> /\ connTests' \in Nat  BY <1>1 DEF WayInv, inFlight, pathVars
<1>3. PICK a : a = octets  OBVIOUS
<1>4. a \in Seq(Octet) /\ Len(a) \in Nat  BY <1>2, <1>3 DEF Carried
<1>5. command' = command  BY <1>1 DEF command
<1>6. command \in Commands  BY <1>1, LastSent DEF LinkInv, inFlight
<1>7. PICK x \in 13 .. 256 : x = Total(command)  BY <1>6, RequestFields
<1>8. Len(a) = x  BY <1>1, <1>3, <1>7 DEF Whole, Total
<1>9. PICK m \in Nat : m = x - TC_PEC_LEN /\ m + 2 = x /\ m >= 11
  <2>1. x - TC_PEC_LEN \in Nat /\ (x - TC_PEC_LEN) + 2 = x /\ x - TC_PEC_LEN >= 11
    BY DEF TC_PEC_LEN
  <2> QED BY <2>1
<1>10. PICK f : f = SubSeq(a, 1, m)  OBVIOUS
<1>11. f \in Seq(Octet) /\ Len(f) = m /\ \A k \in 1 .. m : f[k] = a[k]
  <2>1. f = [k \in 1 .. m |-> a[k]]  BY <1>4, <1>8, <1>9, <1>10
  <2>2. \A k \in 1 .. m : a[k] \in Octet  BY <1>4, <1>8, <1>9
  <2> QED BY <2>1, <2>2
<1>12. PICK g : g = Flip(f, p)  OBVIOUS
<1>13. p \in 0 .. 8 * Len(f) - 1
  <2>1. p \in 0 .. 55  BY DEF HeaderBit
  <2>2. 8 * m - 1 >= 55  BY <1>9
  <2> QED BY <1>9, <1>11, <2>1, <2>2
<1>14. g \in Seq(Octet) /\ Len(g) = m  BY <1>11, <1>12, <1>13, FlipTurns
<1>15. PICK t : t = Sealed(g)  OBVIOUS
<1>16. octets' = t
  <2>1. Len(octets) - TC_PEC_LEN = m  BY <1>3, <1>8, <1>9
  <2> QED BY <1>1, <1>3, <1>10, <1>12, <1>15, <2>1
<1>17. t \in Seq(Octet) /\ ~Fails(t).CRC  BY <1>14, <1>15, SealPasses
<1>18. Len(t) = x /\ \A k \in 1 .. m : t[k] = g[k]
  <2>1. Listed(g)  BY <1>14 DEF Listed
  <2>2. Len(t) = Len(g) + 2 /\ \A k \in 1 .. Len(g) : t[k] = g[k]  BY <1>15, <2>1, SealedIs
  <2> QED BY <1>9, <1>14, <2>2
<1>19. Whole'  BY <1>5, <1>7, <1>16, <1>18 DEF Whole, Total
<1>20. Harmed' = Harmed \cup {p} /\ p \notin Harmed  BY <1>1 DEF Harmed
<1>21. IsFiniteSet(Harmed') /\ Harms' <= MaxHarm
  <2>1. Whole' <=> Whole  BY <1>1, <1>19
  <2> QED BY <1>1, <1>2, <1>20, <2>1, OneHarmMore DEF Carried
<1>22. Marks(octets, tc_build(command), Harmed, Total(command) - TC_PEC_LEN)'
  <2>1. PICK b : b = tc_build(command)  OBVIOUS
  <2>2. Marks(a, b, Harmed, m)  BY <1>2, <1>3, <1>7, <1>9, <2>1 DEF Carried
  <2>3. \A k \in 1 .. m : k <= Len(f) => k <= Len(a) /\ f[k] = a[k]  BY <1>8, <1>9, <1>11
  <2>4. Marks(f, b, Harmed, m)  BY <2>2, <2>3, MarksOf
  <2>5. Marks(g, b, Harmed \cup {p}, m)  BY <1>11, <1>12, <1>13, <1>20, <2>4, FlipMarks
  <2>6. \A k \in 1 .. m : k <= Len(t) => k <= Len(g) /\ t[k] = g[k]  BY <1>14, <1>18
  <2>7. Marks(t, b, Harmed \cup {p}, m)  BY <2>5, <2>6, MarksOf
  <2> QED BY <1>5, <1>7, <1>9, <1>16, <1>20, <2>1, <2>7
<1>23. Clean(octets, t)'
  <2>1. noise' = {}  BY <1>1
  <2>2. \A n : Marks(t, t, noise', n)  BY <2>1, TurnedNot DEF Marks
  <2> QED BY <1>16, <1>17, <2>2 DEF Clean
<1>24. wrong' \subseteq HeaderBit' /\ noise' \subseteq Bit'
  BY <1>1, <1>2 DEF Carried, HeaderBit
<1>25. Carried'  BY <1>16, <1>17, <1>19, <1>21, <1>22, <1>23, <1>24 DEF Carried
<1> QED BY <1>2, <1>25, NotYet

-----------------------------------------------------------------------------
(* What the checks make of it *)

\* The first check that fails gives the code.
LEMMA ParseCode ==
    ASSUME NEW tc \in Telecommand, tc.len \in TcMinLen .. TcMaxLen, NEW k \in 1 .. 5,
           Check[k] \in tc.bad, \A j \in 1 .. k - 1 : Check[j] \notin tc.bad
    PROVE  Parse(tc) = Check[k]
<1>1. /\ tc.len \in Nat /\ TcMinLen \in Nat /\ TcMaxLen \in Nat
      /\ tc.bad \in SUBSET {Check[i] : i \in 1 .. Len(Check)}
  BY CommandPathAssumption DEF Telecommand
<1> DEFINE first(i) == Check[i] \in tc.bad /\ \A j \in 1 .. i - 1 : Check[j] \notin tc.bad
           d        == CHOOSE i \in 1 .. Len(Check) : first(i)
<1>2. Parse(tc) = Check[d]  BY <1>1 DEF Parse
<1>3. Len(Check) = 5  BY DEF Check
<1>4. d \in 1 .. 5 /\ first(d)  BY <1>3, Zenon
<1>5. first(k)  OBVIOUS
<1> HIDE DEF d
<1>6. d = k
  <2>1. CASE d < k
    <3>1. d \in 1 .. k - 1  BY <1>4, <2>1
    <3> QED BY <1>4, <1>5, <3>1
  <2>2. CASE k < d
    <3>1. k \in 1 .. d - 1  BY <1>4, <2>2
    <3> QED BY <1>4, <1>5, <3>1
  <2> QED BY <1>4, <2>1, <2>2
<1> QED BY <1>2, <1>6

\* The reports a telecommand is answered with say one of codes, or no refusal.
Tells(tc, codes) ==
    \/ codes = {} /\ Parse(tc) = "OK" /\ Dispatch(tc) = "OK"
    \/ Parse(tc) # "OK" /\ FailureForParse(Parse(tc)) \in codes
    \/ Parse(tc) = "OK" /\ Dispatch(tc) # "OK" /\ Dispatch(tc) \in codes

LEMMA CodeTold ==
    ASSUME NEW tc \in Telecommand, tc.len \in TcMinLen .. TcMaxLen, NEW codes
    PROVE  /\ "LENGTH" \in tc.bad /\ "ILLEGAL_LEN" \in codes => Tells(tc, codes)
           /\ "LENGTH" \notin tc.bad /\ "CRC" \in tc.bad /\ "BAD_CRC" \in codes => Tells(tc, codes)
           /\ /\ "LENGTH" \notin tc.bad /\ "CRC" \notin tc.bad
              /\ "TYPE" \in tc.bad /\ "BAD_HEADER" \in codes
              => Tells(tc, codes)
           /\ /\ "LENGTH" \notin tc.bad /\ "CRC" \notin tc.bad /\ "TYPE" \notin tc.bad
              /\ "APID" \in tc.bad /\ "BAD_APID" \in codes
              => Tells(tc, codes)
           /\ /\ "LENGTH" \notin tc.bad /\ "CRC" \notin tc.bad /\ "TYPE" \notin tc.bad
              /\ "APID" \notin tc.bad /\ "PUS_VERSION" \in tc.bad /\ "BAD_HEADER" \in codes
              => Tells(tc, codes)
<1>1. /\ Check[1] = "LENGTH" /\ Check[2] = "CRC" /\ Check[3] = "TYPE"
      /\ Check[4] = "APID" /\ Check[5] = "PUS_VERSION"
  BY DEF Check
<1>2. ASSUME "LENGTH" \in tc.bad, "ILLEGAL_LEN" \in codes PROVE Tells(tc, codes)
  <2>1. PICK k \in 1 .. 5 : k = 1  OBVIOUS
  <2>2. Check[k] \in tc.bad /\ \A j \in 1 .. k - 1 : Check[j] \notin tc.bad
    BY <1>1, <1>2, <2>1
  <2>3. Parse(tc) = "LENGTH"  BY <1>1, <2>1, <2>2, ParseCode
  <2> QED BY <1>2, <2>3 DEF Tells, FailureForParse
<1>3. ASSUME "LENGTH" \notin tc.bad, "CRC" \in tc.bad, "BAD_CRC" \in codes
      PROVE  Tells(tc, codes)
  <2>1. PICK k \in 1 .. 5 : k = 2  OBVIOUS
  <2>2. \A j \in 1 .. k - 1 : j = 1  BY <2>1
  <2>3. Check[k] \in tc.bad /\ \A j \in 1 .. k - 1 : Check[j] \notin tc.bad
    BY <1>1, <1>3, <2>1, <2>2
  <2>4. Parse(tc) = "CRC"  BY <1>1, <2>1, <2>3, ParseCode
  <2> QED BY <1>3, <2>4 DEF Tells, FailureForParse
<1>4. ASSUME "LENGTH" \notin tc.bad, "CRC" \notin tc.bad, "TYPE" \in tc.bad,
             "BAD_HEADER" \in codes
      PROVE  Tells(tc, codes)
  <2>1. PICK k \in 1 .. 5 : k = 3  OBVIOUS
  <2>2. \A j \in 1 .. k - 1 : j = 1 \/ j = 2  BY <2>1
  <2>3. Check[k] \in tc.bad /\ \A j \in 1 .. k - 1 : Check[j] \notin tc.bad
    BY <1>1, <1>4, <2>1, <2>2
  <2>4. Parse(tc) = "TYPE"  BY <1>1, <2>1, <2>3, ParseCode
  <2> QED BY <1>4, <2>4 DEF Tells, FailureForParse
<1>5. ASSUME "LENGTH" \notin tc.bad, "CRC" \notin tc.bad, "TYPE" \notin tc.bad,
             "APID" \in tc.bad, "BAD_APID" \in codes
      PROVE  Tells(tc, codes)
  <2>1. PICK k \in 1 .. 5 : k = 4  OBVIOUS
  <2>2. \A j \in 1 .. k - 1 : j = 1 \/ j = 2 \/ j = 3  BY <2>1
  <2>3. Check[k] \in tc.bad /\ \A j \in 1 .. k - 1 : Check[j] \notin tc.bad
    BY <1>1, <1>5, <2>1, <2>2
  <2>4. Parse(tc) = "APID"  BY <1>1, <2>1, <2>3, ParseCode
  <2> QED BY <1>5, <2>4 DEF Tells, FailureForParse
<1>6. ASSUME "LENGTH" \notin tc.bad, "CRC" \notin tc.bad, "TYPE" \notin tc.bad,
             "APID" \notin tc.bad, "PUS_VERSION" \in tc.bad, "BAD_HEADER" \in codes
      PROVE  Tells(tc, codes)
  <2>1. PICK k \in 1 .. 5 : k = 5  OBVIOUS
  <2>2. \A j \in 1 .. k - 1 : j = 1 \/ j = 2 \/ j = 3 \/ j = 4  BY <2>1
  <2>3. Check[k] \in tc.bad /\ \A j \in 1 .. k - 1 : Check[j] \notin tc.bad
    BY <1>1, <1>6, <2>1, <2>2
  <2>4. Parse(tc) = "PUS_VERSION"  BY <1>1, <2>1, <2>3, ParseCode
  <2> QED BY <1>6, <2>4 DEF Tells, FailureForParse
<1> QED BY <1>2, <1>3, <1>4, <1>5, <1>6

LEMMA Distinct == Word(17) # Word(130)
<1>1. 4 \in Word(17) /\ 4 \notin Word(130)  BY BitWord, Powers
<1> QED BY <1>1

\* What AsSeen sees in a packet that is long enough.
LEMMA SeenIs ==
    ASSUME NEW buf, Len(buf) \in Nat, Len(buf) >= TC_MIN_PACKET_LEN, NEW tc, tc = AsSeen(buf)
    PROVE  /\ tc \in Telecommand /\ tc.len = Len(buf)
           /\ "LENGTH" \in tc.bad <=> Fails(buf).LENGTH
           /\ "CRC" \in tc.bad <=> Fails(buf).CRC
           /\ "TYPE" \in tc.bad <=> Fails(buf).TYPE
           /\ "APID" \in tc.bad <=> Fails(buf).APID
           /\ "PUS_VERSION" \in tc.bad <=> Fails(buf).PUS_VERSION
           /\ tc.cmd = "CONN_TEST" <=> buf[8] = Word(17) /\ buf[9] = Word(1)
           /\ tc.cmd = "EXIT_SAFE" <=> buf[8] = Word(130) /\ buf[9] = Word(1)
<1>1. DOMAIN Fails(buf) = {"LENGTH", "CRC", "TYPE", "APID", "PUS_VERSION"}  BY DEF Fails
<1>2. PICK bad : bad = {c \in DOMAIN Fails(buf) : Fails(buf)[c]}  OBVIOUS
<1>3. PICK x, y : x = buf[8] /\ y = buf[9]  OBVIOUS
<1>4. PICK w17, w130, w1 : w17 = Word(17) /\ w130 = Word(130) /\ w1 = Word(1)  OBVIOUS
<1>5. PICK cmd : cmd = CASE <<x, y>> = <<w17, w1>>  -> "CONN_TEST"
                         [] <<x, y>> = <<w130, w1>> -> "EXIT_SAFE"
                         [] OTHER                   -> "UNKNOWN"
  OBVIOUS
<1>6. PICK ack : ack = {s \in Stage : AckBit[s] \in buf[7]}  OBVIOUS
<1>7. tc = [len |-> Len(buf), bad |-> bad, cmd |-> cmd, ack |-> ack]
  <2>1. ~(Len(buf) < TC_MIN_PACKET_LEN)
    BY DEF TC_MIN_PACKET_LEN, CCSDS_PRI_HDR_LEN, PUS_TC_SEC_HDR_LEN, TC_PEC_LEN
  <2> QED BY <1>2, <1>3, <1>4, <1>5, <1>6, <2>1 DEF AsSeen
<1>8. w17 # w130
  BY <1>4, Distinct
<1>9. /\ <<x, y>> = <<w17, w1>> <=> x = w17 /\ y = w1
      /\ <<x, y>> = <<w130, w1>> <=> x = w130 /\ y = w1
  OBVIOUS
<1>10. (cmd = "CONN_TEST" <=> x = w17 /\ y = w1) /\ (cmd = "EXIT_SAFE" <=> x = w130 /\ y = w1)
  BY <1>5, <1>8, <1>9
<1>11. \A c \in {"LENGTH", "CRC", "TYPE", "APID", "PUS_VERSION"} : c \in bad <=> Fails(buf)[c]
  BY <1>1, <1>2
<1>12. tc.len = Len(buf) /\ tc.bad = bad /\ tc.cmd = cmd  BY <1>7
<1>13. tc \in Telecommand  BY SeenTyped
<1> QED BY <1>3, <1>4, <1>10, <1>11, <1>12, <1>13

LEMMA NotShifted ==
    ASSUME NEW w \in SUBSET (0 .. 15)
    PROVE  Shr(w, 0) = w /\ Low(Shr(w, 0), 16) = w
<1>1. \A z : z \in Shr(w, 0) <=> \E j \in w : j >= 0 /\ z = j - 0  BY DEF Shr
<1>2. \A j \in w : j \in 0 .. 15  OBVIOUS
<1>6. PICK v : v = Shr(w, 0)  OBVIOUS
<1>7. \A z : z \in v <=> z \in w
  <2>1. \A z : z \in v <=> \E j \in w : j >= 0 /\ z = j - 0  BY <1>1, <1>6
  <2>2. ASSUME NEW z \in w PROVE z \in v
    <3>1. z >= 0 /\ z = z - 0  BY <1>2
    <3> QED BY <2>1, <3>1
  <2>3. ASSUME NEW z \in v PROVE z \in w
    <3>1. PICK j \in w : z = j - 0  BY <2>1
    <3>2. j \in 0 .. 15  BY <1>2
    <3>3. j - 0 = j  BY <3>2
    <3> QED BY <3>1, <3>3
  <2> QED BY <2>2, <2>3
<1>3. Shr(w, 0) = w  BY <1>6, <1>7
<1>4. 16 - 1 = 15  OBVIOUS
<1>5. Low(w, 16) = w  BY <1>2, <1>4 DEF Low
<1> QED BY <1>3, <1>5

\* A field of the primary header is what it was if no bit of it is turned.
FieldsOff(x, y, H) ==
    /\ x.version = y.version <=> H \cap 0 .. 2 = {}
    /\ x.type = y.type <=> H \cap 3 .. 3 = {}
    /\ x.sec_hdr_flag = y.sec_hdr_flag <=> H \cap 4 .. 4 = {}
    /\ x.apid = y.apid <=> H \cap 5 .. 15 = {}
    /\ x.seq_flags = y.seq_flags <=> H \cap 16 .. 17 = {}
    /\ x.data_length = y.data_length <=> H \cap 32 .. 47 = {}

LEMMA FieldsHit ==
    ASSUME NEW a \in Seq(Octet), NEW b \in Seq(Octet), Len(a) >= 6, Len(b) >= 6,
           NEW H, \A k \in 1 .. 6 : Turned(a, b, H, k),
           NEW x, x = ccsds_parse_primary(a), NEW y, y = ccsds_parse_primary(b)
    PROVE  FieldsOff(x, y, H)
<1>1. PICK w0, w1, w2 : /\ w0 = Join(SubSeq(a, 1, 2)) /\ w1 = Join(SubSeq(a, 3, 4))
                        /\ w2 = Join(SubSeq(a, 5, 6))
  OBVIOUS
<1>2. PICK v0, v1, v2 : /\ v0 = Join(SubSeq(b, 1, 2)) /\ v1 = Join(SubSeq(b, 3, 4))
                        /\ v2 = Join(SubSeq(b, 5, 6))
  OBVIOUS
<1>3. TurnedWord(w0, v0, H, 15)
  <2>1. PICK at \in Nat, from \in Nat, to \in Nat, c \in Nat :
              at = 0 /\ from = 1 /\ to = 2 /\ c = 15  OBVIOUS
  <2>2. /\ at + 2 <= Len(a) /\ at + 2 <= Len(b) /\ from = at + 1 /\ to = at + 2 /\ c = 8 * at + 15
        /\ at + 1 \in 1 .. 6 /\ at + 2 \in 1 .. 6
    BY <2>1
  <2>3. Turned(a, b, H, at + 1) /\ Turned(a, b, H, at + 2)  BY <2>2
  <2>4. TurnedWord(Join(SubSeq(a, from, to)), Join(SubSeq(b, from, to)), H, c)
    BY <2>2, <2>3, PairTurned
  <2> QED BY <1>1, <1>2, <2>1, <2>4
<1>4. TurnedWord(w1, v1, H, 31)
  <2>1. PICK at \in Nat, from \in Nat, to \in Nat, c \in Nat :
              at = 2 /\ from = 3 /\ to = 4 /\ c = 31  OBVIOUS
  <2>2. /\ at + 2 <= Len(a) /\ at + 2 <= Len(b) /\ from = at + 1 /\ to = at + 2 /\ c = 8 * at + 15
        /\ at + 1 \in 1 .. 6 /\ at + 2 \in 1 .. 6
    BY <2>1
  <2>3. Turned(a, b, H, at + 1) /\ Turned(a, b, H, at + 2)  BY <2>2
  <2>4. TurnedWord(Join(SubSeq(a, from, to)), Join(SubSeq(b, from, to)), H, c)
    BY <2>2, <2>3, PairTurned
  <2> QED BY <1>1, <1>2, <2>1, <2>4
<1>5. TurnedWord(w2, v2, H, 47)
  <2>1. PICK at \in Nat, from \in Nat, to \in Nat, c \in Nat :
              at = 4 /\ from = 5 /\ to = 6 /\ c = 47  OBVIOUS
  <2>2. /\ at + 2 <= Len(a) /\ at + 2 <= Len(b) /\ from = at + 1 /\ to = at + 2 /\ c = 8 * at + 15
        /\ at + 1 \in 1 .. 6 /\ at + 2 \in 1 .. 6
    BY <2>1
  <2>3. Turned(a, b, H, at + 1) /\ Turned(a, b, H, at + 2)  BY <2>2
  <2>4. TurnedWord(Join(SubSeq(a, from, to)), Join(SubSeq(b, from, to)), H, c)
    BY <2>2, <2>3, PairTurned
  <2> QED BY <1>1, <1>2, <2>1, <2>4
<1>6. Low(Shr(w0, 13), 3) = Low(Shr(v0, 13), 3) <=> H \cap 0 .. 2 = {}
  <2>1. PICK m \in Nat, n \in Nat, c \in Nat, lo \in Nat, hi \in Nat :
              m = 13 /\ n = 3 /\ c = 15 /\ lo = 0 /\ hi = 2
    OBVIOUS
  <2>2. m + n <= 16 /\ lo = c - m - n + 1 /\ hi = c - m  BY <2>1
  <2>3. TurnedWord(w0, v0, H, c)  BY <1>3, <2>1
  <2>4. Low(Shr(w0, m), n) = Low(Shr(v0, m), n) <=> H \cap lo .. hi = {}  BY <2>2, <2>3, FieldHit
  <2> QED BY <2>1, <2>4
<1>7. Low(Shr(w0, 12), 1) = Low(Shr(v0, 12), 1) <=> H \cap 3 .. 3 = {}
  <2>1. PICK m \in Nat, n \in Nat, c \in Nat, lo \in Nat, hi \in Nat :
              m = 12 /\ n = 1 /\ c = 15 /\ lo = 3 /\ hi = 3
    OBVIOUS
  <2>2. m + n <= 16 /\ lo = c - m - n + 1 /\ hi = c - m  BY <2>1
  <2>3. TurnedWord(w0, v0, H, c)  BY <1>3, <2>1
  <2>4. Low(Shr(w0, m), n) = Low(Shr(v0, m), n) <=> H \cap lo .. hi = {}  BY <2>2, <2>3, FieldHit
  <2> QED BY <2>1, <2>4
<1>8. Low(Shr(w0, 11), 1) = Low(Shr(v0, 11), 1) <=> H \cap 4 .. 4 = {}
  <2>1. PICK m \in Nat, n \in Nat, c \in Nat, lo \in Nat, hi \in Nat :
              m = 11 /\ n = 1 /\ c = 15 /\ lo = 4 /\ hi = 4
    OBVIOUS
  <2>2. m + n <= 16 /\ lo = c - m - n + 1 /\ hi = c - m  BY <2>1
  <2>3. TurnedWord(w0, v0, H, c)  BY <1>3, <2>1
  <2>4. Low(Shr(w0, m), n) = Low(Shr(v0, m), n) <=> H \cap lo .. hi = {}  BY <2>2, <2>3, FieldHit
  <2> QED BY <2>1, <2>4
<1>9. Low(Shr(w0, 0), 11) = Low(Shr(v0, 0), 11) <=> H \cap 5 .. 15 = {}
  <2>1. PICK m \in Nat, n \in Nat, c \in Nat, lo \in Nat, hi \in Nat :
              m = 0 /\ n = 11 /\ c = 15 /\ lo = 5 /\ hi = 15
    OBVIOUS
  <2>2. m + n <= 16 /\ lo = c - m - n + 1 /\ hi = c - m  BY <2>1
  <2>3. TurnedWord(w0, v0, H, c)  BY <1>3, <2>1
  <2>4. Low(Shr(w0, m), n) = Low(Shr(v0, m), n) <=> H \cap lo .. hi = {}  BY <2>2, <2>3, FieldHit
  <2> QED BY <2>1, <2>4
<1>10. Low(Shr(w1, 14), 2) = Low(Shr(v1, 14), 2) <=> H \cap 16 .. 17 = {}
  <2>1. PICK m \in Nat, n \in Nat, c \in Nat, lo \in Nat, hi \in Nat :
              m = 14 /\ n = 2 /\ c = 31 /\ lo = 16 /\ hi = 17
    OBVIOUS
  <2>2. m + n <= 16 /\ lo = c - m - n + 1 /\ hi = c - m  BY <2>1
  <2>3. TurnedWord(w1, v1, H, c)  BY <1>4, <2>1
  <2>4. Low(Shr(w1, m), n) = Low(Shr(v1, m), n) <=> H \cap lo .. hi = {}  BY <2>2, <2>3, FieldHit
  <2> QED BY <2>1, <2>4
<1>11. Low(Shr(w2, 0), 16) = Low(Shr(v2, 0), 16) <=> H \cap 32 .. 47 = {}
  <2>1. PICK m \in Nat, n \in Nat, c \in Nat, lo \in Nat, hi \in Nat :
              m = 0 /\ n = 16 /\ c = 47 /\ lo = 32 /\ hi = 47
    OBVIOUS
  <2>2. m + n <= 16 /\ lo = c - m - n + 1 /\ hi = c - m  BY <2>1
  <2>3. TurnedWord(w2, v2, H, c)  BY <1>5, <2>1
  <2>4. Low(Shr(w2, m), n) = Low(Shr(v2, m), n) <=> H \cap lo .. hi = {}  BY <2>2, <2>3, FieldHit
  <2> QED BY <2>1, <2>4
<1>12. Shr(w0, 0) = w0 /\ Shr(v0, 0) = v0 /\ Low(Shr(w2, 0), 16) = w2 /\ Low(Shr(v2, 0), 16) = v2
  <2>2. w0 \in SUBSET (0 .. 15) /\ v0 \in SUBSET (0 .. 15)  BY <1>3 DEF TurnedWord
  <2>3. w2 \in SUBSET (0 .. 15) /\ v2 \in SUBSET (0 .. 15)  BY <1>5 DEF TurnedWord
  <2> QED BY <2>2, <2>3, NotShifted
<1>13. /\ x.version = Low(Shr(w0, 13), 3) /\ x.type = Low(Shr(w0, 12), 1)
       /\ x.sec_hdr_flag = Low(Shr(w0, 11), 1) /\ x.apid = Low(w0, 11)
       /\ x.seq_flags = Low(Shr(w1, 14), 2) /\ x.data_length = w2
  BY <1>1 DEF ccsds_parse_primary
<1>14. /\ y.version = Low(Shr(v0, 13), 3) /\ y.type = Low(Shr(v0, 12), 1)
       /\ y.sec_hdr_flag = Low(Shr(v0, 11), 1) /\ y.apid = Low(v0, 11)
       /\ y.seq_flags = Low(Shr(v1, 14), 2) /\ y.data_length = v2
  BY <1>2 DEF ccsds_parse_primary
<1> QED BY <1>6, <1>7, <1>8, <1>9, <1>10, <1>11, <1>12, <1>13, <1>14, ZenonT(40)
       DEF FieldsOff

LEMMA VersionHit ==
    ASSUME NEW a \in Seq(Octet), NEW b \in Seq(Octet), Len(a) >= 7, Len(b) >= 7,
           NEW H, Turned(a, b, H, 7)
    PROVE  Shr(a[7], 4) = Shr(b[7], 4) <=> H \cap 48 .. 51 = {}
<1>1. PICK o, u : o = a[7] /\ u = b[7]  OBVIOUS
<1>2. o \in Octet /\ u \in Octet
  <2>1. 7 \in 1 .. Len(a) /\ 7 \in 1 .. Len(b)  OBVIOUS
  <2> QED BY <1>1, <2>1
<1>3. \A j \in 0 .. 7 : /\ 55 - j \notin H => (j \in o <=> j \in u)
                        /\ 55 - j \in H    => (j \in o <=> j \notin u)
  <2>1. 8 * 7 - 1 = 55  OBVIOUS
  <2> QED BY <1>1, <2>1 DEF Turned
<1>4. ASSUME NEW w \in Octet PROVE \A z : z \in Shr(w, 4) <=> z \in 0 .. 3 /\ z + 4 \in w
  <2>1. \A z : z \in Shr(w, 4) <=> \E j \in w : j >= 4 /\ z = j - 4  BY DEF Shr
  <2>2. \A j \in w : j \in 0 .. 7  BY DEF Octet
  <2> QED BY <2>1, <2>2
<1>5. ASSUME H \cap 48 .. 51 = {} PROVE Shr(o, 4) = Shr(u, 4)
  <2>1. ASSUME NEW z \in 0 .. 3 PROVE z + 4 \in o <=> z + 4 \in u
    <3>1. z + 4 \in 0 .. 7 /\ 55 - (z + 4) \in 48 .. 51  OBVIOUS
    <3>2. 55 - (z + 4) \notin H  BY <1>5, <3>1
    <3> QED BY <1>3, <3>1, <3>2
  <2>2. \A z : z \in Shr(o, 4) <=> z \in Shr(u, 4)  BY <1>2, <1>4, <2>1
  <2> QED BY <2>2
<1>6. ASSUME Shr(o, 4) = Shr(u, 4) PROVE H \cap 48 .. 51 = {}
  <2> SUFFICES ASSUME NEW q \in H, q \in 48 .. 51 PROVE FALSE  OBVIOUS
  <2>1. PICK z \in 0 .. 3 : z = 51 - q  OBVIOUS
  <2>2. z + 4 \in 0 .. 7 /\ 55 - (z + 4) = q  BY <2>1
  <2>3. z + 4 \in o <=> z + 4 \notin u  BY <1>3, <2>2
  <2>4. z + 4 \in o <=> z + 4 \in u  BY <1>2, <1>4, <1>6
  <2> QED BY <2>3, <2>4
<1> QED BY <1>1, <1>5, <1>6

\* What arrives of the command c, built as b, with the bits of H turned.
Arrived(a, b, c, H) ==
    /\ a \in Seq(Octet) /\ Len(a) \in 13 .. 256 /\ Built(b, c)
    /\ \A k \in 1 .. 9 : Turned(a, b, H, k)

\* The checks of the header fail where its fields are hit, and the one of the length
\* when it is not the length any more.
LEMMA HeaderSeen ==
    ASSUME NEW c \in Commands, NEW a, NEW b, NEW H, Arrived(a, b, c, H)
    PROVE  /\ Fails(a).TYPE <=> ~(H \cap 0 .. 4 = {} /\ H \cap 16 .. 17 = {})
           /\ Fails(a).APID <=> ~(H \cap 5 .. 15 = {})
           /\ Fails(a).PUS_VERSION <=> ~(H \cap 48 .. 51 = {})
           /\ Len(a) = Total(c) => (Fails(a).LENGTH <=> ~(H \cap 32 .. 47 = {}))
           /\ Len(a) # Total(c) /\ H \cap 32 .. 47 = {} => Fails(a).LENGTH
<1>1. a \in Seq(Octet) /\ Len(a) \in 13 .. 256 /\ Built(b, c)  BY DEF Arrived
<1>2. PICK n \in 13 .. 256 : n = Len(a)  BY <1>1
<1>3. PICK l \in 13 .. 256 : l = Total(c)  BY RequestFields
<1>4. b \in Seq(Octet) /\ Len(b) = l /\ Shr(b[7], 4) = Word(PUS_TC_VERSION)
  BY <1>1, <1>3 DEF Built
<1>5. Len(a) >= 6 /\ Len(b) >= 6 /\ Len(a) >= 7 /\ Len(b) >= 7
  <2>1. n >= 13 /\ l >= 13  OBVIOUS
  <2>2. \A z \in Int : z >= 13 => z >= 6 /\ z >= 7  OBVIOUS
  <2> QED BY <1>2, <1>3, <1>4, <2>1, <2>2
<1>6. PICK x : x = ccsds_parse_primary(a)  OBVIOUS
<1>7. PICK y : y = ccsds_parse_primary(b)  OBVIOUS
<1>8. /\ y.version = {} /\ y.type = {0} /\ y.sec_hdr_flag = {0} /\ y.seq_flags = {0, 1}
      /\ y.apid = Word(CCSDS_APID_CMD) /\ y.data_length = Word(l - CCSDS_PRI_HDR_LEN - 1)
  <2>0. ccsds_parse_primary(b) = Header(1, CCSDS_APID_CMD, c.seq, Total(c))
    BY <1>1, BuildReadsBack
  <2>1. y = Header(1, CCSDS_APID_CMD, c.seq, l)  BY <1>3, <1>7, <2>0
  <2> QED BY <2>1, OneBit DEF Header
<1>9. \A k \in 1 .. 6 : Turned(a, b, H, k)
  <2>1. \A k \in 1 .. 6 : k \in 1 .. 9  OBVIOUS
  <2> QED BY <2>1 DEF Arrived
<1>10. Turned(a, b, H, 7)
  <2>1. 7 \in 1 .. 9  OBVIOUS
  <2> QED BY <2>1 DEF Arrived
<1>11. FieldsOff(x, y, H)  BY <1>1, <1>4, <1>5, <1>6, <1>7, <1>9, FieldsHit
<1>12. Shr(a[7], 4) = Word(PUS_TC_VERSION) <=> H \cap 48 .. 51 = {}
  BY <1>1, <1>4, <1>5, <1>10, VersionHit, ZenonT(40)
<1>13. Fails(a).PUS_VERSION <=> Shr(a[7], 4) # Word(PUS_TC_VERSION)  BY DEF Fails
<1>14. Fails(a).APID <=> x.apid # Word(CCSDS_APID_CMD)  BY <1>6 DEF Fails
<1>15. Fails(a).TYPE <=> \/ x.version # {} \/ x.type # {0}
                         \/ x.sec_hdr_flag # {0} \/ x.seq_flags # {0, 1}
  BY <1>6 DEF Fails
<1>16. Fails(a).LENGTH <=> x.data_length # Word(n - CCSDS_PRI_HDR_LEN - 1)
  <2>1. Fails(a).LENGTH <=> ~LengthAgrees(a)  BY DEF Fails
  <2>2. LengthAgrees(a) <=> x.data_length = Word(n - CCSDS_PRI_HDR_LEN - 1)
    BY <1>2, <1>6 DEF LengthAgrees
  <2> QED BY <2>1, <2>2
<1>17. H \cap 0 .. 4 = {} <=> H \cap 0 .. 2 = {} /\ H \cap 3 .. 3 = {} /\ H \cap 4 .. 4 = {}
  <2>1. \A z \in 0 .. 4 : z \in 0 .. 2 \/ z \in 3 .. 3 \/ z \in 4 .. 4  OBVIOUS
  <2>2. \A z : z \in 0 .. 2 \/ z \in 3 .. 3 \/ z \in 4 .. 4 => z \in 0 .. 4  OBVIOUS
  <2> QED BY <2>1, <2>2
<1>18. ASSUME n # l PROVE Word(n - CCSDS_PRI_HDR_LEN - 1) # Word(l - CCSDS_PRI_HDR_LEN - 1)
  <2>1. PICK i \in Nat : i = n - CCSDS_PRI_HDR_LEN - 1 /\ i = n - 7 /\ i < 256
    <3>1. n - 6 - 1 \in Nat /\ n - 6 - 1 = n - 7 /\ n - 6 - 1 < 256  OBVIOUS
    <3> QED BY <3>1 DEF CCSDS_PRI_HDR_LEN
  <2>2. PICK j \in Nat : j = l - CCSDS_PRI_HDR_LEN - 1 /\ j = l - 7 /\ j < 256
    <3>1. l - 6 - 1 \in Nat /\ l - 6 - 1 = l - 7 /\ l - 6 - 1 < 256  OBVIOUS
    <3> QED BY <3>1 DEF CCSDS_PRI_HDR_LEN
  <2>3. i # j  BY <1>18, <2>1, <2>2
  <2>4. ASSUME Word(i) = Word(j) PROVE FALSE
    <3>1. i = j  BY <2>1, <2>2, <2>4, WordInjective
    <3> QED BY <2>3, <3>1
  <2> QED BY <2>1, <2>2, <2>4
<1>19. Fails(a).TYPE <=> ~(H \cap 0 .. 4 = {} /\ H \cap 16 .. 17 = {})
  BY <1>8, <1>11, <1>15, <1>17 DEF FieldsOff
<1>20. Fails(a).APID <=> ~(H \cap 5 .. 15 = {})  BY <1>8, <1>11, <1>14 DEF FieldsOff
<1>21. Fails(a).PUS_VERSION <=> ~(H \cap 48 .. 51 = {})  BY <1>12, <1>13
<1>22. Len(a) = Total(c) => (Fails(a).LENGTH <=> ~(H \cap 32 .. 47 = {}))
  BY <1>2, <1>3, <1>8, <1>11, <1>16 DEF FieldsOff
<1>23. Len(a) # Total(c) /\ H \cap 32 .. 47 = {} => Fails(a).LENGTH
  BY <1>2, <1>3, <1>8, <1>11, <1>16, <1>18 DEF FieldsOff
<1> QED BY <1>19, <1>20, <1>21, <1>22, <1>23

Named(tc, c) ==
    /\ tc.cmd = "CONN_TEST" <=> c.service = 17 /\ c.subtype = 1
    /\ tc.cmd = "EXIT_SAFE" <=> c.service = 130 /\ c.subtype = 1

\* Service and subtype are read as they were sent where they are not hit.
LEMMA PairSeen ==
    ASSUME NEW c \in Commands, NEW a, NEW b, NEW H, Arrived(a, b, c, H), H \subseteq 0 .. 55,
           NEW tc, tc = AsSeen(a)
    PROVE  Named(tc, c)
<1>1. a \in Seq(Octet) /\ Len(a) \in 13 .. 256 /\ Built(b, c)  BY DEF Arrived
<1>2. b \in Seq(Octet) /\ Len(b) = Total(c) /\ b[8] = Word(c.service) /\ b[9] = Word(c.subtype)
  BY <1>1 DEF Built
<1>3. PICK n \in 13 .. 256 : n = Len(a)  BY <1>1
<1>4. PICK l \in 13 .. 256 : l = Len(b)  BY <1>2, RequestFields, ZenonT(40)
<1>5. ASSUME NEW k \in 8 .. 9 PROVE a[k] = b[k]
  <2>1. k \in 1 .. Len(a) /\ k \in 1 .. Len(b) /\ k \in 1 .. 9  BY <1>3, <1>4
  <2>2. Turned(a, b, H, k)  BY <2>1 DEF Arrived
  <2>3. \A j \in 0 .. 7 : 8 * k - 1 - j \notin H
    <3>1. \A j \in 0 .. 7 : 8 * k - 1 - j >= 56  OBVIOUS
    <3>2. \A z \in H : z <= 55  OBVIOUS
    <3>3. ASSUME NEW j \in 0 .. 7 PROVE 8 * k - 1 - j \notin H
      <4>1. PICK z : z = 8 * k - 1 - j  OBVIOUS
      <4>2. z >= 56 /\ z \in Int  BY <3>1, <4>1
      <4>3. ~(z <= 55)  BY <4>2
      <4> QED BY <3>2, <4>1, <4>3
    <3> QED BY <3>3
  <2>4. \A j \in 0 .. 7 : j \in a[k] <=> j \in b[k]  BY <2>2, <2>3, Zenon DEF Turned
  <2>5. a[k] \in Octet /\ b[k] \in Octet  BY <1>1, <1>2, <2>1
  <2> QED BY <2>4, <2>5 DEF Octet
<1>6. a[8] = Word(c.service) /\ a[9] = Word(c.subtype)
  <2>1. 8 \in 8 .. 9 /\ 9 \in 8 .. 9  OBVIOUS
  <2> QED BY <1>2, <1>5, <2>1
<1>7. Len(a) \in Nat /\ Len(a) >= TC_MIN_PACKET_LEN
  BY <1>3 DEF TC_MIN_PACKET_LEN, CCSDS_PRI_HDR_LEN, PUS_TC_SEC_HDR_LEN, TC_PEC_LEN
<1>8. /\ tc.cmd = "CONN_TEST" <=> a[8] = Word(17) /\ a[9] = Word(1)
      /\ tc.cmd = "EXIT_SAFE" <=> a[8] = Word(130) /\ a[9] = Word(1)
  BY <1>7, SeenIs
<1>9. /\ c.service \in Nat /\ c.service < 256 /\ c.subtype \in Nat /\ c.subtype < 256
  BY RequestFields
<1>10. ASSUME NEW s \in Nat, s < 256, NEW v \in Nat, v < 256 PROVE Word(s) = Word(v) <=> s = v
  BY <1>10, WordInjective
<1>11. PICK s, t : s = c.service /\ t = c.subtype  OBVIOUS
<1>12. Word(s) = Word(17) <=> s = 17
  <2>1. 17 \in Nat /\ 17 < 256 /\ s \in Nat /\ s < 256  BY <1>9, <1>11
  <2> QED BY <1>10, <2>1
<1>13. Word(s) = Word(130) <=> s = 130
  <2>1. 130 \in Nat /\ 130 < 256 /\ s \in Nat /\ s < 256  BY <1>9, <1>11
  <2> QED BY <1>10, <2>1
<1>14. Word(t) = Word(1) <=> t = 1
  <2>1. 1 \in Nat /\ 1 < 256 /\ t \in Nat /\ t < 256  BY <1>9, <1>11
  <2> QED BY <1>10, <2>1
<1> QED BY <1>6, <1>8, <1>11, <1>12, <1>13, <1>14 DEF Named

\* The pair must be in the table, and neither command takes arguments.
LEMMA Dispatched ==
    ASSUME NEW c \in Commands, NEW tc \in Telecommand, tc.len = Total(c), Named(tc, c)
    PROVE  /\ <<c.service, c.subtype>> \notin {<<17, 1>>, <<130, 1>>}
                => Dispatch(tc) = "UNKNOWN_CMD"
           /\ <<c.service, c.subtype>> \in {<<17, 1>>, <<130, 1>>} /\ c.app # <<>>
                => Dispatch(tc) = "BAD_APP_DATA"
           /\ <<c.service, c.subtype>> \in {<<17, 1>>, <<130, 1>>} /\ c.app = <<>>
                => Dispatch(tc) = "OK"
<1>1. PICK s, t : s = c.service /\ t = c.subtype  OBVIOUS
<1>2. <<s, t>> \in {<<17, 1>>, <<130, 1>>} <=> t = 1 /\ (s = 17 \/ s = 130)  OBVIOUS
<1>3. tc.cmd \in Command <=> <<s, t>> \in {<<17, 1>>, <<130, 1>>}  BY <1>1, <1>2 DEF Command, Named
<1>4. tc.len = TcMinLen <=> c.app = <<>>
  <2>1. PICK e : e = c.app  OBVIOUS
  <2>2. PICK O : O = Octet  OBVIOUS
  <2>3. e \in Seq(O)  BY <2>1, <2>2, RequestFields
  <2>4. Len(e) = 0 <=> e = <<>>  BY <2>3
  <2>5. PICK m \in Nat : m = TcMinLen /\ m = TC_MIN_PACKET_LEN
    BY TcLinkAssumption, CommandPathAssumption
  <2>6. tc.len = m + Len(e)  BY <2>1, <2>5 DEF Total
  <2>7. PICK k \in Nat : k = Len(e)  BY <2>3
  <2> QED BY <2>1, <2>4, <2>5, <2>6, <2>7
<1> QED BY <1>1, <1>3, <1>4 DEF Dispatch

\* A whole packet without noise is one that was sealed.
LEMMA CleanPasses == ASSUME noise = {}, octets \in Seq(Octet), NEW s, Clean(octets, s)
                     PROVE  ~Fails(octets).CRC
<1>1. PICK a : a = octets  OBVIOUS
<1>2. a \in Seq(Octet) /\ s \in Seq(Octet) /\ Len(s) = Len(a) /\ ~Fails(s).CRC
  BY <1>1 DEF Clean
<1>3. Marks(a, s, noise, Len(a))  BY <1>1 DEF Clean
<1>4. PICK n \in Nat : n = Len(a)  BY <1>2
<1>5. ASSUME NEW k \in 1 .. n PROVE a[k] = s[k]
  <2>1. k <= Len(a) /\ k \in 1 .. Len(a)  BY <1>4
  <2>2. Turned(a, s, noise, k)  BY <1>3, <1>4, <2>1 DEF Marks
  <2>3. \A j \in 0 .. 7 : 8 * k - 1 - j \notin noise  BY Zenon
  <2> QED BY <1>2, <2>1, <2>2, <2>3, Unturned
<1>6. a = s
  <2>1. a = [k \in 1 .. n |-> a[k]] /\ s = [k \in 1 .. n |-> s[k]]  BY <1>2, <1>4
  <2> QED BY <1>5, <2>1
<1> QED BY <1>1, <1>2, <1>6

LEMMA ArrivedIs ==
    ASSUME Carried, NEW c \in Commands, c = command, NEW b, b = tc_build(c),
           Len(octets) \in 13 .. 256
    PROVE  Arrived(octets, b, c, Harmed)
<1>1. octets \in Seq(Octet)  BY DEF Carried
<1>2. Built(b, c)  BY BuildIs
<1>3. PICK n \in 13 .. 256 : n = Len(octets)  OBVIOUS
<1>4. PICK l \in 13 .. 256 : l = Total(c)  BY RequestFields
<1>5. PICK m \in Nat : m = l - TC_PEC_LEN /\ m >= 9
  <2>1. l - 2 \in Nat /\ l - 2 >= 9  OBVIOUS
  <2> QED BY <2>1 DEF TC_PEC_LEN
<1>6. Marks(octets, b, Harmed, m)  BY <1>4, <1>5 DEF Carried
<1>7. ASSUME NEW k \in 1 .. 9 PROVE Turned(octets, b, Harmed, k)
  <2>1. k \in 1 .. m /\ k <= Len(octets)
    <3>1. n >= 13  OBVIOUS
    <3> QED BY <1>3, <1>5, <3>1
  <2> QED BY <1>6, <2>1 DEF Marks
<1> QED BY <1>1, <1>2, <1>7 DEF Arrived

LEMMA SeenLen == ASSUME NEW buf PROVE AsSeen(buf).len = Len(buf)
<1>1. CASE Len(buf) < TC_MIN_PACKET_LEN  BY <1>1 DEF AsSeen
<1>2. CASE ~(Len(buf) < TC_MIN_PACKET_LEN)
  <2>1. PICK cmd : cmd = CASE <<buf[8], buf[9]>> = <<Word(17), Word(1)>>  -> "CONN_TEST"
                           [] <<buf[8], buf[9]>> = <<Word(130), Word(1)>> -> "EXIT_SAFE"
                           [] OTHER                                       -> "UNKNOWN"
    OBVIOUS
  <2>2. PICK bad : bad = {c \in DOMAIN Fails(buf) : Fails(buf)[c]}  OBVIOUS
  <2>3. PICK ack : ack = {s \in Stage : AckBit[s] \in buf[7]}  OBVIOUS
  <2>4. AsSeen(buf) = [len |-> Len(buf), bad |-> bad, cmd |-> cmd, ack |-> ack]
    BY <1>2, <2>1, <2>2, <2>3 DEF AsSeen
  <2> QED BY <2>4
<1> QED BY <1>1, <1>2

\* Too few octets or too many: it is cut or padded.
LEMMA JudgedBySize ==
    ASSUME NEW c \in Commands, c = command, Len(octets) \in Nat, Len(octets) \notin 13 .. 256,
           NEW tc, tc = AsSeen(octets)
    PROVE  tc \in Telecommand /\ tc.len = Len(octets) /\ Tells(tc, Causes) /\ Causes # {}
<1>1. ~Whole
  <2>1. Total(c) \in 13 .. 256  BY RequestFields
  <2> QED BY <2>1 DEF Whole, Total
<1>2. "ILLEGAL_LEN" \in Causes  BY <1>1 DEF Causes
<1>3. tc \in Telecommand  BY SeenTyped
<1>4. tc.len = Len(octets)
  <2>1. PICK buf : buf = octets  OBVIOUS
  <2>2. AsSeen(buf).len = Len(buf)  BY SeenLen
  <2> QED BY <2>1, <2>2
<1>5. TcMinLen = 13 /\ TcMaxLen = 256
  <2>1. TC_MIN_PACKET_LEN = 13 /\ TC_MAX_PACKET_LEN = 256
    BY DEF TC_MIN_PACKET_LEN, TC_MAX_PACKET_LEN, CCSDS_PRI_HDR_LEN, PUS_TC_SEC_HDR_LEN, TC_PEC_LEN
  <2> QED BY <2>1, TcLinkAssumption
<1>6. Parse(tc) \in {"TOO_SHORT", "TOO_LONG"}
  <2>1. PICK n \in Nat : n = tc.len  BY <1>4
  <2>2. \A z \in Nat : z \notin 13 .. 256 => z < 13 \/ z > 256  OBVIOUS
  <2>3. n < 13 \/ n > 256  BY <1>4, <2>1, <2>2
  <2> QED BY <1>5, <2>1, <2>3 DEF Parse
<1>7. FailureForParse(Parse(tc)) = "ILLEGAL_LEN" /\ Parse(tc) # "OK"
  BY <1>6 DEF FailureForParse
<1> QED BY <1>2, <1>3, <1>4, <1>7 DEF Tells

\* The path names what happened to the telecommand, or its damage was missed.
LEMMA JudgedByOctets ==
    ASSUME Carried, ~Missed, NEW c \in Commands, c = command, Len(octets) \in 13 .. 256,
           NEW tc, tc = AsSeen(octets)
    PROVE  /\ tc \in Telecommand /\ tc.len = Len(octets) /\ Tells(tc, Causes)
           /\ Causes = {} => (tc.cmd = "CONN_TEST" <=> c.service = 17)
<1>1. PICK a : a = octets  OBVIOUS
<1>2. PICK b : b = tc_build(c)  OBVIOUS
<1>3. PICK H : H = Harmed  OBVIOUS
<1>4. Arrived(a, b, c, H)  BY <1>1, <1>2, <1>3, ArrivedIs
<1>5. Len(a) \in Nat /\ Len(a) >= TC_MIN_PACKET_LEN /\ Len(a) \in 13 .. 256
  <2>1. PICK n \in 13 .. 256 : n = Len(octets)  OBVIOUS
  <2>2. n \in Nat /\ n >= 13  OBVIOUS
  <2>3. n >= TC_MIN_PACKET_LEN
    BY <2>2 DEF TC_MIN_PACKET_LEN, CCSDS_PRI_HDR_LEN, PUS_TC_SEC_HDR_LEN, TC_PEC_LEN
  <2> QED BY <1>1, <2>1, <2>2, <2>3
<1>6. tc = AsSeen(a)  BY <1>1
<1>7. /\ tc \in Telecommand /\ tc.len = Len(a)
      /\ "LENGTH" \in tc.bad <=> Fails(a).LENGTH
      /\ "CRC" \in tc.bad <=> Fails(a).CRC
      /\ "TYPE" \in tc.bad <=> Fails(a).TYPE
      /\ "APID" \in tc.bad <=> Fails(a).APID
      /\ "PUS_VERSION" \in tc.bad <=> Fails(a).PUS_VERSION
  BY <1>5, <1>6, SeenIs
<1>8. tc.len \in TcMinLen .. TcMaxLen
  <2>1. TC_MIN_PACKET_LEN = 13 /\ TC_MAX_PACKET_LEN = 256
    BY DEF TC_MIN_PACKET_LEN, TC_MAX_PACKET_LEN, CCSDS_PRI_HDR_LEN, PUS_TC_SEC_HDR_LEN, TC_PEC_LEN
  <2> QED BY <1>5, <1>7, <2>1, TcLinkAssumption
<1>9. /\ Fails(a).TYPE <=> ~(H \cap 0 .. 4 = {} /\ H \cap 16 .. 17 = {})
      /\ Fails(a).APID <=> ~(H \cap 5 .. 15 = {})
      /\ Fails(a).PUS_VERSION <=> ~(H \cap 48 .. 51 = {})
      /\ Len(a) = Total(c) => (Fails(a).LENGTH <=> ~(H \cap 32 .. 47 = {}))
      /\ Len(a) # Total(c) /\ H \cap 32 .. 47 = {} => Fails(a).LENGTH
  BY <1>4, HeaderSeen
<1>10. Whole <=> Len(a) = Total(c)  BY <1>1 DEF Whole, Total
<1>11. \A p, q : Hit(p, q) <=> ~(H \cap p .. q = {})  BY <1>3 DEF Hit
<1>12. \/ noise = {} \/ "LENGTH" \in tc.bad \/ "CRC" \in tc.bad
  BY <1>1, <1>5, <1>7 DEF Missed
<1>13. CASE ~Whole /\ Hit(32, 47)
  <2>1. Causes = {"ILLEGAL_LEN", "BAD_CRC"}  BY <1>13 DEF Causes
  <2>2. noise # {}  BY <1>13 DEF Carried, Hit, Harmed
  <2> QED BY <1>1, <1>7, <1>8, <1>12, <2>1, <2>2, CodeTold
<1>14. CASE ~Whole /\ ~Hit(32, 47)
  <2>1. Causes = {"ILLEGAL_LEN"}  BY <1>14 DEF Causes
  <2>2. "LENGTH" \in tc.bad  BY <1>7, <1>9, <1>10, <1>11, <1>14
  <2> QED BY <1>1, <1>7, <1>8, <2>1, <2>2, CodeTold
<1>15. CASE Whole /\ Hit(32, 47)
  <2>1. Causes = {"ILLEGAL_LEN"}  BY <1>15 DEF Causes
  <2>2. "LENGTH" \in tc.bad  BY <1>7, <1>9, <1>10, <1>11, <1>15
  <2> QED BY <1>1, <1>7, <1>8, <2>1, <2>2, CodeTold
<1>16. ASSUME Whole, ~Hit(32, 47) PROVE "LENGTH" \notin tc.bad
  BY <1>7, <1>9, <1>10, <1>11, <1>16
<1>17. CASE Whole /\ ~Hit(32, 47) /\ noise # {}
  <2>1. Causes = {"BAD_CRC"}  BY <1>17 DEF Causes
  <2> QED BY <1>1, <1>7, <1>8, <1>12, <1>16, <1>17, <2>1, CodeTold
<1>18. ASSUME Whole, noise = {} PROVE "CRC" \notin tc.bad
  <2>1. PICK s : Clean(octets, s)  BY <1>18 DEF Carried
  <2>2. octets \in Seq(Octet)  BY DEF Carried
  <2>3. ~Fails(octets).CRC  BY <1>18, <2>1, <2>2, CleanPasses
  <2> QED BY <1>1, <1>7, <2>3
<1>19. CASE Whole /\ ~Hit(32, 47) /\ noise = {} /\ (Hit(0, 4) \/ Hit(16, 17))
  <2>1. Causes = {"BAD_HEADER"}  BY <1>19 DEF Causes
  <2>2. "TYPE" \in tc.bad  BY <1>7, <1>9, <1>11, <1>19
  <2> QED BY <1>1, <1>7, <1>8, <1>16, <1>18, <1>19, <2>1, <2>2, CodeTold
<1>20. CASE Whole /\ ~Hit(32, 47) /\ noise = {} /\ ~(Hit(0, 4) \/ Hit(16, 17))
  <2>1. "LENGTH" \notin tc.bad /\ "CRC" \notin tc.bad  BY <1>16, <1>18, <1>20
  <2>2. "TYPE" \notin tc.bad  BY <1>7, <1>9, <1>11, <1>20
  <2>3. CASE Hit(5, 15)
    <3>1. Causes = {"BAD_APID"}  BY <1>20, <2>3 DEF Causes
    <3>2. "APID" \in tc.bad  BY <1>7, <1>9, <1>11, <2>3
    <3> QED BY <1>1, <1>7, <1>8, <2>1, <2>2, <3>1, <3>2, CodeTold
  <2>4. CASE ~Hit(5, 15) /\ Hit(48, 51)
    <3>1. Causes = {"BAD_HEADER"}  BY <1>20, <2>4 DEF Causes
    <3>2. "APID" \notin tc.bad /\ "PUS_VERSION" \in tc.bad  BY <1>7, <1>9, <1>11, <2>4
    <3> QED BY <1>1, <1>7, <1>8, <2>1, <2>2, <3>1, <3>2, CodeTold
  <2>5. CASE ~Hit(5, 15) /\ ~Hit(48, 51)
    <3>1. "APID" \notin tc.bad /\ "PUS_VERSION" \notin tc.bad  BY <1>7, <1>9, <1>11, <2>5
    <3>2. Parse(tc) = "OK"
      <4>1. tc.bad = {}
        <5>1. tc.bad \subseteq {"LENGTH", "CRC", "TYPE", "APID", "PUS_VERSION"}
          <6>1. tc.bad \in SUBSET {Check[i] : i \in 1 .. Len(Check)}  BY <1>7 DEF Telecommand
          <6>2. \A i \in 1 .. Len(Check) :
                   Check[i] \in {"LENGTH", "CRC", "TYPE", "APID", "PUS_VERSION"}
            BY DEF Check
          <6> QED BY <6>1, <6>2
        <5> QED BY <2>1, <2>2, <3>1, <5>1
      <4> QED BY <1>7, <1>8, <4>1, ParseIs
    <3>3. H \subseteq 0 .. 55  BY <1>3, <1>20 DEF Carried, Harmed, HeaderBit
    <3>4. Named(tc, c)  BY <1>4, <1>6, <3>3, PairSeen
    <3>5. tc.len = Total(c)  BY <1>7, <1>10, <1>20
    <3>6. PICK known \in BOOLEAN :
             known <=> <<c.service, c.subtype>> \in {<<17, 1>>, <<130, 1>>}
      OBVIOUS
    <3>7. /\ ~known => Dispatch(tc) = "UNKNOWN_CMD"
          /\ known /\ c.app # <<>> => Dispatch(tc) = "BAD_APP_DATA"
          /\ known /\ c.app = <<>> => Dispatch(tc) = "OK"
      BY <1>7, <3>4, <3>5, <3>6, Dispatched
    <3>8. /\ ~known => Causes = {"UNKNOWN_CMD"}
          /\ known /\ c.app # <<>> => Causes = {"BAD_APP_DATA"}
          /\ known /\ c.app = <<>> => Causes = {}
      BY <1>20, <2>5, <3>6 DEF Causes
    <3>9. Tells(tc, Causes)  BY <3>2, <3>7, <3>8 DEF Tells
    <3>10. Causes = {} => (tc.cmd = "CONN_TEST" <=> c.service = 17)
      <4>1. known => c.subtype = 1
        <5>1. PICK s, t : s = c.service /\ t = c.subtype  OBVIOUS
        <5>2. <<s, t>> \in {<<17, 1>>, <<130, 1>>} => t = 1  OBVIOUS
        <5> QED BY <3>6, <5>1, <5>2
      <4> QED BY <3>4, <3>8, <4>1 DEF Named
    <3> QED BY <1>1, <1>7, <3>9, <3>10
  <2> QED BY <2>3, <2>4, <2>5
<1> QED BY <1>13, <1>14, <1>15, <1>17, <1>19, <1>20

-----------------------------------------------------------------------------
(* What the ground is told *)

\* What is sent: one refusal, with one of codes, or none.
Replied(o, codes) ==
    \E n \in Nat :
        /\ Len(o) = n /\ (codes # {} => n = 1)
        /\ \A i \in 1 .. n : /\ o[i].kind \in ReportKind /\ o[i].code \in FailCode
                             /\ codes = {} => o[i].kind # "ACCEPT_FAIL"
                             /\ codes # {} => o[i].kind = "ACCEPT_FAIL" /\ o[i].code \in codes

LEMMA OneRefusal ==
    ASSUME RoomForAll, NEW code \in FailCode, NEW codes, code \in codes,
           Send(Rep("ACCEPT_FAIL", code)), NEW o, o = out'
    PROVE  Replied(o, codes)
<1>1. PICK x : x = [kind |-> "ACCEPT_FAIL", code |-> code]  OBVIOUS
<1>2. PICK rs : rs = <<x>>  OBVIOUS
<1>3. Len(rs) = 1 /\ rs[1] = x  BY <1>2
<1>4. Send(rs)  BY <1>1, <1>2 DEF Rep
<1>5. PICK y : y = [kind |-> x.kind, code |-> x.code, seq |-> (tmSeq + 1 - 1) % TmSeqMod]  OBVIOUS
<1>6. o = [i \in 1 .. 1 |-> [kind |-> rs[i].kind, code |-> rs[i].code,
                             seq |-> (tmSeq + i - 1) % TmSeqMod]]
  <2>1. ~(Len(rs) > MaxTmPerTc)  BY <1>3, CommandPathAssumption DEF RoomForAll
  <2> QED BY <1>3, <1>4, <2>1 DEF Send
<1>7. o = [i \in 1 .. 1 |-> o[i]]  BY <1>6
<1>8. o \in Seq({o[i] : i \in 1 .. 1}) /\ Len(o) = 1  BY <1>7
<1>9. o[1].kind = x.kind /\ o[1].code = x.code
  <2>1. 1 \in 1 .. 1  OBVIOUS
  <2>2. o[1] = y  BY <1>3, <1>5, <1>6, <2>1
  <2> QED BY <1>5, <2>2
<1>10. o[1].kind = "ACCEPT_FAIL" /\ o[1].code = code  BY <1>1, <1>9
<1>11. \A i \in 1 .. 1 : /\ o[i].kind \in ReportKind /\ o[i].code \in FailCode
                         /\ codes = {} => o[i].kind # "ACCEPT_FAIL"
                         /\ codes # {} => o[i].kind = "ACCEPT_FAIL" /\ o[i].code \in codes
  <2>1. \A i \in 1 .. 1 : i = 1  OBVIOUS
  <2>2. "ACCEPT_FAIL" \in ReportKind /\ codes # {}  BY DEF ReportKind
  <2> QED BY <1>10, <2>1, <2>2
<1>12. 1 \in Nat  OBVIOUS
<1> QED BY <1>8, <1>11, <1>12 DEF Replied

LEMMA NoRefusal ==
    ASSUME RoomForAll, NEW tc \in Telecommand, tc.len >= 4, NEW hook \in Hook, HandleTc(tc, hook),
           Valid(tc), NEW o, o = out', NEW codes, codes = {}
    PROVE  Replied(o, codes)
<1>1. PICK rs : Chain(rs, 1, 4) /\ Send(rs) /\ Fate(tc, hook, KindsOf(rs))  BY Outcome
<1>2. "ACCEPT_FAIL" \notin KindsOf(rs)
  <2>1. tc.len \in Nat  BY DEF Telecommand
  <2>2. ~(tc.len < 4)  BY <2>1
  <2>3. ~(tc.len >= 4 /\ ~Valid(tc))  OBVIOUS
  <2> QED BY <1>1, <2>2, <2>3 DEF Fate
<1>3. rs \in Seq(Report)  BY <1>1 DEF Chain
<1>4. PICK m \in Nat : m = IF Len(rs) > MaxTmPerTc THEN MaxTmPerTc ELSE Len(rs)
  BY <1>3, CommandPathAssumption
<1>5. o = [i \in 1 .. m |-> [kind |-> rs[i].kind, code |-> rs[i].code,
                             seq |-> (tmSeq + i - 1) % TmSeqMod]]
  BY <1>1, <1>4 DEF Send
<1>6. Len(o) = m
  <2>1. o = [i \in 1 .. m |-> o[i]]  BY <1>5
  <2>2. o \in Seq({o[i] : i \in 1 .. m}) /\ Len(o) = m  BY <1>4, <2>1
  <2> QED BY <2>2
<1>7. ASSUME NEW i \in 1 .. m
      PROVE  o[i].kind \in ReportKind /\ o[i].code \in FailCode /\ o[i].kind # "ACCEPT_FAIL"
  <2>1. i \in 1 .. Len(rs)  BY <1>3, <1>4, CommandPathAssumption
  <2>2. rs[i] \in Report  BY <1>3, <2>1
  <2>3. o[i].kind = rs[i].kind /\ o[i].code = rs[i].code  BY <1>5
  <2>4. rs[i].kind \in KindsOf(rs)  BY <2>1 DEF KindsOf
  <2>5. rs[i].kind # "ACCEPT_FAIL"  BY <1>2, <2>4
  <2> QED BY <2>2, <2>3, <2>5 DEF Report
<1> QED BY <1>6, <1>7 DEF Replied

LEMMA CodeSent ==
    ASSUME RoomForAll, NEW tc \in Telecommand, tc.len >= 4, NEW hook \in Hook, HandleTc(tc, hook),
           NEW codes, Tells(tc, codes), NEW o, o = out'
    PROVE  Replied(o, codes)
<1>1. CASE Parse(tc) # "OK"
  <2>1. FailureForParse(Parse(tc)) \in FailCode  BY <1>1, ParseIs
  <2>2. PICK code \in FailCode : code = FailureForParse(Parse(tc))  BY <2>1
  <2>3. tc.len \in Nat  BY DEF Telecommand
  <2>4. ~(tc.len < 4)  BY <2>3
  <2>5. Malformed(tc)
    BY <1>1, <2>4 DEF HandleTc, Unnameable, NotACommand, ConnectionTest, ExitSafeMode
  <2>6. Send(Rep("ACCEPT_FAIL", code))  BY <2>2, <2>5 DEF Malformed
  <2>7. code \in codes  BY <1>1, <2>2 DEF Tells
  <2> QED BY <2>6, <2>7, OneRefusal
<1>2. CASE Parse(tc) = "OK" /\ Dispatch(tc) # "OK"
  <2>1. Dispatch(tc) \in FailCode  BY <1>2, ValidIs
  <2>2. PICK code \in FailCode : code = Dispatch(tc)  BY <2>1
  <2>3. NotACommand(tc)
    BY <1>2 DEF HandleTc, Unnameable, Malformed, ConnectionTest, ExitSafeMode
  <2>4. Send(Rep("ACCEPT_FAIL", code))  BY <2>2, <2>3 DEF NotACommand
  <2>5. code \in codes  BY <1>2, <2>2 DEF Tells
  <2> QED BY <2>4, <2>5, OneRefusal
<1>3. CASE Parse(tc) = "OK" /\ Dispatch(tc) = "OK"
  <2>1. codes = {}  BY <1>3 DEF Tells
  <2>2. Valid(tc)  BY <1>3, ValidIs
  <2> QED BY <2>1, <2>2, NoRefusal
<1> QED BY <1>1, <1>2, <1>3

\* In octets a refusal, and no other report, is one; it carries its code.
LEMMA RefusalIs ==
    ASSUME NEW r, r.kind \in ReportKind, r.code \in FailCode, NEW quote,
           NEW p, p = ReportOctets(r, quote)
    PROVE  /\ r.kind # "ACCEPT_FAIL" => ~Refusal(p)
           /\ r.kind = "ACCEPT_FAIL" => Refusal(p) /\ p[16] = Word(FailureCode[r.code])
<1>1. CASE r.kind = "CONN_TEST"
  <2>1. p = build_conn_test_report(r.seq)  BY <1>1 DEF ReportOctets
  <2>2. PICK e : e = <<>>  OBVIOUS
  <2>3. p = TmPacketOf(CCSDS_APID_CMD, r.seq, 17, 2, e)  BY <2>1, <2>2 DEF build_conn_test_report
  <2>4. e \in Seq(Octet)  BY <2>2
  <2>5. PICK s \in Nat : s = 17 /\ s < 256  OBVIOUS
  <2>6. PICK t \in Nat : t = 2 /\ t < 256  OBVIOUS
  <2>7. Word(s) \in Octet /\ Word(t) \in Octet  BY <2>5, <2>6, OctetWord
  <2>8. p = TmPacketOf(CCSDS_APID_CMD, r.seq, s, t, e)  BY <2>3, <2>5, <2>6
  <2>9. Placed(p, CCSDS_APID_CMD, r.seq, s, t, e)  BY <2>4, <2>7, <2>8, TmPlaces
  <2>10. p[8] = Word(s)  BY <2>9 DEF Placed
  <2>11. 4 \in Word(17) /\ 4 \notin Word(1)  BY BitWord, Powers
  <2> QED BY <1>1, <2>5, <2>10, <2>11 DEF Refusal, IsVerification
<1>2. CASE r.kind # "CONN_TEST"
  <2>1. p = build_verification(r.seq, Subtype[r.kind], quote[1], quote[2],
                               Word(FailureCode[r.code]))
    BY <1>2 DEF ReportOctets
  <2>2. PICK t : t = Subtype[r.kind]  OBVIOUS
  <2>3. t \in 1 .. 8 /\ (t = 2 <=> r.kind = "ACCEPT_FAIL")
    BY <1>2, <2>2 DEF Subtype, ReportKind
  <2>4. PICK code : code = Word(FailureCode[r.code])  OBVIOUS
  <2>5. code \in Octet
    <3>1. FailureCode[r.code] \in 0 .. 7  BY DEF FailureCode, FailCode
    <3>2. FailureCode[r.code] \in Nat /\ FailureCode[r.code] < 256  BY <3>1
    <3> QED BY <2>4, <3>2, OctetWord
  <2>6. PICK tail : tail = IF t % 2 = 0 THEN <<code>> ELSE <<>>  OBVIOUS
  <2>7. tail \in Seq(Octet)
    <3>1. <<code>> \in Seq(Octet) /\ <<>> \in Seq(Octet)  BY <2>5
    <3> QED BY <2>6, <3>1
  <2>8. PICK payload : Quoting(payload, quote[1], quote[2], tail)  BY DEF Quoting
  <2>9. Lies(payload, quote[1], quote[2], tail)  BY <2>7, <2>8, QuoteLies
  <2>10. payload \in Seq(Octet) /\ Len(payload) = 4 + Len(tail) /\ Len(tail) \in Nat
    BY <2>9 DEF Lies
  <2>11. PICK s \in Nat : s = 1 /\ s < 256  OBVIOUS
  <2>12. t \in Nat /\ t < 256  BY <2>3
  <2>13. Word(s) \in Octet /\ Word(t) \in Octet  BY <2>11, <2>12, OctetWord
  <2>14. p = TmPacketOf(CCSDS_APID_CMD, r.seq, s, t, payload)
    BY <2>1, <2>2, <2>4, <2>6, <2>8, <2>11 DEF build_verification, Quoting
  <2>15. Placed(p, CCSDS_APID_CMD, r.seq, s, t, payload)  BY <2>10, <2>13, <2>14, TmPlaces
  <2>16. p[8] = Word(1) /\ p[9] = Word(t)  BY <2>11, <2>15 DEF Placed
  <2>17. Refusal(p) <=> t = 2
    <3>1. PICK two \in Nat : two = 2 /\ two < 256  OBVIOUS
    <3>2. Word(t) = Word(two) => t = two  BY <2>12, <3>1, WordInjective
    <3> QED BY <2>16, <3>1, <3>2 DEF Refusal, IsVerification
  <2>18. ASSUME t = 2 PROVE p[16] = code
    <3>1. tail = <<code>>
      <4>1. 2 % 2 = 0  OBVIOUS
      <4> QED BY <2>6, <2>18, <4>1
    <3>2. Len(tail) = 1 /\ tail[1] = code  BY <3>1
    <3>3. payload[4 + 1] = code
      <4>1. 1 \in 1 .. 1  OBVIOUS
      <4> QED BY <2>9, <3>2, <4>1 DEF Lies
    <3>4. Len(payload) = 5  BY <2>10, <3>2
    <3>5. p[11 + 5] = payload[5]
      <4>1. 5 \in 1 .. 5  OBVIOUS
      <4>2. \A k \in 1 .. Len(payload) : p[11 + k] = payload[k]  BY <2>15 DEF Placed
      <4> QED BY <3>4, <4>1, <4>2
    <3>6. 4 + 1 = 5 /\ 11 + 5 = 16  OBVIOUS
    <3> QED BY <3>3, <3>5, <3>6
  <2> QED BY <2>3, <2>4, <2>17, <2>18
<1> QED BY <1>1, <1>2

\* The reports in octets say what the causes are.
Names(a, codes) ==
    /\ codes = {} => \A i \in 1 .. Len(a) : ~Refusal(a[i])
    /\ codes # {} => /\ Len(a) = 1 /\ Refusal(a[1])
                     /\ a[1][16] \in {Word(FailureCode[c]) : c \in codes}

LEMMA AnswersName ==
    ASSUME NEW o, NEW codes, Replied(o, codes), NEW quote,
           NEW a, a = [i \in 1 .. Len(o) |-> ReportOctets(o[i], quote)]
    PROVE  Names(a, codes)
<1>1. PICK n \in Nat :
        /\ Len(o) = n /\ (codes # {} => n = 1)
        /\ \A i \in 1 .. n : /\ o[i].kind \in ReportKind /\ o[i].code \in FailCode
                             /\ codes = {} => o[i].kind # "ACCEPT_FAIL"
                             /\ codes # {} => o[i].kind = "ACCEPT_FAIL" /\ o[i].code \in codes
  BY DEF Replied
<1>2. a = [i \in 1 .. n |-> ReportOctets(o[i], quote)]  BY <1>1
<1>3. Len(a) = n
  <2>1. a = [i \in 1 .. n |-> a[i]]  BY <1>2
  <2>2. a \in Seq({a[i] : i \in 1 .. n}) /\ Len(a) = n  BY <1>1, <2>1
  <2> QED BY <2>2
<1>4. ASSUME NEW i \in 1 .. n
      PROVE  /\ codes = {} => ~Refusal(a[i])
             /\ codes # {} => Refusal(a[i]) /\ a[i][16] \in {Word(FailureCode[c]) : c \in codes}
  <2>1. PICK r : r = o[i]  OBVIOUS
  <2>2. PICK p : p = a[i]  OBVIOUS
  <2>3. r.kind \in ReportKind /\ r.code \in FailCode  BY <1>1, <2>1
  <2>4. p = ReportOctets(r, quote)  BY <1>2, <2>1, <2>2
  <2>5. /\ r.kind # "ACCEPT_FAIL" => ~Refusal(p)
        /\ r.kind = "ACCEPT_FAIL" => Refusal(p) /\ p[16] = Word(FailureCode[r.code])
    BY <2>3, <2>4, RefusalIs
  <2>6. /\ codes = {} => r.kind # "ACCEPT_FAIL"
        /\ codes # {} => r.kind = "ACCEPT_FAIL" /\ r.code \in codes
    BY <1>1, <2>1
  <2> QED BY <2>2, <2>5, <2>6
<1>5. ASSUME codes # {}
      PROVE  /\ Len(a) = 1 /\ Refusal(a[1])
             /\ a[1][16] \in {Word(FailureCode[c]) : c \in codes}
  <2>1. n = 1 /\ 1 \in 1 .. n  BY <1>1, <1>5
  <2> QED BY <1>3, <1>4, <1>5, <2>1
<1> QED BY <1>3, <1>4, <1>5 DEF Names

\* What the path sees when it is handed the octets.
LEMMA Judged ==
    ASSUME LinkInv, WayInv, inFlight, Destination(octets, TRUE) = "DISPATCH", ~Missed,
           NEW tc, tc = AsSeen(octets)
    PROVE  /\ tc \in Telecommand /\ tc.len \in Nat /\ tc.len >= 4 /\ Tells(tc, Causes)
           /\ Causes = {} => (tc.cmd = "CONN_TEST" <=> command.service = 17)
<1>1. Carried  BY DEF WayInv, inFlight
<1>2. PICK n \in Nat : n = Len(octets)  BY <1>1 DEF Carried
<1>3. n >= 6  BY <1>2, Headed
<1>4. PICK c \in Commands : c = command  BY LastSent DEF LinkInv, inFlight
<1>5. CASE n \in 13 .. 256
  <2>1. Len(octets) \in 13 .. 256  BY <1>2, <1>5
  <2>2. /\ tc \in Telecommand /\ tc.len = Len(octets) /\ Tells(tc, Causes)
        /\ Causes = {} => (tc.cmd = "CONN_TEST" <=> c.service = 17)
    BY <1>1, <1>4, <2>1, JudgedByOctets
  <2> QED BY <1>2, <1>3, <1>4, <2>2
<1>6. CASE n \notin 13 .. 256
  <2>1. Len(octets) \in Nat /\ Len(octets) \notin 13 .. 256  BY <1>2, <1>6
  <2>2. tc \in Telecommand /\ tc.len = Len(octets) /\ Tells(tc, Causes) /\ Causes # {}
    BY <1>4, <2>1, JudgedBySize
  <2> QED BY <1>2, <1>3, <2>2
<1> QED BY <1>5, <1>6

LEMMA IngestCarries ==
    ASSUME RoomForAll, LinkInv, WayInv, NEW hook \in Hook, Ingest(hook) PROVE WayInv'
<1>1. /\ inFlight /\ UNCHANGED <<sent, wrong, noise, octets>>
      /\ dest' = <<Destination(octets, TRUE)>>
  BY DEF Ingest
<1>2. /\ command' = command /\ (Whole' <=> Whole) /\ Harmed' = Harmed /\ Harms' = Harms
      /\ Bit' = Bit /\ (Missed' <=> Missed) /\ Causes' = Causes
  BY <1>1 DEF command, Whole, Harmed, Harms, Bit, Missed, Causes, Hit
<1>3. Carried  BY <1>1 DEF WayInv, inFlight
<1>4. Carried'  BY <1>1, <1>2, <1>3 DEF Carried, Clean, HeaderBit
<1>5. connTests' \in Nat
  <2>1. CASE dest' # <<"DISPATCH">>  BY <2>1 DEF Ingest, pathVars, WayInv
  <2>2. CASE dest' = <<"DISPATCH">>
    <3>1. HandleTc(AsSeen(octets), hook)  BY <2>2 DEF Ingest
    <3>2. connTests' = connTests \/ connTests' = connTests + 1
      BY <3>1 DEF HandleTc, Unnameable, Malformed, NotACommand, ConnectionTest, ExitSafeMode
    <3> QED BY <3>2 DEF WayInv
  <2> QED BY <2>1, <2>2
<1>6. ASSUME dest' = <<"DISPATCH">>, ~Missed PROVE RefusedForItsCause'
  <2>1. Destination(octets, TRUE) = "DISPATCH"
    <3>1. PICK d : d = Destination(octets, TRUE)  OBVIOUS
    <3>2. <<d>> = <<"DISPATCH">>  BY <1>1, <1>6, <3>1
    <3>3. d = "DISPATCH"  BY <3>2
    <3> QED BY <3>1, <3>3
  <2>2. PICK tc : tc = AsSeen(octets)  OBVIOUS
  <2>3. tc \in Telecommand /\ tc.len >= 4 /\ Tells(tc, Causes)
    BY <1>1, <1>6, <2>1, <2>2, Judged
  <2>4. PICK codes : codes = Causes  OBVIOUS
  <2>5. HandleTc(tc, hook)  BY <1>6, <2>2 DEF Ingest
  <2>6. PICK o : o = out'  OBVIOUS
  <2>7. Tells(tc, codes)  BY <2>3, <2>4
  <2>8. Replied(o, codes)  BY <2>3, <2>5, <2>6, <2>7, CodeSent
  <2>9. PICK quote : quote = Quoted(octets)  OBVIOUS
  <2>10. PICK a : a = answers'  OBVIOUS
  <2>11. a = [i \in 1 .. Len(o) |-> ReportOctets(o[i], quote)]
    BY <1>6, <2>6, <2>9, <2>10 DEF Ingest
  <2>12. Names(a, codes)  BY <2>8, <2>11, AnswersName
  <2>13. Causes' = codes  BY <1>2, <2>4
  <2> QED BY <2>10, <2>12, <2>13 DEF RefusedForItsCause, Names
<1>7. sent' # <<>>  BY <1>1 DEF inFlight
<1> QED BY <1>2, <1>4, <1>5, <1>6, <1>7 DEF WayInv

LEMMA WayInvHolds == ASSUME RoomForAll PROVE LinkSpec => [](LinkInv /\ WayInv)
<1>1. ASSUME LinkInv, WayInv, LinkNext PROVE WayInv'
  <2>1. ASSUME NEW c \in Commands, Uplink(c) PROVE WayInv'  BY <1>1, <2>1, UplinkCarries
  <2>2. ASSUME NEW p \in HeaderBit, Misbuild(p) PROVE WayInv'  BY <1>1, <2>2, MisbuildCarries
  <2>3. ASSUME NEW p \in Bit, Damage(p) PROVE WayInv'  BY <1>1, <2>3, DamageCarries
  <2>4. ASSUME NEW n \in 0 .. Len(octets) + 1, Resize(n) PROVE WayInv'
    BY <1>1, <2>4, ResizeCarries
  <2>5. ASSUME NEW hook \in Hook, Ingest(hook) PROVE WayInv'  BY <1>1, <2>5, IngestCarries
  <2> QED BY <1>1, <2>1, <2>2, <2>3, <2>4, <2>5 DEF LinkNext
<1>2. ASSUME WayInv, UNCHANGED linkVars PROVE WayInv'
  <2>1. UNCHANGED <<connTests, sent, wrong, noise, octets, dest, answers>>
    BY <1>2 DEF linkVars, pathVars
  <2>2. /\ command' = command /\ (Whole' <=> Whole) /\ Harmed' = Harmed /\ Harms' = Harms
        /\ Bit' = Bit /\ (Missed' <=> Missed) /\ Causes' = Causes
    BY <2>1 DEF command, Whole, Harmed, Harms, Bit, Missed, Causes, Hit
  <2>3. Carried => Carried'  BY <2>1, <2>2 DEF Carried, Clean, HeaderBit
  <2>4. RefusedForItsCause => RefusedForItsCause'  BY <2>1, <2>2 DEF RefusedForItsCause
  <2> QED BY <1>2, <2>1, <2>2, <2>3, <2>4 DEF WayInv
<1> QED BY <1>1, <1>2, WayInvInit, LinkInvHolds, PTL DEF LinkSpec

\* Whatever harm is done to a telecommand, the ground is told what it was, unless the
\* octets that arrive pass the checks of length and checksum with noise in them.
THEOREM RefusedUnlessMissed ==
    ASSUME RoomForAll
    PROVE  LinkSpec => [](dest = <<"DISPATCH">> => Missed \/ RefusedForItsCause)
<1>1. WayInv => (dest = <<"DISPATCH">> => Missed \/ RefusedForItsCause)  BY DEF WayInv
<1> QED BY <1>1, WayInvHolds, PTL

\* A step that executes a command.
SoundAct ==
    Causes = {} /\ connTests' - connTests = (IF command.service = 17 THEN 1 ELSE 0)

LEMMA IngestActs ==
    ASSUME LinkInv, WayInv, NEW hook \in Hook, Ingest(hook), executed' # executed, ~Missed
    PROVE  SoundAct
<1>1. inFlight /\ dest' = <<Destination(octets, TRUE)>>  BY DEF Ingest
<1>2. dest' = <<"DISPATCH">>  BY DEF Ingest, pathVars
<1>3. Destination(octets, TRUE) = "DISPATCH"
  <2>1. PICK d : d = Destination(octets, TRUE)  OBVIOUS
  <2>2. <<d>> = <<"DISPATCH">>  BY <1>1, <1>2, <2>1
  <2>3. d = "DISPATCH"  BY <2>2
  <2> QED BY <2>1, <2>3
<1>4. PICK tc : tc = AsSeen(octets)  OBVIOUS
<1>5. /\ Tells(tc, Causes)
      /\ Causes = {} => (tc.cmd = "CONN_TEST" <=> command.service = 17)
  BY <1>1, <1>3, <1>4, Judged
<1>6. HandleTc(tc, hook)  BY <1>2, <1>4 DEF Ingest
<1>7. ConnectionTest(tc) \/ ExitSafeMode(tc, hook)
  BY <1>6 DEF HandleTc, Unnameable, Malformed, NotACommand
<1>8. Parse(tc) = "OK" /\ Dispatch(tc) = "OK"  BY <1>7 DEF ConnectionTest, ExitSafeMode
<1>9. Causes = {}  BY <1>5, <1>8 DEF Tells
<1>10. PICK n \in Nat : n = connTests  BY DEF WayInv
<1>11. CASE ConnectionTest(tc)
  <2>1. connTests' = n + 1 /\ command.service = 17  BY <1>5, <1>9, <1>10, <1>11 DEF ConnectionTest
  <2>2. (n + 1) - n = 1  OBVIOUS
  <2> QED BY <1>9, <1>10, <2>1, <2>2 DEF SoundAct
<1>12. CASE ExitSafeMode(tc, hook)
  <2>1. connTests' = n /\ command.service # 17
    BY <1>5, <1>9, <1>10, <1>12 DEF ExitSafeMode
  <2>2. n - n = 0  OBVIOUS
  <2> QED BY <1>9, <1>10, <2>1, <2>2 DEF SoundAct
<1> QED BY <1>7, <1>11, <1>12

\* Only what the ground sent is acted on, and only when it is ingested.
LEMMA ActsOn ==
    ASSUME [LinkNext]_linkVars, executed' # executed
    PROVE  \E hook \in Hook : Ingest(hook)
<1>1. ~UNCHANGED pathVars  BY DEF pathVars
<1>2. LinkNext  BY <1>1 DEF linkVars
<1> QED BY <1>1, <1>2 DEF LinkNext, Uplink, Misbuild, Damage, Resize

LEMMA ActsKept ==
    ASSUME LinkInv, WayInv, [LinkNext]_linkVars, executed' # executed, ~Missed PROVE SoundAct
BY ActsOn, IngestActs

\* What is executed is the command the ground sent, built as the code builds it, unless
\* it was damaged and the checks of length and checksum did not see it.
THEOREM ActsUnlessMissed ==
    ASSUME RoomForAll
    PROVE  LinkSpec => [][executed' # executed => Missed \/ SoundAct]_linkVars
<1>1. ASSUME LinkInv /\ WayInv, [LinkNext]_linkVars
      PROVE  [executed' # executed => Missed \/ SoundAct]_linkVars
  BY <1>1, ActsKept
<1> QED BY <1>1, WayInvHolds, PTL DEF LinkSpec

-----------------------------------------------------------------------------
(* Noise that is not missed *)

\* The bits damaged lie in two octets of the whole packet that follow each other.
Burst ==
    /\ Whole /\ noise # {}
    /\ \E k \in 1 .. Len(octets) - 1 : noise \subseteq 8 * (k - 1) .. 8 * (k + 1) - 1

LEMMA BurstNotMissed == ASSUME Carried, Burst PROVE ~Missed
<1> SUFFICES ASSUME Missed PROVE FALSE  OBVIOUS
<1>1. PICK a : a = octets  OBVIOUS
<1>2. a \in Seq(Octet) /\ ~Fails(a).CRC /\ noise \subseteq 0 .. 8 * Len(a) - 1
  BY <1>1 DEF Carried, Missed, Burst, Bit
<1>3. PICK s : Clean(octets, s)  BY DEF Carried, Burst
<1>4. s \in Seq(Octet) /\ Len(s) = Len(a) /\ ~Fails(s).CRC /\ Marks(a, s, noise, Len(a))
  BY <1>1, <1>3 DEF Clean
<1>5. PICK n \in Nat : n = Len(a) /\ n >= 2
  <2>1. PICK l \in Nat : l = Len(a)  BY <1>2
  <2>2. l >= TC_MIN_PACKET_LEN  BY <1>1, <2>1 DEF Missed
  <2>3. l >= 2  BY <2>2 DEF TC_MIN_PACKET_LEN, CCSDS_PRI_HDR_LEN, PUS_TC_SEC_HDR_LEN, TC_PEC_LEN
  <2> QED BY <2>1, <2>3
<1>6. PICK k \in 1 .. n - 1 : noise \subseteq 8 * (k - 1) .. 8 * (k + 1) - 1
  BY <1>1, <1>5 DEF Burst
<1>7. ASSUME NEW i \in 1 .. n PROVE i \in 1 .. Len(a) /\ Turned(a, s, noise, i)
  <2>1. i \in 1 .. Len(a) /\ i <= Len(a)  BY <1>5
  <2> QED BY <1>4, <2>1 DEF Marks
<1>8. ASSUME NEW i \in 1 .. n, i \notin {k, k + 1} PROVE a[i] = s[i]
  <2>1. i \in Int /\ k \in Int /\ (i < k \/ i > k + 1)  BY <1>8
  <2>2. ASSUME NEW j \in 0 .. 7 PROVE 8 * i - 1 - j \notin noise
    <3>1. PICK z : z = 8 * i - 1 - j  OBVIOUS
    <3>2. z \notin 8 * (k - 1) .. 8 * (k + 1) - 1  BY <2>1, <3>1
    <3> QED BY <1>6, <3>1, <3>2
  <2> QED BY <1>2, <1>4, <1>7, <2>2, Unturned
<1>9. a = s  BY <1>2, <1>4, <1>5, <1>8, BurstSeen
<1>10. PICK p \in noise : TRUE  BY DEF Burst
<1>11. p \in Nat /\ p <= 8 * n - 1  BY <1>2, <1>5
<1>12. PICK q \in Nat, r \in 0 .. 7 : p = 8 * q + r  BY <1>11, Digits
<1>13. PICK i \in 1 .. n, j \in 0 .. 7 : i = q + 1 /\ j = 7 - r  BY <1>11, <1>12
<1>14. 8 * i - 1 - j = p  BY <1>12, <1>13
<1>15. j \in a[i] <=> j \notin s[i]  BY <1>7, <1>10, <1>14 DEF Turned
<1> QED BY <1>9, <1>15

\* One harm at most: a bit damaged is a burst, and it is all there is.
LEMMA OneNotMissed == ASSUME MaxHarm <= 1, Carried PROVE ~Missed
<1> SUFFICES ASSUME Missed PROVE FALSE  OBVIOUS
<1>1. IsFiniteSet(Harmed) /\ Harms <= MaxHarm /\ noise # {} /\ noise \subseteq Harmed
  BY DEF Carried, Missed, Harmed
<1>2. PICK c \in Nat : c = Cardinality(Harmed)  BY <1>1, FS_CardinalityType
<1>3. c # 0
  <2>1. Harmed # {}  BY <1>1
  <2> QED BY <1>1, <1>2, <2>1, FS_EmptySet
<1>4. Whole /\ c = 1
  <2>1. MaxHarm \in Nat  BY TcLinkAssumption
  <2>2. Harms = IF Whole THEN c + 0 ELSE c + 1  BY <1>2 DEF Harms
  <2>3. CASE Whole
    <3>1. Harms = c + 0  BY <2>2, <2>3
    <3> QED BY <1>1, <1>3, <2>1, <2>3, <3>1
  <2>4. CASE ~Whole
    <3>1. Harms = c + 1  BY <2>2, <2>4
    <3> QED BY <1>1, <1>3, <2>1, <3>1
  <2> QED BY <2>3, <2>4
<1>5. PICK p : Harmed = {p}  BY <1>1, <1>2, <1>4, FS_Singleton
<1>6. noise = {p}  BY <1>1, <1>5
<1>7. PICK n \in Nat : n = Len(octets) /\ n >= 2
  <2>0. octets \in Seq(Octet)  BY DEF Carried
  <2>1. PICK l \in Nat : l = Len(octets)  BY <2>0
  <2>2. l >= TC_MIN_PACKET_LEN  BY <2>1 DEF Missed
  <2>3. l >= 2  BY <2>2 DEF TC_MIN_PACKET_LEN, CCSDS_PRI_HDR_LEN, PUS_TC_SEC_HDR_LEN, TC_PEC_LEN
  <2> QED BY <2>1, <2>3
<1>8. p \in 0 .. 8 * n - 1  BY <1>4, <1>6, <1>7 DEF Carried, Bit
<1>9. p \in Nat /\ p <= 8 * n - 1  BY <1>8
<1>10. PICK q \in Nat, r \in 0 .. 7 : p = 8 * q + r  BY <1>9, Digits
<1>11. PICK k \in 1 .. n - 1 : p \in 8 * (k - 1) .. 8 * (k + 1) - 1
  <2>1. CASE q = 0
    <3>1. 1 \in 1 .. n - 1 /\ p \in 8 * (1 - 1) .. 8 * (1 + 1) - 1  BY <1>7, <1>9, <1>10, <2>1
    <3> QED BY <3>1
  <2>2. CASE q # 0
    <3>1. q \in 1 .. n - 1 /\ p \in 8 * (q - 1) .. 8 * (q + 1) - 1  BY <1>7, <1>9, <1>10, <2>2
    <3> QED BY <3>1
  <2> QED BY <2>1, <2>2
<1>12. Burst  BY <1>4, <1>6, <1>7, <1>11 DEF Burst
<1> QED BY <1>12, BurstNotMissed

LEMMA Dispatching == ASSUME dest = <<"DISPATCH">> PROVE dest # <<>>
<1>1. PICK d : d = "DISPATCH"  OBVIOUS
<1>2. <<d>> # <<>>  OBVIOUS
<1> QED BY <1>1, <1>2

\* A burst in a whole telecommand is always refused for its cause, whatever else is
\* wrong with it.
THEOREM BurstRefused == ASSUME RoomForAll PROVE LinkSpec => [](Burst => RefusedForItsCause)
<1>1. LinkInv /\ WayInv => (Burst => RefusedForItsCause)
  <2> SUFFICES ASSUME WayInv, Burst PROVE RefusedForItsCause  OBVIOUS
  <2>1. CASE dest # <<"DISPATCH">>  BY <2>1 DEF RefusedForItsCause
  <2>2. CASE dest = <<"DISPATCH">>
    <3>1. Carried  BY <2>2, Dispatching DEF WayInv
    <3> QED BY <2>2, <3>1, BurstNotMissed DEF WayInv
  <2> QED BY <2>1, <2>2
<1> QED BY <1>1, WayInvHolds, PTL

\* One harm to a telecommand - a bit of its header set wrong, a bit damaged, or a cut -
\* is refused for its cause, and one that is sound is not refused.
THEOREM OneHarmRefused ==
    ASSUME RoomForAll, MaxHarm <= 1 PROVE LinkSpec => []RefusedForItsCause
<1>1. LinkInv /\ WayInv => RefusedForItsCause
  <2> SUFFICES ASSUME WayInv PROVE RefusedForItsCause  OBVIOUS
  <2>1. CASE dest # <<"DISPATCH">>  BY <2>1 DEF RefusedForItsCause
  <2>2. CASE dest = <<"DISPATCH">>
    <3>1. Carried  BY <2>2, Dispatching DEF WayInv
    <3> QED BY <2>2, <3>1, OneNotMissed DEF WayInv
  <2> QED BY <2>1, <2>2
<1> QED BY <1>1, WayInvHolds, PTL

\* Nothing with one harm ever reaches a handler.
THEOREM OneHarmNeverActs ==
    ASSUME RoomForAll, MaxHarm <= 1 PROVE LinkSpec => OnlySoundActs
<1>1. ASSUME LinkInv /\ WayInv, [LinkNext]_linkVars
      PROVE  [executed' # executed =>
                 /\ Causes = {}
                 /\ connTests' - connTests = (IF command.service = 17 THEN 1 ELSE 0)]_linkVars
  <2>1. ASSUME executed' # executed PROVE SoundAct
    <3>1. Carried  BY <1>1, <2>1, ActsOn DEF Ingest, inFlight, WayInv
    <3>2. ~Missed  BY <3>1, OneNotMissed
    <3> QED BY <1>1, <2>1, <3>2, ActsKept
  <2> QED BY <2>1 DEF SoundAct
<1> QED BY <1>1, WayInvHolds, PTL DEF LinkSpec, OnlySoundActs

-----------------------------------------------------------------------------
(* An odd number of bits *)

\* An even number of the eight bits of x from m on are set.
EvenFrom(x, m) ==
    (((m \in x <=> m + 1 \in x) <=> (m + 2 \in x <=> m + 3 \in x))
     <=> ((m + 4 \in x <=> m + 5 \in x) <=> (m + 6 \in x <=> m + 7 \in x)))

Even(c) == EvenFrom(c, 0) <=> EvenFrom(c, 8)

\* What leaves the register at the top comes back at three places.
LEMMA BitEven == ASSUME NEW c \in Register, NEW d, d = crc_bit(c) PROVE Even(d) <=> Even(c)
<1>1. /\ 0 \in d <=> 15 \in c
      /\ \A i \in 0 .. 14 : i \notin {4, 11} => (i + 1 \in d <=> i \in c)
      /\ \A i \in {4, 11} : (i + 1 \in d <=> (i \in c) # (15 \in c))
  BY CrcBit
<1>2. /\ 5 \in d <=> ~(4 \in c <=> 15 \in c)
      /\ 12 \in d <=> ~(11 \in c <=> 15 \in c)
  <2>1. 4 + 1 = 5 /\ 11 + 1 = 12  OBVIOUS
  <2> QED BY <1>1, <2>1
<1>3. /\ 1 \in d <=> 0 \in c
      /\ 2 \in d <=> 1 \in c
      /\ 3 \in d <=> 2 \in c
      /\ 4 \in d <=> 3 \in c
      /\ 6 \in d <=> 5 \in c
      /\ 7 \in d <=> 6 \in c
      /\ 8 \in d <=> 7 \in c
  BY <1>1
<1>4. /\ 9 \in d <=> 8 \in c
      /\ 10 \in d <=> 9 \in c
      /\ 11 \in d <=> 10 \in c
      /\ 13 \in d <=> 12 \in c
      /\ 14 \in d <=> 13 \in c
      /\ 15 \in d <=> 14 \in c
  BY <1>1
<1> QED BY <1>1, <1>2, <1>3, <1>4 DEF Even, EvenFrom

LEMMA ShiftsEven == ASSUME NEW c \in Register PROVE Even(crc_shifts(c)) <=> Even(c)
<1>1. PICK c1, c2, c3, c4 : /\ c1 = crc_bit(c) /\ c2 = crc_bit(c1)
                            /\ c3 = crc_bit(c2) /\ c4 = crc_bit(c3)
  OBVIOUS
<1>2. PICK c5, c6, c7, c8 : /\ c5 = crc_bit(c4) /\ c6 = crc_bit(c5)
                            /\ c7 = crc_bit(c6) /\ c8 = crc_bit(c7)
  OBVIOUS
<1>3. c1 \in Register /\ (Even(c1) <=> Even(c))  BY <1>1, CrcBit, BitEven
<1>4. c2 \in Register /\ (Even(c2) <=> Even(c1))  BY <1>1, <1>3, CrcBit, BitEven
<1>5. c3 \in Register /\ (Even(c3) <=> Even(c2))  BY <1>1, <1>4, CrcBit, BitEven
<1>6. c4 \in Register /\ (Even(c4) <=> Even(c3))  BY <1>1, <1>5, CrcBit, BitEven
<1>7. c5 \in Register /\ (Even(c5) <=> Even(c4))  BY <1>2, <1>6, CrcBit, BitEven
<1>8. c6 \in Register /\ (Even(c6) <=> Even(c5))  BY <1>2, <1>7, CrcBit, BitEven
<1>9. c7 \in Register /\ (Even(c7) <=> Even(c6))  BY <1>2, <1>8, CrcBit, BitEven
<1>10. Even(c8) <=> Even(c7)  BY <1>2, <1>9, BitEven
<1>11. crc_shifts(c) = c8  BY <1>1, <1>2 DEF crc_shifts
<1> QED BY <1>3, <1>4, <1>5, <1>6, <1>7, <1>8, <1>9, <1>10, <1>11

\* The bits of x from m on are those of y from k on, and what s has from l on turns them.
LEMMA EvenOf ==
    ASSUME NEW x, NEW y, NEW s, NEW m \in Nat, NEW k \in Nat, NEW l \in Nat,
           \A i \in 0 .. 7 : i + m \in x <=> ~(i + k \in y <=> i + l \in s)
    PROVE  EvenFrom(x, m) <=> (EvenFrom(y, k) <=> EvenFrom(s, l))
<1>1. \A i \in 0 .. 7 : m + i \in x <=> ~(k + i \in y <=> l + i \in s)
  <2>1. \A i \in 0 .. 7 : i + m = m + i /\ i + k = k + i /\ i + l = l + i  OBVIOUS
  <2> QED BY <2>1
<1>2. m + 0 = m /\ k + 0 = k /\ l + 0 = l  OBVIOUS
<1>3. /\ m \in x <=> ~(k \in y <=> l \in s)
      /\ m + 1 \in x <=> ~(k + 1 \in y <=> l + 1 \in s)
      /\ m + 2 \in x <=> ~(k + 2 \in y <=> l + 2 \in s)
      /\ m + 3 \in x <=> ~(k + 3 \in y <=> l + 3 \in s)
  BY <1>1, <1>2
<1>4. /\ m + 4 \in x <=> ~(k + 4 \in y <=> l + 4 \in s)
      /\ m + 5 \in x <=> ~(k + 5 \in y <=> l + 5 \in s)
      /\ m + 6 \in x <=> ~(k + 6 \in y <=> l + 6 \in s)
      /\ m + 7 \in x <=> ~(k + 7 \in y <=> l + 7 \in s)
  BY <1>1
<1> QED BY <1>3, <1>4 DEF EvenFrom

LEMMA EvenNone == ASSUME NEW x, NEW m \in Nat, \A i \in 0 .. 7 : i + m \notin x
                  PROVE  EvenFrom(x, m)
<1>1. PICK e : e = {}  OBVIOUS
<1>2. /\ m \notin x /\ m + 1 \notin x /\ m + 2 \notin x /\ m + 3 \notin x
      /\ m + 4 \notin x /\ m + 5 \notin x /\ m + 6 \notin x /\ m + 7 \notin x
  <2>1. 0 + m = m /\ 1 + m = m + 1 /\ 2 + m = m + 2 /\ 3 + m = m + 3  OBVIOUS
  <2>2. 4 + m = m + 4 /\ 5 + m = m + 5 /\ 6 + m = m + 6 /\ 7 + m = m + 7  OBVIOUS
  <2>3. 0 + m \notin x /\ 1 + m \notin x /\ 2 + m \notin x /\ 3 + m \notin x  OBVIOUS
  <2>4. 4 + m \notin x /\ 5 + m \notin x /\ 6 + m \notin x /\ 7 + m \notin x  OBVIOUS
  <2> QED BY <2>1, <2>2, <2>3, <2>4
<1> QED BY <1>2 DEF EvenFrom

\* An octet turns the register as often as it has bits.
LEMMA OctetEven ==
    ASSUME NEW s \in Register, NEW o \in Octet, NEW t, t = crc_octet(s, o)
    PROVE  Even(t) <=> (Even(s) <=> EvenFrom(o, 0))
<1>1. PICK x, c, w : x = Upper(s, o) /\ c = Shl(x, 8) /\ w = crc_shifts(c)  OBVIOUS
<1>2. x \in Octet /\ \A i : i \in x <=> (i \in Shr(s, 8)) # (i \in o)  BY <1>1, UpperTyped
<1>3. EvenFrom(x, 0) <=> (EvenFrom(s, 8) <=> EvenFrom(o, 0))
  <2>1. \A i \in 0 .. 7 : i \in Shr(s, 8) <=> i + 8 \in s  BY Halves
  <2>2. \A i \in 0 .. 7 : i + 0 = i  OBVIOUS
  <2>3. \A i \in 0 .. 7 : i + 0 \in x <=> ~(i + 8 \in s <=> i + 0 \in o)  BY <1>2, <2>1, <2>2
  <2> QED BY <2>3, EvenOf
<1>4. c \in Register /\ \A i \in 0 .. 7 : i + 8 \in c <=> i \in x  BY <1>1, <1>2, OctetUp
<1>5. EvenFrom(c, 0)
  <2>1. \A y : y \in c <=> \E i \in x : y = i + 8  BY <1>1 DEF Shl
  <2>2. \A i \in x : i \in 0 .. 7  BY <1>2 DEF Octet
  <2>3. \A i \in 0 .. 7 : i + 0 \notin c  BY <2>1, <2>2
  <2> QED BY <2>3, EvenNone
<1>6. EvenFrom(c, 8) <=> EvenFrom(x, 0)
  <2>1. PICK e : e = {}  OBVIOUS
  <2>2. EvenFrom(e, 0)
    <3>1. \A i \in 0 .. 7 : i + 0 \notin e  BY <2>1
    <3> QED BY <3>1, EvenNone
  <2>3. \A i \in 0 .. 7 : i + 0 = i  OBVIOUS
  <2>4. \A i \in 0 .. 7 : i + 8 \in c <=> ~(i + 0 \in x <=> i + 0 \in e)  BY <1>4, <2>1, <2>3
  <2>5. EvenFrom(c, 8) <=> (EvenFrom(x, 0) <=> EvenFrom(e, 0))  BY <2>4, EvenOf
  <2> QED BY <2>2, <2>5
<1>7. Even(w) <=> Even(c)  BY <1>1, <1>4, ShiftsEven
<1>8. Fed(t, w, s)  BY <1>1, <1>2, CrcOctet
<1>9. EvenFrom(t, 0) <=> EvenFrom(w, 0)
  <2>1. /\ 0 \in t <=> 0 \in w
        /\ 1 \in t <=> 1 \in w
        /\ 2 \in t <=> 2 \in w
        /\ 3 \in t <=> 3 \in w
        /\ 4 \in t <=> 4 \in w
        /\ 5 \in t <=> 5 \in w
        /\ 6 \in t <=> 6 \in w
        /\ 7 \in t <=> 7 \in w
    BY <1>8 DEF Fed
  <2> QED BY <2>1 DEF EvenFrom
<1>10. EvenFrom(t, 8) <=> (EvenFrom(w, 8) <=> EvenFrom(s, 0))
  <2>1. \A i \in 0 .. 7 : i + 0 = i  OBVIOUS
  <2>2. \A i \in 0 .. 7 : i + 8 \in t <=> ~(i + 8 \in w <=> i + 0 \in s)  BY <1>8, <2>1 DEF Fed
  <2> QED BY <2>2, EvenOf
<1> QED BY <1>3, <1>5, <1>6, <1>7, <1>9, <1>10 DEF Even

\* An even number of the bits below m are in H.
EvenUpto(H, m) == Cardinality(H \cap 0 .. m - 1) % 2 = 0

LEMMA NextNumber == ASSUME NEW c \in Nat PROVE (c + 1) % 2 = 0 <=> ~(c % 2 = 0)
OBVIOUS

LEMMA EvenNext ==
    ASSUME NEW H, NEW m \in Nat
    PROVE  EvenUpto(H, m + 1) <=> (EvenUpto(H, m) <=> ~(m \in H))
<1>1. PICK S, T, U : S = 0 .. m - 1 /\ T = H \cap (0 .. m - 1) /\ U = H \cap (0 .. (m + 1) - 1)
  OBVIOUS
<1>2. IsFiniteSet(T)
  <2>1. 0 \in Int /\ m - 1 \in Int  OBVIOUS
  <2>2. IsFiniteSet(S)  BY <1>1, <2>1, FS_Interval
  <2>3. T \subseteq S  BY <1>1
  <2> QED BY <2>2, <2>3, FS_Subset
<1>3. PICK c \in Nat : c = Cardinality(T)  BY <1>2, FS_CardinalityType
<1>4. m \notin T /\ U = IF m \in H THEN T \cup {m} ELSE T
  <2>1. \A i : i \in 0 .. (m + 1) - 1 <=> i \in 0 .. m - 1 \/ i = m  OBVIOUS
  <2>2. m \notin 0 .. m - 1  OBVIOUS
  <2> QED BY <1>1, <2>1, <2>2
<1>5. CASE m \in H
  <2>1. U = T \cup {m}  BY <1>4, <1>5
  <2>2. Cardinality(U) = c + 1  BY <1>2, <1>3, <1>4, <2>1, FS_AddElement
  <2>3. EvenUpto(H, m + 1) <=> (c + 1) % 2 = 0  BY <1>1, <2>2 DEF EvenUpto
  <2>4. EvenUpto(H, m) <=> c % 2 = 0  BY <1>1, <1>3 DEF EvenUpto
  <2> QED BY <1>5, <2>3, <2>4, NextNumber
<1>6. CASE m \notin H
  <2>1. U = T  BY <1>4, <1>6
  <2>2. EvenUpto(H, m + 1) <=> c % 2 = 0  BY <1>1, <1>3, <2>1 DEF EvenUpto
  <2>3. EvenUpto(H, m) <=> c % 2 = 0  BY <1>1, <1>3 DEF EvenUpto
  <2> QED BY <1>6, <2>2, <2>3
<1> QED BY <1>5, <1>6

LEMMA EvenOctet ==
    ASSUME NEW H, NEW m \in Nat
    PROVE  EvenUpto(H, m + 8) <=> (EvenUpto(H, m) <=> EvenFrom(H, m))
<1>1. /\ m + 1 \in Nat /\ m + 2 \in Nat /\ m + 3 \in Nat /\ m + 4 \in Nat
      /\ m + 5 \in Nat /\ m + 6 \in Nat /\ m + 7 \in Nat
      /\ (m + 1) + 1 = m + 2 /\ (m + 2) + 1 = m + 3 /\ (m + 3) + 1 = m + 4
      /\ (m + 4) + 1 = m + 5 /\ (m + 5) + 1 = m + 6 /\ (m + 6) + 1 = m + 7
      /\ (m + 7) + 1 = m + 8
  OBVIOUS
<1>2. EvenUpto(H, m + 1) <=> (EvenUpto(H, m) <=> ~(m \in H))  BY EvenNext
<1>3. EvenUpto(H, (m + 1) + 1) <=> (EvenUpto(H, m + 1) <=> ~(m + 1 \in H))  BY <1>1, EvenNext
<1>4. EvenUpto(H, (m + 2) + 1) <=> (EvenUpto(H, m + 2) <=> ~(m + 2 \in H))  BY <1>1, EvenNext
<1>5. EvenUpto(H, (m + 3) + 1) <=> (EvenUpto(H, m + 3) <=> ~(m + 3 \in H))  BY <1>1, EvenNext
<1>6. EvenUpto(H, (m + 4) + 1) <=> (EvenUpto(H, m + 4) <=> ~(m + 4 \in H))  BY <1>1, EvenNext
<1>7. EvenUpto(H, (m + 5) + 1) <=> (EvenUpto(H, m + 5) <=> ~(m + 5 \in H))  BY <1>1, EvenNext
<1>8. EvenUpto(H, (m + 6) + 1) <=> (EvenUpto(H, m + 6) <=> ~(m + 6 \in H))  BY <1>1, EvenNext
<1>9. EvenUpto(H, (m + 7) + 1) <=> (EvenUpto(H, m + 7) <=> ~(m + 7 \in H))  BY <1>1, EvenNext
<1> QED BY <1>1, <1>2, <1>3, <1>4, <1>5, <1>6, <1>7, <1>8, <1>9 DEF EvenFrom

\* What turns an octet turns its parity.
LEMMA TurnedEven ==
    ASSUME NEW a, NEW b, NEW H, NEW k \in Nat, Turned(a, b, H, k + 1)
    PROVE  EvenFrom(a[k + 1], 0) <=> (EvenFrom(b[k + 1], 0) <=> EvenFrom(H, 8 * k))
<1>1. PICK x, y, m : x = a[k + 1] /\ y = b[k + 1] /\ m = 8 * k  OBVIOUS
<1>2. \A j \in 0 .. 7 : j \in x <=> ~(j \in y <=> 8 * (k + 1) - 1 - j \in H)
  BY <1>1 DEF Turned
<1>3. /\ 8 * (k + 1) - 1 - 0 = m + 7 /\ 8 * (k + 1) - 1 - 1 = m + 6
      /\ 8 * (k + 1) - 1 - 2 = m + 5 /\ 8 * (k + 1) - 1 - 3 = m + 4
      /\ 8 * (k + 1) - 1 - 4 = m + 3 /\ 8 * (k + 1) - 1 - 5 = m + 2
      /\ 8 * (k + 1) - 1 - 6 = m + 1 /\ 8 * (k + 1) - 1 - 7 = m
  BY <1>1
<1>4. /\ 0 \in x <=> ~(0 \in y <=> m + 7 \in H)
      /\ 1 \in x <=> ~(1 \in y <=> m + 6 \in H)
      /\ 2 \in x <=> ~(2 \in y <=> m + 5 \in H)
      /\ 3 \in x <=> ~(3 \in y <=> m + 4 \in H)
  BY <1>2, <1>3
<1>5. /\ 4 \in x <=> ~(4 \in y <=> m + 3 \in H)
      /\ 5 \in x <=> ~(5 \in y <=> m + 2 \in H)
      /\ 6 \in x <=> ~(6 \in y <=> m + 1 \in H)
      /\ 7 \in x <=> ~(7 \in y <=> m \in H)
  BY <1>2, <1>3
<1>6. EvenFrom(x, 0) <=> (EvenFrom(y, 0) <=> EvenFrom(H, m))
  <2>1. 0 + 1 = 1 /\ 0 + 2 = 2 /\ 0 + 3 = 3 /\ 0 + 4 = 4 /\ 0 + 5 = 5 /\ 0 + 6 = 6 /\ 0 + 7 = 7
    OBVIOUS
  <2> QED BY <1>4, <1>5, <2>1 DEF EvenFrom
<1> QED BY <1>1, <1>6

\* The number of bits in which two packets that pass the check differ is even.
LEMMA OddSeen ==
    ASSUME NEW a \in Seq(Octet), NEW b \in Seq(Octet), NEW n, n = Len(a), Len(b) = n, n >= 2,
           NEW H, H \subseteq 0 .. 8 * n - 1, \A k \in 1 .. n : Turned(a, b, H, k),
           ~Fails(a).CRC, ~Fails(b).CRC
    PROVE  Cardinality(H) % 2 = 0
<1>1. n \in Nat  OBVIOUS
<1>2. PICK f : Run(f, a)  BY CrcRun
<1>3. PICK h : Run(h, b)  BY CrcRun
<1>4. f[n] = {} /\ h[n] = {}
  <2>1. f[n] = {}  BY <1>2, CheckIsResidue
  <2>2. h[n] = {}  BY <1>3, CheckIsResidue
  <2> QED BY <2>1, <2>2
<1>5. PICK P : P = {k \in Nat : k <= n => (EvenUpto(H, 8 * k) <=> (Even(f[k]) <=> Even(h[k])))}
  OBVIOUS
<1>6. 0 \in P
  <2>1. f[0] = h[0]  BY <1>2, <1>3 DEF Run
  <2>2. EvenUpto(H, 8 * 0)
    <3>1. H \cap (0 .. 8 * 0 - 1) = {}  OBVIOUS
    <3>2. Cardinality(H \cap (0 .. 8 * 0 - 1)) = 0  BY <3>1, FS_EmptySet
    <3> QED BY <3>2 DEF EvenUpto
  <2> QED BY <1>5, <2>1, <2>2
<1>7. ASSUME NEW k \in Nat, k \in P PROVE k + 1 \in P
  <2> SUFFICES ASSUME k + 1 <= n
               PROVE  EvenUpto(H, 8 * (k + 1)) <=> (Even(f[k + 1]) <=> Even(h[k + 1]))
    BY <1>5
  <2>1. EvenUpto(H, 8 * k) <=> (Even(f[k]) <=> Even(h[k]))  BY <1>1, <1>5, <1>7
  <2>2. k + 1 \in 1 .. n /\ k \in 0 .. n /\ (k + 1) - 1 = k  BY <1>1
  <2>3. f[k] \in Register /\ h[k] \in Register  BY <1>2, <1>3, <2>2 DEF Run
  <2>4. a[k + 1] \in Octet /\ b[k + 1] \in Octet  BY <2>2
  <2>5. f[k + 1] = crc_octet(f[k], a[k + 1])  BY <1>2, <2>2 DEF Run
  <2>6. h[k + 1] = crc_octet(h[k], b[k + 1])  BY <1>3, <2>2 DEF Run
  <2>7. Even(f[k + 1]) <=> (Even(f[k]) <=> EvenFrom(a[k + 1], 0))
    BY <2>3, <2>4, <2>5, OctetEven
  <2>8. Even(h[k + 1]) <=> (Even(h[k]) <=> EvenFrom(b[k + 1], 0))
    BY <2>3, <2>4, <2>6, OctetEven
  <2>9. EvenFrom(a[k + 1], 0) <=> (EvenFrom(b[k + 1], 0) <=> EvenFrom(H, 8 * k))
    BY <2>2, TurnedEven
  <2>10. PICK m \in Nat : m = 8 * k  OBVIOUS
  <2>11. EvenUpto(H, m + 8) <=> (EvenUpto(H, m) <=> EvenFrom(H, m))  BY EvenOctet
  <2>12. 8 * (k + 1) = m + 8  BY <2>10
  <2>13. EvenUpto(H, 8 * (k + 1)) <=> (EvenUpto(H, 8 * k) <=> EvenFrom(H, 8 * k))
    BY <2>10, <2>11, <2>12
  <2> QED BY <2>1, <2>7, <2>8, <2>9, <2>13
<1>8. Nat \subseteq P  BY <1>6, <1>7, Inductive
<1>9. EvenUpto(H, 8 * n)
  <2>1. n \in P /\ n <= n  BY <1>1, <1>8
  <2>2. EvenUpto(H, 8 * n) <=> (Even(f[n]) <=> Even(h[n]))  BY <1>1, <1>5, <2>1
  <2>3. Even(f[n]) <=> Even(h[n])  BY <1>4
  <2> QED BY <2>2, <2>3
<1>10. H \cap (0 .. 8 * n - 1) = H  OBVIOUS
<1> QED BY <1>9, <1>10 DEF EvenUpto

\* Of the bits of a whole telecommand an odd number are damaged.
OddNoise == Whole /\ Cardinality(noise) % 2 = 1

LEMMA OddNotMissed == ASSUME Carried, OddNoise PROVE ~Missed
<1> SUFFICES ASSUME Missed PROVE FALSE  OBVIOUS
<1>1. PICK a : a = octets  OBVIOUS
<1>2. a \in Seq(Octet) /\ ~Fails(a).CRC /\ noise \subseteq 0 .. 8 * Len(a) - 1
  BY <1>1 DEF Carried, Missed, OddNoise, Bit
<1>3. PICK s : Clean(octets, s)  BY DEF Carried, OddNoise
<1>4. s \in Seq(Octet) /\ Len(s) = Len(a) /\ ~Fails(s).CRC /\ Marks(a, s, noise, Len(a))
  BY <1>1, <1>3 DEF Clean
<1>5. PICK n \in Nat : n = Len(a) /\ n >= 2
  <2>1. PICK l \in Nat : l = Len(a)  BY <1>2
  <2>2. l >= TC_MIN_PACKET_LEN  BY <1>1, <2>1 DEF Missed
  <2>3. l >= 2  BY <2>2 DEF TC_MIN_PACKET_LEN, CCSDS_PRI_HDR_LEN, PUS_TC_SEC_HDR_LEN, TC_PEC_LEN
  <2> QED BY <2>1, <2>3
<1>6. ASSUME NEW i \in 1 .. n PROVE Turned(a, s, noise, i)
  <2>1. i \in 1 .. Len(a) /\ i <= Len(a)  BY <1>5
  <2> QED BY <1>4, <2>1 DEF Marks
<1>7. PICK H : H = noise  OBVIOUS
<1>8. H \subseteq 0 .. 8 * n - 1 /\ \A k \in 1 .. n : Turned(a, s, H, k)  BY <1>2, <1>5, <1>6, <1>7
<1>9. Cardinality(H) % 2 = 0  BY <1>2, <1>4, <1>5, <1>8, OddSeen
<1> QED BY <1>7, <1>9 DEF OddNoise

\* An odd number of damaged bits in a whole telecommand is always refused for its
\* cause: the polynomial's feedback keeps the parity of what went through it.
THEOREM OddRefused == ASSUME RoomForAll PROVE LinkSpec => [](OddNoise => RefusedForItsCause)
<1>1. LinkInv /\ WayInv => (OddNoise => RefusedForItsCause)
  <2> SUFFICES ASSUME WayInv, OddNoise PROVE RefusedForItsCause  OBVIOUS
  <2>1. CASE dest # <<"DISPATCH">>  BY <2>1 DEF RefusedForItsCause
  <2>2. CASE dest = <<"DISPATCH">>
    <3>1. Carried  BY <2>2, Dispatching DEF WayInv
    <3> QED BY <2>2, <3>1, OddNotMissed DEF WayInv
  <2> QED BY <2>1, <2>2
<1> QED BY <1>1, WayInvHolds, PTL
=============================================================================
