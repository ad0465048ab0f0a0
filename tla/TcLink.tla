-------------------------------- MODULE TcLink --------------------------------
(***************************************************************************)
(* A telecommand from the ground's tc_build to the reports it reads: built *)
(* with some header bits wrong, damaged or cut on the way, routed by       *)
(* obdh_ingest, checked and executed.  Puts the octets of PacketFormat     *)
(* under the telecommands of CommandPath: AsSeen is what the checks of     *)
(* tc_parse make of the octets, and HandleTc does the rest.                *)
(***************************************************************************)
EXTENDS PacketFormat, CommandPath, FiniteSets

CONSTANTS
    Commands,    \* what the ground may send
    MaxCommands, \* bound on the telecommands sent
    MaxHarm      \* bound on the harm to one: bits set wrong, bits damaged, a cut

\* What tc_build is given: a count, flags, octets, a 16-bit source, application data.
Request == [seq : 0 .. SeqCounts - 1, ack : SUBSET (0 .. 3), service : 0 .. 2 ^ 8 - 1,
            subtype : 0 .. 2 ^ 8 - 1, source : 0 .. 2 ^ 16 - 1, app : Seq(Octet)]

ASSUME TcLinkAssumption ==
    /\ Commands \subseteq Request
    /\ \A c \in Commands : TC_MIN_PACKET_LEN + Len(c.app) <= TC_MAX_PACKET_LEN
    /\ {MaxCommands, MaxHarm} \subseteq Nat
    /\ TcMinLen = TC_MIN_PACKET_LEN /\ TcMaxLen = TC_MAX_PACKET_LEN /\ TmSeqMod = SeqCounts

VARIABLES
    sent,    \* history: the telecommands sent
    wrong,   \* bits of the last one's header wrong before it was sealed
    noise,   \* bits damaged since
    octets,  \* what is left of it
    dest,    \* <<>> or where the router sent it
    answers  \* the reports to it, in octets

linkVars == <<pathVars, sent, wrong, noise, octets, dest, answers>>

command  == sent[Len(sent)]
inFlight == sent # <<>> /\ dest = <<>>
Harmed   == wrong \cup noise
Whole    == Len(octets) = TC_MIN_PACKET_LEN + Len(command.app)
Harms    == Cardinality(Harmed) + IF Whole THEN 0 ELSE 1

-----------------------------------------------------------------------------
(* On the way: bits are counted from 0 as they are sent *)

Bit         == 0 .. 8 * Len(octets) - 1
HeaderBit   == 0 .. 55             \* primary header, PUS version, ack flags
Flip(s, p)  == [s EXCEPT ![(p \div 8) + 1] = SymDiff(@, {7 - (p % 8)})]

LinkInit ==
    /\ PathInit
    /\ sent = <<>> /\ wrong = {} /\ noise = {}
    /\ octets = <<>> /\ dest = <<>> /\ answers = <<>>

Uplink(c) ==
    /\ ~inFlight /\ Len(sent) < MaxCommands
    /\ sent' = Append(sent, c)
    /\ octets' = tc_build(c)
    /\ wrong' = {} /\ noise' = {} /\ dest' = <<>> /\ answers' = <<>>
    /\ UNCHANGED pathVars

\* A header bit set wrong and the checksum computed over it (refresh_crc).
Misbuild(p) ==
    /\ inFlight /\ Whole /\ noise = {}
    /\ p \notin wrong /\ Harms < MaxHarm
    /\ wrong' = wrong \cup {p}
    /\ octets' = Sealed(Flip(SubSeq(octets, 1, Len(octets) - TC_PEC_LEN), p))
    /\ UNCHANGED <<pathVars, sent, noise, dest, answers>>

Damage(p) ==
    /\ inFlight
    /\ p \notin Harmed /\ Harms < MaxHarm
    /\ noise' = noise \cup {p}
    /\ octets' = Flip(octets, p)
    /\ UNCHANGED <<pathVars, sent, wrong, dest, answers>>

\* The sweep of uplink_test.c over a valid command: every truncation, and an octet
\* too many.  (One sealed with a length that is one too many and then padded with a
\* zero octet is sound again: a trailing zero leaves the checksum right.)
Resize(n) ==
    /\ inFlight /\ Whole /\ wrong = {} /\ Harms < MaxHarm
    /\ octets' = IF n <= Len(octets) THEN SubSeq(octets, 1, n) ELSE Append(octets, {})
    /\ UNCHANGED <<pathVars, sent, wrong, noise, dest, answers>>

-----------------------------------------------------------------------------
(* On board *)

AckBit == [ACCEPT |-> 3, START |-> 2, PROGRESS |-> 1, COMPLETE |-> 0]

\* The telecommand tc_parse and dispatch see in the octets.
AsSeen(buf) ==
    IF Len(buf) < TC_MIN_PACKET_LEN
    THEN [len |-> Len(buf), bad |-> {}, cmd |-> "UNKNOWN", ack |-> {}]
    ELSE [len |-> Len(buf),
          bad |-> {c \in DOMAIN Fails(buf) : Fails(buf)[c]},
          cmd |-> CASE <<buf[8], buf[9]>> = <<Word(17), Word(1)>>  -> "CONN_TEST"
                    [] <<buf[8], buf[9]>> = <<Word(130), Word(1)>> -> "EXIT_SAFE"
                    [] OTHER                                       -> "UNKNOWN",
          ack |-> {s \in Stage : AckBit[s] \in buf[7]}]

Subtype == [ACCEPT_OK |-> 1, ACCEPT_FAIL |-> 2, START_OK |-> 3, PROGRESS_OK |-> 5,
            COMPLETE_OK |-> 7, COMPLETE_FAIL |-> 8]

FailureCode == [NONE |-> 0, ILLEGAL_LEN |-> 1, BAD_CRC |-> 2, BAD_HEADER |-> 3, BAD_APID |-> 4,
                UNKNOWN_CMD |-> 5, BAD_APP_DATA |-> 6, EXEC_ERROR |-> 7]

\* Mutant: the sequence count is quoted without the flags before it.
QuotedCount(buf) == <<Join(SubSeq(buf, 1, 2)), Low(Join(SubSeq(buf, 3, 4)), 14)>>

\* Packet id and sequence control, read even from a packet that is refused.
Quoted(buf) == <<Join(SubSeq(buf, 1, 2)), Join(SubSeq(buf, 3, 4))>>

ReportOctets(r, quote) ==
    IF r.kind = "CONN_TEST" THEN build_conn_test_report(r.seq)
    ELSE build_verification(r.seq, Subtype[r.kind], quote[1], quote[2], Word(FailureCode[r.code]))

\* obdh_ingest of what has arrived: only a packet that says it is a telecommand
\* reaches the command path.
Ingest(hook) ==
    /\ inFlight
    /\ dest' = <<Destination(octets, TRUE)>>
    /\ IF dest' = <<"DISPATCH">>
       THEN /\ HandleTc(AsSeen(octets), hook)
            /\ answers' = [i \in 1 .. Len(out') |-> ReportOctets(out'[i], Quoted(octets))]
       ELSE UNCHANGED <<pathVars, answers>>
    /\ UNCHANGED <<sent, wrong, noise, octets>>

LinkNext ==
    \/ \E c \in Commands : Uplink(c)
    \/ \E p \in HeaderBit : Misbuild(p)
    \/ \E p \in Bit : Damage(p)
    \/ \E n \in 0 .. Len(octets) + 1 : Resize(n)
    \/ \E hook \in Hook : Ingest(hook)

LinkSpec == LinkInit /\ [][LinkNext]_linkVars

-----------------------------------------------------------------------------
(* What must hold *)

\* The failure codes the ground may be told, from where the harm was done and
\* not from what the checks see.  Only a cut that meets a damaged length has two.
Hit(p, q) == Harmed \cap p .. q # {}
Causes ==
    IF ~Whole /\ Hit(32, 47)           THEN {"ILLEGAL_LEN", "BAD_CRC"}
    ELSE IF ~Whole \/ Hit(32, 47)      THEN {"ILLEGAL_LEN"}
    ELSE IF noise # {}                 THEN {"BAD_CRC"}
    ELSE IF Hit(0, 4) \/ Hit(16, 17)   THEN {"BAD_HEADER"}
    ELSE IF Hit(5, 15)                 THEN {"BAD_APID"}
    ELSE IF Hit(48, 51)                THEN {"BAD_HEADER"}
    ELSE IF <<command.service, command.subtype>> \notin {<<17, 1>>, <<130, 1>>}
                                       THEN {"UNKNOWN_CMD"}
    ELSE IF command.app # <<>>         THEN {"BAD_APP_DATA"}
    ELSE {}

IsVerification(r) == r[8] = Word(1)
Refusal(r)        == IsVerification(r) /\ r[9] = Word(2)

\* docs/06-tc-verification.md:58, "no other field is believed until the CRC passes":
\* the code in TM[1,2] names what really happened to the telecommand, with up to
\* MaxHarm bits damaged; one that is sound is not refused.
RefusedForItsCause ==
    dest = <<"DISPATCH">> =>
        IF Causes = {} THEN \A i \in 1 .. Len(answers) : ~Refusal(answers[i])
        ELSE /\ Len(answers) = 1 /\ Refusal(answers[1])
             /\ answers[1][16] \in {Word(FailureCode[c]) : c \in Causes}

\* docs/06-tc-verification.md:30: a report carries "the packet id and sequence
\* control of the command they refer to", as the ground sent them, even when the
\* rest of the telecommand was damaged.
ReportsNameTheCommand ==
    ~Hit(0, 31) =>
        \A i \in 1 .. Len(answers) : IsVerification(answers[i]) =>
            SubSeq(answers[i], 12, 15) = SubSeq(tc_build(command), 1, 4)

\* uplink_test.c:236, "Nothing corrupted may ever reach a handler".
OnlySoundActs ==
    [][executed' # executed =>
          Causes = {} /\ connTests' - connTests = (IF command.service = 17 THEN 1 ELSE 0)]_linkVars
=============================================================================
