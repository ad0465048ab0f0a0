----------------------------- MODULE PacketFormat -----------------------------
(***************************************************************************)
(* The octets of labs/03-tmtc (ccsds.c, pus.c, tc.c, verify.c) and of the  *)
(* packers of obdh.c and fdir.c.  A word is the set of the positions of    *)
(* its one bits, 0 the least significant, so that a shift moves the set    *)
(* and a mask cuts it; an octet is a word below 8, a packet a sequence of  *)
(* octets.  A float enters as its 32-bit pattern.                          *)
(***************************************************************************)
EXTENDS Integers, Sequences, SequencesExt

CCSDS_PRI_HDR_LEN  == 6
PUS_TM_SEC_HDR_LEN == 5
PUS_TC_SEC_HDR_LEN == 5
TC_PEC_LEN         == 2
TC_MIN_PACKET_LEN  == CCSDS_PRI_HDR_LEN + PUS_TC_SEC_HDR_LEN + TC_PEC_LEN
TC_MAX_PACKET_LEN  == 256
PUS_TM_VERSION     == 32
PUS_TC_VERSION     == 2
CCSDS_APID_CMD     == 101
SeqCounts          == 16384

Octet   == SUBSET (0 .. 7)
Word(n) == {i \in 0 .. 15 : (n \div 2^i) % 2 = 1}

Low(w, n) == w \cap 0 .. n - 1
Shl(w, k) == {i + k : i \in w}
Shr(w, k) == {i - k : i \in {j \in w : j >= k}}

\* Mutant: least significant octet first.
OctetsLittle(w, n) == [k \in 1 .. n |-> Low(Shr(w, 8 * (k - 1)), 8)]

\* Big endian, and back.
Octets(w, n) == [k \in 1 .. n |-> Low(Shr(w, 8 * (n - k)), 8)]
Join(s)      == UNION {Shl(s[k], 8 * (Len(s) - k)) : k \in 1 .. Len(s)}

-----------------------------------------------------------------------------
(* Primary header *)

\* The type bit, the APID, the count and the length in octets of a packet.
Header(type, apid, seq, total) ==
    [version |-> {}, type |-> Word(type), sec_hdr_flag |-> {0}, apid |-> Word(apid),
     seq_flags |-> {0, 1}, seq_count |-> Word(seq),
     data_length |-> Word(total - CCSDS_PRI_HDR_LEN - 1)]

ccsds_pack_primary(h) ==
    Octets(UNION {Shl(Low(h.version, 3), 13), Shl(Low(h.type, 1), 12),
                  Shl(Low(h.sec_hdr_flag, 1), 11), Low(h.apid, 11)}, 2)
    \o Octets(Shl(Low(h.seq_flags, 2), 14) \cup Low(h.seq_count, 14), 2)
    \o Octets(h.data_length, 2)

ccsds_parse_primary(buf) ==
    LET w0 == Join(SubSeq(buf, 1, 2))
        w1 == Join(SubSeq(buf, 3, 4))
    IN  [version |-> Low(Shr(w0, 13), 3), type |-> Low(Shr(w0, 12), 1),
         sec_hdr_flag |-> Low(Shr(w0, 11), 1), apid |-> Low(w0, 11),
         seq_flags |-> Low(Shr(w1, 14), 2), seq_count |-> Low(w1, 14),
         data_length |-> Join(SubSeq(buf, 5, 6))]

\* "Octets in the data field, minus one": what data_length must say of buf.
LengthAgrees(buf) ==
    ccsds_parse_primary(buf).data_length = Word(Len(buf) - CCSDS_PRI_HDR_LEN - 1)

\* obdh_route; a telecommand goes to the dispatcher whatever its APID.
obdh_route(apid, type, contact) ==
    IF type = {0} THEN "DISPATCH"
    ELSE IF apid \in {Word(n) : n \in {100, 102, 103, 104}}
         THEN IF contact THEN "DOWNLINK" ELSE "STORE"
    ELSE IF apid = Word(CCSDS_APID_CMD) THEN "DOWNLINK" ELSE "DROP"

\* Where obdh_ingest sends what it is given.
Destination(buf, contact) ==
    IF Len(buf) < CCSDS_PRI_HDR_LEN THEN "DROP"
    ELSE LET h == ccsds_parse_primary(buf)
         IN  IF h.type = {} /\ ~LengthAgrees(buf) THEN "DROP"
             ELSE obdh_route(h.apid, h.type, contact)

-----------------------------------------------------------------------------
(* Telecommands *)

crc_bit(crc) ==
    IF 15 \in crc THEN SymDiff(Low(Shl(crc, 1), 16), {12, 5, 0}) ELSE Shl(crc, 1)

\* The eight shifts of an octet feed back from the upper octet only; the lower
\* one moves up unchanged.
crc_shifts(c) == crc_bit(crc_bit(crc_bit(crc_bit(crc_bit(crc_bit(crc_bit(crc_bit(c))))))))
crc_upper     == [upper \in Octet |-> crc_shifts(Shl(upper, 8))]

crc_octet(crc, octet) ==
    SymDiff(crc_upper[SymDiff(Shr(crc, 8), octet)], Shl(Low(crc, 8), 8))

tc_crc16(buf) ==
    LET crc[n \in 0 .. Len(buf)] == IF n = 0 THEN 0 .. 15 ELSE crc_octet(crc[n - 1], buf[n])
    IN  crc[Len(buf)]

Sealed(body) == body \o Octets(tc_crc16(body), 2)

\* The ground's telecommand c: its count, ack flags, (service, subtype), source
\* and application data.
tc_build(c) ==
    LET total == TC_MIN_PACKET_LEN + Len(c.app)
    IN  IF total > TC_MAX_PACKET_LEN THEN <<>>
        ELSE Sealed(ccsds_pack_primary(Header(1, CCSDS_APID_CMD, c.seq, total))
                    \o <<Shl(Word(PUS_TC_VERSION), 4) \cup Low(c.ack, 4),
                         Word(c.service), Word(c.subtype)>>
                    \o Octets(Word(c.source), 2) \o c.app)

\* Each check of tc_parse behind the size checks, taken by itself.
Fails(buf) ==
    LET h == ccsds_parse_primary(buf)
    IN  [LENGTH      |-> ~LengthAgrees(buf),
         CRC         |-> tc_crc16(SubSeq(buf, 1, Len(buf) - TC_PEC_LEN))
                             # Join(SubSeq(buf, Len(buf) - 1, Len(buf))),
         TYPE        |-> \/ h.version # {} \/ h.type # {0}
                         \/ h.sec_hdr_flag # {0} \/ h.seq_flags # {0, 1},
         APID        |-> h.apid # Word(CCSDS_APID_CMD),
         PUS_VERSION |-> Shr(buf[7], 4) # Word(PUS_TC_VERSION)]

-----------------------------------------------------------------------------
(* Telemetry *)

pus_pack_secondary(service, subtype, counter) ==
    <<Word(PUS_TM_VERSION), Word(service), Word(subtype)>> \o Octets(counter, 2)

\* Primary and secondary header of a telemetry packet, and what follows them.
TmPacketOf(apid, seq, service, subtype, payload) ==
    LET total == CCSDS_PRI_HDR_LEN + PUS_TM_SEC_HDR_LEN + Len(payload)
    IN  ccsds_pack_primary(Header(0, apid, seq, total))
        \o pus_pack_secondary(service, subtype, Word(seq)) \o payload

\* <<>> when the packet does not fit in cap octets.
obdh_pack_tm(cap, apid, seq, service, subtype, payload) ==
    IF CCSDS_PRI_HDR_LEN + PUS_TM_SEC_HDR_LEN + Len(payload) > cap THEN <<>>
    ELSE TmPacketOf(apid, seq % SeqCounts, service, subtype, payload)

\* A report on the telecommand with this packet id and sequence control; the
\* even subtypes are the failures and carry a code.
build_verification(seq, subtype, pkt_id, seq_ctrl, failure_code) ==
    TmPacketOf(CCSDS_APID_CMD, seq, 1, subtype,
               Octets(pkt_id, 2) \o Octets(seq_ctrl, 2)
               \o IF subtype % 2 = 0 THEN <<failure_code>> ELSE <<>>)

build_conn_test_report(seq) == TmPacketOf(CCSDS_APID_CMD, seq, 17, 2, <<>>)

\* A payload has fields, each a word in a number of octets behind an offset.
Size(fields) == IF fields = <<>> THEN 0 ELSE fields[Len(fields)].at + fields[Len(fields)].len

Packed(fields, words) ==
    [k \in 1 .. Size(fields) |->
        LET i == CHOOSE i \in 1 .. Len(fields) : k - fields[i].at \in 1 .. fields[i].len
        IN  Octets(words[i], fields[i].len)[k - fields[i].at]]

Unpacked(fields, buf) ==
    [i \in 1 .. Len(fields) |->
        Join(SubSeq(buf, fields[i].at + 1, fields[i].at + fields[i].len))]

Field(at, len) == [at |-> at, len |-> len]

\* bus_voltage f32, battery_pct u8, temp_obc f32, temp_batt f32, mode u8
HkFields == <<Field(0, 4), Field(4, 1), Field(5, 4), Field(9, 4), Field(13, 1)>>
pus_serialize_hk_payload(s)     == Packed(HkFields, s)
pus_deserialize_hk_payload(buf) == Unpacked(HkFields, buf)
=============================================================================
