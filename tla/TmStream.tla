------------------------------- MODULE TmStream -------------------------------
(***************************************************************************)
(* The telemetry packets the labs build, in octets, over the sequence      *)
(* counts they share: the housekeeping of 03-tmtc/main.c, the housekeeping *)
(* of the OBDH and of FDIR, the events, and the command reports.  One      *)
(* counter per APID, each advanced by its own builder.                     *)
(***************************************************************************)
EXTENDS PacketFormat

CONSTANTS
    Filling,  \* Filling[k]: what the fields of a packet of kind k may be filled with
    Room,     \* sizes of the buffers a caller may offer
    StartSeq, \* the count all APIDs have reached when the ground starts to listen
    MaxTm     \* bound on the packets built

\* What each builder packs: APID, service, subtypes, and the fields of the payload
\* at the offsets where the code writes them.
Layout ==
    [HK       |-> [apid |-> 100, service |-> 3, subtypes |-> {25}, fields |-> HkFields],
     EVENT    |-> [apid |-> 102, service |-> 5, subtypes |-> 1 .. 4,
                   fields |-> <<Field(0, 2), Field(2, 1), Field(3, 1), Field(4, 1),
                                Field(5, 1), Field(6, 1)>>],
     OBDH_HK  |-> [apid |-> 103, service |-> 3, subtypes |-> {25},
                   fields |-> <<Field(0, 1), Field(1, 1), Field(2, 4), Field(6, 4), Field(10, 4)>>],
     FDIR_HK  |-> [apid |-> 104, service |-> 3, subtypes |-> {25},
                   fields |-> <<Field(0, 1), Field(1, 1), Field(2, 1), Field(3, 1),
                                Field(4, 2), Field(6, 2), Field(8, 2)>>],
     SUCCESS  |-> [apid |-> 101, service |-> 1, subtypes |-> {1, 3, 5, 7},
                   fields |-> <<Field(0, 2), Field(2, 2)>>],
     FAILURE  |-> [apid |-> 101, service |-> 1, subtypes |-> {2, 4, 6, 8},
                   fields |-> <<Field(0, 2), Field(2, 2), Field(4, 1)>>],
     TEST     |-> [apid |-> 101, service |-> 17, subtypes |-> {2}, fields |-> <<>>]]

Kind == DOMAIN Layout
Apid == {Layout[k].apid : k \in Kind}

ASSUME TmStreamAssumption ==
    /\ \A k \in Kind : \A words \in Filling[k] :
          /\ words \in Seq(SUBSET (0 .. 31)) /\ Len(words) = Len(Layout[k].fields)
          /\ \A i \in 1 .. Len(words) : words[i] \subseteq 0 .. 8 * Layout[k].fields[i].len - 1
    /\ Room \subseteq Nat
    /\ StartSeq \in 0 .. SeqCounts - 1
    /\ MaxTm \in Nat

VARIABLES
    seq,      \* seq[a]: the count the next packet of APID a takes
    downlink  \* history: the packets built, and what each was to say

streamVars == <<seq, downlink>>

-----------------------------------------------------------------------------
(* Builders *)

StreamInit == seq = [a \in Apid |-> StartSeq] /\ downlink = <<>>

Build(k, room, subtype, words) ==
    LET l == Layout[k]
        payload == IF k = "HK" THEN pus_serialize_hk_payload(words) ELSE Packed(l.fields, words)
    IN  CASE k \in {"EVENT", "OBDH_HK", "FDIR_HK"} ->
               obdh_pack_tm(room, l.apid, seq[l.apid], l.service, subtype, payload)
          [] k = "HK"      -> TmPacketOf(l.apid, seq[l.apid], l.service, subtype, payload)
          [] k = "SUCCESS" -> build_verification(seq[l.apid], subtype, words[1], words[2], {})
          [] k = "FAILURE" -> build_verification(seq[l.apid], subtype, words[1], words[2], words[3])
          [] k = "TEST"    -> build_conn_test_report(seq[l.apid])

\* Mutant: a packet that did not fit takes a count as well.
AfterUnbuilt(count, packet) == (count + 1) % SeqCounts

After(count, packet) == IF packet = <<>> THEN count ELSE (count + 1) % SeqCounts

Emit(k, room, subtype, words) ==
    LET packet == Build(k, room, subtype, words)
    IN  /\ Len(downlink) < MaxTm
        /\ seq' = [seq EXCEPT ![Layout[k].apid] = After(@, packet)]
        /\ downlink' = IF packet = <<>> THEN downlink
                       ELSE Append(downlink, [kind |-> k, subtype |-> subtype,
                                              words |-> words, octets |-> packet])

StreamNext ==
    \E k \in Kind, room \in Room : \E subtype \in Layout[k].subtypes, words \in Filling[k] :
        Emit(k, room, subtype, words)

StreamSpec == StreamInit /\ [][StreamNext]_streamVars

-----------------------------------------------------------------------------
(* What must hold *)

Packet(i)  == downlink[i].octets
ApidOf(i)  == Layout[downlink[i].kind].apid
CountOf(i) == ccsds_parse_primary(Packet(i)).seq_count

\* obdh.h:88, "Non-TC packets must be internally consistent", and the layouts of the
\* headers: what the builders build passes the check the router makes and goes where
\* its APID belongs in contact and out of it, and the ground reads in it what was put
\* in: APID, service, subtype and each field, whatever the bits of its neighbours.
ReadsBack ==
    \A i \in 1 .. Len(downlink) :
        LET l == Layout[downlink[i].kind]
            payload == SubSeq(Packet(i), 12, Len(Packet(i)))
        IN  /\ Destination(Packet(i), TRUE) = "DOWNLINK"
            /\ Destination(Packet(i), FALSE) = IF l.apid = 101 THEN "DOWNLINK" ELSE "STORE"
            /\ ccsds_parse_primary(Packet(i)).apid = Word(l.apid)
            /\ Packet(i)[8] = Word(l.service) /\ Packet(i)[9] = Word(downlink[i].subtype)
            /\ Unpacked(l.fields, payload) = downlink[i].words
            /\ downlink[i].kind = "HK" => pus_deserialize_hk_payload(payload) = downlink[i].words

\* ccsds.h:22, "increments per APID, wraps at 16384": a gap in the counts of an
\* APID means a loss, so none may appear without one; the secondary header's
\* counter follows.
CountsWithoutGap ==
    \A i \in 1 .. Len(downlink) :
        LET before == Cardinality({j \in 1 .. i - 1 : ApidOf(j) = ApidOf(i)})
        IN  /\ CountOf(i) = Word((StartSeq + before) % SeqCounts)
            /\ Join(SubSeq(Packet(i), 10, 11)) = CountOf(i)
=============================================================================
