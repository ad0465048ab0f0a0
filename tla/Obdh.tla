--------------------------------- MODULE Obdh ---------------------------------
(***************************************************************************)
(* The onboard data handling core of labs/04-obdh: one router, an event    *)
(* store and a housekeeping store behind it while the ground is out of     *)
(* contact, and the telecommand path in front.  Packets are numbered as    *)
(* they are offered, and `ground` is everything handed to the downlink.    *)
(***************************************************************************)
EXTENDS RingStore, CommandPath, FiniteSets

CONSTANTS
    MaxTm,     \* bound on the telemetry packets offered
    MaxTc,     \* bound on the telecommands and malformed packets together
    MaxPass,   \* bound on the contacts
    Sent,      \* telecommands that may arrive
    TmKind,    \* kinds of telemetry offered: APID and length
    HkSeqMod   \* sequence counts of OBDH housekeeping wrap here (16384)

PriHdrLen == 6     \* CCSDS_PRI_HDR_LEN
HkApid    == {"HK", "OBDH_HK", "FDIR_HK"}
TmApid    == HkApid \cup {"EVENT", "CMD", "UNMAPPED"}

\* Telemetry as the router sees it: its APID and length, and a serial number.
TmPacket == {[apid |-> k.apid, len |-> k.len, n |-> i] : k \in TmKind, i \in 1 .. MaxTm}

ASSUME ObdhAssumption ==
    /\ MaxTm \in Nat /\ MaxTc \in Nat /\ MaxPass \in Nat
    /\ Sent \subseteq Telecommand
    /\ TmKind \subseteq [apid : TmApid, len : Nat \ {0}]
    /\ \A p \in TmPacket : p \in Packet /\ Size[p] = p.len
    /\ HkSeqMod \in Nat \ {0}

VARIABLES
    hkStore, evStore, inContact, onboardTime, hkSeq,
    nDownlinked, nStored, nDispatched, nUnknown, nMalformed,
    ground,  \* history: what the downlink callback was given, in order
    offered, \* history: telemetry offered to the router, in order
    losAt,   \* history: Len(offered) when contact was last lost
    pass,    \* history: contacts acquired so far
    named    \* history: telecommands ingested that carry a packet id

pathHeld == <<tmSeq, accepted, rejected, dropped, executed, connTests, out, built, exits>>
obdhVars == <<hkStore, evStore, inContact, onboardTime, hkSeq, nDownlinked, nStored,
              nDispatched, nUnknown, nMalformed, ground, offered, losAt, pass, named, pathHeld>>

-----------------------------------------------------------------------------
(* Routing *)

Route(apid, contact) ==
    CASE apid \in HkApid \cup {"EVENT"} -> IF contact THEN "DOWNLINK" ELSE "STORE"
      [] apid = "CMD"                   -> "DOWNLINK"
      [] OTHER                          -> "DROP"

\* How the ground gets a packet: from a store or as it happens, and in which
\* pass (0 out of contact, where only command responses go down).
Tag(p, how) == [pkt |-> p, how |-> how, pass |-> IF inContact' THEN pass' ELSE 0]
Live(ps)    == [i \in 1 .. Len(ps) |-> Tag(ps[i], "LIVE")]

\* Mutant: the stores are emptied newest first.
ForwardedBackwards(s) == [i \in 1 .. s.count |-> Tag(At(s, s.count + 1 - i).pkt, "STORED")]

Forwarded(s) == [i \in 1 .. s.count |-> Tag(At(s, i).pkt, "STORED")]

\* Mutant: housekeeping is drained before the events.
BacklogHkFirst == Forwarded(hkStore) \o Forwarded(evStore)

\* What an acquisition forwards: critical data first.
Backlog == Forwarded(evStore) \o Forwarded(hkStore)

Deliver(items) ==
    /\ ground' = ground \o items
    /\ nDownlinked' = nDownlinked + Len(items)

\* Mutant: one store for everything.
StoreTmTogether(p) ==
    /\ evStore' = StorePut(evStore, p, onboardTime) /\ UNCHANGED hkStore
    /\ nStored' = nStored + 1

StoreTm(p) ==
    /\ IF p.apid = "EVENT"
       THEN evStore' = StorePut(evStore, p, onboardTime) /\ UNCHANGED hkStore
       ELSE hkStore' = StorePut(hkStore, p, onboardTime) /\ UNCHANGED evStore
    /\ nStored' = nStored + 1

\* Mutant: what the telecommand answers is routed before what it causes.
ReportsThenEvent(p, responses) == responses \o <<p>>

EventThenReports(p, responses) == <<p>> \o responses

\* obdh_ingest of well-formed telemetry p, then of the command responses that
\* follow it; these go down whatever the contact state.
RouteTm(p, responses) ==
    CASE Route(p.apid, inContact) = "DOWNLINK" ->
           Deliver(Live(EventThenReports(p, responses))) /\ UNCHANGED <<hkStore, evStore, nStored, nUnknown>>
      [] Route(p.apid, inContact) = "STORE" ->
           StoreTm(p) /\ Deliver(Live(responses)) /\ UNCHANGED nUnknown
      [] Route(p.apid, inContact) = "DROP" ->
           /\ nUnknown' = nUnknown + 1
           /\ Deliver(Live(responses))
           /\ UNCHANGED <<hkStore, evStore, nStored>>

Offer(p) == p.n = Len(offered) + 1 /\ offered' = Append(offered, p)

-----------------------------------------------------------------------------
(* Operations *)

ObdhInit(contact) ==
    /\ hkStore = StoreInit /\ evStore = StoreInit
    /\ inContact = contact
    /\ onboardTime = 0 /\ hkSeq = 0
    /\ nDownlinked = 0 /\ nStored = 0 /\ nDispatched = 0
    /\ nUnknown = 0 /\ nMalformed = 0
    /\ PathInit
    /\ ground = <<>> /\ offered = <<>> /\ losAt = 0 /\ named = 0
    /\ pass = IF contact THEN 1 ELSE 0

ObdhTick ==
    /\ onboardTime < MaxStamp
    /\ onboardTime' = onboardTime + 1
    /\ UNCHANGED <<hkStore, evStore, inContact, hkSeq, nDownlinked, nStored, nDispatched,
                   nUnknown, nMalformed, ground, offered, losAt, pass, named, pathHeld>>

\* obdh_set_contact(1): an acquisition drains the stores, events first.
AcquireContact ==
    /\ ~inContact /\ pass < MaxPass
    /\ inContact' = TRUE
    /\ pass' = pass + 1
    /\ Deliver(Backlog)
    /\ evStore' = Drained(evStore)
    /\ hkStore' = Drained(hkStore)
    /\ UNCHANGED <<onboardTime, hkSeq, nStored, nDispatched, nUnknown, nMalformed,
                   offered, losAt, named, pathHeld>>

\* obdh_set_contact(0).  Setting the state it already has changes nothing.
LoseContact ==
    /\ inContact
    /\ inContact' = FALSE
    /\ losAt' = Len(offered)
    /\ UNCHANGED <<hkStore, evStore, onboardTime, hkSeq, nDownlinked, nStored, nDispatched,
                   nUnknown, nMalformed, ground, offered, pass, named, pathHeld>>

IngestTm(p) ==
    /\ Offer(p)
    /\ UNCHANGED <<inContact, pass>>
    /\ RouteTm(p, <<>>)
    /\ UNCHANGED <<onboardTime, hkSeq, nDispatched, nMalformed, losAt, named, pathHeld>>

\* Telemetry too short to hold a header or of the wrong length, and anything
\* shorter than a primary header, telecommands included.
IngestMalformed ==
    /\ nDispatched + nMalformed < MaxTc
    /\ nMalformed' = nMalformed + 1
    /\ UNCHANGED <<hkStore, evStore, inContact, onboardTime, hkSeq, nDownlinked, nStored,
                   nDispatched, nUnknown, ground, offered, losAt, pass, pathHeld>>

IngestShortTc(tc) ==
    /\ tc.len < PriHdrLen
    /\ IngestMalformed
    /\ named' = IF tc.len >= 4 THEN named + 1 ELSE named

\* A telecommand: dispatched, executed, and its reports routed afterwards.  A
\* hook that leaves safe mode reports it with an event of its own, routed while
\* the telecommand is being handled, before any of its reports.
Responses(tc) ==
    [i \in 1 .. Len(out') |-> [apid |-> "CMD", n |-> 0, kind |-> out'[i].kind, cmd |-> tc.cmd]]

IngestTc(tc, hook) ==
    /\ nDispatched + nMalformed < MaxTc
    /\ tc.len >= PriHdrLen
    /\ nDispatched' = nDispatched + 1
    /\ named' = named + 1
    /\ HandleTc(tc, hook)
    /\ UNCHANGED <<inContact, pass>>
    /\ IF exits' = exits
       THEN /\ Deliver(Live(Responses(tc)))
            /\ UNCHANGED <<hkStore, evStore, nStored, nUnknown, offered>>
       ELSE \E p \in TmPacket :
               /\ p.apid = "EVENT" /\ p.len <= MaxPkt
               /\ Offer(p)
               /\ RouteTm(p, Responses(tc))
    /\ UNCHANGED <<onboardTime, hkSeq, nMalformed, losAt>>

\* obdh_build_hk into a buffer large enough; the caller ingests the packet.
ObdhBuildHk ==
    /\ hkSeq' = (hkSeq + 1) % HkSeqMod
    /\ UNCHANGED <<hkStore, evStore, inContact, onboardTime, nDownlinked, nStored, nDispatched,
                   nUnknown, nMalformed, ground, offered, losAt, pass, named, pathHeld>>

ObdhNext ==
    \/ ObdhTick \/ AcquireContact \/ LoseContact
    \/ \E p \in TmPacket : IngestTm(p)
    \/ IngestMalformed /\ UNCHANGED named
    \/ \E tc \in Sent : IngestShortTc(tc) \/ \E hook \in Hook : IngestTc(tc, hook)
    \/ ObdhBuildHk

ObdhSpec == (\E c \in BOOLEAN : ObdhInit(c)) /\ [][ObdhNext]_obdhVars

-----------------------------------------------------------------------------
(* What must hold *)

\* Stored telemetry is never left behind in contact: whatever is held waits for
\* the next acquisition, and that empties both stores.
NothingHeldInContact == inContact => hkStore.count = 0 /\ evStore.count = 0

Events       == {"EVENT"}
IsOf(c)      == {i \in 1 .. Len(offered) : offered[i].apid \in c}
ReceivedOf(c) == {k \in 1 .. Len(ground) : ground[k].pkt.apid \in c}

\* "The dropped count says exactly how many packets are missing": telemetry of
\* either class is on the ground, held, or counted as lost, and a packet for
\* no known destination is counted too; the router's own counters agree with it.
LossVisible ==
    /\ Cardinality(IsOf(Events)) =
           Cardinality(ReceivedOf(Events)) + evStore.count + evStore.dropped
    /\ Cardinality(IsOf(HkApid)) =
           Cardinality(ReceivedOf(HkApid)) + hkStore.count + hkStore.dropped
    /\ Cardinality(IsOf({"UNMAPPED"})) = nUnknown
    /\ nDownlinked = Len(ground)
    /\ nStored = Cardinality({k \in 1 .. Len(ground) : ground[k].how = "STORED"})
                   + hkStore.count + hkStore.dropped + evStore.count + evStore.dropped

\* "What the ground needs most after a long blackout is the state leading up to
\* the pass" and "a housekeeping flood can never evict stored events": out of
\* contact each store holds exactly the newest packets of its own class, as
\* many as it has room for, whatever was offered to the other.
Fresh(c) == {n \in losAt + 1 .. Len(offered) : offered[n].apid \in c /\ offered[n].len <= MaxPkt}

HoldsLast(s, c) ==
    /\ \A i \in 1 .. s.count : \E n \in Fresh(c) : At(s, i).pkt = offered[n]
    /\ \A i, j \in 1 .. s.count : i < j => At(s, i).pkt.n < At(s, j).pkt.n
    /\ \A n \in Fresh(c) :
          \/ \E i \in 1 .. s.count : At(s, i).pkt = offered[n]
          \/ s.count = StoreCap /\ n < At(s, 1).pkt.n

HoldsTheNewest == ~inContact => HoldsLast(evStore, Events) /\ HoldsLast(hkStore, HkApid)

\* Each class reaches the ground in the order it was offered, over any number
\* of passes, stored or not, and no packet twice.
InOrder ==
    \A c \in {Events, HkApid} : \A j, k \in ReceivedOf(c) :
        j < k => ground[j].pkt.n < ground[k].pkt.n

\* "Stored telemetry always precedes real-time telemetry", and within it the
\* events precede the housekeeping.
Precedence(item) ==
    IF item.how = "LIVE" THEN 3 ELSE IF item.pkt.apid = "EVENT" THEN 1 ELSE 2

StoredFirst ==
    \A j, k \in 1 .. Len(ground) :
        j < k /\ ground[j].pass = ground[k].pass /\ ground[j].pass # 0
            => Precedence(ground[j]) <= Precedence(ground[k])

\* obdh.h: the telecommand path "answers with TM[1,2], which must not be
\* pre-empted by a silent drop", for every telecommand a report can name.
EveryTcAnswered == named = accepted + rejected
=============================================================================
