-------------------------------- MODULE Uplink --------------------------------
(***************************************************************************)
(* The command path driven from the ground: any telecommand, in any order, *)
(* with any answer of the exit-safe hook, and the log of the verification  *)
(* reports the ground receives for them.                                   *)
(***************************************************************************)
EXTENDS CommandPath, FiniteSets

CONSTANTS
    Sent,     \* telecommands the ground may send
    MaxTcs    \* bound on the telecommands sent

ASSUME UplinkAssumption == Sent \subseteq Telecommand /\ MaxTcs \in Nat

VARIABLES
    uplinked, \* history: telecommands received so far, with the hook's answer
    log       \* history: every report, in order of emission, with its telecommand

uplinkVars == <<tmSeq, accepted, rejected, dropped, executed, connTests, out, built, exits,
                uplinked, log>>

UplinkInit == PathInit /\ uplinked = <<>> /\ log = <<>>

\* The ground tells its telecommands apart by packet id and sequence control,
\* which every report quotes; here that is the place in `uplinked`.
Receive(tc, hook) ==
    /\ Len(uplinked) < MaxTcs
    /\ HandleTc(tc, hook)
    /\ uplinked' = Append(uplinked, [tc |-> tc, hook |-> hook])
    /\ log' = log \o [i \in 1 .. Len(out') |->
                        [kind |-> out'[i].kind, code |-> out'[i].code,
                         seq |-> out'[i].seq, cmd |-> Len(uplinked')]]

UplinkNext == \E tc \in Sent, hook \in Hook : Receive(tc, hook)
UplinkSpec == UplinkInit /\ [][UplinkNext]_uplinkVars

-----------------------------------------------------------------------------
(* What must hold *)

\* What makes a telecommand a command, stated without the chain of checks.
Valid(tc) == /\ tc.bad = {}
             /\ tc.cmd \in Command
             /\ tc.len = TcMinLen /\ tc.len <= TcMaxLen

Received == 1 .. Len(uplinked)
Num(S)   == Cardinality(S)
Works(i) == uplinked[i].tc.cmd = "CONN_TEST" \/ uplinked[i].hook = "EXITED"

ReportKind == {"ACCEPT_OK", "ACCEPT_FAIL", "START_OK", "CONN_TEST", "COMPLETE_OK", "COMPLETE_FAIL"}
FailCode   == {"NONE", "ILLEGAL_LEN", "BAD_CRC", "BAD_HEADER", "BAD_APID",
               "UNKNOWN_CMD", "BAD_APP_DATA", "EXEC_ERROR"}

UplinkTypeOK ==
    /\ tmSeq \in 0 .. TmSeqMod - 1
    /\ {accepted, rejected, dropped, executed, connTests, exits, built} \subseteq Nat
    /\ Len(out) <= MaxTmPerTc
    /\ uplinked \in Seq([tc : Sent, hook : Hook])
    /\ log \in Seq([kind : ReportKind, code : FailCode, seq : 0 .. TmSeqMod - 1, cmd : Nat])

\* "Counters exist so a self check can prove rejected, and NOT executed": every
\* telecommand is counted exactly once, and the valid ones, and only those, are
\* executed, whatever order they come in.  "Never partially executed": the effects
\* on board are exactly those of the valid telecommands.
CountedOnce ==
    /\ accepted = Num({i \in Received : Valid(uplinked[i].tc)})
    /\ dropped  = Num({i \in Received : uplinked[i].tc.len < 4})
    /\ accepted + rejected + dropped = Len(uplinked)
    /\ executed = accepted
    /\ connTests = Num({i \in Received : /\ Valid(uplinked[i].tc)
                                         /\ uplinked[i].tc.cmd = "CONN_TEST"})
    /\ exits = Num({i \in Received : /\ Valid(uplinked[i].tc)
                                     /\ uplinked[i].tc.cmd = "EXIT_SAFE"
                                     /\ uplinked[i].hook = "EXITED"})

\* From the reports alone the ground knows the fate of every telecommand it can
\* be told about: a rejection and a failed execution are always reported, once,
\* and a success exactly for the stages that were asked for.
Kinds(i) == {log[k].kind : k \in {n \in 1 .. Len(log) : log[n].cmd = i}}

GroundKnows ==
    \A i \in Received :
        LET tc == uplinked[i].tc
        IN  CASE tc.len < 4                -> Kinds(i) = {}
              [] tc.len >= 4 /\ ~Valid(tc) -> Kinds(i) = {"ACCEPT_FAIL"}
              [] OTHER ->
                   /\ "ACCEPT_FAIL" \notin Kinds(i)
                   /\ "ACCEPT_OK" \in Kinds(i) <=> "ACCEPT" \in tc.ack
                   /\ "START_OK" \in Kinds(i) <=> "START" \in tc.ack
                   /\ "CONN_TEST" \in Kinds(i) <=> tc.cmd = "CONN_TEST"
                   /\ "COMPLETE_FAIL" \in Kinds(i) <=> ~Works(i)
                   /\ "COMPLETE_OK" \in Kinds(i) <=> "COMPLETE" \in tc.ack /\ Works(i)

\* The reports arrive numbered without a gap and a telecommand's stages in
\* order: a gap in the counts is how the ground sees a lost report.
Rank(kind) == CASE kind \in {"ACCEPT_OK", "ACCEPT_FAIL"}     -> 1
                [] kind = "START_OK"                         -> 2
                [] kind = "CONN_TEST"                        -> 3
                [] kind \in {"COMPLETE_OK", "COMPLETE_FAIL"} -> 4

LogInSequence ==
    \A i, j \in 1 .. Len(log) :
        /\ log[i].seq = (i - 1) % TmSeqMod
        /\ i < j => \/ log[i].cmd < log[j].cmd
                    \/ log[i].cmd = log[j].cmd /\ Rank(log[i].kind) < Rank(log[j].kind)

\* A report is written to out[count] before tm_out_add looks at the capacity,
\* so no telecommand may ever produce more than fit.
ReportsFit == built <= MaxTmPerTc
=============================================================================
