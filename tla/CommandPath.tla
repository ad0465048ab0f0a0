----------------------------- MODULE CommandPath -----------------------------
(***************************************************************************)
(* The telecommand path of labs/03-tmtc: tc_parse's chain of checks, the   *)
(* command table, execution, and the Service 1 verification reports.       *)
(*                                                                         *)
(* A telecommand is a record: its length in bytes, the set of header and   *)
(* integrity checks it would fail, the command it names and the stages its *)
(* ack flags ask a report for.  The actions here say what the path does    *)
(* with one telecommand; Uplink drives them from the ground and Obdh puts  *)
(* the router in front of them.                                            *)
(***************************************************************************)
EXTENDS Integers, Sequences

CONSTANTS
    TcMinLen,   \* TC_MIN_PACKET_LEN, also the length of a TC without arguments
    TcMaxLen,   \* TC_MAX_PACKET_LEN
    MaxTmPerTc, \* UPLINK_MAX_TM_PER_TC
    TmSeqMod    \* sequence counts of the command APID wrap here (16384)

ASSUME CommandPathAssumption ==
    /\ TcMinLen \in Nat /\ TcMinLen >= 4
    /\ TcMaxLen \in Nat
    /\ MaxTmPerTc \in Nat
    /\ TmSeqMod \in Nat \ {0}

\* Mutant: the header fields are believed before the checksum.
CheckHeaderFirst == <<"LENGTH", "TYPE", "APID", "PUS_VERSION", "CRC">>

\* The checks of tc_parse behind the size checks, in the order they are made.
Check   == <<"LENGTH", "CRC", "TYPE", "APID", "PUS_VERSION">>
Command == {"CONN_TEST", "EXIT_SAFE"}       \* cmd_table; neither takes arguments
Stage   == {"ACCEPT", "START", "PROGRESS", "COMPLETE"}
Hook    == {"EXITED", "REFUSED", "UNWIRED"} \* what exit_safe_hook would answer

Telecommand == [len : Nat, bad : SUBSET {Check[i] : i \in 1 .. Len(Check)},
                cmd : Command \cup {"UNKNOWN"}, ack : SUBSET Stage]

VARIABLES
    tmSeq, accepted, rejected, dropped, executed, connTests,
    out,    \* tm_out of the last telecommand: the reports, in order
    built,  \* reports built for the last telecommand, each written to out[count]
    exits   \* history: calls of exit_safe_hook that returned non-zero

pathVars == <<tmSeq, accepted, rejected, dropped, executed, connTests, out, built, exits>>

-----------------------------------------------------------------------------
(* Validation *)

\* Mutant: the checksum is computed and not compared.
ParseWithoutCrc(tc) ==
    IF tc.len < TcMinLen THEN "TOO_SHORT"
    ELSE IF tc.len > TcMaxLen THEN "TOO_LONG"
    ELSE IF tc.bad \subseteq {"CRC"} THEN "OK" ELSE "TYPE"

Parse(tc) ==
    IF tc.len < TcMinLen THEN "TOO_SHORT"
    ELSE IF tc.len > TcMaxLen THEN "TOO_LONG"
    ELSE IF tc.bad = {} THEN "OK"
    ELSE Check[CHOOSE i \in 1 .. Len(Check) :
                  Check[i] \in tc.bad /\ \A j \in 1 .. i - 1 : Check[j] \notin tc.bad]

FailureForParse(status) ==
    CASE status \in {"TOO_SHORT", "TOO_LONG", "LENGTH"} -> "ILLEGAL_LEN"
      [] status = "CRC"                                 -> "BAD_CRC"
      [] status = "APID"                                -> "BAD_APID"
      [] status \in {"TYPE", "PUS_VERSION"}             -> "BAD_HEADER"

\* dispatch(): the pair must be in the table and the arguments must fit it.
Dispatch(tc) ==
    IF tc.cmd \notin Command THEN "UNKNOWN_CMD"
    ELSE IF tc.len # TcMinLen THEN "BAD_APP_DATA"
    ELSE "OK"

-----------------------------------------------------------------------------
(* Reports *)

Rep(kind, code)         == <<[kind |-> kind, code |-> code]>>
IfAsked(tc, stage, kind) == IF stage \in tc.ack THEN Rep(kind, "NONE") ELSE <<>>

\* Mutant: the count advances once per telecommand.
AfterReportsOnce(n)      == (tmSeq + 1) % TmSeqMod

AfterReports(n) == (tmSeq + n) % TmSeqMod

\* build_verification and tm_out_add for each report of rs in turn: a report
\* takes the next sequence count even when there is no room left for it.
Send(rs) ==
    LET kept == IF Len(rs) > MaxTmPerTc THEN MaxTmPerTc ELSE Len(rs)
    IN  /\ out' = [i \in 1 .. kept |-> [kind |-> rs[i].kind, code |-> rs[i].code,
                                        seq |-> (tmSeq + i - 1) % TmSeqMod]]
        /\ tmSeq' = AfterReports(Len(rs))
        /\ built' = Len(rs)

-----------------------------------------------------------------------------
(* uplink_handle_tc, one action per outcome *)

PathInit ==
    /\ tmSeq = 0
    /\ accepted = 0 /\ rejected = 0 /\ dropped = 0
    /\ executed = 0 /\ connTests = 0
    /\ out = <<>> /\ built = 0
    /\ exits = 0

\* Too short to carry a packet id and sequence control: counted only.
Unnameable(tc) ==
    /\ Parse(tc) # "OK" /\ tc.len < 4
    /\ dropped' = dropped + 1
    /\ Send(<<>>)
    /\ UNCHANGED <<accepted, rejected, executed, connTests, exits>>

Malformed(tc) ==
    /\ Parse(tc) # "OK" /\ tc.len >= 4
    /\ rejected' = rejected + 1
    /\ Send(Rep("ACCEPT_FAIL", FailureForParse(Parse(tc))))
    /\ UNCHANGED <<accepted, dropped, executed, connTests, exits>>

NotACommand(tc) ==
    /\ Parse(tc) = "OK" /\ Dispatch(tc) # "OK"
    /\ rejected' = rejected + 1
    /\ Send(Rep("ACCEPT_FAIL", Dispatch(tc)))
    /\ UNCHANGED <<accepted, dropped, executed, connTests, exits>>

\* Mutant: a failed execution is reported only to those who asked.
CompletionIfAsked(tc, failed) ==
    IF failed THEN IfAsked(tc, "COMPLETE", "COMPLETE_FAIL")
    ELSE IfAsked(tc, "COMPLETE", "COMPLETE_OK")

Completion(tc, failed) ==
    IF failed THEN Rep("COMPLETE_FAIL", "EXEC_ERROR")
    ELSE IfAsked(tc, "COMPLETE", "COMPLETE_OK")

\* Mutant: a progress report for commands that have no such stage.
BegunWithProgress(tc) ==
    IfAsked(tc, "ACCEPT", "ACCEPT_OK") \o IfAsked(tc, "START", "START_OK")
        \o IfAsked(tc, "PROGRESS", "PROGRESS_OK")

Begun(tc) == IfAsked(tc, "ACCEPT", "ACCEPT_OK") \o IfAsked(tc, "START", "START_OK")

\* TC[17,1]: a handler whose own report finds no room fails.
ConnectionTest(tc) ==
    /\ Parse(tc) = "OK" /\ Dispatch(tc) = "OK" /\ tc.cmd = "CONN_TEST"
    /\ accepted' = accepted + 1
    /\ executed' = executed + 1
    /\ connTests' = connTests + 1
    /\ Send(Begun(tc) \o Rep("CONN_TEST", "NONE")
                      \o Completion(tc, Len(Begun(tc)) >= MaxTmPerTc))
    /\ UNCHANGED <<rejected, dropped, exits>>

\* TC[130,1]: the hook decides; a refusal is a completion failure.
ExitSafeMode(tc, hook) ==
    /\ Parse(tc) = "OK" /\ Dispatch(tc) = "OK" /\ tc.cmd = "EXIT_SAFE"
    /\ accepted' = accepted + 1
    /\ executed' = executed + 1
    /\ exits' = IF hook = "EXITED" THEN exits + 1 ELSE exits
    /\ Send(Begun(tc) \o Completion(tc, hook # "EXITED"))
    /\ UNCHANGED <<rejected, dropped, connTests>>

HandleTc(tc, hook) ==
    \/ Unnameable(tc)
    \/ Malformed(tc)
    \/ NotACommand(tc)
    \/ ConnectionTest(tc)
    \/ ExitSafeMode(tc, hook)
=============================================================================
