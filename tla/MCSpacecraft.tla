----------------------------- MODULE MCSpacecraft -----------------------------
(* An event store of two, no sensor but the watchdog, one attempt, sequence
   counts that wrap; exits asked for with and without reports, and a connection test. *)
EXTENDS Spacecraft

MCTmKind == {[apid |-> "EVENT", len |-> 18]}
MCPacket == TmPacket
MCSize   == [p \in TmPacket |-> p.len]

Tc(cmd, ack) == [len |-> TcMinLen, bad |-> {}, cmd |-> cmd, ack |-> ack]
MCSent == {Tc("EXIT_SAFE", {"ACCEPT", "COMPLETE"}), Tc("EXIT_SAFE", {}), Tc("CONN_TEST", {"COMPLETE"})}
=============================================================================
