------------------------------- MODULE MCObdh -------------------------------
(* Stores of two packets; housekeeping, an event that fits and an
   event too long for a slot, an unmapped APID, and one telecommand of each fate. *)
EXTENDS Obdh

MCTmKind == {[apid |-> "HK", len |-> 20], [apid |-> "EVENT", len |-> 20],
             [apid |-> "EVENT", len |-> 65], [apid |-> "UNMAPPED", len |-> 20]}

MCPacket == TmPacket
MCSize   == [p \in TmPacket |-> p.len]

MCSent ==
    {[len |-> TcMinLen, bad |-> {}, cmd |-> "EXIT_SAFE", ack |-> {"ACCEPT", "COMPLETE"}],
     [len |-> TcMinLen, bad |-> {"CRC"}, cmd |-> "CONN_TEST", ack |-> {}],
     [len |-> TcMinLen, bad |-> {}, cmd |-> "CONN_TEST", ack |-> {}],
     [len |-> 5, bad |-> {}, cmd |-> "CONN_TEST", ack |-> {}]}
=============================================================================
