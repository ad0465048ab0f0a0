------------------------------- MODULE MCParts -------------------------------
(* Three parts of the spacecraft, each driven alone through its interface: the
   store, the command path and FDIR.  They share no state here, and one of them
   runs (Spacecraft puts them together).

   One store of three slots, offered more packets than it can hold twice over.

   Telecommands around every check: both commands with and without arguments,
   an unknown one, each length class, one and two failing checks, and the ack
   flags that matter.

   FDIR with one sensor, the watchdog over two tasks, the real confirmation and
   attempt limits, and counters that wrap at once. *)
EXTENDS PacketStore, Uplink, Fdir

CONSTANTS p1, p2, big, absent

MCPacket == {p1, p2, big, absent}
MCSize   == [p \in MCPacket |->
                CASE p = p1 -> 1 [] p = p2 -> 2 [] p = big -> 3 [] p = absent -> 0]

Tc(len, bad, cmd, ack) == [len |-> len, bad |-> bad, cmd |-> cmd, ack |-> ack]
AllAcks == Stage

MCSent ==
    {Tc(TcMinLen, {}, c, a) : c \in Command, a \in {{}, {"ACCEPT"}, {"START", "COMPLETE"}, AllAcks}}
    \cup {Tc(TcMinLen + 1, {}, c, AllAcks) : c \in Command}
    \cup {Tc(TcMinLen, {}, "UNKNOWN", {})}
    \cup {Tc(l, {}, "CONN_TEST", AllAcks) : l \in {0, 3, 4, TcMinLen - 1, TcMaxLen, TcMaxLen + 1}}
    \cup {Tc(TcMinLen, b, "EXIT_SAFE", AllAcks) :
             b \in {{Check[i]} : i \in 1 .. Len(Check)} \cup {{"CRC", "APID"}}}

VARIABLE part \* the one that runs

PartsInit == part \in {"STORE", "UPLINK", "FDIR"} /\ Init /\ UplinkInit /\ FdirInit

PartsNext ==
    /\ \/ part = "STORE" /\ Next /\ UNCHANGED <<uplinkVars, fdirVars>>
       \/ part = "UPLINK" /\ UplinkNext /\ UNCHANGED <<vars, fdirVars>>
       \/ part = "FDIR" /\ FdirNext /\ UNCHANGED <<vars, uplinkVars>>
    /\ UNCHANGED part

PartsSpec == PartsInit /\ [][PartsNext]_<<part, vars, uplinkVars, fdirVars>>
=============================================================================
