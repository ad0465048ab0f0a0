------------------------------- MODULE MCTcLink -------------------------------
(* Both directions of the link.  Up: a connection test, an exit from safe mode
   with and without an argument it does not take, and an unknown command, with
   different counts, flags and sources.  Down: two packets over the wrap of the
   counts, fields empty, full or mixed (8.1f is 0x4101999A), and a buffer too
   small for all but the shortest.  The two share no state: one at a time. *)
EXTENDS TcLink, TmStream

Tc(count, ack, service, subtype, source, app) ==
    [seq |-> count, ack |-> ack, service |-> service, subtype |-> subtype,
     source |-> source, app |-> app]

MCCommands == {Tc(20, {0, 1, 2, 3}, 17, 1, 1, <<>>), Tc(16383, {0}, 130, 1, 43981, <<>>),
               Tc(0, {}, 130, 1, 0, <<{0, 7}>>), Tc(9, {3}, 17, 99, 1, <<>>)}

\* A field is full, or holds a word of its length: 8.1f, a count, a code.
Full(len)  == 0 .. 8 * len - 1
Mixed(len) == CASE len = 1 -> {1, 2}
                [] len = 2 -> {0, 2, 5, 6, 11, 12}
                [] len = 4 -> {1, 3, 4, 7, 8, 11, 12, 15, 16, 24, 30}
MCFilling ==
    [k \in Kind |->
        LET n == Len(Layout[k].fields)
        IN  {[i \in 1 .. n |-> IF i \in S THEN Mixed(Layout[k].fields[i].len)
                               ELSE Full(Layout[k].fields[i].len)] :
                S \in {{}, 1 .. n, {i \in 1 .. n : i % 2 = 0}, {1, 4}}}
        \cup {[i \in 1 .. n |-> {}]}]

\* The check value of CRC-16/CCITT-FALSE, over "123456789" (uplink_test.c:72).
ASSUME CrcCheckValue == tc_crc16([i \in 1 .. 9 |-> Word(48 + i)]) = Word(10673)

BothInit == LinkInit /\ StreamInit

BothNext ==
    \/ downlink = <<>> /\ LinkNext /\ UNCHANGED streamVars
    \/ sent = <<>> /\ StreamNext /\ UNCHANGED linkVars

BothSpec == BothInit /\ [][BothNext]_<<linkVars, streamVars>>
=============================================================================
