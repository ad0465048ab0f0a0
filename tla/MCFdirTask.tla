------------------------------ MODULE MCFdirTask ------------------------------
(* Values that are good, and values that warn and are bad; and the theorems of
   FdirTask_proofs, at and next to every limit. *)
EXTENDS FdirTask

Values(volt, obc, batt, pct) ==
    [bus_voltage |-> volt, temp_obc |-> obc, temp_batt |-> batt, battery_pct |-> pct]

MCState == {Values(81, 600, 400, 30), Values(59, 601, 0, 15)}

Edges == {Values(v, o, b, p) : v \in {0, 59, 60, 69, 70, 81}, o \in {220, 600, 601, 750, 751},
                               b \in {-101, -100, -1, 0, 400, 401, 500, 501},
                               p \in {0, 14, 15, 29, 30, 100}}

ASSUME LimitsMatch ==
    \A s \in Edges : InRange(s) /\ MatchesTable(s) /\ SameLimitAsSession3(s)
=============================================================================
