------------------------------ MODULE MCFleet -------------------------------
(* Small instances of Fleet for TLC. *)
EXTENDS Fleet

CONSTANTS h1, h2, u1, u2

\* Host h1 stays on partition 0 whatever the count, host h2 moves to partition 1.
MCJump == [h \in Hosts |-> [n \in 1..2 |-> IF h = h2 /\ n = 2 THEN 1 ELSE 0]]
MCHostOf == [u \in URLs |-> IF u = u1 THEN h1 ELSE h2]
=============================================================================
