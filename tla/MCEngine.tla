------------------------------ MODULE MCEngine ------------------------------
(* Small instances of Engine for TLC. *)
EXTENDS Engine, TLC

CONSTANTS h1, h2, h3, u1, u2, u3, i1

\* Three hosts with a URL each, or two URLs on h1 and one on h2.
MCSpread == [u \in URLs |-> IF u = u1 THEN h1 ELSE IF u = u2 THEN h2 ELSE h3]
MCHostOf == [u \in URLs |-> IF u = u3 THEN h2 ELSE h1]
MCIPOf == [h \in Hosts |-> IPs]
MCHome == [h \in Hosts |-> 0]
=============================================================================
