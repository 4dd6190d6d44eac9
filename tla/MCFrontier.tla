----------------------------- MODULE MCFrontier -----------------------------
(* Small instances of Frontier for TLC. *)
EXTENDS Frontier, TLC

CONSTANTS h1, h2, u1, u2, u3, i1

\* Two hosts behind one address; u1 and u2 are URLs of h1, u3 one of h2.
MCHostOf == [u \in URLs |-> IF u = u3 THEN h2 ELSE h1]
MCIPOf == [h \in Hosts |-> IPs]

\* One dispatch thread, or two with a host homed on each.
MCHomeOne == [h \in Hosts |-> 0]
MCHomeTwo == [h \in Hosts |-> IF h = h1 THEN 0 ELSE 1]

\* The two URLs of one host are interchangeable.
Swap == Permutations({u1, u2})
=============================================================================
