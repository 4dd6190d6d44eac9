------------------------------ MODULE MCStore ------------------------------
(* Small instances of Store for TLC. *)
EXTENDS Store

CONSTANTS c1, c2, k1, k2, k3

\* Each key has one writer; both callers read k1 and k2, and c2 alone reads k3.
MCOwn == [c \in Clients |-> IF c = c1 THEN {k1} \cap Keys ELSE {k2, k3} \cap Keys]
MCReads == [c \in Clients |-> IF c = c1 THEN {k1, k2} \cap Keys ELSE Keys]
=============================================================================
