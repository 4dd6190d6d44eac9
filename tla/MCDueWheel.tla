----------------------------- MODULE MCDueWheel -----------------------------
(* Small instances of DueWheel for TLC: horizons shorter than the hours. *)
EXTENDS DueWheel, TLC

CONSTANTS k1, k2, k3
Perms == Permutations({k1, k2, k3})
=============================================================================
