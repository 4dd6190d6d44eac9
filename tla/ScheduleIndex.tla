--------------------------- MODULE ScheduleIndex ---------------------------
(***************************************************************************)
(* What the due-time wheel of src/frontier/wheel.go promises the scheduler *)
(* (and what module Frontier builds on): a key filed for an hour fires at  *)
(* the first call of due for that hour or a later one, once, and a key     *)
(* filed for an hour already passed fires at the next call.                *)
(***************************************************************************)
EXTENDS Integers

CONSTANTS Keys, MaxHour

VARIABLES
  pending,   \* the filed keys with the hour each one fires
  cursor,    \* the hour up to which every hour has fired
  fired      \* what the last call of due returned

svars == <<pending, cursor, fired>>

Init == pending = {} /\ cursor = 0 /\ fired = {}

Add(k, d) ==
  /\ \A e \in pending : e.key # k
  /\ pending' = pending \cup {[key |-> k, due |-> IF d <= cursor THEN cursor ELSE d]}
  /\ UNCHANGED <<cursor, fired>>

Due(n) ==
  /\ fired' = {e \in pending : e.due <= n}
  /\ pending' = pending \ fired'
  /\ cursor' = IF cursor <= n THEN n + 1 ELSE cursor

Next ==
  \/ \E k \in Keys, d \in 0..MaxHour : Add(k, d)
  \/ \E n \in 0..MaxHour : Due(n)

Spec == Init /\ [][Next]_svars
=============================================================================
