------------------------------- MODULE Replica ------------------------------
(***************************************************************************)
(* A partition's replica, src/distribute/replicate.go: a snapshot and the  *)
(* primary's tail of logged writes, applied by LSN, and its promotion.     *)
(*                                                                         *)
(* The URL and the host table are one function from keys to values: <<h>>  *)
(* is a host's key, <<h, p>> a URL's; a URL's value is its status, and     *)
(* Absent is a key the table does not have.  An entry is [lsn, key, value], *)
(* a tombstone one with Absent.  The sender is not in the repository: it   *)
(* is taken to be at least once and to leave no gap, in batches in any     *)
(* order and with repetitions, which is what Stream's contract allows.     *)
(* The snapshot's string arena is copied and never grows.                  *)
(***************************************************************************)
EXTENDS Integers, Sequences, FiniteSets, SequencesExt

CONSTANTS
  Cells,       \* the keys
  Values,      \* values a write may leave
  MaxLog,      \* bound: writes of the primary
  MaxTop       \* the largest host key

ASSUME ReplicaAssumption ==
  /\ MaxLog \in Nat /\ IsFiniteSet(Cells)
  /\ \A k \in Cells : k \in Seq(Nat) /\ Len(k) \in {1, 2} /\ k[1] <= MaxTop

VARIABLES
  log,         \* the primary's writes, by LSN
  replica,     \* {[table, applied]}, or {} before the snapshot is shipped
  promoted     \* what Promote returned: {[urls, hosts, lo, hi, table]}, or {}

replicaVars == <<log, replica, promoted>>

Absent == "absent"

\* The primary's tables after its first n writes.
TableAt(n) ==
  [k \in Cells |-> LET mine == {i \in 1..n : log[i].key = k}
                   IN IF mine = {} THEN Absent ELSE log[Max(mine)].value]

NewReplica(snap, lsn) == [table |-> snap, applied |-> lsn]

\* Mutant: an entry at or below what is applied is applied again.
Apply_Again(r, e) == [table |-> [r.table EXCEPT ![e.key] = e.value], applied |-> e.lsn]

Apply(r, e) ==
  IF e.lsn <= r.applied THEN r
  ELSE [table |-> [r.table EXCEPT ![e.key] = e.value], applied |-> e.lsn]

\* The orders sort.Slice may leave the entries in: it is not stable.
ByLSN(entries) ==
  {s \in {[i \in DOMAIN entries |-> entries[p[i]]] : p \in Bijection(DOMAIN entries, DOMAIN entries)} :
     \A i \in 2..Len(s) : s[i - 1].lsn <= s[i].lsn}

\* The replica after the entries of s, one by one.
Replayed(r, s) ==
  LET st[i \in 0..Len(s)] == IF i = 0 THEN r ELSE Apply(st[i - 1], s[i]) IN st[Len(s)]

Stream(r, entries) == {Replayed(r, s) : s \in ByLSN(entries)}

Lag(r, primaryLSN) == IF primaryLSN <= r.applied THEN 0 ELSE primaryLSN - r.applied

KeyBefore(a, b) == a[1] < b[1] \/ (a[1] = b[1] /\ Len(a) = 2 /\ a[2] < b[2])

\* A table of keys S, sorted.
Table(S) ==
  {t \in Bijection(1..Cardinality(S), S) : \A i \in 2..Cardinality(S) : KeyBefore(t[i - 1], t[i])}

\* The keys of length n the table has a row for.
Have(table, n) == {k \in Cells : Len(k) = n /\ table[k] # Absent}

\* The replica as a partition: sorted tables over the range of its hosts, or
\* over the whole space when it has none.
Partition(table) ==
  {[urls |-> us, hosts |-> hs, table |-> table,
    lo |-> IF hs = <<>> THEN 0 ELSE hs[1][1],
    hi |-> IF hs = <<>> THEN MaxTop ELSE hs[Len(hs)][1]] :
     us \in Table(Have(table, 2)), hs \in Table(Have(table, 1))}

RecoverInFlight(p) ==
  [p EXCEPT !.table = [k \in Cells |-> IF Len(k) = 2 /\ @[k] = "inflight" THEN "scheduled" ELSE @[k]]]

---------------------------------------------------------------------------

ReplicaInit == log = <<>> /\ replica = {} /\ promoted = {}

\* External: the primary logs a put or a tombstone.
Write(k, v) ==
  /\ Len(log) < MaxLog
  /\ log' = Append(log, [lsn |-> Len(log) + 1, key |-> k, value |-> v])
  /\ UNCHANGED <<replica, promoted>>

\* The snapshot of the primary's checkpoint cut.
Ship ==
  /\ replica = {}
  /\ \E lsn \in 0..Len(log) : replica' = {NewReplica(TableAt(lsn), lsn)}
  /\ UNCHANGED <<log, promoted>>

\* External: a batch from an entry no later than the next one wanted, up to
\* `to`, shuffled, with entry `again` twice.
Deliver(from, to, again) ==
  /\ \E r \in replica :
       /\ from <= r.applied + 1
       /\ \E order \in Bijection(1..(to - from + 1), from..to) :
            \E q \in Stream(r, [i \in DOMAIN order |-> log[order[i]]] \o <<log[again]>>) : replica' = {q}
  /\ UNCHANGED <<log, promoted>>

\* The primary is gone: the replica becomes the partition.
Promote ==
  /\ \E r \in replica : \E p \in Partition(r.table) : promoted' = {RecoverInFlight(p)}
  /\ UNCHANGED <<log, replica>>

ReplicaNext ==
  /\ promoted = {}
  /\ \/ \E k \in Cells, v \in Values : Write(k, v)
     \/ Ship
     \/ \E to \in DOMAIN log : \E from \in 1..to : \E again \in from..to : Deliver(from, to, again)
     \/ Promote

ReplicaSpec == ReplicaInit /\ [][ReplicaNext]_replicaVars

---------------------------------------------------------------------------

\* A replica is always the primary as of the LSN it has applied, whatever
\* batches were shuffled, repeated or sent again after later ones; its lag
\* is the number of writes it misses; and the partition promoted from it
\* has those rows, sorted, none in flight and none lost, and its range holds
\* every URL whose host has a row, or every URL when no host has one.  A
\* tail that ends between a URL's entry and its host's leaves a row the
\* range may not hold.
ReplicaFollows ==
  /\ \A r \in replica :
       /\ r.applied <= Len(log)
       /\ r.table = TableAt(r.applied)
       /\ Lag(r, Len(log)) = Cardinality({i \in DOMAIN log : i > r.applied})
  /\ \A p \in promoted, r \in replica :
       /\ Range(p.urls) \cup Range(p.hosts) = {k \in Cells : TableAt(r.applied)[k] # Absent}
       /\ \A i \in 2..Len(p.urls) : KeyBefore(p.urls[i - 1], p.urls[i])
       /\ \A k \in Range(p.urls) :
            p.hosts = <<>> \/ <<k[1]>> \in Range(p.hosts) => p.lo <= k[1] /\ k[1] <= p.hi
       /\ \A k \in Range(p.urls) :
            /\ p.table[k] # "inflight"
            /\ TableAt(r.applied)[k] # "inflight" => p.table[k] = TableAt(r.applied)[k]
=============================================================================
