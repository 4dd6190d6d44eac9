------------------------------- MODULE Fleet --------------------------------
(***************************************************************************)
(* Ownership in the multi-partition layer, src/distribute: the map the     *)
(* control plane changes and numbers with an epoch, the router in which a  *)
(* partition caches it, the batches of discoveries it sends to the owners  *)
(* of their hosts, and the ship-then-delete handoff that moves hosts when  *)
(* the map has changed.                                                    *)
(*                                                                         *)
(* Control operations take one lock and are one step each.  A partition is *)
(* one goroutine: it routes, flushes, takes its inbound batches, or runs a *)
(* handoff.  A send blocks it while the destination's channel is full.     *)
(*                                                                         *)
(* Data abstractions.                                                      *)
(*  - A partition's state is the set of URLs it has rows for; its host     *)
(*    table is their hosts.  Extract moves all the rows of a host.         *)
(*  - Jump[h][n] is the bucket jumpHash gives host h out of n.             *)
(*  - A batch is a set, as EncodeBatch says of it (it sorts the rows).     *)
(*  - The map is the part ownership depends on; health and placement are   *)
(*    not in it.                                                           *)
(* The repository has no caller of Handoff and no MoveTransport outside    *)
(* its tests.  Here the owner runs it in its own goroutine under the map   *)
(* its router has, and a destination commits a slice between its own jobs  *)
(* and echoes epoch and checksum, as the transport of handoff_test.go      *)
(* does.                                                                   *)
(***************************************************************************)
EXTENDS Integers, Sequences, FiniteSets

CONSTANTS
  MaxParts,       \* bound: partitions the fleet has at most
  Hosts, URLs, HostOf,
  Jump,           \* the jump hash, by host and partition count
  BatchSize,      \* discoveries of one destination before its batch goes out
  Depth,          \* batches a destination's channel buffers
  MaxEpoch,       \* bound: the map changes until it has this epoch
  MaxFetched,     \* bound: map snapshots a partition has fetched and not seen
  Crashes         \* bound: partition crashes

PIDs == 0..(MaxParts - 1)

ASSUME HostAssumption == HostOf \in [URLs -> Hosts] /\ IsFiniteSet(URLs)
ASSUME JumpAssumption ==
  \A h \in Hosts, n \in 1..MaxParts : Jump[h][n] \in 0..(n - 1)
ASSUME SizeAssumption ==
  {MaxParts, BatchSize, Depth, MaxEpoch} \subseteq Nat \ {0} /\ {MaxFetched, Crashes} \subseteq Nat

VARIABLES
  map,       \* Control.m
  fetched,   \* per partition, snapshots FetchMap returned and SwapMap has not seen
  view,      \* per partition, Router.cur
  rows,      \* per partition, the URLs it durably holds
  known,     \* URLs some partition has found or was seeded with
  job,       \* per partition, what its goroutine is doing
  pending,   \* per partition and destination, the batcher's partial batch
  chan,      \* per destination, the channel of batches
  move,      \* per partition, the handoff it runs
  stray,     \* slices whose Ship call failed, still on their way
  crashes

routeVars == <<job, pending, chan>>
moveVars  == <<move, stray>>
vars == <<map, fetched, view, rows, known, routeVars, moveVars, crashes>>

-----------------------------------------------------------------------------
(* The map. *)

NoPins == [h \in {} |-> 0]
FirstMap == [epoch |-> 1, n |-> 1, pins |-> NoPins]

\* Owner: a pin, else the jump hash over the partition count.
Owner(mp, h) == IF h \in DOMAIN mp.pins THEN mp.pins[h] ELSE Jump[h][mp.n]

\* Mutant: a pin does not count as a change.
Bumped_NotPins(mp) == [mp EXCEPT !.epoch = IF mp.pins = map.pins THEN @ + 1 ELSE @]

\* bump: every change of the map takes the next epoch.
Bumped(mp) == [mp EXCEPT !.epoch = @ + 1]

Changed(mp) ==
  /\ map.epoch < MaxEpoch
  /\ map' = Bumped(mp)
  /\ UNCHANGED <<fetched, view, rows, known, routeVars, moveVars, crashes>>

AddPartition == map.n < MaxParts /\ Changed([map EXCEPT !.n = @ + 1])
RemovePartition == map.n > 1 /\ Changed([map EXCEPT !.n = @ - 1])
Pin(h, p) ==
  Changed([map EXCEPT !.pins = [g \in DOMAIN @ \cup {h} |-> IF g = h THEN p ELSE @[g]]])

\* FetchMap: a heartbeat that sees a newer epoch pulls a clone.
FetchMap(p) ==
  /\ view[p].epoch < map.epoch /\ map \notin fetched[p]
  /\ Cardinality(fetched[p]) < MaxFetched
  /\ fetched' = [fetched EXCEPT ![p] = @ \cup {map}]
  /\ UNCHANGED <<map, view, rows, known, routeVars, moveVars, crashes>>

\* Mutant: whatever was fetched last is installed.
Swapped_Always(cur, next) == next

\* The map SwapMap leaves: a stale or equal epoch is ignored.
Swapped(cur, next) == IF next.epoch <= cur.epoch THEN cur ELSE next

SwapMap(p) ==
  \E next \in fetched[p] :
    /\ fetched' = [fetched EXCEPT ![p] = @ \ {next}]
    /\ view' = [view EXCEPT ![p] = Swapped(@, next)]
    /\ UNCHANGED <<map, rows, known, routeVars, moveVars, crashes>>

-----------------------------------------------------------------------------
(* Routing.  links: the outcome's links that are not in a batch yet; under: *)
(* the map they are routed by; to, batch: the send in progress.             *)

Idle == [kind |-> "idle", links |-> {}, under |-> FirstMap, to |-> 0, batch |-> {}]
NoMove == [on |-> FALSE, under |-> FirstMap, keep |-> {}, left |-> {}, to |-> 0, sent |-> "no"]

Free(p) == job[p] = Idle /\ ~move[p].on
Sending(p) == job[p].batch # {}

\* A flush returns once none of its partition's batches P is left to send.
Settled(j, P) == IF j.kind = "flush" /\ \A q \in PIDs : P[q] = {} THEN Idle ELSE j

\* A page of p's is crawled and its out-links ls go to RouteLinks, which loads
\* the cached map once.
RouteLinks(p, ls) ==
  /\ Free(p)
  /\ ls # {} /\ ls \cap known = {}
  /\ known' = known \cup ls
  /\ job' = [job EXCEPT ![p] = [Idle EXCEPT !.kind = "route", !.links = ls, !.under = view[p]]]
  /\ UNCHANGED <<map, fetched, view, rows, pending, chan, moveVars, crashes>>

\* A batch that has reached its size is sent.
Full(b) == Cardinality(b) >= BatchSize

\* One link of another partition's goes to the batch of its owner, and a batch
\* that has filled is sent.
RouteLink(p) ==
  \E u \in job[p].links :
    LET to   == Owner(job[p].under, HostOf[u])
        b    == pending[p][to] \cup {u}
        sent == IF Full(b) THEN b ELSE {}
        next == [job[p] EXCEPT !.links = @ \ {u}, !.to = to, !.batch = sent]
    IN
    /\ ~Sending(p) /\ to # p
    /\ pending' = [pending EXCEPT ![p][to] = b \ sent]
    /\ job' = [job EXCEPT ![p] = next]
    /\ UNCHANGED <<map, fetched, view, rows, known, chan, moveVars, crashes>>

\* The call returns with the partition's own links, and they enter its frontier.
RouteReturn(p) ==
  /\ job[p].kind = "route" /\ ~Sending(p)
  /\ \A u \in job[p].links : Owner(job[p].under, HostOf[u]) = p
  /\ rows' = [rows EXCEPT ![p] = @ \cup job[p].links]
  /\ job' = [job EXCEPT ![p] = Idle]
  /\ UNCHANGED <<map, fetched, view, known, pending, chan, moveVars, crashes>>

\* Flush, at the edge of a window: every partial batch is sent, in any order.
Flush(p) ==
  /\ Free(p) \/ (job[p].kind = "flush" /\ ~Sending(p))
  /\ \E q \in PIDs :
       /\ pending[p][q] # {}
       /\ job' = [job EXCEPT ![p] = [Idle EXCEPT !.kind = "flush", !.to = q,
                                                 !.batch = pending[p][q]]]
       /\ pending' = [pending EXCEPT ![p][q] = {}]
  /\ UNCHANGED <<map, fetched, view, rows, known, chan, moveVars, crashes>>

\* Send: the push completes when the destination's channel has room.
Send(p) ==
  /\ Sending(p)
  /\ Len(chan[job[p].to]) < Depth
  /\ chan' = [chan EXCEPT ![job[p].to] = Append(@, job[p].batch)]
  /\ job' = [job EXCEPT ![p] = Settled([@ EXCEPT !.to = 0, !.batch = {}], pending[p])]
  /\ UNCHANGED <<map, fetched, view, rows, known, pending, moveVars, crashes>>

Arrived(p) == UNION {chan[p][i] : i \in DOMAIN chan[p]}

\* intake: Drain reads all that has landed, and every discovery enters the
\* frontier, whether or not this partition still owns its host.
Intake(p) ==
  /\ Free(p) /\ chan[p] # <<>>
  /\ rows' = [rows EXCEPT ![p] = @ \cup Arrived(p)]
  /\ chan' = [chan EXCEPT ![p] = <<>>]
  /\ UNCHANGED <<map, fetched, view, known, job, pending, moveVars, crashes>>

-----------------------------------------------------------------------------
(* Handoff. *)

\* Extract: the rows of the hosts that dest owns under map mp.
Slice(R, mp, dest) == {u \in R : Owner(mp, HostOf[u]) = dest}
Destinations(p, R, mp) == {Owner(mp, HostOf[u]) : u \in R} \ {p}

\* Slices go out in the order of their destinations' ids.
First(q, D) == q \in D /\ \A r \in D : q <= r
Shipped(p) == Slice(move[p].keep, move[p].under, move[p].to)

\* Handoff starts: the moving hosts are grouped by their new owner, and the first
\* slice is shipped.
StartMove(p) ==
  LET D == Destinations(p, rows[p], view[p]) IN
  /\ Free(p)
  /\ \E q \in D :
       /\ First(q, D)
       /\ move' = [move EXCEPT ![p] = [on |-> TRUE, under |-> view[p], keep |-> rows[p],
                                       left |-> D, to |-> q, sent |-> "sent"]]
  /\ UNCHANGED <<map, fetched, view, rows, known, routeVars, stray, crashes>>

\* The call for a slice has returned; the source keeps `keep' of what it had, and
\* the next slice goes out.
Proceed(p, keep) ==
  LET left == move[p].left \ {move[p].to} IN
  \E q \in PIDs :
    /\ IF left = {} THEN q = 0 ELSE First(q, left)
    /\ move' = [move EXCEPT ![p] = [@ EXCEPT !.left = left, !.keep = keep, !.to = q,
                                             !.sent = IF left = {} THEN "no" ELSE "sent"]]

\* The destination merges the slice into its store (an external service).
Commit(p) ==
  LET q == move[p].to IN
  /\ move[p].sent = "sent" /\ Free(q)
  /\ rows' = [rows EXCEPT ![q] = @ \cup Shipped(p)]
  /\ move' = [move EXCEPT ![p].sent = "committed"]
  /\ UNCHANGED <<map, fetched, view, known, routeVars, stray, crashes>>

\* Mutant: any acknowledgement lets the source drop the slice.
Trusted_AnyAck(ack) == TRUE

\* What the source believes: only a commit, of this slice and epoch.
Trusted(ack) == ack = "committed"

\* Ship returns an acknowledgement: of the commit, of a refusal, or one whose
\* epoch or checksum does not match.
Acked(p, ack) ==
  /\ move[p].sent \in {"sent", "committed"}
  /\ ack = "committed" => move[p].sent = "committed"
  /\ ack = "refused" => move[p].sent = "sent"
  /\ Proceed(p, IF Trusted(ack) THEN move[p].keep \ Shipped(p) ELSE move[p].keep)
  /\ UNCHANGED <<map, fetched, view, rows, known, routeVars, stray, crashes>>

\* The slice of p's that is on its way to its destination.
OnTheWay(p) == IF move[p].sent = "sent" THEN {<<move[p].to, Shipped(p)>>} ELSE {}

\* Ship returns an error: the slice was lost, or it is late.
ShipFailed(p) ==
  /\ move[p].sent \in {"sent", "committed"}
  /\ \E late \in {{}, OnTheWay(p)} : stray' = stray \cup late
  /\ Proceed(p, move[p].keep)
  /\ UNCHANGED <<map, fetched, view, rows, known, routeVars, crashes>>

\* A late slice reaches its destination after all.
CommitLate ==
  \E s \in stray :
    /\ Free(s[1])
    /\ rows' = [rows EXCEPT ![s[1]] = @ \cup s[2]]
    /\ stray' = stray \ {s}
    /\ UNCHANGED <<map, fetched, view, known, routeVars, move, crashes>>

\* Handoff returns what the source keeps, and the owner installs it.
EndMove(p) ==
  /\ move[p].on /\ move[p].left = {}
  /\ rows' = [rows EXCEPT ![p] = move[p].keep]
  /\ move' = [move EXCEPT ![p] = NoMove]
  /\ UNCHANGED <<map, fetched, view, known, routeVars, stray, crashes>>

\* A partition process stops: its rows are durable; what it was routing, its
\* partial batches and its handoff are gone, and lost links can be found again.
Crash(p) ==
  LET lost == job[p].links \cup job[p].batch \cup UNION {pending[p][q] : q \in PIDs} IN
  /\ crashes < Crashes
  /\ crashes' = crashes + 1
  /\ known' = known \ lost
  /\ job' = [job EXCEPT ![p] = Idle]
  /\ pending' = [pending EXCEPT ![p] = [q \in PIDs |-> {}]]
  /\ move' = [move EXCEPT ![p] = NoMove]
  /\ stray' = stray \cup OnTheWay(p)
  /\ fetched' = [fetched EXCEPT ![p] = {}]
  /\ view' = [view EXCEPT ![p] = map]
  /\ UNCHANGED <<map, rows, chan>>

-----------------------------------------------------------------------------
\* A fleet of one partition, seeded with some URLs.
Init ==
  /\ map = FirstMap
  /\ fetched = [p \in PIDs |-> {}] /\ view = [p \in PIDs |-> FirstMap]
  /\ known \in SUBSET URLs
  /\ rows = [p \in PIDs |-> IF p = 0 THEN known ELSE {}]
  /\ job = [p \in PIDs |-> Idle]
  /\ pending = [p \in PIDs |-> [q \in PIDs |-> {}]]
  /\ chan = [p \in PIDs |-> <<>>]
  /\ move = [p \in PIDs |-> NoMove] /\ stray = {}
  /\ crashes = 0

Next ==
  \/ AddPartition
  \/ RemovePartition
  \/ \E h \in Hosts, p \in PIDs : Pin(h, p)
  \/ CommitLate
  \/ \E p \in PIDs :
       \/ FetchMap(p)
       \/ SwapMap(p)
       \/ \E ls \in SUBSET URLs : RouteLinks(p, ls)
       \/ RouteLink(p)
       \/ RouteReturn(p)
       \/ Flush(p)
       \/ Send(p)
       \/ Intake(p)
       \/ StartMove(p)
       \/ Commit(p)
       \/ \E ack \in {"committed", "refused", "mismatched"} : Acked(p, ack)
       \/ ShipFailed(p)
       \/ EndMove(p)
       \/ Crash(p)

Spec == Init /\ [][Next]_vars

-----------------------------------------------------------------------------
(* Correctness. *)

Maps == [epoch : Nat, n : 1..MaxParts, pins : UNION {[S -> PIDs] : S \in SUBSET Hosts}]
Jobs == [kind : {"idle", "route", "flush"}, links : SUBSET URLs, under : Maps, to : PIDs,
         batch : SUBSET URLs]
Moves == [on : BOOLEAN, under : Maps, keep : SUBSET URLs, left : SUBSET PIDs,
          to : PIDs, sent : {"no", "sent", "committed"}]

\* Every variable has its shape; an owner is always a partition that could exist, a
\* partial batch stays below its size and a channel within its depth (add, Send).
TypeOK ==
  /\ map \in Maps
  /\ fetched \in [PIDs -> SUBSET Maps] /\ view \in [PIDs -> Maps]
  /\ rows \in [PIDs -> SUBSET URLs] /\ known \in SUBSET URLs
  /\ job \in [PIDs -> Jobs]
  /\ pending \in [PIDs -> [PIDs -> SUBSET URLs]]
  /\ \A p, q \in PIDs : Cardinality(pending[p][q]) < BatchSize
  /\ chan \in [PIDs -> Seq(SUBSET URLs)] /\ \A p \in PIDs : Len(chan[p]) <= Depth
  /\ move \in [PIDs -> Moves] /\ stray \subseteq PIDs \X SUBSET URLs
  /\ crashes \in Nat

MapsOf(p) == fetched[p] \cup {view[p], move[p].under, job[p].under}

\* A URL some partition knows of is never lost: it is being routed, waits in a
\* batch or a channel, or is held by a partition.  A handoff deletes only what
\* the destination has committed, so that whatever acknowledgements are lost,
\* late or damaged, whichever maps the partitions have and whoever crashes, "at
\* every instant a host is owned by the source, the destination, or both".
NoURLLost ==
  \A u \in known :
    \E p \in PIDs :
      \/ u \in rows[p] \cup job[p].links \cup job[p].batch \cup Arrived(p)
      \/ \E q \in PIDs : u \in pending[p][q]

\* The epoch orders the changes of ownership: no partition has a map the control
\* plane has not reached, and two maps of one epoch agree, so that comparing
\* epochs is enough to know that a router is current (Heartbeat, SwapMap).
EpochIdentifies ==
  \A p, q \in PIDs : \A a \in MapsOf(p) \cup {map}, b \in MapsOf(q) :
    /\ b.epoch <= map.epoch
    /\ a.epoch = b.epoch => a = b

\* A router never goes back to an older map, in whatever order the maps that
\* overlapping heartbeats fetched come to SwapMap.
RouterForward == [][\A p \in PIDs : view'[p].epoch >= view[p].epoch]_vars

=============================================================================
