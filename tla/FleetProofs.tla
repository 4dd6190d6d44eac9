---------------------------- MODULE FleetProofs -----------------------------
(***************************************************************************)
(* Proofs about Fleet, for any number of partitions, hosts and URLs, any   *)
(* jump hash and any bounds.                                               *)
(***************************************************************************)
EXTENDS Fleet, FiniteSetTheorems, TLAPS

USE DEF PIDs

-----------------------------------------------------------------------------
(* Facts about the operators. *)

\* FirstMap, and the records a partition starts with, have their shapes.
LEMMA FirstShapes ==
  FirstMap \in Maps /\ Idle \in Jobs /\ NoMove \in Moves /\ 0 \in PIDs
<1>1. 0 \in PIDs /\ 1 \in 1..MaxParts
  BY SizeAssumption
<1>2. NoPins \in [{} -> PIDs] /\ {} \in SUBSET Hosts
  BY DEF NoPins
<1>3. FirstMap \in Maps
  BY <1>1, <1>2 DEF FirstMap, Maps
<1> QED BY <1>1, <1>3 DEF Idle, NoMove, Jobs, Moves

\* Owner is always a partition id: jumpHash stays below the count, and a pin
\* names a partition.
LEMMA OwnerType ==
  ASSUME NEW mp \in Maps, NEW h \in Hosts
  PROVE  Owner(mp, h) \in PIDs
<1>1. CASE h \in DOMAIN mp.pins
  <2>1. PICK S \in SUBSET Hosts : mp.pins \in [S -> PIDs]
    BY DEF Maps
  <2> QED BY <1>1, <2>1 DEF Owner
<1>2. CASE h \notin DOMAIN mp.pins
  <2>1. mp.n \in 1..MaxParts
    BY DEF Maps
  <2>2. Jump[h][mp.n] \in 0..(mp.n - 1)
    BY <2>1, JumpAssumption
  <2> QED BY <1>2, <2>1, <2>2, SizeAssumption DEF Owner
<1> QED BY <1>1, <1>2

\* A batch that has not filled is below its size, and an empty one is.
LEMMA BatchBelow ==
  ASSUME NEW b \in SUBSET URLs
  PROVE  /\ ~Full(b) => Cardinality(b) < BatchSize
         /\ Cardinality({}) < BatchSize
<1>1. Cardinality(b) \in Nat
  BY HostAssumption, FS_Subset, FS_CardinalityType
<1>2. Cardinality({}) = 0
  BY FS_EmptySet
<1> QED BY <1>1, <1>2, SizeAssumption DEF Full

\* Settled returns a job.
LEMMA SettledType ==
  ASSUME NEW j \in Jobs, NEW P
  PROVE  Settled(j, P) \in Jobs
BY FirstShapes DEF Settled

-----------------------------------------------------------------------------
(* Type correctness, action by action. *)

LEMMA TypeInit == Init => TypeOK
<1> SUFFICES ASSUME Init PROVE TypeOK
  OBVIOUS
<1>1. Cardinality({}) < BatchSize
  BY BatchBelow
<1>2. chan \in [PIDs -> Seq(SUBSET URLs)] /\ \A p \in PIDs : Len(chan[p]) <= Depth
  BY SizeAssumption DEF Init
<1> QED BY <1>1, <1>2, FirstShapes DEF Init, TypeOK

LEMMA TypeControl ==
  TypeOK /\ (AddPartition \/ RemovePartition \/ \E h \in Hosts, p \in PIDs : Pin(h, p)) => TypeOK'
<1> SUFFICES ASSUME TypeOK,
                    AddPartition \/ RemovePartition \/ \E h \in Hosts, p \in PIDs : Pin(h, p)
             PROVE  TypeOK'
  OBVIOUS
<1>1. UNCHANGED <<fetched, view, rows, known, routeVars, moveVars, crashes>>
  BY DEF AddPartition, RemovePartition, Pin, Changed
<1>2. map' \in Maps
  <2>1. CASE AddPartition
    <3>1. map' = [map EXCEPT !.n = map.n + 1, !.epoch = map.epoch + 1]
      BY <2>1 DEF AddPartition, Changed, Bumped, Maps, TypeOK
    <3>2. map.n + 1 \in 1..MaxParts /\ map.epoch + 1 \in Nat
      BY <2>1, SizeAssumption DEF AddPartition, Maps, TypeOK
    <3> QED BY <3>1, <3>2 DEF Maps, TypeOK
  <2>2. CASE RemovePartition
    <3>1. map' = [map EXCEPT !.n = map.n - 1, !.epoch = map.epoch + 1]
      BY <2>2 DEF RemovePartition, Changed, Bumped, Maps, TypeOK
    <3>2. map.n - 1 \in 1..MaxParts /\ map.epoch + 1 \in Nat
      BY <2>2, SizeAssumption DEF RemovePartition, Maps, TypeOK
    <3> QED BY <3>1, <3>2 DEF Maps, TypeOK
  <2>3. CASE \E h \in Hosts, p \in PIDs : Pin(h, p)
    <3>1. PICK h \in Hosts, p \in PIDs : Pin(h, p)
      BY <2>3
    <3>2. PICK S \in SUBSET Hosts : map.pins \in [S -> PIDs]
      BY DEF TypeOK, Maps
    <3> DEFINE pins == [g \in DOMAIN map.pins \cup {h} |-> IF g = h THEN p ELSE map.pins[g]]
    <3>3. pins \in [S \cup {h} -> PIDs] /\ S \cup {h} \in SUBSET Hosts
      BY <3>2
    <3>4. map' = [map EXCEPT !.pins = pins, !.epoch = map.epoch + 1]
      BY <3>1 DEF Pin, Changed, Bumped, TypeOK, Maps
    <3>6. map.epoch + 1 \in Nat
      BY DEF TypeOK, Maps
    <3>5. pins \in UNION {[T -> PIDs] : T \in SUBSET Hosts}
      BY <3>3
    <3> HIDE DEF pins
    <3> QED BY <3>4, <3>5, <3>6 DEF TypeOK, Maps
  <2> QED BY <2>1, <2>2, <2>3
<1> QED BY <1>1, <1>2 DEF TypeOK, routeVars, moveVars

LEMMA TypeView ==
  ASSUME NEW p \in PIDs
  PROVE  TypeOK /\ (FetchMap(p) \/ SwapMap(p)) => TypeOK'
<1>1. TypeOK /\ FetchMap(p) => TypeOK'
  BY DEF FetchMap, TypeOK, routeVars, moveVars
<1>2. TypeOK /\ SwapMap(p) => TypeOK'
  BY DEF SwapMap, Swapped, TypeOK, routeVars, moveVars
<1> QED BY <1>1, <1>2

LEMMA TypeRouteLinks ==
  ASSUME NEW p \in PIDs, NEW ls \in SUBSET URLs
  PROVE  TypeOK /\ RouteLinks(p, ls) => TypeOK'
<1> SUFFICES ASSUME TypeOK, RouteLinks(p, ls) PROVE TypeOK'
  OBVIOUS
<1>1. [Idle EXCEPT !.kind = "route", !.links = ls, !.under = view[p]] \in Jobs
  BY FirstShapes DEF Idle, Jobs, TypeOK
<1> QED BY <1>1 DEF RouteLinks, TypeOK, moveVars

\* What RouteLink does, with its link, destination, batch and next job named.
Routed(p, u, to, b, sent, next) ==
  /\ u \in job[p].links /\ job[p].batch = {}
  /\ b = pending[p][to] \cup {u} /\ sent = IF Full(b) THEN b ELSE {}
  /\ pending' = [pending EXCEPT ![p][to] = b \ sent]
  /\ next.links = job[p].links \ {u} /\ next.batch = sent
  /\ next.kind = job[p].kind /\ next.under = job[p].under
  /\ job' = [job EXCEPT ![p] = next]
  /\ UNCHANGED <<map, fetched, view, rows, known, chan, move, stray, crashes>>

LEMMA RouteLinkStep ==
  ASSUME TypeOK, NEW p \in PIDs, RouteLink(p)
  PROVE  \E u \in URLs, to \in PIDs, b \in SUBSET URLs, sent \in SUBSET URLs, next \in Jobs :
           Routed(p, u, to, b, sent, next)
<1>1. job[p] \in Jobs /\ job[p].links \subseteq URLs /\ job[p].under \in Maps
  BY DEF TypeOK, Jobs
<1>2. PICK u \in job[p].links :
        LET to   == Owner(job[p].under, HostOf[u])
            b    == pending[p][to] \cup {u}
            sent == IF Full(b) THEN b ELSE {}
            next == [job[p] EXCEPT !.links = @ \ {u}, !.to = to, !.batch = sent]
        IN
        /\ ~Sending(p)
        /\ pending' = [pending EXCEPT ![p][to] = b \ sent]
        /\ job' = [job EXCEPT ![p] = next]
        /\ UNCHANGED <<map, fetched, view, rows, known, chan, moveVars, crashes>>
  BY DEF RouteLink
<1> DEFINE to   == Owner(job[p].under, HostOf[u])
           b    == pending[p][to] \cup {u}
           sent == IF Full(b) THEN b ELSE {}
           next == [job[p] EXCEPT !.links = @ \ {u}, !.to = to, !.batch = sent]
<1>3. u \in URLs /\ HostOf[u] \in Hosts
  BY <1>1, HostAssumption
<1>4. to \in PIDs
  BY <1>1, <1>3, OwnerType
<1>5. b \in SUBSET URLs /\ sent \in SUBSET URLs
  BY <1>3, <1>4 DEF TypeOK
<1>6. job' = [job EXCEPT ![p] = next] /\ pending' = [pending EXCEPT ![p][to] = b \ sent]
  BY <1>2
<1>7. /\ UNCHANGED <<map, fetched, view, rows, known, chan, move, stray, crashes>>
      /\ job[p].batch = {}
  BY <1>2 DEF Sending, moveVars
<1>8. b = pending[p][to] \cup {u} /\ sent = IF Full(b) THEN b ELSE {}
  OBVIOUS
<1> HIDE DEF sent, b, to
<1>9. /\ next \in Jobs /\ next.links = job[p].links \ {u} /\ next.batch = sent
      /\ next.kind = job[p].kind /\ next.under = job[p].under
  BY <1>1, <1>4, <1>5 DEF Jobs
<1> HIDE DEF next
<1>10. Routed(p, u, to, b, sent, next)
  BY <1>6, <1>7, <1>8, <1>9 DEF Routed
<1> QED BY <1>3, <1>4, <1>5, <1>9, <1>10

LEMMA TypeRouteLink ==
  ASSUME NEW p \in PIDs
  PROVE  TypeOK /\ (RouteLink(p) \/ RouteReturn(p)) => TypeOK'
<1> SUFFICES ASSUME TypeOK, RouteLink(p) \/ RouteReturn(p) PROVE TypeOK'
  OBVIOUS
<1>1. job[p] \in Jobs /\ job[p].links \subseteq URLs
  BY DEF TypeOK, Jobs
<1>2. CASE RouteReturn(p)
  BY <1>1, <1>2, FirstShapes DEF RouteReturn, TypeOK, moveVars
<1>3. CASE RouteLink(p)
  <2>0. PICK u \in URLs, to \in PIDs, b \in SUBSET URLs, sent \in SUBSET URLs, next \in Jobs :
          Routed(p, u, to, b, sent, next)
    BY <1>3, RouteLinkStep
  <2>1. /\ sent = IF Full(b) THEN b ELSE {}
        /\ pending' = [pending EXCEPT ![p][to] = b \ sent]
        /\ job' = [job EXCEPT ![p] = next]
        /\ UNCHANGED <<map, fetched, view, rows, known, chan, move, stray, crashes>>
    BY <2>0 DEF Routed
  <2>3. job' \in [PIDs -> Jobs]
    BY <2>1 DEF TypeOK
  <2> DEFINE new == b \ sent
  <2>4. new \in SUBSET URLs /\ Cardinality(new) < BatchSize
    <3>1. CASE Full(b)
      <4>1. new = {}
        BY <2>1, <3>1
      <4> QED BY <4>1, BatchBelow
    <3>2. CASE ~Full(b)
      <4>1. new = b
        BY <2>1, <3>2
      <4> QED BY <3>2, <4>1, BatchBelow
    <3> QED BY <3>1, <3>2
  <2>5. pending' = [pending EXCEPT ![p][to] = new]
    BY <2>1
  <2> HIDE DEF new
  <2>6. /\ pending' \in [PIDs -> [PIDs -> SUBSET URLs]]
        /\ \A q, r \in PIDs : Cardinality(pending'[q][r]) < BatchSize
    BY <2>4, <2>5 DEF TypeOK
  <2> QED BY <2>1, <2>3, <2>6 DEF TypeOK
<1> QED BY <1>2, <1>3

LEMMA TypeFlush ==
  ASSUME NEW p \in PIDs
  PROVE  TypeOK /\ Flush(p) => TypeOK'
<1> SUFFICES ASSUME TypeOK, Flush(p) PROVE TypeOK'
  OBVIOUS
<1>1. PICK q \in PIDs :
        /\ job' = [job EXCEPT ![p] = [Idle EXCEPT !.kind = "flush", !.to = q,
                                                  !.batch = pending[p][q]]]
        /\ pending' = [pending EXCEPT ![p][q] = {}]
  BY DEF Flush
<1>2. pending[p][q] \in SUBSET URLs
  BY DEF TypeOK
<1>3. [Idle EXCEPT !.kind = "flush", !.to = q, !.batch = pending[p][q]] \in Jobs
  BY <1>2, FirstShapes DEF Idle, Jobs
<1>4. Cardinality({}) < BatchSize
  BY BatchBelow
<1>5. /\ pending' \in [PIDs -> [PIDs -> SUBSET URLs]]
      /\ \A r, s \in PIDs : Cardinality(pending'[r][s]) < BatchSize
  BY <1>1, <1>4 DEF TypeOK
<1> QED BY <1>1, <1>3, <1>5 DEF Flush, TypeOK, moveVars

LEMMA TypeSend ==
  ASSUME NEW p \in PIDs
  PROVE  TypeOK /\ Send(p) => TypeOK'
<1> SUFFICES ASSUME TypeOK, Send(p) PROVE TypeOK'
  OBVIOUS
<1>1. job[p] \in Jobs /\ job[p].to \in PIDs /\ job[p].batch \in SUBSET URLs
  BY DEF TypeOK, Jobs
<1>2. [job[p] EXCEPT !.to = 0, !.batch = {}] \in Jobs
  BY <1>1, FirstShapes DEF Jobs
<1>3. job' \in [PIDs -> Jobs]
  BY <1>2, SettledType DEF Send, TypeOK
<1>4. /\ chan' \in [PIDs -> Seq(SUBSET URLs)]
      /\ \A q \in PIDs : Len(chan'[q]) <= Depth
  <2>1. Append(chan[job[p].to], job[p].batch) \in Seq(SUBSET URLs)
    BY <1>1 DEF TypeOK
  <2>2. Len(Append(chan[job[p].to], job[p].batch)) = Len(chan[job[p].to]) + 1
    BY <1>1 DEF TypeOK
  <2>3. Len(chan[job[p].to]) < Depth /\ Len(chan[job[p].to]) \in Nat
    BY <1>1 DEF Send, TypeOK
  <2>4. chan' = [chan EXCEPT ![job[p].to] = Append(chan[job[p].to], job[p].batch)]
    BY DEF Send
  <2> DEFINE longer == Append(chan[job[p].to], job[p].batch)
  <2>5. Len(longer) <= Depth
    BY <2>2, <2>3, SizeAssumption
  <2> HIDE DEF longer
  <2>6. chan' = [chan EXCEPT ![job[p].to] = longer] /\ longer \in Seq(SUBSET URLs)
    BY <2>1, <2>4 DEF longer
  <2> QED BY <1>1, <2>5, <2>6 DEF TypeOK
<1> QED BY <1>3, <1>4 DEF Send, TypeOK, moveVars

LEMMA TypeIntake ==
  ASSUME NEW p \in PIDs
  PROVE  TypeOK /\ Intake(p) => TypeOK'
<1> SUFFICES ASSUME TypeOK, Intake(p) PROVE TypeOK'
  OBVIOUS
<1>1. Arrived(p) \in SUBSET URLs
  BY DEF Arrived, TypeOK
<1>2. rows' \in [PIDs -> SUBSET URLs]
  BY <1>1 DEF Intake, TypeOK
<1>3. chan' \in [PIDs -> Seq(SUBSET URLs)] /\ \A q \in PIDs : Len(chan'[q]) <= Depth
  BY SizeAssumption DEF Intake, TypeOK
<1> QED BY <1>2, <1>3 DEF Intake, TypeOK, moveVars

\* The slice on its way is a set of the source's rows.
LEMMA SliceType ==
  ASSUME TypeOK, NEW p \in PIDs
  PROVE  /\ Shipped(p) \subseteq move[p].keep /\ move[p].keep \in SUBSET URLs
         /\ Shipped(p) \in SUBSET URLs /\ move[p].to \in PIDs
         /\ OnTheWay(p) \subseteq PIDs \X SUBSET URLs
<1>1. move[p].keep \in SUBSET URLs /\ move[p].to \in PIDs
  BY DEF TypeOK, Moves
<1>2. Shipped(p) \subseteq move[p].keep
  BY DEF Shipped, Slice
<1> QED BY <1>1, <1>2 DEF OnTheWay

\* Proceed changes one handoff, to one with the kept rows.
LEMMA ProceedType ==
  ASSUME TypeOK, NEW p \in PIDs, NEW keep \in SUBSET URLs, Proceed(p, keep)
  PROVE  move' \in [PIDs -> Moves]
<1> DEFINE left == move[p].left \ {move[p].to}
<1>1. PICK q \in PIDs :
        move' = [move EXCEPT ![p] = [@ EXCEPT !.left = left, !.keep = keep, !.to = q,
                                              !.sent = IF left = {} THEN "no" ELSE "sent"]]
  BY DEF Proceed
<1>2. left \in SUBSET PIDs
  BY DEF TypeOK, Moves
<1>3. (IF left = {} THEN "no" ELSE "sent") \in {"no", "sent", "committed"}
  OBVIOUS
<1> DEFINE sent == IF left = {} THEN "no" ELSE "sent"
<1> HIDE DEF left, sent
<1>4. move' = [move EXCEPT ![p] = [move[p] EXCEPT !.left = left, !.keep = keep, !.to = q,
                                                  !.sent = sent]]
  BY <1>1 DEF sent
<1>5. [move[p] EXCEPT !.left = left, !.keep = keep, !.to = q, !.sent = sent] \in Moves
  <2>1. sent \in {"no", "sent", "committed"}
    BY <1>3 DEF sent
  <2>2. move[p] \in Moves
    BY DEF TypeOK
  <2> QED BY <1>2, <2>1, <2>2 DEF Moves
<1> QED BY <1>4, <1>5 DEF TypeOK

LEMMA TypeMove ==
  ASSUME NEW p \in PIDs, NEW ack \in {"committed", "refused", "mismatched"}
  PROVE  TypeOK /\ (StartMove(p) \/ Commit(p) \/ Acked(p, ack) \/ ShipFailed(p) \/ EndMove(p))
           => TypeOK'
<1> SUFFICES ASSUME TypeOK PROVE
      StartMove(p) \/ Commit(p) \/ Acked(p, ack) \/ ShipFailed(p) \/ EndMove(p) => TypeOK'
  OBVIOUS
<1>1. ASSUME StartMove(p) PROVE TypeOK'
  <2> DEFINE D == Destinations(p, rows[p], view[p])
  <2>1. PICK q \in D : move' = [move EXCEPT ![p] = [on |-> TRUE, under |-> view[p],
                                  keep |-> rows[p], left |-> D, to |-> q, sent |-> "sent"]]
    BY <1>1 DEF StartMove
  <2>2. D \in SUBSET PIDs
    <3> SUFFICES ASSUME NEW u \in rows[p] PROVE Owner(view[p], HostOf[u]) \in PIDs
      BY DEF Destinations
    <3>1. u \in URLs /\ view[p] \in Maps
      BY DEF TypeOK
    <3>2. HostOf[u] \in Hosts
      BY <3>1, HostAssumption
    <3> QED BY <3>1, <3>2, OwnerType
  <2> HIDE DEF D
  <2>3. move' \in [PIDs -> Moves]
    BY <2>1, <2>2 DEF TypeOK, Moves
  <2> QED BY <1>1, <2>3 DEF StartMove, TypeOK, routeVars
<1>2. ASSUME Commit(p) PROVE TypeOK'
  <2>1. rows' \in [PIDs -> SUBSET URLs]
    BY <1>2, SliceType DEF Commit, TypeOK
  <2>2. move' \in [PIDs -> Moves]
    BY <1>2 DEF Commit, TypeOK, Moves
  <2> QED BY <1>2, <2>1, <2>2 DEF Commit, TypeOK, routeVars
<1>3. ASSUME Acked(p, ack) PROVE TypeOK'
  <2>1. move' \in [PIDs -> Moves]
    BY <1>3, SliceType, ProceedType DEF Acked
  <2> QED BY <1>3, <2>1 DEF Acked, TypeOK, routeVars
<1>4. ASSUME ShipFailed(p) PROVE TypeOK'
  <2>1. move' \in [PIDs -> Moves]
    BY <1>4, SliceType, ProceedType DEF ShipFailed
  <2>2. stray' \subseteq PIDs \X SUBSET URLs
    BY <1>4, SliceType DEF ShipFailed, TypeOK
  <2> QED BY <1>4, <2>1, <2>2 DEF ShipFailed, TypeOK, routeVars
<1>5. ASSUME EndMove(p) PROVE TypeOK'
  BY <1>5, SliceType, FirstShapes DEF EndMove, TypeOK, routeVars
<1> QED BY <1>1, <1>2, <1>3, <1>4, <1>5

LEMMA TypeCrash ==
  ASSUME NEW p \in PIDs
  PROVE  TypeOK /\ Crash(p) => TypeOK'
<1> SUFFICES ASSUME TypeOK, Crash(p) PROVE TypeOK'
  OBVIOUS
<1>1. /\ pending' \in [PIDs -> [PIDs -> SUBSET URLs]]
      /\ \A r, s \in PIDs : Cardinality(pending'[r][s]) < BatchSize
  <2>1. Cardinality({}) < BatchSize
    BY BatchBelow
  <2> QED BY <2>1 DEF Crash, TypeOK
<1>2. job' \in [PIDs -> Jobs] /\ move' \in [PIDs -> Moves] /\ known' \in SUBSET URLs
  BY FirstShapes DEF Crash, TypeOK
<1>3. fetched' \in [PIDs -> SUBSET Maps] /\ view' \in [PIDs -> Maps]
  BY DEF Crash, TypeOK
<1>4. stray' \subseteq PIDs \X SUBSET URLs
  BY SliceType DEF Crash, TypeOK
<1>5. crashes' \in Nat /\ map' \in Maps /\ UNCHANGED <<rows, chan>>
  BY DEF Crash, TypeOK
<1> QED BY <1>1, <1>2, <1>3, <1>4, <1>5 DEF TypeOK

LEMMA TypeLate == TypeOK /\ CommitLate => TypeOK'
<1> SUFFICES ASSUME TypeOK, CommitLate PROVE TypeOK'
  OBVIOUS
<1>1. PICK s \in stray : /\ rows' = [rows EXCEPT ![s[1]] = @ \cup s[2]]
                         /\ stray' = stray \ {s}
                         /\ UNCHANGED <<map, fetched, view, known, routeVars, move, crashes>>
  BY DEF CommitLate
<1>2. s[1] \in PIDs /\ s[2] \in SUBSET URLs
  BY DEF TypeOK
<1>3. rows' \in [PIDs -> SUBSET URLs]
  BY <1>1, <1>2 DEF TypeOK
<1> QED BY <1>1, <1>3 DEF TypeOK, routeVars

LEMMA TypeStep == TypeOK /\ [Next]_vars => TypeOK'
<1> SUFFICES ASSUME TypeOK, [Next]_vars PROVE TypeOK'
  OBVIOUS
<1>1. CASE UNCHANGED vars
  BY <1>1 DEF vars, routeVars, moveVars, TypeOK
<1>2. CASE AddPartition \/ RemovePartition \/ \E h \in Hosts, p \in PIDs : Pin(h, p)
  BY <1>2, TypeControl
<1>3. CASE CommitLate
  BY <1>3, TypeLate
<1>4. ASSUME NEW p \in PIDs,
             \/ FetchMap(p) \/ SwapMap(p)
             \/ \E ls \in SUBSET URLs : RouteLinks(p, ls)
             \/ RouteLink(p) \/ RouteReturn(p) \/ Flush(p) \/ Send(p) \/ Intake(p) \/ Crash(p)
      PROVE  TypeOK'
  BY <1>4, TypeView, TypeRouteLinks, TypeRouteLink, TypeFlush, TypeSend, TypeIntake, TypeCrash
<1>5. ASSUME NEW p \in PIDs, NEW ack \in {"committed", "refused", "mismatched"},
             StartMove(p) \/ Commit(p) \/ Acked(p, ack) \/ ShipFailed(p) \/ EndMove(p)
      PROVE  TypeOK'
  BY <1>5, TypeMove
<1> QED BY <1>1, <1>2, <1>3, <1>4, <1>5 DEF Next

\* Every variable keeps its shape, batches stay below their size and channels
\* within their depth (batcher.add, Send), whatever the fleet's size.
THEOREM TypeCorrect == Spec => []TypeOK
BY TypeInit, TypeStep, PTL DEF Spec

-----------------------------------------------------------------------------
(* No URL is lost. *)

\* The rows p can be relied on for: a partition in a handoff will be left with
\* what it keeps, and is about to drop the slice its destination has committed.
Anchor(p) ==
  IF ~move[p].on THEN rows[p]
  ELSE IF move[p].sent = "committed" THEN move[p].keep \ Shipped(p)
  ELSE move[p].keep

InTransit(p) ==
  job[p].links \cup job[p].batch \cup Arrived(p) \cup UNION {pending[p][q] : q \in PIDs}

Has(p) == Anchor(p) \cup InTransit(p)

\* A partition does one thing at a time, and a handoff keeps only its own rows.
OneJob ==
  \A p \in PIDs :
    /\ move[p].on => job[p] = Idle /\ move[p].keep \subseteq rows[p]
    /\ move[p].sent # "no" => move[p].on
    /\ job[p].kind = "flush" => job[p].links = {}

\* The inductive strengthening of NoURLLost: of the holders of a URL at least one
\* is not about to drop it.  NoURLLost alone is not inductive: two partitions that
\* both had the other's commit would both drop their copies.
Anchored == \A u \in known : \E p \in PIDs : u \in Has(p)

LossInv == TypeOK /\ OneJob /\ Anchored

LEMMA AnchorHeld == LossInv => NoURLLost
<1> SUFFICES ASSUME LossInv, NEW u \in known
             PROVE  \E p \in PIDs :
                      \/ u \in rows[p] \cup job[p].links \cup job[p].batch \cup Arrived(p)
                      \/ \E q \in PIDs : u \in pending[p][q]
  BY DEF NoURLLost
<1>1. PICK p \in PIDs : u \in Has(p)
  BY DEF LossInv, Anchored
<1>2. Anchor(p) \subseteq rows[p]
  BY DEF LossInv, OneJob, Anchor
<1>3. u \in rows[p] \/ u \in InTransit(p)
  BY <1>1, <1>2 DEF Has
<1> QED BY <1>3 DEF InTransit

\* A partition whose own state a step leaves alone still has what it had, even if
\* rows are merged into it.
LEMMA Untouched ==
  ASSUME NEW r \in PIDs, job'[r] = job[r], pending'[r] = pending[r], chan'[r] = chan[r],
         move'[r] = move[r], rows[r] \subseteq rows'[r]
  PROVE  Has(r) \subseteq Has(r)'
BY DEF Has, Anchor, InTransit, Arrived, Shipped, Slice

\* It is enough that what each partition had, somebody has.
LEMMA StillAnchored ==
  ASSUME LossInv, known' \subseteq known,
         \A r \in PIDs : \A u \in Has(r) : u \in known' => \E s \in PIDs : u \in Has(s)'
  PROVE  Anchored'
BY DEF LossInv, Anchored

\* Returning or not, Settled leaves the same links and batch.
LEMMA SettledSame ==
  ASSUME NEW j, NEW P, j.kind = "flush" => j.links = {} /\ j.batch = {}
  PROVE  /\ Settled(j, P).links = j.links /\ Settled(j, P).batch = j.batch
         /\ Settled(j, P).kind = "flush" => j.kind = "flush"
<1>1. Idle.links = {} /\ Idle.batch = {} /\ Idle.kind = "idle"
  BY DEF Idle
<1>2. Settled(j, P) = j \/ (Settled(j, P) = Idle /\ j.kind = "flush")
  BY DEF Settled
<1> QED BY <1>1, <1>2

LEMMA LossInit == Init => OneJob /\ Anchored
<1> SUFFICES ASSUME Init PROVE OneJob /\ Anchored
  OBVIOUS
<1>1. 0 \in PIDs
  BY FirstShapes
<1>2. OneJob
  BY DEF Init, OneJob, Idle, NoMove
<1>3. Anchor(0) = known
  BY <1>1 DEF Init, Anchor, NoMove
<1> QED BY <1>1, <1>2, <1>3 DEF Anchored, Has

\* Steps that touch neither rows nor the work of a partition.
LEMMA LossQuiet ==
  LossInv /\ UNCHANGED <<rows, known, routeVars, move>> => OneJob' /\ Anchored'
<1> SUFFICES ASSUME LossInv, UNCHANGED <<rows, known, routeVars, move>>
             PROVE  OneJob' /\ Anchored'
  OBVIOUS
<1>1. OneJob'
  BY DEF LossInv, OneJob, routeVars
<1>2. \A r \in PIDs : Has(r) \subseteq Has(r)'
  BY Untouched DEF routeVars
<1> QED BY <1>1, <1>2, StillAnchored

LEMMA LossRouteLinks ==
  ASSUME NEW p \in PIDs, NEW ls \in SUBSET URLs
  PROVE  LossInv /\ RouteLinks(p, ls) => OneJob' /\ Anchored'
<1> SUFFICES ASSUME LossInv, RouteLinks(p, ls) PROVE OneJob' /\ Anchored'
  OBVIOUS
<1>1. /\ job' = [job EXCEPT ![p] = [Idle EXCEPT !.kind = "route", !.links = ls, !.under = view[p]]]
      /\ job[p] = Idle /\ ~move[p].on /\ known' = known \cup ls
      /\ UNCHANGED <<rows, pending, chan, move>>
  BY DEF RouteLinks, Free, moveVars
<1>2. job \in [PIDs -> Jobs]
  BY DEF LossInv, TypeOK
<1>3. OneJob'
  BY <1>1, <1>2 DEF LossInv, OneJob, Idle
<1>4. job'[p].links = ls /\ job[p].links = {} /\ job[p].batch = {}
  BY <1>1, <1>2 DEF Idle
<1>5. Has(p) \subseteq Has(p)'
  BY <1>1, <1>4 DEF Has, Anchor, InTransit, Arrived, Shipped, Slice
<1>6. \A r \in PIDs : r # p => Has(r) \subseteq Has(r)'
  BY <1>1, <1>2, Untouched
<1>7. ls \subseteq Has(p)'
  BY <1>4 DEF Has, InTransit
<1> QED BY <1>1, <1>3, <1>5, <1>6, <1>7 DEF LossInv, Anchored

LEMMA LossRouteLink ==
  ASSUME NEW p \in PIDs
  PROVE  LossInv /\ RouteLink(p) => OneJob' /\ Anchored'
<1> SUFFICES ASSUME LossInv, RouteLink(p) PROVE OneJob' /\ Anchored'
  OBVIOUS
<1>1. TypeOK /\ job[p] \in Jobs
  BY DEF LossInv, TypeOK
<1>0. PICK u \in URLs, to \in PIDs, b \in SUBSET URLs, sent \in SUBSET URLs, next \in Jobs :
        Routed(p, u, to, b, sent, next)
  BY <1>1, RouteLinkStep
<1>2. /\ u \in job[p].links /\ job[p].batch = {}
      /\ b = pending[p][to] \cup {u}
      /\ pending' = [pending EXCEPT ![p][to] = b \ sent]
      /\ next.links = job[p].links \ {u} /\ next.batch = sent /\ next.kind = job[p].kind
      /\ job' = [job EXCEPT ![p] = next]
  BY <1>0 DEF Routed
<1>3. UNCHANGED <<rows, known, chan, move>>
  BY <1>0 DEF Routed
<1>4. ~move[p].on /\ job[p].kind # "flush"
  BY <1>2 DEF LossInv, OneJob, Idle
<1>5. job'[p].links = job[p].links \ {u} /\ job'[p].batch = sent /\ job'[p].kind = job[p].kind
  <2>1. job'[p] = next
    BY <1>1, <1>2 DEF TypeOK
  <2> QED BY <1>2, <2>1
<1>6. \A r \in PIDs : r # p => job'[r] = job[r] /\ pending'[r] = pending[r]
  BY <1>1, <1>2 DEF TypeOK
<1>7. OneJob'
  BY <1>3, <1>4, <1>5, <1>6 DEF LossInv, OneJob
<1>8. \A r \in PIDs : r # p => Has(r) \subseteq Has(r)'
  BY <1>3, <1>6, Untouched
<1>9. Has(p) \subseteq Has(p)'
  <2> DEFINE new == UNION {pending'[p][q] : q \in PIDs}
  <2>1. Anchor(p)' = Anchor(p) /\ Arrived(p)' = Arrived(p)
    BY <1>3, <1>4 DEF Anchor, Arrived
  <2>2. Has(p)' = Anchor(p) \cup job'[p].links \cup sent \cup Arrived(p) \cup new
    BY <1>5, <2>1 DEF Has, InTransit
  <2>3. pending'[p][to] = b \ sent /\ \A q \in PIDs : q # to => pending'[p][q] = pending[p][q]
    BY <1>1, <1>2 DEF TypeOK
  <2>4. \A q \in PIDs : pending'[p][q] \subseteq new
    OBVIOUS
  <2> HIDE DEF new
  <2>5. b \subseteq Has(p)'
    BY <2>2, <2>3, <2>4
  <2>6. \A q \in PIDs : pending[p][q] \subseteq Has(p)'
    BY <1>2, <2>2, <2>3, <2>4, <2>5
  <2>7. job[p].links \subseteq Has(p)'
    BY <1>2, <1>5, <2>2, <2>5
  <2>8. UNION {pending[p][q] : q \in PIDs} \subseteq Has(p)'
    BY <2>6
  <2>9. Anchor(p) \cup Arrived(p) \subseteq Has(p)'
    BY <2>2
  <2> QED BY <1>2, <2>7, <2>8, <2>9 DEF Has, InTransit
<1> QED BY <1>3, <1>7, <1>8, <1>9, StillAnchored

LEMMA LossRouteReturn ==
  ASSUME NEW p \in PIDs
  PROVE  LossInv /\ RouteReturn(p) => OneJob' /\ Anchored'
<1> SUFFICES ASSUME LossInv, RouteReturn(p) PROVE OneJob' /\ Anchored'
  OBVIOUS
<1>1. /\ TypeOK /\ UNCHANGED <<known, pending, chan, move>>
      /\ job[p].batch = {} /\ job[p].kind = "route"
      /\ rows' = [rows EXCEPT ![p] = @ \cup job[p].links]
      /\ job' = [job EXCEPT ![p] = Idle]
  BY DEF RouteReturn, Sending, moveVars, LossInv
<1>2. ~move[p].on
  BY <1>1 DEF LossInv, OneJob, Idle
<1>3. /\ rows'[p] = rows[p] \cup job[p].links /\ job'[p] = Idle
      /\ \A r \in PIDs : r # p => rows'[r] = rows[r] /\ job'[r] = job[r]
  BY <1>1 DEF TypeOK
<1>4. OneJob'
  <2>1. Idle.kind # "flush"
    BY DEF Idle
  <2> QED BY <1>1, <1>2, <1>3, <2>1 DEF LossInv, OneJob
<1>5. \A r \in PIDs : r # p => Has(r) \subseteq Has(r)'
  BY <1>1, <1>3, Untouched
<1>6. Has(p) \subseteq Has(p)'
  BY <1>1, <1>2, <1>3 DEF Has, Anchor, InTransit, Arrived
<1> QED BY <1>1, <1>4, <1>5, <1>6, StillAnchored

LEMMA LossFlush ==
  ASSUME NEW p \in PIDs
  PROVE  LossInv /\ Flush(p) => OneJob' /\ Anchored'
<1> SUFFICES ASSUME LossInv, Flush(p) PROVE OneJob' /\ Anchored'
  OBVIOUS
<1>1. PICK q \in PIDs :
        /\ job' = [job EXCEPT ![p] = [Idle EXCEPT !.kind = "flush", !.to = q,
                                                  !.batch = pending[p][q]]]
        /\ pending' = [pending EXCEPT ![p][q] = {}]
  BY DEF Flush
<1>2. TypeOK /\ UNCHANGED <<rows, known, chan, move>>
  BY DEF Flush, moveVars, LossInv
<1>3. job[p].links = {} /\ job[p].batch = {} /\ ~move[p].on
  BY DEF Flush, Free, Sending, LossInv, OneJob, Idle
<1>4. /\ job'[p].links = {} /\ job'[p].batch = pending[p][q]
      /\ \A r \in PIDs : r # p => job'[r] = job[r] /\ pending'[r] = pending[r]
      /\ \A s \in PIDs : s # q => pending'[p][s] = pending[p][s]
  BY <1>1, <1>2 DEF TypeOK, Idle
<1>5. OneJob'
  BY <1>2, <1>3, <1>4 DEF LossInv, OneJob
<1>6. \A r \in PIDs : r # p => Has(r) \subseteq Has(r)'
  BY <1>2, <1>4, Untouched
<1>7. Has(p) \subseteq Has(p)'
  BY <1>2, <1>3, <1>4 DEF Has, InTransit, Anchor, Arrived
<1> QED BY <1>2, <1>5, <1>6, <1>7, StillAnchored

LEMMA LossSend ==
  ASSUME NEW p \in PIDs
  PROVE  LossInv /\ Send(p) => OneJob' /\ Anchored'
<1> SUFFICES ASSUME LossInv, Send(p) PROVE OneJob' /\ Anchored'
  OBVIOUS
<1> DEFINE j  == [job[p] EXCEPT !.to = 0, !.batch = {}]
<1>1. TypeOK /\ UNCHANGED <<rows, known, pending, move>>
  BY DEF Send, moveVars, LossInv
<1>0. PICK to \in PIDs : to = job[p].to
  BY <1>1 DEF TypeOK, Jobs
<1>2. job[p] \in Jobs /\ job[p].batch \in SUBSET URLs /\ job[p].batch # {}
  BY <1>1 DEF TypeOK, Jobs, Send, Sending
<1>3. j.links = job[p].links /\ j.batch = {} /\ j.kind = job[p].kind
  BY <1>2 DEF Jobs
<1>4. /\ job'[p].links = job[p].links /\ job'[p].batch = {}
      /\ job'[p].kind = "flush" => job[p].kind = "flush"
      /\ \A r \in PIDs : r # p => job'[r] = job[r]
  <2>1. job' = [job EXCEPT ![p] = Settled(j, pending[p])]
    BY DEF Send
  <2>2. job'[p] = Settled(j, pending[p]) /\ \A r \in PIDs : r # p => job'[r] = job[r]
    BY <1>1, <2>1 DEF TypeOK
  <2>3. j.kind = "flush" => j.links = {} /\ j.batch = {}
    BY <1>3 DEF LossInv, OneJob
  <2> HIDE DEF j
  <2> QED BY <1>3, <2>2, <2>3, SettledSame
<1>5. ~move[p].on
  BY <1>2 DEF LossInv, OneJob, Idle
<1>6. OneJob'
  BY <1>1, <1>4, <1>5 DEF LossInv, OneJob
<1>7. /\ \A r \in PIDs : Arrived(r) \subseteq Arrived(r)'
      /\ job[p].batch \subseteq Arrived(to)'
  <2>1. /\ chan' = [chan EXCEPT ![to] = Append(chan[to], job[p].batch)]
        /\ chan[to] \in Seq(SUBSET URLs)
    BY <1>0, <1>1, <1>2 DEF Send, TypeOK
  <2> DEFINE c == chan[to]
             d == Append(c, job[p].batch)
  <2>2. /\ DOMAIN c \subseteq DOMAIN d /\ \A i \in DOMAIN c : d[i] = c[i]
        /\ Len(c) + 1 \in DOMAIN d /\ d[Len(c) + 1] = job[p].batch
    BY <1>2, <2>1
  <2>3. chan'[to] = d /\ \A r \in PIDs : r # to => chan'[r] = chan[r]
    BY <1>1, <1>2, <2>1 DEF TypeOK
  <2> HIDE DEF d
  <2>4. \A i \in DOMAIN chan[to] : i \in DOMAIN chan'[to] /\ chan'[to][i] = chan[to][i]
    BY <2>2, <2>3
  <2>5. Arrived(to) \subseteq Arrived(to)' /\ job[p].batch \subseteq Arrived(to)'
    <3>1. Arrived(to)' = UNION {chan'[to][i] : i \in DOMAIN chan'[to]}
      BY DEF Arrived
    <3>2. Len(c) + 1 \in DOMAIN chan'[to] /\ chan'[to][Len(c) + 1] = job[p].batch
      BY <2>2, <2>3
    <3> HIDE DEF c
    <3>3. job[p].batch \subseteq Arrived(to)'
      BY <3>1, <3>2
    <3>4. Arrived(to) \subseteq Arrived(to)'
      BY <2>4, <3>1 DEF Arrived
    <3> QED BY <3>3, <3>4
  <2>6. ASSUME NEW r \in PIDs, r # to PROVE Arrived(r)' = Arrived(r)
    BY <2>3, <2>6 DEF Arrived
  <2> QED BY <2>5, <2>6
<1>8. \A r \in PIDs : \A u \in Has(r) : u \in Has(r)' \/ u \in Has(to)'
  <2> SUFFICES ASSUME NEW r \in PIDs, NEW u \in Has(r) PROVE u \in Has(r)' \/ u \in Has(to)'
    OBVIOUS
  <2>1. Anchor(r)' = Anchor(r)
    BY <1>1 DEF Anchor, Shipped, Slice
  <2>2. job[r].links = job'[r].links /\ (r # p => job'[r].batch = job[r].batch)
    BY <1>4
  <2> QED BY <1>1, <1>7, <2>1, <2>2 DEF Has, InTransit
<1>9. \A r \in PIDs : \A u \in Has(r) : \E s \in PIDs : u \in Has(s)'
  BY <1>2, <1>8
<1> QED BY <1>1, <1>6, <1>9, StillAnchored

LEMMA LossIntake ==
  ASSUME NEW p \in PIDs
  PROVE  LossInv /\ Intake(p) => OneJob' /\ Anchored'
<1> SUFFICES ASSUME LossInv, Intake(p) PROVE OneJob' /\ Anchored'
  OBVIOUS
<1>1. /\ TypeOK /\ UNCHANGED <<known, job, pending, move>> /\ ~move[p].on
      /\ rows'[p] = rows[p] \cup Arrived(p)
      /\ \A r \in PIDs : r # p => rows'[r] = rows[r] /\ chan'[r] = chan[r]
  BY DEF Intake, Free, moveVars, LossInv, TypeOK
<1>2. OneJob'
  BY <1>1 DEF LossInv, OneJob
<1>3. \A r \in PIDs : r # p => Has(r) \subseteq Has(r)'
  BY <1>1, Untouched
<1>4. Has(p) \subseteq Has(p)'
  BY <1>1 DEF Has, Anchor, InTransit
<1> QED BY <1>1, <1>2, <1>3, <1>4, StillAnchored

\* A slice merged into a free partition.
LEMMA LossLate == LossInv /\ CommitLate => OneJob' /\ Anchored'
<1> SUFFICES ASSUME LossInv, CommitLate PROVE OneJob' /\ Anchored'
  OBVIOUS
<1>1. PICK s \in stray : /\ rows' = [rows EXCEPT ![s[1]] = @ \cup s[2]]
                         /\ UNCHANGED <<known, routeVars, move>>
  BY DEF CommitLate
<1>2. \A r \in PIDs : rows[r] \subseteq rows'[r]
  BY <1>1 DEF LossInv, TypeOK
<1>3. OneJob'
  BY <1>1, <1>2 DEF LossInv, OneJob, routeVars
<1>4. \A r \in PIDs : Has(r) \subseteq Has(r)'
  BY <1>1, <1>2, Untouched DEF routeVars
<1> QED BY <1>1, <1>3, <1>4, StillAnchored

LEMMA LossStart ==
  ASSUME NEW p \in PIDs
  PROVE  LossInv /\ StartMove(p) => OneJob' /\ Anchored'
<1> SUFFICES ASSUME LossInv, StartMove(p) PROVE OneJob' /\ Anchored'
  OBVIOUS
<1>1. /\ TypeOK /\ UNCHANGED <<rows, known, job, pending, chan>>
      /\ job[p] = Idle /\ ~move[p].on
  BY DEF StartMove, Free, routeVars, LossInv
<1>2. /\ move'[p].on /\ move'[p].keep = rows[p] /\ move'[p].sent = "sent"
      /\ \A r \in PIDs : r # p => move'[r] = move[r]
  BY <1>1 DEF StartMove, TypeOK
<1>3. OneJob'
  BY <1>1, <1>2 DEF LossInv, OneJob
<1>4. \A r \in PIDs : r # p => Has(r) \subseteq Has(r)'
  BY <1>1, <1>2, Untouched
<1>5. Has(p) \subseteq Has(p)'
  BY <1>1, <1>2 DEF Has, Anchor, InTransit, Arrived
<1> QED BY <1>1, <1>3, <1>4, <1>5, StillAnchored

\* The destination commits: it is free, so it is not the source, and it now holds
\* the slice with nothing about to be dropped.
LEMMA LossCommit ==
  ASSUME NEW p \in PIDs
  PROVE  LossInv /\ Commit(p) => OneJob' /\ Anchored'
<1> SUFFICES ASSUME LossInv, Commit(p) PROVE OneJob' /\ Anchored'
  OBVIOUS
<1>1. TypeOK /\ UNCHANGED <<known, job, pending, chan>>
  BY DEF Commit, routeVars, LossInv
<1>0. PICK q \in PIDs : q = move[p].to
  BY <1>1, SliceType
<1>2. ~move[q].on /\ move[p].on /\ q # p /\ move[p].sent = "sent"
  BY <1>0 DEF Commit, Free, LossInv, OneJob
<1>3. /\ rows'[q] = rows[q] \cup Shipped(p)
      /\ \A r \in PIDs : rows[r] \subseteq rows'[r]
  BY <1>0, <1>1, <1>2 DEF Commit, TypeOK
<1>4. /\ move'[p] = [move[p] EXCEPT !.sent = "committed"]
      /\ \A r \in PIDs : r # p => move'[r] = move[r]
  BY <1>1 DEF Commit, TypeOK
<1>5. /\ move'[p].sent = "committed" /\ move'[p].on = move[p].on /\ move'[p].keep = move[p].keep
      /\ move'[p].under = move[p].under /\ move'[p].to = move[p].to
  BY <1>1, <1>4 DEF TypeOK, Moves
<1>6. OneJob'
  <2> SUFFICES ASSUME NEW r \in PIDs
               PROVE  (/\ move[r].on => job[r] = Idle /\ move[r].keep \subseteq rows[r]
                       /\ move[r].sent # "no" => move[r].on
                       /\ job[r].kind = "flush" => job[r].links = {})'
    BY DEF OneJob
  <2>1. move'[r].on = move[r].on /\ move'[r].keep = move[r].keep
    BY <1>4, <1>5
  <2>2. move'[r].sent # "no" => move[r].on
    BY <1>2, <1>4 DEF LossInv, OneJob
  <2> QED BY <1>1, <1>3, <2>1, <2>2 DEF LossInv, OneJob
<1>7. Shipped(p)' = Shipped(p)
  BY <1>5 DEF Shipped, Slice
<1>8. \A r \in PIDs : r # p => Has(r) \subseteq Has(r)'
  BY <1>1, <1>3, <1>4, Untouched
<1>9. Has(p) \subseteq Has(p)' \cup Has(q)'
  <2>1. Anchor(p) = move[p].keep /\ Anchor(p)' = move[p].keep \ Shipped(p)
    BY <1>2, <1>5, <1>7 DEF Anchor
  <2>2. Shipped(p) \subseteq Anchor(q)'
    BY <1>2, <1>3, <1>4 DEF Anchor
  <2>3. InTransit(p)' = InTransit(p)
    BY <1>1 DEF InTransit, Arrived
  <2> QED BY <2>1, <2>2, <2>3 DEF Has
<1>10. \A r \in PIDs : \A u \in Has(r) : \E s \in PIDs : u \in Has(s)'
  BY <1>2, <1>8, <1>9
<1> QED BY <1>1, <1>6, <1>10, StillAnchored

\* A call returns, and the source keeps at least what it was relied on for.
LEMMA LossProceed ==
  ASSUME LossInv, NEW p \in PIDs, NEW keep \in SUBSET URLs, Proceed(p, keep),
         move[p].sent \in {"sent", "committed"}, Anchor(p) \subseteq keep,
         keep \subseteq move[p].keep, UNCHANGED <<rows, known, job, pending, chan>>
  PROVE  OneJob' /\ Anchored'
<1>1. TypeOK /\ move[p].on /\ move[p] \in Moves
  BY DEF LossInv, OneJob, TypeOK
<1>2. /\ move'[p].on /\ move'[p].keep = keep /\ move'[p].sent \in {"no", "sent"}
      /\ \A r \in PIDs : r # p => move'[r] = move[r]
  <2> DEFINE left == move[p].left \ {move[p].to}
             sent == IF left = {} THEN "no" ELSE "sent"
  <2>1. PICK q \in PIDs :
          move' = [move EXCEPT ![p] = [@ EXCEPT !.left = left, !.keep = keep, !.to = q,
                                                !.sent = IF left = {} THEN "no" ELSE "sent"]]
    BY DEF Proceed
  <2> HIDE DEF left
  <2>2. sent \in {"no", "sent"}
    OBVIOUS
  <2> HIDE DEF sent
  <2>3. move'[p] = [move[p] EXCEPT !.left = left, !.keep = keep, !.to = q, !.sent = sent]
    BY <1>1, <2>1 DEF TypeOK, sent
  <2>4. \A r \in PIDs : r # p => move'[r] = move[r]
    BY <1>1, <2>1 DEF TypeOK
  <2> QED BY <1>1, <2>2, <2>3, <2>4 DEF Moves
<1>3. OneJob'
  BY <1>1, <1>2 DEF LossInv, OneJob
<1>4. \A r \in PIDs : r # p => Has(r) \subseteq Has(r)'
  BY <1>2, Untouched
<1>5. Anchor(p)' = keep
  BY <1>2 DEF Anchor
<1>6. Has(p) \subseteq Has(p)'
  BY <1>5 DEF Has, InTransit, Arrived
<1> QED BY <1>3, <1>4, <1>6, StillAnchored

LEMMA LossReturn ==
  ASSUME NEW p \in PIDs, NEW ack \in {"committed", "refused", "mismatched"}
  PROVE  LossInv /\ (Acked(p, ack) \/ ShipFailed(p)) => OneJob' /\ Anchored'
<1> SUFFICES ASSUME LossInv, Acked(p, ack) \/ ShipFailed(p) PROVE OneJob' /\ Anchored'
  OBVIOUS
<1>1. /\ move[p].sent \in {"sent", "committed"}
      /\ UNCHANGED <<rows, known, job, pending, chan>>
  BY DEF Acked, ShipFailed, routeVars
<1>2. TypeOK /\ move[p].on
  BY <1>1 DEF LossInv, OneJob
<1>3. Anchor(p) \subseteq move[p].keep /\ move[p].keep \in SUBSET URLs
  BY <1>2, SliceType DEF Anchor
<1>4. CASE ShipFailed(p) \/ (Acked(p, ack) /\ ~Trusted(ack))
  <2>1. Proceed(p, move[p].keep)
    BY <1>4 DEF ShipFailed, Acked
  <2> QED BY <1>1, <1>3, <2>1, LossProceed
<1>5. CASE Acked(p, ack) /\ Trusted(ack)
  <2> DEFINE keep == move[p].keep \ Shipped(p)
  <2>1. Proceed(p, keep) /\ move[p].sent = "committed"
    BY <1>5 DEF Acked, Trusted
  <2>2. Anchor(p) = keep /\ keep \in SUBSET URLs /\ keep \subseteq move[p].keep
    BY <1>2, <1>3, <2>1 DEF Anchor
  <2> HIDE DEF keep
  <2> QED BY <1>1, <2>1, <2>2, LossProceed
<1> QED BY <1>4, <1>5

LEMMA LossEnd ==
  ASSUME NEW p \in PIDs
  PROVE  LossInv /\ EndMove(p) => OneJob' /\ Anchored'
<1> SUFFICES ASSUME LossInv, EndMove(p) PROVE OneJob' /\ Anchored'
  OBVIOUS
<1>1. TypeOK /\ UNCHANGED <<known, job, pending, chan>> /\ move[p].on
  BY DEF EndMove, routeVars, LossInv
<1>2. /\ rows'[p] = move[p].keep /\ move'[p] = NoMove
      /\ \A r \in PIDs : r # p => move'[r] = move[r] /\ rows'[r] = rows[r]
  BY <1>1 DEF EndMove, TypeOK
<1>3. OneJob'
  BY <1>1, <1>2 DEF LossInv, OneJob, NoMove
<1>4. \A r \in PIDs : r # p => Has(r) \subseteq Has(r)'
  BY <1>1, <1>2, Untouched
<1>5. Anchor(p) \subseteq Anchor(p)'
  BY <1>1, <1>2 DEF Anchor, NoMove
<1>6. Has(p) \subseteq Has(p)'
  BY <1>1, <1>5 DEF Has, InTransit, Arrived
<1> QED BY <1>1, <1>3, <1>4, <1>6, StillAnchored

LEMMA LossCrash ==
  ASSUME NEW p \in PIDs
  PROVE  LossInv /\ Crash(p) => OneJob' /\ Anchored'
<1> SUFFICES ASSUME LossInv, Crash(p) PROVE OneJob' /\ Anchored'
  OBVIOUS
<1> DEFINE lost == job[p].links \cup job[p].batch \cup UNION {pending[p][q] : q \in PIDs}
<1>1. /\ TypeOK /\ UNCHANGED <<rows, chan>> /\ known' = known \ lost
      /\ job'[p] = Idle /\ move'[p] = NoMove
      /\ \A r \in PIDs : r # p => /\ job'[r] = job[r] /\ move'[r] = move[r]
                                  /\ pending'[r] = pending[r]
  BY DEF Crash, LossInv, TypeOK
<1>2. OneJob'
  <2>1. ~NoMove.on /\ NoMove.sent = "no" /\ Idle.links = {}
    BY DEF NoMove, Idle
  <2> QED BY <1>1, <2>1 DEF LossInv, OneJob
<1>3. \A r \in PIDs : r # p => Has(r) \subseteq Has(r)'
  BY <1>1, Untouched
<1>4. Anchor(p) \subseteq Anchor(p)' /\ Arrived(p)' = Arrived(p)
  BY <1>1 DEF Anchor, NoMove, Arrived, LossInv, OneJob
<1>5. Has(p) \subseteq Has(p)' \cup lost
  BY <1>4 DEF Has, InTransit
<1> HIDE DEF lost
<1>6. known' \subseteq known /\ \A u \in lost : u \notin known'
  BY <1>1
<1> QED BY <1>2, <1>3, <1>5, <1>6, StillAnchored

LEMMA LossStep == LossInv /\ [Next]_vars => LossInv'
<1> SUFFICES ASSUME LossInv, [Next]_vars PROVE LossInv'
  OBVIOUS
<1>1. TypeOK'
  BY TypeStep DEF LossInv
<1>2. OneJob' /\ Anchored'
  <2>1. CASE UNCHANGED vars
    BY <2>1, LossQuiet DEF vars, moveVars
  <2>2. CASE AddPartition \/ RemovePartition \/ \E h \in Hosts, p \in PIDs : Pin(h, p)
    BY <2>2, LossQuiet DEF AddPartition, RemovePartition, Pin, Changed, moveVars
  <2>3. CASE CommitLate
    BY <2>3, LossLate
  <2>4. ASSUME NEW p \in PIDs, FetchMap(p) \/ SwapMap(p)
        PROVE  OneJob' /\ Anchored'
    BY <2>4, LossQuiet DEF FetchMap, SwapMap, moveVars
  <2>5. ASSUME NEW p \in PIDs,
               \/ \E ls \in SUBSET URLs : RouteLinks(p, ls)
               \/ RouteLink(p) \/ RouteReturn(p) \/ Flush(p) \/ Send(p) \/ Intake(p) \/ Crash(p)
        PROVE  OneJob' /\ Anchored'
    BY <2>5, LossRouteLinks, LossRouteLink, LossRouteReturn, LossFlush, LossSend, LossIntake,
       LossCrash
  <2>6. ASSUME NEW p \in PIDs, NEW ack \in {"committed", "refused", "mismatched"},
               StartMove(p) \/ Commit(p) \/ Acked(p, ack) \/ ShipFailed(p) \/ EndMove(p)
        PROVE  OneJob' /\ Anchored'
    BY <2>6, LossStart, LossCommit, LossReturn, LossEnd
  <2> QED BY <2>1, <2>2, <2>3, <2>4, <2>5, <2>6 DEF Next
<1> QED BY <1>1, <1>2 DEF LossInv

\* Handoff's promise, for any number of partitions handing hosts to each other
\* under different maps, with acknowledgements lost, refused or damaged, slices
\* arriving late and partitions crashing: no URL the fleet knows is ever lost.
THEOREM NothingLost == Spec => []NoURLLost
<1>1. Init => LossInv
  BY TypeInit, LossInit DEF LossInv
<1> QED BY <1>1, LossStep, AnchorHeld, PTL DEF Spec

-----------------------------------------------------------------------------
(* Epochs. *)

\* Every map anyone in the fleet has.
AllMaps == {map, FirstMap} \cup UNION {MapsOf(p) : p \in PIDs}

\* EpochIdentifies over all of them at once, the first map included, which idle
\* jobs and handoffs name.
EpochOK ==
  \A a, b \in AllMaps : a.epoch <= map.epoch /\ (a.epoch = b.epoch => a = b)

LEMMA MapsType == TypeOK => AllMaps \subseteq Maps
<1> SUFFICES ASSUME TypeOK PROVE AllMaps \subseteq Maps
  OBVIOUS
<1>1. ASSUME NEW p \in PIDs PROVE MapsOf(p) \subseteq Maps
  BY DEF TypeOK, Jobs, Moves, MapsOf
<1> QED BY <1>1, FirstShapes DEF TypeOK, AllMaps

LEMMA MapsOfIn == \A p \in PIDs : MapsOf(p) \subseteq AllMaps
BY DEF AllMaps

\* A control operation installs the successor epoch; nothing else touches the map.
LEMMA MapStep ==
  TypeOK /\ [Next]_vars =>
    \/ map' = map
    \/ map'.epoch = map.epoch + 1 /\ UNCHANGED <<fetched, view, job, move>>
<1> SUFFICES ASSUME TypeOK, [Next]_vars
             PROVE  \/ map' = map
                    \/ map'.epoch = map.epoch + 1 /\ UNCHANGED <<fetched, view, job, move>>
  OBVIOUS
<1>1. map \in Maps
  BY DEF TypeOK
<1>2. ASSUME NEW mp, mp = [map EXCEPT !.n = mp.n] \/ mp = [map EXCEPT !.pins = mp.pins],
             Changed(mp)
      PROVE  map'.epoch = map.epoch + 1 /\ UNCHANGED <<fetched, view, job, move>>
  <2>1. mp.epoch = map.epoch /\ map' = [mp EXCEPT !.epoch = mp.epoch + 1]
    BY <1>1, <1>2 DEF Maps, Changed, Bumped
  <2>2. map'.epoch = map.epoch + 1
    BY <1>1, <1>2, <2>1 DEF Maps
  <2> QED BY <1>2, <2>2 DEF Changed, routeVars, moveVars
<1>3. CASE AddPartition
  BY <1>1, <1>2, <1>3 DEF AddPartition, Maps
<1>4. CASE RemovePartition
  BY <1>1, <1>2, <1>4 DEF RemovePartition, Maps
<1>5. CASE \E h \in Hosts, p \in PIDs : Pin(h, p)
  BY <1>1, <1>2, <1>5 DEF Pin, Maps
<1>6. CASE UNCHANGED vars
  BY <1>6 DEF vars
<1>7. CASE CommitLate
  BY <1>7 DEF CommitLate
<1>8. ASSUME NEW p \in PIDs, NEW ack,
             \/ FetchMap(p) \/ SwapMap(p)
             \/ \E ls \in SUBSET URLs : RouteLinks(p, ls)
             \/ RouteLink(p) \/ RouteReturn(p) \/ Flush(p) \/ Send(p) \/ Intake(p) \/ Crash(p)
             \/ StartMove(p) \/ Commit(p) \/ Acked(p, ack) \/ ShipFailed(p) \/ EndMove(p)
      PROVE  map' = map
  BY <1>8 DEF FetchMap, SwapMap, RouteLinks, RouteLink, RouteReturn, Flush, Send, Intake, Crash,
              StartMove, Commit, Acked, ShipFailed, EndMove
<1> QED BY <1>3, <1>4, <1>5, <1>6, <1>7, <1>8 DEF Next

\* No step brings in a map nobody had: what each variable has afterwards.
LEMMA ViewMaps ==
  TypeOK /\ [Next]_vars => \A r \in PIDs : fetched'[r] \cup {view'[r]} \subseteq AllMaps
<1> SUFFICES ASSUME TypeOK, [Next]_vars, NEW r \in PIDs
             PROVE  fetched'[r] \cup {view'[r]} \subseteq AllMaps
  OBVIOUS
<1>1. fetched[r] \cup {view[r], map} \subseteq AllMaps
  BY DEF AllMaps, MapsOf
<1>2. CASE UNCHANGED <<fetched, view>>
  BY <1>1, <1>2
<1>3. ASSUME NEW p \in PIDs, FetchMap(p)
      PROVE  fetched'[r] \cup {view'[r]} \subseteq AllMaps
  BY <1>1, <1>3 DEF FetchMap, TypeOK
<1>4. ASSUME NEW p \in PIDs, SwapMap(p)
      PROVE  fetched'[r] \cup {view'[r]} \subseteq AllMaps
  BY <1>1, <1>4 DEF SwapMap, Swapped, TypeOK
<1>5. ASSUME NEW p \in PIDs, Crash(p)
      PROVE  fetched'[r] \cup {view'[r]} \subseteq AllMaps
  BY <1>1, <1>5 DEF Crash, TypeOK
<1>6. CASE AddPartition \/ RemovePartition \/ CommitLate \/ UNCHANGED vars
  BY <1>2, <1>6 DEF AddPartition, RemovePartition, Changed, CommitLate, vars
<1>7. CASE \E h \in Hosts, p \in PIDs : Pin(h, p)
  BY <1>2, <1>7 DEF Pin, Changed
<1>8. ASSUME NEW p \in PIDs, NEW ack,
             \/ \E ls \in SUBSET URLs : RouteLinks(p, ls)
             \/ RouteLink(p) \/ RouteReturn(p) \/ Flush(p) \/ Send(p) \/ Intake(p)
             \/ StartMove(p) \/ Commit(p) \/ Acked(p, ack) \/ ShipFailed(p) \/ EndMove(p)
      PROVE  UNCHANGED <<fetched, view>>
  BY <1>8 DEF RouteLinks, RouteLink, RouteReturn, Flush, Send, Intake,
              StartMove, Commit, Acked, ShipFailed, EndMove
<1> QED BY <1>2, <1>3, <1>4, <1>5, <1>6, <1>7, <1>8 DEF Next

LEMMA SettledUnder ==
  ASSUME NEW j, NEW P
  PROVE  Settled(j, P).under \in {j.under, FirstMap}
<1>1. Settled(j, P) = j \/ Settled(j, P) = Idle
  BY DEF Settled
<1>2. Idle.under = FirstMap
  BY DEF Idle
<1> QED BY <1>1, <1>2

LEMMA JobMaps ==
  TypeOK /\ [Next]_vars => \A r \in PIDs : job'[r].under \in AllMaps
<1> SUFFICES ASSUME TypeOK, [Next]_vars, NEW r \in PIDs
             PROVE  job'[r].under \in AllMaps
  OBVIOUS
<1>1. {job[r].under, view[r], FirstMap} \subseteq AllMaps
  BY DEF AllMaps, MapsOf
<1>2. CASE UNCHANGED job
  BY <1>1, <1>2
<1>3. ASSUME NEW p \in PIDs, NEW ls, RouteLinks(p, ls) PROVE job'[r].under \in AllMaps
  BY <1>1, <1>3 DEF RouteLinks, TypeOK, Idle
<1>4. ASSUME NEW p \in PIDs, RouteLink(p) PROVE job'[r].under \in AllMaps
  <2>1. PICK next \in Jobs : next.under = job[p].under /\ job' = [job EXCEPT ![p] = next]
    BY <1>4, RouteLinkStep DEF Routed
  <2> QED BY <1>1, <2>1 DEF TypeOK
<1>5. ASSUME NEW p \in PIDs, Flush(p) PROVE job'[r].under \in AllMaps
  BY <1>1, <1>5 DEF Flush, TypeOK, Idle
<1>6. ASSUME NEW p \in PIDs, Send(p) PROVE job'[r].under \in AllMaps
  <2> DEFINE j == [job[p] EXCEPT !.to = 0, !.batch = {}]
  <2>1. job' = [job EXCEPT ![p] = Settled(j, pending[p])]
    BY <1>6 DEF Send
  <2>2. j.under = job[p].under
    BY DEF TypeOK, Jobs
  <2> HIDE DEF j
  <2>3. job'[p] = Settled(j, pending[p]) /\ (r # p => job'[r] = job[r])
    BY <2>1 DEF TypeOK
  <2> QED BY <1>1, <2>2, <2>3, SettledUnder
<1>7. ASSUME NEW p \in PIDs, Crash(p) \/ RouteReturn(p) PROVE job'[r].under \in AllMaps
  <2>1. Idle.under = FirstMap
    BY DEF Idle
  <2>2. job'[p] = Idle /\ (r # p => job'[r] = job[r])
    BY <1>7 DEF Crash, RouteReturn, TypeOK
  <2> QED BY <1>1, <2>1, <2>2
<1>8. CASE AddPartition \/ RemovePartition \/ CommitLate \/ UNCHANGED vars
  BY <1>2, <1>8 DEF AddPartition, RemovePartition, Changed, CommitLate, vars, routeVars
<1>9. CASE \E h \in Hosts, p \in PIDs : Pin(h, p)
  BY <1>2, <1>9 DEF Pin, Changed, routeVars
<1>10. ASSUME NEW p \in PIDs, NEW ack,
              \/ FetchMap(p) \/ SwapMap(p) \/ Intake(p)
              \/ StartMove(p) \/ Commit(p) \/ Acked(p, ack) \/ ShipFailed(p) \/ EndMove(p)
       PROVE  UNCHANGED job
  BY <1>10 DEF FetchMap, SwapMap, Intake, StartMove, Commit, Acked, ShipFailed, EndMove, routeVars
<1> QED BY <1>2, <1>3, <1>4, <1>5, <1>6, <1>7, <1>8, <1>9, <1>10 DEF Next

LEMMA MoveMaps ==
  TypeOK /\ [Next]_vars => \A r \in PIDs : move'[r].under \in AllMaps
<1> SUFFICES ASSUME TypeOK, [Next]_vars, NEW r \in PIDs
             PROVE  move'[r].under \in AllMaps
  OBVIOUS
<1>1. {move[r].under, view[r], FirstMap} \subseteq AllMaps
  BY DEF AllMaps, MapsOf
<1>2. CASE UNCHANGED move
  BY <1>1, <1>2
<1>3. ASSUME NEW p \in PIDs, StartMove(p) PROVE move'[r].under \in AllMaps
  BY <1>1, <1>3 DEF StartMove, TypeOK
<1>4. ASSUME NEW p \in PIDs, NEW keep, Proceed(p, keep) PROVE move'[r].under \in AllMaps
  <2>1. PICK left, q, sent :
          move' = [move EXCEPT ![p] = [@ EXCEPT !.left = left, !.keep = keep, !.to = q,
                                                !.sent = sent]]
    BY <1>4 DEF Proceed
  <2> QED BY <1>1, <2>1 DEF TypeOK, Moves
<1>5. ASSUME NEW p \in PIDs, Commit(p) PROVE move'[r].under \in AllMaps
  BY <1>1, <1>5 DEF Commit, TypeOK, Moves
<1>6. ASSUME NEW p \in PIDs, EndMove(p) \/ Crash(p) PROVE move'[r].under \in AllMaps
  <2>1. NoMove.under = FirstMap
    BY DEF NoMove
  <2>2. move'[p] = NoMove /\ (r # p => move'[r] = move[r])
    BY <1>6 DEF EndMove, Crash, TypeOK
  <2> QED BY <1>1, <2>1, <2>2
<1>7. ASSUME NEW p \in PIDs, NEW ack, Acked(p, ack) \/ ShipFailed(p)
      PROVE  move'[r].under \in AllMaps
  BY <1>4, <1>7 DEF Acked, ShipFailed
<1>8. CASE AddPartition \/ RemovePartition \/ CommitLate \/ UNCHANGED vars
  BY <1>2, <1>8 DEF AddPartition, RemovePartition, Changed, CommitLate, vars, moveVars
<1>9. CASE \E h \in Hosts, p \in PIDs : Pin(h, p)
  BY <1>2, <1>9 DEF Pin, Changed, moveVars
<1>10. ASSUME NEW p \in PIDs,
              \/ FetchMap(p) \/ SwapMap(p) \/ \E ls \in SUBSET URLs : RouteLinks(p, ls)
              \/ RouteLink(p) \/ RouteReturn(p) \/ Flush(p) \/ Send(p) \/ Intake(p)
       PROVE  UNCHANGED move
  BY <1>10 DEF FetchMap, SwapMap, RouteLinks, RouteLink, RouteReturn, Flush, Send, Intake, moveVars
<1> QED BY <1>2, <1>3, <1>5, <1>6, <1>7, <1>8, <1>9, <1>10 DEF Next

LEMMA EpochStep == TypeOK /\ EpochOK /\ [Next]_vars => EpochOK'
<1> SUFFICES ASSUME TypeOK, EpochOK, [Next]_vars PROVE EpochOK'
  OBVIOUS
<1>1. AllMaps' \subseteq AllMaps \cup {map'}
  <2>1. \A r \in PIDs : MapsOf(r)' \subseteq AllMaps
    BY ViewMaps, JobMaps, MoveMaps DEF MapsOf
  <2>2. FirstMap \in AllMaps
    BY DEF AllMaps
  <2>3. AllMaps' = {map', FirstMap} \cup UNION {MapsOf(p)' : p \in PIDs}
    BY DEF AllMaps
  <2> QED BY <2>1, <2>2, <2>3
<1>2. \A a \in AllMaps : a.epoch \in Nat
  BY MapsType DEF Maps
<1>3. map \in AllMaps
  BY DEF AllMaps
<1>4. map' = map \/ map'.epoch = map.epoch + 1
  BY MapStep
<1> QED BY <1>1, <1>2, <1>3, <1>4 DEF EpochOK

\* The epoch identifies the map: every partition's maps are of epochs the control
\* plane has reached, and one epoch is one map (Control.bump, Router.SwapMap).
THEOREM EpochsIdentify == Spec => []EpochIdentifies
<1>1. Init => EpochOK
  <2> SUFFICES ASSUME Init PROVE EpochOK
    OBVIOUS
  <2>1. \A p \in PIDs : MapsOf(p) = {FirstMap}
    BY DEF Init, MapsOf, Idle, NoMove
  <2>2. AllMaps = {FirstMap} /\ map = FirstMap
    BY <2>1 DEF Init, AllMaps
  <2> QED BY <2>2 DEF EpochOK, FirstMap
<1>2. EpochOK => EpochIdentifies
  <2> SUFFICES ASSUME EpochOK, NEW p \in PIDs, NEW q \in PIDs,
                      NEW a \in MapsOf(p) \cup {map}, NEW b \in MapsOf(q)
               PROVE  b.epoch <= map.epoch /\ (a.epoch = b.epoch => a = b)
    BY DEF EpochIdentifies
  <2>1. a \in AllMaps /\ b \in AllMaps
    BY DEF AllMaps
  <2> QED BY <2>1 DEF EpochOK
<1> QED BY <1>1, <1>2, EpochStep, TypeInit, TypeStep, PTL DEF Spec

\* A router never goes back to an older map, in whatever order fetched maps reach
\* SwapMap, a restarted partition's included.
THEOREM RoutersForward == Spec => RouterForward
<1> DEFINE Forward == \A p \in PIDs : view'[p].epoch >= view[p].epoch
<1>1. TypeOK /\ EpochIdentifies /\ [Next]_vars => [Forward]_vars
  <2> SUFFICES ASSUME TypeOK, EpochIdentifies, [Next]_vars, NEW r \in PIDs
               PROVE  view'[r].epoch >= view[r].epoch
    OBVIOUS
  <2>1. view[r].epoch \in Nat /\ map.epoch \in Nat /\ view[r].epoch <= map.epoch
        /\ \A m \in fetched[r] : m.epoch \in Nat
    BY DEF TypeOK, EpochIdentifies, MapsOf, Maps
  <2>2. CASE UNCHANGED view
    BY <2>1, <2>2
  <2>3. ASSUME NEW p \in PIDs, SwapMap(p) PROVE view'[r].epoch >= view[r].epoch
    BY <2>1, <2>3 DEF SwapMap, Swapped, TypeOK
  <2>4. ASSUME NEW p \in PIDs, Crash(p) PROVE view'[r].epoch >= view[r].epoch
    BY <2>1, <2>4 DEF Crash, TypeOK
  <2>5. CASE AddPartition \/ RemovePartition \/ CommitLate \/ UNCHANGED vars
    BY <2>2, <2>5 DEF AddPartition, RemovePartition, Changed, CommitLate, vars
  <2>6. CASE \E h \in Hosts, p \in PIDs : Pin(h, p)
    BY <2>2, <2>6 DEF Pin, Changed
  <2>7. ASSUME NEW p \in PIDs, NEW ack,
               \/ FetchMap(p) \/ \E ls \in SUBSET URLs : RouteLinks(p, ls)
               \/ RouteLink(p) \/ RouteReturn(p) \/ Flush(p) \/ Send(p) \/ Intake(p)
               \/ StartMove(p) \/ Commit(p) \/ Acked(p, ack) \/ ShipFailed(p) \/ EndMove(p)
        PROVE  UNCHANGED view
    BY <2>7 DEF FetchMap, RouteLinks, RouteLink, RouteReturn, Flush, Send, Intake,
                StartMove, Commit, Acked, ShipFailed, EndMove
  <2> QED BY <2>2, <2>3, <2>4, <2>5, <2>6, <2>7 DEF Next
<1> QED BY <1>1, TypeCorrect, EpochsIdentify, PTL DEF Spec, RouterForward

=============================================================================
