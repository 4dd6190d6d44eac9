------------------------------ MODULE Frontier ------------------------------
(***************************************************************************)
(* The single-partition resident scheduler of src/frontier: the front bank *)
(* of URLs, the per-host back queues, the ready bank and the wait heap of  *)
(* hosts, the per-host and per-IP politeness windows, robots.txt, the      *)
(* outcome state machine, the due-time wheel, and checkpoint and recovery. *)
(*                                                                         *)
(* The frontier is single-writer: the engine serialises every call, so one *)
(* action is one call of Seed, Discover, DispatchShard, Report, Checkpoint *)
(* or Recover, loops included.  Between the calls the fetches in `flying'  *)
(* run concurrently and finish in any order, and the clock moves.          *)
(*                                                                         *)
(* Data abstractions.                                                      *)
(*  - A priority is the index of its front-bank bucket (ring.go).          *)
(*  - Each bank is a set with the bucket every member is filed in; items   *)
(*    of one bucket leave in any order, where the code is FIFO.  A set     *)
(*    loses nothing because URLInOnePlace and PoolsDisjoint hold: a push   *)
(*    never meets a copy of the pushed item.                               *)
(*  - The wheel keeps, for each key, the hour it fires (wheel.go); module  *)
(*    DueWheel checks the ring and the overflow heap against that.         *)
(*  - The seen-set is exact (dedup/seenset.go), so a URL is seen iff it    *)
(*    has a record, i.e. iff its status is not "none".                     *)
(*  - Columns that no guard of the scheduler reads (validators, body       *)
(*    signals, crawl and error totals, latency, flags) are left out; what  *)
(*    they decide is a choice of the action: whether a discovery is        *)
(*    admitted or trapped, whether a body is a soft-404 template, the      *)
(*    priority OPIC computes, the hour the freshness model picks.          *)
(***************************************************************************)
EXTENDS Integers, Sequences, FiniteSets

CONSTANTS
  Hosts, URLs,      \* host groups and URL keys of this partition
  HostOf,           \* the host key half of a URL key
  IPs, NoIP,        \* resolved addresses, and the zero address
  IPOf,             \* the addresses the resolver cache may return for a host
  Robots,           \* the synthetic key of a robots.txt fetch
  Shards, Home,     \* dispatch threads and the home shard of a host
  Levels,           \* the top bucket of a front bank: buckets are 0..Levels
  Target, Bounded,  \* effective active-host cap; whether one was set
  RefillBatch,      \* dispatches between two age sweeps (frontRefillBatch)
  AgePromote,       \* hours a URL waits before the sweep lifts it
  RobotsOn, StateOn, WheelOn, FreshOn, PrioOn, DnsOn,  \* the options
  MaxRetries,       \* maxRetries
  MinGap, MaxGap,   \* politeness band in seconds: Floor (and Default), Ceiling
  IPFloor,          \* per-IP minimum interval in seconds
  Delays,           \* crawl delays a robots.txt may ask for, in seconds
  HourSecs,         \* seconds in an hour (3600)
  RecrawlGap,       \* recrawlGapHours
  RobotsTTL,        \* robotsTTLHours
  IPTTL,            \* ipTTLHours
  SeedDefer,        \* how many hours ahead a seed may be dated
  MaxNow,           \* bound: the clock stops here
  Restarts          \* bound: how many times the process restarts

ASSUME FiniteAssumption == IsFiniteSet(URLs) /\ IsFiniteSet(Hosts)
ASSUME KeyAssumption == HostOf \in [URLs -> Hosts] /\ Robots \notin URLs
ASSUME IPAssumption == IPOf \in [Hosts -> SUBSET IPs] /\ NoIP \notin IPs
ASSUME ShardAssumption == Home \in [Hosts -> Shards]
ASSUME BoundAssumption ==
  /\ {Levels, AgePromote, SeedDefer, MaxNow, Restarts} \subseteq Nat
  /\ {Target, RefillBatch, MaxRetries, MinGap, MaxGap, IPFloor, HourSecs,
      RecrawlGap, RobotsTTL, IPTTL} \subseteq Nat \ {0}
  /\ Delays \subseteq Nat
  /\ MinGap <= MaxGap
ASSUME OptionAssumption ==
  {Bounded, RobotsOn, StateOn, WheelOn, FreshOn, PrioOn, DnsOn} \subseteq BOOLEAN

VARIABLES
  now,        \* the dispatch clock, epoch-seconds
  urls,       \* the URL records
  hosts,      \* the host entries: durable record and control signals
  front, filed,          \* front bank: URLs waiting, and each one's bucket
  frontAge, sinceSweep,  \* FIFO of front-bank waits; dispatches since the sweep
  back,       \* per host, the FIFO of URLs bound to it
  active, activeN,       \* hosts flagged active, and the counter f.active
  inFlight,   \* hosts flagged in flight
  ready, readyAt,        \* ready bank: hosts, and each one's bucket
  wait, waitUntil,       \* wait heap: hosts, and each one's heap key
  ipNext,     \* the per-IP table: next-eligible instant of an address
  wheel, wheelDue, cursor,  \* due-time wheel: keys, firing hour, cursor
  flying,     \* the fetches the engine's pool has outstanding
  disk,       \* the last checkpoint
  restarts    \* restarts so far

urlVars   == <<urls, front, filed, frontAge>>
poolVars  == <<active, activeN, inFlight, ready, readyAt, wait, waitUntil>>
wheelVars == <<wheel, wheelDue, cursor>>
vars == <<now, urlVars, hosts, sinceSweep, back, poolVars, ipNext, wheelVars,
          flying, disk, restarts>>

-----------------------------------------------------------------------------
MaxOf(a, b) == IF a >= b THEN a ELSE b
MinOf(a, b) == IF a <= b THEN a ELSE b
Hours(t) == t \div HourSecs
Buckets == 0..Levels

Statuses == {"none", "Scheduled", "InFlight", "Crawled", "DueRecrawl",
             "Gone", "ExcludedRobots", "Trapped"}
Queueable == {"Scheduled", "DueRecrawl"}   \* statuses that wait in a queue
Terminal  == {"Gone", "ExcludedRobots", "Trapped"}

NoRecord == [status |-> "none", prio |-> 0, due |-> 0, retry |-> 0, born |-> 0]

\* newHost: the adaptive gap at the baseline, no robots rules, no address.
NewHost == [next |-> 0, ipNext |-> 0, ip |-> NoIP, ipExp |-> 0, delay |-> 0,
            robotsExp |-> 0, gap |-> MinGap, robots |-> "none", deny |-> {}]

\* The listings of a finite set: every order its elements may be met in.
Lines(S) == {q \in [1..Cardinality(S) -> S] :
               /\ \A i, j \in 1..Cardinality(S) : q[i] = q[j] => i = j
               /\ \A x \in S : \E i \in 1..Cardinality(S) : q[i] = x}

\* The keys a back queue holds.
KeysOf(s) == {s[i] : i \in DOMAIN s}

Init ==
  /\ now = 0
  /\ urls = [u \in URLs |-> NoRecord]
  /\ hosts = [h \in Hosts |-> NewHost]
  /\ front = {} /\ filed = [u \in URLs |-> 0]
  /\ frontAge = <<>> /\ sinceSweep = 0
  /\ back = [h \in Hosts |-> <<>>]
  /\ active = {} /\ activeN = 0 /\ inFlight = {}
  /\ ready = {} /\ readyAt = [h \in Hosts |-> 0]
  /\ wait = {} /\ waitUntil = [h \in Hosts |-> 0]
  /\ ipNext = [i \in IPs |-> 0]
  /\ wheel = {} /\ wheelDue = [u \in URLs |-> 0] /\ cursor = 0
  /\ flying = {}
  /\ disk = [urls |-> urls, hosts |-> hosts]
  /\ restarts = 0

-----------------------------------------------------------------------------
(* Politeness: HostInterval, spend, eligibleNow, adapt. *)

\* The clamped interval of host entry H, in whole seconds.
HostInterval(H) ==
  LET lo == MaxOf(MinGap, H.delay) IN MaxOf(lo, MinOf(H.gap, MaxOf(MaxGap, lo)))

\* Mutant: the shared address's window is forgotten.
EligibleNow_HostOnly(H) == H.next

\* The later of the host's own window and its address's window.
EligibleNow(H) == MaxOf(H.next, IF H.ip = NoIP THEN 0 ELSE ipNext[H.ip])

\* A dispatch of H advances both windows.
IPWindow(H) ==
  IF H.ip = NoIP THEN 0 ELSE now + MaxOf(HostInterval(H), IPFloor)
SpendHost(H) == [H EXCEPT !.next = now + HostInterval(H), !.ipNext = IPWindow(H)]

\* adapt: an error doubles the gap (a Retry-After may ask for more), rising
\* latency widens it, a healthy fetch narrows it; then HostInterval clamps.
Adapted(H, sig) ==
  LET raw == CASE sig = "err"  -> MinOf(2 * H.gap, MaxGap)..MaxGap
               [] sig = "slow" -> {H.gap, H.gap + 1}
               [] OTHER        -> {H.gap, MaxOf(H.gap - 1, 0)}
  IN {[H EXCEPT !.gap = HostInterval([H EXCEPT !.gap = g])] : g \in raw}

\* resolveHost: a missing or stale address is refreshed when the resolver
\* cache answers; ans[h] is its answer for h, NoIP a miss.
Resolved(h, ans) ==
  IF ans[h] = NoIP \/ (hosts[h].ip # NoIP /\ hosts[h].ipExp > Hours(now))
  THEN hosts[h]
  ELSE [hosts[h] EXCEPT !.ip = ans[h], !.ipExp = Hours(now) + IPTTL]

NeedsRobots(H) ==
  /\ RobotsOn
  /\ H.robots # "pending"
  /\ ~(H.robots = "ready" /\ H.robotsExp > Hours(now))

-----------------------------------------------------------------------------
(* The front bank. *)

\* The orders in which a set of keys may be appended to the wait FIFO, which
\* only a bounded frontier keeps.
PushOrders(S) == IF Bounded THEN Lines(S) ELSE {<<>>}

\* frontPush of the keys of S, table U giving the priorities; q is the order
\* and at[u] the hour of each wait.
FrontPush(S, U, q, at) ==
  /\ front' = front \cup S
  /\ filed' = [u \in URLs |-> IF u \in S THEN U[u].prio ELSE filed[u]]
  /\ frontAge' = frontAge \o [i \in DOMAIN q |-> [key |-> q[i], at |-> at[q[i]]]]

\* Mutant: a repriced URL stays where it was filed.
Rebucketed_Never(u, U) == filed[u]

\* rebucket: a key filed under its old priority moves to the new one.
Rebucketed(u, U) ==
  IF u \in front /\ filed[u] = urls[u].prio /\ U[u].status \in Queueable
  THEN U[u].prio ELSE filed[u]

\* Mutant: the seen-set forgets tombstoned URLs.
Unseen_Gone(r) == r.status \in {"none", "Gone"}

\* A key the seen-set has not met.
Unseen(r) == r.status = "none"

\* Discover of every URL of L: a new one is admitted (or trapped) at priority
\* p, a known one is credited and repriced when prioritization is on.
DiscoverURLs(U, L, admit, p) ==
  [u \in URLs |->
     IF u \notin L THEN U[u]
     ELSE IF Unseen(U[u])
     THEN [NoRecord EXCEPT !.status = IF u \in admit THEN "Scheduled" ELSE "Trapped",
                           !.prio = p[u], !.born = Hours(now)]
     ELSE IF PrioOn THEN [U[u] EXCEPT !.prio = p[u]] ELSE U[u]]

\* The front-bank effect of going from table urls to table U: the newly
\* scheduled keys are pushed, the repriced ones re-bucketed.
Enter(U) ==
  LET new == {u \in URLs : Unseen(urls[u]) /\ U[u].status = "Scheduled"}
  IN \E q \in PushOrders(new) :
       /\ front' = front \cup new
       /\ filed' = [u \in URLs |-> IF u \in new THEN U[u].prio ELSE Rebucketed(u, U)]
       /\ frontAge' = frontAge \o
            [i \in DOMAIN q |-> [key |-> q[i], at |-> Hours(now)]]

\* Seed: a fresh record; with the wheel on, a future-dated seed waits there.
Seed(u, p, d) ==
  /\ Unseen(urls[u])
  /\ urls' = [urls EXCEPT ![u] = [status |-> "Scheduled", prio |-> p, due |-> d,
                                  retry |-> 0, born |-> Hours(now)]]
  /\ IF WheelOn /\ d > Hours(now)
     THEN /\ wheel' = wheel \cup {u}
          /\ wheelDue' = [wheelDue EXCEPT ![u] = MaxOf(d, cursor)]
          /\ UNCHANGED <<front, filed, frontAge>>
     ELSE /\ \E q \in PushOrders({u}) :
               FrontPush({u}, urls', q, [v \in {u} |-> Hours(now)])
          /\ UNCHANGED <<wheel, wheelDue>>
  /\ UNCHANGED <<now, hosts, sinceSweep, back, poolVars, ipNext, cursor, flying,
                 disk, restarts>>

\* Discover: the idempotent intake of one routed out-link.
Discover(u, admit, p) ==
  /\ urls' = DiscoverURLs(urls, {u}, admit, [v \in URLs |-> p])
  /\ Enter(urls')
  /\ UNCHANGED <<now, hosts, sinceSweep, back, poolVars, ipNext, wheelVars, flying,
                 disk, restarts>>

-----------------------------------------------------------------------------
(* DispatchShard: promoteDue, promote, distribute, then the pop loop. *)

\* promoteDue: the keys the wheel fires, and those of them that re-enter the
\* front bank (a terminal one is dropped).
Fired == IF WheelOn THEN {u \in wheel : wheelDue[u] <= Hours(now)} ELSE {}

\* Mutant: a fired future-dated seed is dropped with the terminal ones.
Revived_CrawledOnly == {u \in Fired : urls[u].status = "Crawled"}

Revived == {u \in Fired : urls[u].status \in {"Crawled"} \cup Queueable}
DueURLs == [u \in URLs |-> IF u \in Revived /\ urls[u].status = "Crawled"
                           THEN [urls[u] EXCEPT !.status = "DueRecrawl"] ELSE urls[u]]
DueFront == front \cup Revived
DueFiled == [u \in URLs |-> IF u \in Revived THEN urls[u].prio ELSE filed[u]]
DueAge(q) == frontAge \o [i \in DOMAIN q |-> [key |-> q[i], at |-> Hours(now)]]

\* Mutant: promote reads the heap top without popping it.
StillParked_Peek == wait

\* promote: the parked hosts whose heap key has come, those that really open,
\* and those whose shared address was spent meanwhile and that park again.
Popped == {h \in wait : waitUntil[h] <= now}
StillParked == wait \ Popped
Opened == {h \in Popped : back[h] # <<>> /\ EligibleNow(hosts[h]) <= now}
Reparked == {h \in Popped : back[h] # <<>> /\ EligibleNow(hosts[h]) > now}

\* promoteAged: the aged head of the wait FIFO a, and the keys it lifts to the
\* top bucket.
Sweeping == Bounded /\ sinceSweep + 1 >= RefillBatch
AgedHead(a) ==
  IF ~Sweeping THEN {}
  ELSE {i \in DOMAIN a : \A j \in 1..i : Hours(now) - a[j].at >= AgePromote}
Lifted(a) ==
  {u \in DueFront : /\ \E i \in AgedHead(a) : a[i].key = u
                    /\ DueURLs[u].status = "Scheduled"
                    /\ DueFiled[u] = DueURLs[u].prio}
SweptFile(a) == [u \in URLs |-> IF u \in Lifted(a) THEN Levels ELSE DueFiled[u]]
SweptURLs(a) == [u \in URLs |-> IF u \in Lifted(a) THEN [DueURLs[u] EXCEPT !.prio = Levels]
                                  ELSE DueURLs[u]]

\* The orders in which the front bank F with buckets fl is popped.
PopOrders(F, fl) ==
  {q \in Lines(F) : \A i, j \in DOMAIN q : i < j => fl[q[i]] >= fl[q[j]]}

\* Mutant: cached rules are not consulted when a key is bound.
Disallowed_Never(u) == FALSE

\* A key the host's fresh rules disallow is excluded at bind time.
Disallowed(u) ==
  /\ hosts[HostOf[u]].robots = "ready"
  /\ u \in hosts[HostOf[u]].deny

\* The hosts the first k pops of ord activate.
Activated(ord, k) ==
  {HostOf[ord[i]] : i \in {j \in 1..k : ~Disallowed(ord[j])}} \ active

\* distribute's loop condition at pop k: an idle host needs a free slot.
Placeable(ord, k) ==
  \/ HostOf[ord[k]] \in active \cup Activated(ord, k - 1)
  \/ activeN + Cardinality(Activated(ord, k - 1)) < Target

\* n pops is where distribute stops on ord: at the first key it cannot place.
StopsAt(ord, n) ==
  /\ \A k \in 1..n : Placeable(ord, k)
  /\ n < Len(ord) => ~Placeable(ord, n + 1)

\* The keys the first n pops bind to host h, and bind as a listing of them in
\* pop order.
BoundTo(h, ord, n) ==
  {u \in URLs : HostOf[u] = h /\ ~Disallowed(u) /\ \E i \in 1..n : ord[i] = u}
InPopOrder(q, ord) ==
  \A i, j \in DOMAIN q : i < j =>
     \E a, b \in DOMAIN ord : a < b /\ ord[a] = q[i] /\ ord[b] = q[j]
Bindings(ord, n) ==
  {f \in [Hosts -> UNION {Lines(BoundTo(h, ord, n)) : h \in Hosts}] :
     \A h \in Hosts : /\ f[h] \in Lines(BoundTo(h, ord, n))
                       /\ InPopOrder(f[h], ord)}

\* The state the first n pops of distribute leave: the keys that left the front
\* bank, the queues and records, and the new hosts by the pool place finds.
BoundKeys(ord, n) == {ord[i] : i \in 1..n}
BoundBack(add) == [h \in Hosts |-> back[h] \o add[h]]
BoundURLs(U, ord, n) ==
  [u \in URLs |-> IF u \in BoundKeys(ord, n) /\ Disallowed(u)
                  THEN [U[u] EXCEPT !.status = "ExcludedRobots"] ELSE U[u]]
Placed(ord, n) == {h \in Activated(ord, n) \ inFlight : EligibleNow(hosts[h]) <= now}
Parked(ord, n) == {h \in Activated(ord, n) \ inFlight : EligibleNow(hosts[h]) > now}

\* The ready bank, its buckets and the wait heap that the pop loop finds.
ReadyPool(ord, n) == ready \cup Opened \cup Placed(ord, n)
ReadyLevel(U, b, ord, n) ==
  [h \in Hosts |-> IF h \in Placed(ord, n) THEN U[b[h][1]].prio
                   ELSE IF h \in Opened THEN urls[back[h][1]].prio ELSE readyAt[h]]
WaitPool(ord, n) == StillParked \cup Reparked \cup Parked(ord, n)

\* popShard's preference: the thread's own shard first, then the best head.
Rank(h, s, lvl) == lvl[h] + (IF Home[h] = s THEN Levels + 1 ELSE 0)

\* The pop loop over ready hosts R with buckets lvl: hosts of G are popped,
\* found gated by their address and parked again, before pick (a set of at
\* most one host) is popped and goes out.
PopLoop(s, R, lvl, ans, G, pick) ==
  LET gated == {h \in R : EligibleNow(Resolved(h, ans)) > now}
  IN /\ G \subseteq gated
     /\ \/ pick = {} /\ R = gated /\ G = gated
        \/ \E h \in R \ gated :
             /\ pick = {h}
             /\ \A g \in R \ gated : Rank(g, s, lvl) <= Rank(h, s, lvl)
             /\ \A g \in gated : Rank(g, s, lvl) > Rank(h, s, lvl) => g \in G
             /\ \A g \in G : Rank(g, s, lvl) >= Rank(h, s, lvl)

\* Mutant: the dispatched host is peeked, not popped.
ReadyLeft_Peek(R, G, pick) == R \ G

\* What the pop loop leaves in the ready bank.
ReadyLeft(R, G, pick) == R \ (G \cup pick)

\* The host table once the pop loop has resolved the hosts of T.
Dialled(T, ans) == [h \in Hosts |-> IF h \in T THEN Resolved(h, ans) ELSE hosts[h]]

\* What the resolver cache (an external service) may answer for the hosts R.
Lookups(R) ==
  {a \in [R -> IPs \cup {NoIP}] :
     \A h \in R : a[h] # NoIP => DnsOn /\ a[h] \in IPOf[h]}

\* The state a dispatch leaves, given the order q in which due keys are pushed,
\* the n pops of the front bank in order ord and the bindings add they make, the
\* answers ans of the resolver, the gated hosts G and the dispatched host in pick.
Dispatched(q, ord, n, add, ans, G, pick) ==
  LET age    == DueAge(q)
      b      == BoundBack(add)
      U      == BoundURLs(SweptURLs(age), ord, n)
      R      == ReadyPool(ord, n)
      lvl    == ReadyLevel(U, b, ord, n)
      dial   == Dialled(G \cup pick, ans)
      robots == {h \in pick : NeedsRobots(hosts[h])}
  IN
  /\ urls' = [u \in URLs |-> IF \E h \in pick \ robots : b[h][1] = u
                              THEN [U[u] EXCEPT !.status = "InFlight"] ELSE U[u]]
  /\ hosts' = [h \in Hosts |->
                 IF h \in robots THEN [SpendHost(dial[h]) EXCEPT !.robots = "pending"]
                 ELSE IF h \in pick THEN SpendHost(dial[h]) ELSE dial[h]]
  /\ ipNext' = [i \in IPs |-> IF \E h \in pick : dial[h].ip = i
                               THEN IPWindow(dial[CHOOSE h \in pick : TRUE])
                               ELSE ipNext[i]]
  /\ front' = DueFront \ BoundKeys(ord, n)
  /\ filed' = [u \in URLs |-> IF u \in BoundKeys(ord, n) THEN 0 ELSE SweptFile(age)[u]]
  /\ frontAge' = SubSeq(age, Cardinality(AgedHead(age)) + 1, Len(age))
  /\ sinceSweep' = IF ~Bounded \/ Sweeping THEN 0 ELSE sinceSweep + 1
  /\ back' = b
  /\ active' = active \cup Activated(ord, n)
  /\ activeN' = activeN + Cardinality(Activated(ord, n))
  /\ inFlight' = inFlight \cup pick
  /\ ready' = ReadyLeft(R, G, pick)
  /\ readyAt' = [h \in Hosts |-> IF h \in ReadyLeft(R, G, pick) THEN lvl[h] ELSE 0]
  /\ wait' = WaitPool(ord, n) \cup G
  /\ waitUntil' = [h \in Hosts |->
                     IF h \in G \cup Reparked \cup Parked(ord, n)
                     THEN EligibleNow(dial[h])
                     ELSE IF h \in WaitPool(ord, n) THEN waitUntil[h] ELSE 0]
  /\ wheel' = wheel \ Fired
  /\ wheelDue' = [u \in URLs |-> IF u \in Fired THEN 0 ELSE wheelDue[u]]
  /\ cursor' = IF WheelOn THEN MaxOf(cursor, Hours(now) + 1) ELSE cursor
  /\ flying' = flying \cup {<<h, Robots>> : h \in robots}
                       \cup {<<h, b[h][1]>> : h \in pick \ robots}
  /\ UNCHANGED <<now, disk, restarts>>

DispatchShard(s) ==
  \E q \in PushOrders(Revived) :
  \E ord \in PopOrders(DueFront, SweptFile(DueAge(q))), n \in 0..Cardinality(DueFront) :
    /\ StopsAt(ord, n)
    /\ \E add \in Bindings(ord, n) :
       LET R   == ReadyPool(ord, n)
           U   == BoundURLs(SweptURLs(DueAge(q)), ord, n)
           lvl == ReadyLevel(U, BoundBack(add), ord, n)
       IN \E ans \in Lookups(R), G \in SUBSET R, pick \in {{}} \cup {{h} : h \in R} :
            /\ PopLoop(s, R, lvl, ans, G, pick)
            /\ Dispatched(q, ord, n, add, ans, G, pick)

-----------------------------------------------------------------------------
(* Report: a robots.txt outcome, or a content outcome. *)

\* place of one host that is out of flight, with back queue b in table U.
Place(h, H, b, U) ==
  LET e == EligibleNow(H) IN
  IF b = <<>>
  THEN UNCHANGED <<ready, readyAt, wait, waitUntil>>
  ELSE IF e <= now
  THEN /\ ready' = ready \cup {h} /\ readyAt' = [readyAt EXCEPT ![h] = U[b[1]].prio]
       /\ UNCHANGED <<wait, waitUntil>>
  ELSE /\ wait' = wait \cup {h} /\ waitUntil' = [waitUntil EXCEPT ![h] = e]
       /\ UNCHANGED <<ready, readyAt>>

\* applyRobots: a 2xx caches rules (deny) and may raise the crawl delay, a 4xx
\* allows everything, anything else allows everything until a short retry;
\* then filterRobots drops the disallowed queued keys and the host is placed.
RobotsHost(H, resp, deny, delay) ==
  [H EXCEPT !.robots = "ready",
            !.deny = IF resp = "2xx" THEN deny ELSE {},
            !.delay = IF resp = "2xx" THEN MaxOf(H.delay, delay) ELSE H.delay,
            !.robotsExp = Hours(now) + (IF resp = "err" THEN 1 ELSE RobotsTTL)]

\* The queue b without the keys of deny, in order.
Kept(b, deny) ==
  {q \in Lines(KeysOf(b) \ deny) : InPopOrder(q, b)}

ApplyRobots(h, resp, deny, delay) ==
  LET H == RobotsHost(hosts[h], resp, deny, delay)
      U == [u \in URLs |-> IF u \in KeysOf(back[h]) \cap H.deny
                           THEN [urls[u] EXCEPT !.status = "ExcludedRobots"] ELSE urls[u]]
  IN
  /\ RobotsOn /\ <<h, Robots>> \in flying /\ hosts[h].robots = "pending"
  /\ flying' = flying \ {<<h, Robots>>}
  /\ hosts' = [hosts EXCEPT ![h] = H]
  /\ urls' = U
  /\ inFlight' = inFlight \ {h}
  /\ \E b \in Kept(back[h], H.deny) :
       /\ back' = [back EXCEPT ![h] = b]
       /\ Place(h, H, b, U)
  /\ UNCHANGED <<now, front, filed, frontAge, sinceSweep, active, activeN, ipNext,
                 wheelVars, disk, restarts>>

\* Mutant: a drained host is never taken out of the active set.
Drained_Never(b) == FALSE

Drained(b) == b = <<>>

\* The tail of Report: fold the rate signal, then re-place the host, or take
\* it out of the active set when its back queue b has drained.
Resume(h, b, U, sig) ==
  /\ back' = [back EXCEPT ![h] = b]
  /\ inFlight' = inFlight \ {h}
  /\ \E H \in Adapted(hosts[h], sig) :
       /\ hosts' = [hosts EXCEPT ![h] = H]
       /\ IF Drained(b)
          THEN /\ active' = active \ {h} /\ activeN' = activeN - 1
               /\ UNCHANGED <<ready, readyAt, wait, waitUntil>>
          ELSE Place(h, H, b, U) /\ UNCHANGED <<active, activeN>>

\* Mutant: the reported key stays at the head of its queue.
Unqueued_Kept(h, u) == back[h]

\* h.back with the reported key popped off its head.
Unqueued(h, u) ==
  IF back[h] # <<>> /\ Head(back[h]) = u THEN Tail(back[h]) ELSE back[h]

\* A content outcome of u leaves the fetcher pool.
Landed(u) ==
  /\ <<HostOf[u], u>> \in flying
  /\ flying' = flying \ {<<HostOf[u], u>>}
  /\ UNCHANGED <<now, sinceSweep, ipNext, disk, restarts>>

\* markCrawled of u in table U: history advances, a soft-404 body tombstones,
\* the rescheduler sets next_due and DueRecrawl, the links are discovered.
Marked(U, u, soft, due, at) ==
  [U EXCEPT ![u] =
     [status |-> IF FreshOn THEN "DueRecrawl" ELSE IF soft THEN "Gone" ELSE "Crawled",
      prio   |-> @.prio,
      due    |-> IF FreshOn THEN due ELSE at + RecrawlGap,
      retry  |-> 0,
      born   |-> IF @.born = 0 THEN at ELSE @.born]]

\* A crawl outcome stamped with hour `at': a 2xx, a 304, or a redirect to the
\* URL in `target'; with the state machine off, any outcome at all.
ReportCrawled(u, soft, due, at, target, links, admit, p, sig) ==
  LET h == HostOf[u]
      T == DiscoverURLs(Marked(urls, u, soft, due, at), target \cup links, admit, p)
      U == IF links # {} THEN [T EXCEPT ![u].prio = p[u]] ELSE T
  IN
  /\ Landed(u)
  /\ urls' = U
  /\ Enter(U)
  /\ IF WheelOn /\ U[u].status = "Crawled"
     THEN /\ wheel' = wheel \cup {u}
          /\ wheelDue' = [wheelDue EXCEPT ![u] = MaxOf(U[u].due, cursor)]
     ELSE UNCHANGED <<wheel, wheelDue>>
  /\ Resume(h, Unqueued(h, u), U, sig)
  /\ UNCHANGED cursor

\* failURL: a 410 or an exhausted retry budget tombstones; any other failure
\* backs off and goes to the back of its host queue.
RetryBackoff(n) == IF 2 ^ (n - 1) \in 1..RecrawlGap THEN 2 ^ (n - 1) ELSE RecrawlGap

FailedURL(rec, r, gone, at) ==
  [rec EXCEPT !.status = IF gone THEN "Gone" ELSE "Scheduled",
              !.retry = r,
              !.due = IF gone THEN @ ELSE at + RetryBackoff(r)]

\* Mutant: a failed URL with budget left is not put back.
Requeued_Dropped(h, u) == Unqueued(h, u)

Requeued(h, u) == Append(Unqueued(h, u), u)

ReportFailed(u, is410, at, sig) ==
  LET h == HostOf[u]
      r == MinOf(urls[u].retry + 1, MaxRetries)
      gone == is410 \/ r >= MaxRetries
      U == [urls EXCEPT ![u] = FailedURL(@, r, gone, at)]
  IN
  /\ StateOn
  /\ Landed(u)
  /\ urls' = U
  /\ Resume(h, IF gone THEN Unqueued(h, u) ELSE Requeued(h, u), U, sig)
  /\ UNCHANGED <<front, filed, frontAge, wheelVars>>

-----------------------------------------------------------------------------
(* Checkpoint and restart. *)

\* Checkpoint: the URL records and the durable host records.
Checkpoint ==
  /\ restarts < Restarts
  /\ disk' = [urls |-> urls, hosts |-> hosts]
  /\ UNCHANGED <<now, urlVars, hosts, sinceSweep, back, poolVars, ipNext, wheelVars,
                 flying, restarts>>

\* The process stops (its fetches die with it) and Recover rebuilds a frontier
\* from the checkpoint: in-flight URLs are scheduled again, the adaptive gap
\* and the robots rules start over, every queueable URL enters the front bank
\* and every crawled one the wheel.
RecoveredHost(H) == [H EXCEPT !.gap = MinGap, !.robots = "none", !.deny = {}]
RecoveredURL(r) == [r EXCEPT !.status = IF @ = "InFlight" THEN "Scheduled" ELSE @]

Recover ==
  LET U == [u \in URLs |-> RecoveredURL(disk.urls[u])]
      S == {u \in URLs : U[u].status \in Queueable}
      W == {u \in URLs : WheelOn /\ U[u].status = "Crawled" /\ U[u].due > 0}
  IN
  /\ restarts < Restarts
  /\ restarts' = restarts + 1
  /\ urls' = U
  /\ hosts' = [h \in Hosts |-> RecoveredHost(disk.hosts[h])]
  /\ front' = S
  /\ filed' = [u \in URLs |-> IF u \in S THEN U[u].prio ELSE 0]
  /\ \E q \in PushOrders(S) :
       frontAge' = [i \in DOMAIN q |-> [key |-> q[i], at |-> U[q[i]].born]]
  /\ sinceSweep' = 0
  /\ back' = [h \in Hosts |-> <<>>]
  /\ active' = {} /\ activeN' = 0 /\ inFlight' = {}
  /\ ready' = {} /\ readyAt' = [h \in Hosts |-> 0]
  /\ wait' = {} /\ waitUntil' = [h \in Hosts |-> 0]
  /\ ipNext' = [i \in IPs |-> 0]
  /\ wheel' = W
  /\ wheelDue' = [u \in URLs |-> IF u \in W THEN U[u].due ELSE 0]
  /\ cursor' = 0
  /\ flying' = {}
  /\ UNCHANGED <<now, disk>>

\* The wall clock.
Tick ==
  /\ now < MaxNow
  /\ now' = now + 1
  /\ UNCHANGED <<urlVars, hosts, sinceSweep, back, poolVars, ipNext, wheelVars, flying,
                 disk, restarts>>

OneOf(S) == {{x} : x \in S}

\* What an outcome may bring: a fetcher stamps the hour of the fetch, the
\* engine stamps the error it reports for a fetch that returned none.
FetchStamp == Hours(now)
ErrorStamp == now
CrawlStamps == IF StateOn THEN {FetchStamp} ELSE {FetchStamp, ErrorStamp}
CrawlSignals == IF StateOn THEN {"ok", "slow"} ELSE {"ok", "slow", "err"}
Targets == IF StateOn THEN {{}} \cup OneOf(URLs) ELSE {{}}
LinkSets == IF PrioOn THEN SUBSET URLs ELSE {{}}

\* The priorities the discovered URLs of a crawl of u enter at: what OPIC
\* computes, or the source's own for a redirect target.
Prices(u, L) == IF PrioOn THEN [L \cup {u} -> Buckets] ELSE {[v \in L |-> urls[u].prio]}

Next ==
  \/ \E u \in URLs, p \in Buckets, d \in 0..SeedDefer : Seed(u, p, Hours(now) + d)
  \/ \E u \in URLs, p \in Buckets : \E admit \in SUBSET {u} : Discover(u, admit, p)
  \/ \E s \in Shards : DispatchShard(s)
  \/ \E h \in Hosts, deny \in SUBSET URLs, delay \in Delays :
        ApplyRobots(h, "2xx", deny, delay)
  \/ \E h \in Hosts, resp \in {"4xx", "err"} : ApplyRobots(h, resp, {}, 0)
  \/ \E u \in URLs, soft \in BOOLEAN, at \in CrawlStamps, sig \in CrawlSignals,
        target \in Targets, links \in LinkSets :
        \E admit \in SUBSET (target \cup links), p \in Prices(u, target \cup links) :
          ReportCrawled(u, soft, Hours(now) + 1, at, target, links, admit, p, sig)
  \/ \E u \in URLs, sig \in {"ok", "slow", "err"} : ReportFailed(u, FALSE, FetchStamp, sig)
  \/ \E u \in URLs, sig \in {"ok", "slow"} : ReportFailed(u, TRUE, FetchStamp, sig)
  \/ \E u \in URLs, sig \in {"ok", "slow"} : ReportFailed(u, FALSE, ErrorStamp, sig)
  \/ Checkpoint
  \/ Recover
  \/ Tick

Spec == Init /\ [][Next]_vars

-----------------------------------------------------------------------------
(* Correctness. *)

URLRecords == [status : Statuses, prio : Buckets, due : Nat, retry : 0..MaxRetries,
               born : Nat]
HostEntries == [next : Nat, ipNext : Nat, ip : IPs \cup {NoIP}, ipExp : Nat,
                delay : Nat, robotsExp : Nat, gap : {g \in Nat : g >= MinGap},
                robots : {"none", "pending", "ready"}, deny : SUBSET URLs]

\* Every record, queue and window has its shape; a priority names a bucket of
\* the bank, the retry count stays within its budget and the adaptive gap within
\* the politeness band from below (HostInterval, failURL).
TypeOK ==
  /\ now \in Nat
  /\ urls \in [URLs -> URLRecords]
  /\ hosts \in [Hosts -> HostEntries]
  /\ front \subseteq URLs /\ filed \in [URLs -> Buckets]
  /\ frontAge \in Seq([key : URLs, at : Nat]) /\ sinceSweep \in Nat
  /\ back \in [Hosts -> Seq(URLs)]
  /\ active \subseteq Hosts /\ activeN \in Int /\ inFlight \subseteq Hosts
  /\ ready \subseteq Hosts /\ readyAt \in [Hosts -> Buckets]
  /\ wait \subseteq Hosts /\ waitUntil \in [Hosts -> Nat]
  /\ ipNext \in [IPs -> Nat]
  /\ wheel \subseteq URLs /\ wheelDue \in [URLs -> Nat] /\ cursor \in Nat
  /\ flying \subseteq Hosts \X (URLs \cup {Robots})
  /\ disk \in [urls : [URLs -> URLRecords], hosts : [Hosts -> HostEntries]]
  /\ restarts \in Nat

\* At most one fetch per host is outstanding, and the in-flight flag of a host
\* says exactly whether one is: DispatchShard pops a host out of the ready bank
\* and only Report, robots or content, lets it back.
OneFetchPerHost ==
  /\ \A f, g \in flying : f[1] = g[1] => f = g
  /\ inFlight = {f[1] : f \in flying}

\* A host sits in at most one of the ready bank, the wait heap and the fetcher
\* pool, and only while it is active with a URL queued, whatever order promote,
\* distribute, the pop loop, Report and a restart come in.
PoolsDisjoint ==
  /\ ready \cap wait = {}
  /\ inFlight \cap (ready \cup wait) = {}
  /\ ready \cup wait \cup inFlight \subseteq active
  /\ \A h \in ready \cup wait \cup inFlight : back[h] # <<>>

\* "active" means what its declaration says: the host holds a back queue and
\* something will come for it, and the counter f.active is the number of such
\* hosts, within the target.  distribute counts a host in and Report counts it
\* out: a host that stayed active with nothing queued, or that was counted out
\* twice, would shrink or overfill the active set for ever.
ActiveHoldsBack ==
  /\ \A h \in active : back[h] # <<>> /\ h \in ready \cup wait \cup inFlight
  /\ \A h \in Hosts \ active : back[h] = <<>>
  /\ activeN = Cardinality(active)
  /\ activeN <= Target

\* A URL waits in one structure only: the front bank, the wheel, or the back
\* queue of its own host, there once.  The queues of the code are not sets, so a
\* URL in two of them would be fetched twice for one schedule.
URLInOnePlace ==
  /\ front \cap wheel = {}
  /\ \A h \in Hosts :
       /\ KeysOf(back[h]) \cap (front \cup wheel) = {}
       /\ \A i, j \in DOMAIN back[h] : back[h][i] = back[h][j] => i = j
       /\ \A i \in DOMAIN back[h] : HostOf[back[h][i]] = h

\* A URL that is to be crawled is never lost: a scheduled or due one is in a
\* queue, one marked in flight is being fetched and is the head of its host's
\* queue, and with the wheel on a crawled one is on the wheel for its recrawl.
NoURLLost ==
  \A u \in URLs :
    LET h == HostOf[u] IN
    /\ urls[u].status \in Queueable => u \in front \cup wheel \cup KeysOf(back[h])
    /\ urls[u].status = "InFlight" => <<h, u>> \in flying /\ u = Head(back[h])
    /\ WheelOn /\ urls[u].status = "Crawled" => u \in wheel

\* The front bank files each URL under the priority of its record, across OPIC
\* repricing, aging and recovery; rebucket and promoteAged search for a URL in the
\* bucket of its recorded priority and would not find it otherwise.
FrontBucketed ==
  \A u \in front : filed[u] = urls[u].prio

\* With robots on, content is fetched only under rules that are in force, and
\* never a URL they disallow: neither one queued before the rules arrived
\* (filterRobots) nor one bound after (distribute).
NoDisallowedFetch ==
  RobotsOn => \A f \in flying : f[2] # Robots =>
                 hosts[f[1]].robots = "ready" /\ f[2] \notin hosts[f[1]].deny

\* A fetch starts only when the windows of its host and of the host's address,
\* the one the resolver returns at dispatch included, are both open, and leaves
\* both closed for at least their floors.
PoliteStep ==
  \A h \in inFlight' \ inFlight :
    /\ now >= hosts[h].next
    /\ hosts'[h].next >= now + MinGap
    /\ LET i == hosts'[h].ip IN
       i # NoIP => now >= ipNext[i] /\ ipNext'[i] >= now + IPFloor

\* Every step of the scheduler, whatever calls and fetches interleave, starts
\* fetches only as PoliteStep allows (spend, eligibleNow, resolveHost).
PoliteStart == [][PoliteStep]_vars

\* A tombstoned, excluded or trapped URL stays so until a restart: no discovery,
\* redirect, wheel entry or late outcome revives it.
TerminalStays ==
  [][restarts' = restarts =>
       \A u \in URLs : urls[u].status \in Terminal => urls'[u].status = urls[u].status]_vars

=============================================================================
