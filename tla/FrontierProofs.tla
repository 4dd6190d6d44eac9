--------------------------- MODULE FrontierProofs ---------------------------
(***************************************************************************)
(* Proofs about modules Frontier and Engine, for any hosts, URLs,          *)
(* addresses, options and bounds that satisfy their assumptions: first the *)
(* clocks and floors that keep a host's fetches apart, then where a URL    *)
(* is: each waits in one structure, the front bank files it where rebucket *)
(* looks, none that is to be crawled is lost, none that robots.txt         *)
(* disallows is fetched, and the active set holds what it counts.  Then    *)
(* the run loop: every call it makes keeps the frontier's invariants,      *)
(* every fetch in flight is in one hand of the pool, a bounded run stops   *)
(* only when nothing is left, and the loop never sleeps past work.         *)
(***************************************************************************)
EXTENDS Engine, FiniteSetTheorems, SequenceTheorems, TLAPS

-----------------------------------------------------------------------------
(* The constants and the helpers. *)

\* The named bounds, one by one.
LEMMA Bounds ==
  /\ Levels \in Nat /\ AgePromote \in Nat /\ SeedDefer \in Nat /\ MaxNow \in Nat
  /\ Target \in Nat /\ RefillBatch \in Nat /\ MaxRetries \in Nat
  /\ MinGap \in Nat /\ MaxGap \in Nat /\ IPFloor \in Nat
  /\ HourSecs \in Nat /\ HourSecs > 0
  /\ RecrawlGap \in Nat /\ RobotsTTL \in Nat /\ IPTTL \in Nat
  /\ Restarts \in Nat
  /\ Delays \subseteq Nat
  BY BoundAssumption

\* The clock in hours is a natural number.
LEMMA HoursType == ASSUME NEW t \in Nat PROVE Hours(t) \in Nat
  BY Bounds DEF Hours

\* A function on 1..n is a sequence.
LEMMA FunSeq == ASSUME NEW S, NEW n \in Nat, NEW f \in [1..n -> S] PROVE f \in Seq(S)
  OBVIOUS

\* What is left of a sequence when its head is dropped is a sequence.
LEMMA SuffixSeq ==
  ASSUME NEW S, NEW q \in Seq(S), NEW m \in Nat PROVE SubSeq(q, m + 1, Len(q)) \in Seq(S)
  OBVIOUS

\* The first element of a concatenation.
LEMMA ConcatFirst ==
  ASSUME NEW S, NEW s \in Seq(S), NEW t \in Seq(S)
  PROVE  /\ s # <<>> => s \o t # <<>> /\ (s \o t)[1] = s[1]
         /\ t # <<>> => s \o t # <<>>
<1>1. Len(s \o t) = Len(s) + Len(t) /\ s \o t \in Seq(S)
  OBVIOUS
<1>2. s # <<>> => Len(s) > 0
  BY EmptySeq
<1>3. t # <<>> => Len(t) > 0
  BY EmptySeq
<1>4. Len(<<>>) = 0
  OBVIOUS
<1>5. Len(s) > 0 => (s \o t)[1] = s[1]
  BY ConcatProperties
<1>6. Len(s) \in Nat /\ Len(t) \in Nat
  OBVIOUS
<1>7. Len(s \o t) > 0 => s \o t # <<>>
  BY <1>4
<1> QED BY <1>1, <1>2, <1>3, <1>5, <1>6, <1>7

\* A listing of a finite set is a sequence over it, and empty only if the set is.
LEMMA LineSeq ==
  ASSUME NEW S, IsFiniteSet(S), NEW q \in Lines(S)
  PROVE  /\ q \in Seq(S)
         /\ Len(q) = Cardinality(S)
         /\ S # {} => q # <<>>
<1>1. Cardinality(S) \in Nat
  BY FS_CardinalityType
<1>2. q \in [1..Cardinality(S) -> S]
  BY DEF Lines
<1>3. q \in Seq(S) /\ Len(q) = Cardinality(S)
  BY <1>1, <1>2
<1>4. ASSUME NEW x \in S PROVE q # <<>>
  <2>1. PICK i \in 1..Cardinality(S) : q[i] = x
    BY DEF Lines
  <2> QED BY <1>1, <1>2, <2>1
<1> QED BY <1>3, <1>4

\* Every set of URLs is finite.
LEMMA SomeURLs == ASSUME NEW S \in SUBSET URLs PROVE IsFiniteSet(S)
  BY FiniteAssumption, FS_Subset

\* A push order of a set of URLs is a sequence of URLs.
LEMMA PushOrderSeq ==
  ASSUME NEW S \in SUBSET URLs, NEW q \in PushOrders(S)
  PROVE  q \in Seq(URLs) /\ DOMAIN q = 1..Len(q) /\ \A i \in DOMAIN q : q[i] \in S
<1>1. CASE Bounded
  <2>1. q \in Lines(S)
    BY <1>1 DEF PushOrders
  <2> QED BY <2>1, LineSeq, SomeURLs
<1>2. CASE ~Bounded
  BY <1>2 DEF PushOrders
<1> QED BY <1>1, <1>2

\* The entries a push order adds to the wait FIFO keep it a FIFO of waits.
LEMMA AgeSeq ==
  ASSUME NEW a \in Seq([key : URLs, at : Nat]), NEW q \in Seq(URLs),
         NEW at, \A i \in DOMAIN q : at[q[i]] \in Nat
  PROVE  a \o [i \in DOMAIN q |-> [key |-> q[i], at |-> at[q[i]]]]
            \in Seq([key : URLs, at : Nat])
<1>1. DOMAIN q = 1..Len(q) /\ Len(q) \in Nat /\ \A i \in DOMAIN q : q[i] \in URLs
  OBVIOUS
<1>2. [i \in DOMAIN q |-> [key |-> q[i], at |-> at[q[i]]]]
         \in [1..Len(q) -> [key : URLs, at : Nat]]
  BY <1>1
<1>3. [i \in DOMAIN q |-> [key |-> q[i], at |-> at[q[i]]]] \in Seq([key : URLs, at : Nat])
  BY <1>1, <1>2
<1> QED BY <1>3

LEMMA AgeSeqNow ==
  ASSUME NEW a \in Seq([key : URLs, at : Nat]), NEW q \in Seq(URLs), NEW t \in Nat
  PROVE  a \o [i \in DOMAIN q |-> [key |-> q[i], at |-> t]] \in Seq([key : URLs, at : Nat])
<1>1. DOMAIN q = 1..Len(q) /\ Len(q) \in Nat /\ \A i \in DOMAIN q : q[i] \in URLs
  OBVIOUS
<1>2. [i \in DOMAIN q |-> [key |-> q[i], at |-> t]] \in [1..Len(q) -> [key : URLs, at : Nat]]
  BY <1>1
<1>3. [i \in DOMAIN q |-> [key |-> q[i], at |-> t]] \in Seq([key : URLs, at : Nat])
  BY <1>1, <1>2
<1> QED BY <1>3

\* The interval of a host is a number of seconds no shorter than the floor.
LEMMA IntervalType ==
  ASSUME NEW H, H.delay \in Nat, H.gap \in Nat
  PROVE  HostInterval(H) \in Nat /\ HostInterval(H) >= MinGap
  BY Bounds DEF HostInterval, MaxOf, MinOf

\* Windows are instants.
LEMMA WindowType ==
  ASSUME TypeOK, NEW H \in HostEntries
  PROVE  /\ EligibleNow(H) \in Nat
         /\ IPWindow(H) \in Nat
         /\ SpendHost(H) \in HostEntries
<1>0. now \in Nat /\ ipNext \in [IPs -> Nat]
  BY DEF TypeOK
<1>1. HostInterval(H) \in Nat
  BY IntervalType DEF HostEntries
<1>2. EligibleNow(H) \in Nat
  BY <1>0 DEF EligibleNow, HostEntries, MaxOf
<1>3. IPWindow(H) \in Nat
  BY <1>0, <1>1, Bounds DEF IPWindow, MaxOf
<1>4. SpendHost(H) \in HostEntries
  <2>1. now + HostInterval(H) \in Nat
    BY <1>0, <1>1
  <2>2. ASSUME NEW a \in Nat, NEW b \in Nat
        PROVE  [H EXCEPT !.next = a, !.ipNext = b] \in HostEntries
    BY DEF HostEntries
  <2> QED BY <1>3, <2>1, <2>2 DEF SpendHost
<1> QED BY <1>2, <1>3, <1>4

LEMMA AdaptedType ==
  ASSUME NEW H \in HostEntries, NEW sig
  PROVE  Adapted(H, sig) \subseteq HostEntries
<1> SUFFICES ASSUME NEW g \in Nat
             PROVE  [H EXCEPT !.gap = HostInterval([H EXCEPT !.gap = g])] \in HostEntries
  <2>1. H.gap \in Nat
    BY DEF HostEntries
  <2>2. (CASE sig = "err"  -> MinOf(2 * H.gap, MaxGap)..MaxGap
           [] sig = "slow" -> {H.gap, H.gap + 1}
           [] OTHER        -> {H.gap, MaxOf(H.gap - 1, 0)}) \subseteq Nat
    BY <2>1, Bounds DEF MinOf, MaxOf
  <2> QED BY <2>2 DEF Adapted
<1> DEFINE K == [H EXCEPT !.gap = g]
<1>1. K.delay \in Nat /\ K.gap \in Nat
  BY DEF HostEntries
<1>2. HostInterval(K) \in Nat /\ HostInterval(K) >= MinGap
  BY <1>1, IntervalType
<1> QED BY <1>2 DEF HostEntries

\* What the resolver cache answers is recorded well formed.
LEMMA ResolvedType ==
  ASSUME TypeOK, NEW R, NEW ans \in Lookups(R), NEW h \in Hosts, h \in R
  PROVE  Resolved(h, ans) \in HostEntries
<1>0. now \in Nat /\ hosts[h] \in HostEntries
  BY DEF TypeOK
<1>1. ans[h] \in IPs \cup {NoIP}
  BY DEF Lookups
<1>2. Hours(now) + IPTTL \in Nat
  BY <1>0, HoursType, Bounds
<1>3. ASSUME NEW a \in IPs \cup {NoIP}, NEW b \in Nat
      PROVE  [hosts[h] EXCEPT !.ip = a, !.ipExp = b] \in HostEntries
  BY <1>0 DEF HostEntries
<1> QED BY <1>0, <1>1, <1>2, <1>3 DEF Resolved

\* Updates of a URL record and of a table of URL records.
LEMMA RecordType ==
  ASSUME NEW r \in URLRecords
  PROVE  /\ \A st \in Statuses : [r EXCEPT !.status = st] \in URLRecords
         /\ \A p \in Buckets : [r EXCEPT !.prio = p] \in URLRecords
  BY DEF URLRecords

LEMMA NoRecordType == NoRecord \in URLRecords
  BY Bounds DEF NoRecord, URLRecords, Statuses, Buckets

\* Discovery keeps the URL table a table.
LEMMA DiscoverType ==
  ASSUME NEW U \in [URLs -> URLRecords], NEW L, NEW admit, NEW p,
         \A u \in URLs \cap L : p[u] \in Buckets, now \in Nat
  PROVE  DiscoverURLs(U, L, admit, p) \in [URLs -> URLRecords]
<1>1. ASSUME NEW u \in URLs \cap L, NEW st \in {"Scheduled", "Trapped"}
      PROVE  [NoRecord EXCEPT !.status = st, !.prio = p[u], !.born = Hours(now)]
                \in URLRecords
  <2>1. Hours(now) \in Nat /\ p[u] \in Buckets
    BY HoursType
  <2>2. ASSUME NEW a \in Buckets, NEW b \in Nat
        PROVE  [NoRecord EXCEPT !.status = st, !.prio = a, !.born = b] \in URLRecords
    BY NoRecordType DEF URLRecords, Statuses
  <2> QED BY <2>1, <2>2
<1>2. ASSUME NEW u \in URLs \cap L PROVE [U[u] EXCEPT !.prio = p[u]] \in URLRecords
  BY RecordType
<1> QED BY <1>1, <1>2 DEF DiscoverURLs

\* Enter files new keys and moves repriced ones between buckets.
LEMMA EnterType ==
  ASSUME TypeOK, NEW U \in [URLs -> URLRecords], Enter(U)
  PROVE  /\ front' \subseteq URLs
         /\ filed' \in [URLs -> Buckets]
         /\ frontAge' \in Seq([key : URLs, at : Nat])
<1> DEFINE new == {u \in URLs : Unseen(urls[u]) /\ U[u].status = "Scheduled"}
<1>0. /\ front \subseteq URLs /\ filed \in [URLs -> Buckets]
      /\ frontAge \in Seq([key : URLs, at : Nat]) /\ now \in Nat
  BY DEF TypeOK
<1>1. PICK q \in PushOrders(new) :
        /\ front' = front \cup new
        /\ filed' = [u \in URLs |-> IF u \in new THEN U[u].prio ELSE Rebucketed(u, U)]
        /\ frontAge' = frontAge \o [i \in DOMAIN q |-> [key |-> q[i], at |-> Hours(now)]]
  BY DEF Enter
<1>2. q \in Seq(URLs)
  BY PushOrderSeq
<1>3. \A u \in URLs : U[u].prio \in Buckets /\ Rebucketed(u, U) \in Buckets
  BY <1>0 DEF URLRecords, Rebucketed
<1>4. frontAge' \in Seq([key : URLs, at : Nat])
  BY <1>0, <1>1, <1>2, HoursType, AgeSeqNow
<1> QED BY <1>0, <1>1, <1>3, <1>4

-----------------------------------------------------------------------------
(* Type correctness, one lemma per operation. *)

LEMMA InitType == Init => TypeOK
<1> SUFFICES ASSUME Init PROVE TypeOK
  OBVIOUS
<1>1. NewHost \in HostEntries
  BY Bounds DEF NewHost, HostEntries
<1>2. 0 \in Buckets
  BY Bounds DEF Buckets
<1>3. urls \in [URLs -> URLRecords] /\ hosts \in [Hosts -> HostEntries]
  BY <1>1, NoRecordType DEF Init
<1> QED BY <1>2, <1>3 DEF Init, TypeOK

LEMMA SeedType ==
  ASSUME TypeOK, NEW u \in URLs, NEW p \in Buckets, NEW d \in Nat, Seed(u, p, d)
  PROVE  TypeOK'
<1>0. Hours(now) \in Nat /\ urls \in [URLs -> URLRecords] /\ cursor \in Nat
      /\ wheelDue \in [URLs -> Nat] /\ wheel \subseteq URLs
  BY HoursType DEF TypeOK
<1>1. [status |-> "Scheduled", prio |-> p, due |-> d, retry |-> 0, born |-> Hours(now)]
         \in URLRecords
  BY <1>0, Bounds DEF URLRecords, Statuses
<1>2. urls' \in [URLs -> URLRecords]
  BY <1>0, <1>1 DEF Seed
<1>3. wheel' \subseteq URLs /\ wheelDue' \in [URLs -> Nat]
  BY <1>0 DEF Seed, MaxOf
<1>4. /\ front' \subseteq URLs /\ filed' \in [URLs -> Buckets]
      /\ frontAge' \in Seq([key : URLs, at : Nat])
  <2>1. CASE WheelOn /\ d > Hours(now)
    BY <2>1 DEF Seed, TypeOK
  <2>2. CASE ~(WheelOn /\ d > Hours(now))
    <3>1. PICK q \in PushOrders({u}) :
            FrontPush({u}, urls', q, [v \in {u} |-> Hours(now)])
      BY <2>2 DEF Seed
    <3>2. q \in Seq(URLs) /\ \A i \in DOMAIN q : q[i] \in {u}
      BY PushOrderSeq
    <3>3. frontAge' \in Seq([key : URLs, at : Nat])
      <4> DEFINE at == [v \in {u} |-> Hours(now)]
      <4>1. \A i \in DOMAIN q : at[q[i]] \in Nat
        BY <1>0, <3>2
      <4>2. frontAge \in Seq([key : URLs, at : Nat])
        BY DEF TypeOK
      <4>3. frontAge' = frontAge \o [i \in DOMAIN q |-> [key |-> q[i], at |-> at[q[i]]]]
        BY <3>1 DEF FrontPush
      <4> HIDE DEF at
      <4> QED BY <3>2, <4>1, <4>2, <4>3, AgeSeq
    <3>4. urls'[u].prio \in Buckets
      BY <1>2 DEF URLRecords
    <3> QED BY <3>1, <3>3, <3>4 DEF FrontPush, TypeOK
  <2> QED BY <2>1, <2>2
<1> QED BY <1>2, <1>3, <1>4 DEF Seed, TypeOK, poolVars

LEMMA DiscoverStepType ==
  ASSUME TypeOK, NEW u \in URLs, NEW admit, NEW p \in Buckets, Discover(u, admit, p)
  PROVE  TypeOK'
<1>1. urls' \in [URLs -> URLRecords]
  BY DiscoverType DEF Discover, TypeOK
<1>2. /\ front' \subseteq URLs /\ filed' \in [URLs -> Buckets]
      /\ frontAge' \in Seq([key : URLs, at : Nat])
  BY <1>1, EnterType DEF Discover
<1> QED BY <1>1, <1>2 DEF Discover, TypeOK, poolVars, wheelVars

\* Filing a host whose queue is b.
LEMMA PlaceType ==
  ASSUME TypeOK, NEW h \in Hosts, NEW H \in HostEntries, NEW b \in Seq(URLs),
         NEW U \in [URLs -> URLRecords], Place(h, H, b, U)
  PROVE  /\ ready' \subseteq Hosts /\ readyAt' \in [Hosts -> Buckets]
         /\ wait' \subseteq Hosts /\ waitUntil' \in [Hosts -> Nat]
<1>0. /\ ready \subseteq Hosts /\ readyAt \in [Hosts -> Buckets]
      /\ wait \subseteq Hosts /\ waitUntil \in [Hosts -> Nat]
  BY DEF TypeOK
<1>1. EligibleNow(H) \in Nat
  BY WindowType
<1>2. b # <<>> => U[b[1]].prio \in Buckets
  BY DEF URLRecords
<1>3. ready' \subseteq Hosts /\ readyAt' \in [Hosts -> Buckets]
  BY <1>0, <1>2 DEF Place
<1>4. wait' \subseteq Hosts /\ waitUntil' \in [Hosts -> Nat]
  BY <1>0, <1>1 DEF Place
<1> QED BY <1>3, <1>4

\* The keys of a queue of URLs, and its filtered form.
LEMMA KeptType ==
  ASSUME NEW b \in Seq(URLs), NEW D, NEW k \in Kept(b, D)
  PROVE  k \in Seq(URLs)
<1>1. KeysOf(b) \ D \in SUBSET URLs
  BY DEF KeysOf
<1>2. k \in Lines(KeysOf(b) \ D)
  BY DEF Kept
<1>3. k \in Seq(KeysOf(b) \ D)
  BY <1>1, <1>2, SomeURLs, LineSeq
<1> QED BY <1>1, <1>3

LEMMA RobotsHostType ==
  ASSUME now \in Nat, NEW H \in HostEntries, NEW resp, NEW deny \in SUBSET URLs, NEW delay \in Nat
  PROVE  RobotsHost(H, resp, deny, delay) \in HostEntries
<1>1. ASSUME NEW a \in SUBSET URLs, NEW b \in Nat, NEW c \in Nat
      PROVE  [H EXCEPT !.robots = "ready", !.deny = a, !.delay = b, !.robotsExp = c]
                \in HostEntries
  BY DEF HostEntries
<1>2. (IF resp = "2xx" THEN MaxOf(H.delay, delay) ELSE H.delay) \in Nat
  BY DEF HostEntries, MaxOf
<1>3. Hours(now) + (IF resp = "err" THEN 1 ELSE RobotsTTL) \in Nat
  BY HoursType, Bounds
<1>4. (IF resp = "2xx" THEN deny ELSE {}) \in SUBSET URLs
  OBVIOUS
<1> QED BY <1>1, <1>2, <1>3, <1>4 DEF RobotsHost

LEMMA ApplyRobotsType ==
  ASSUME TypeOK, NEW h \in Hosts, NEW resp, NEW deny \in SUBSET URLs, NEW delay \in Nat,
         ApplyRobots(h, resp, deny, delay)
  PROVE  TypeOK'
<1> DEFINE H == RobotsHost(hosts[h], resp, deny, delay)
           U == [u \in URLs |-> IF u \in KeysOf(back[h]) \cap H.deny
                                THEN [urls[u] EXCEPT !.status = "ExcludedRobots"]
                                ELSE urls[u]]
<1>0. H \in HostEntries
  BY RobotsHostType DEF TypeOK
<1>1. U \in [URLs -> URLRecords]
  <2>1. \A u \in URLs : urls[u] \in URLRecords
    BY DEF TypeOK
  <2>2. \A u \in URLs : [urls[u] EXCEPT !.status = "ExcludedRobots"] \in URLRecords
    BY <2>1, RecordType DEF Statuses
  <2> QED BY <2>1, <2>2
<1>2. PICK b \in Kept(back[h], H.deny) :
         back' = [back EXCEPT ![h] = b] /\ Place(h, H, b, U)
  BY DEF ApplyRobots
<1>3. b \in Seq(URLs)
  BY KeptType DEF TypeOK
<1>4. /\ ready' \subseteq Hosts /\ readyAt' \in [Hosts -> Buckets]
      /\ wait' \subseteq Hosts /\ waitUntil' \in [Hosts -> Nat]
  BY <1>0, <1>1, <1>2, <1>3, PlaceType
<1>5. urls' \in [URLs -> URLRecords] /\ hosts' \in [Hosts -> HostEntries]
      /\ back' \in [Hosts -> Seq(URLs)]
  BY <1>0, <1>1, <1>2, <1>3 DEF ApplyRobots, TypeOK
<1>6. inFlight' \subseteq Hosts /\ flying' \subseteq Hosts \X (URLs \cup {Robots})
  BY DEF ApplyRobots, TypeOK
<1>7. UNCHANGED <<now, front, filed, frontAge, sinceSweep, active, activeN, ipNext,
                  wheel, wheelDue, cursor, disk, restarts>>
  BY DEF ApplyRobots, wheelVars
<1> QED BY <1>4, <1>5, <1>6, <1>7 DEF TypeOK

\* Popping the reported key, and putting it back at the end.
LEMMA QueueType ==
  ASSUME TypeOK, NEW h \in Hosts, NEW u \in URLs
  PROVE  Unqueued(h, u) \in Seq(URLs) /\ Requeued(h, u) \in Seq(URLs)
<1>1. back[h] \in Seq(URLs)
  BY DEF TypeOK
<1>2. Unqueued(h, u) \in Seq(URLs)
  BY <1>1 DEF Unqueued
<1> QED BY <1>2 DEF Requeued

LEMMA ResumeType ==
  ASSUME TypeOK, NEW h \in Hosts, NEW b \in Seq(URLs), NEW U \in [URLs -> URLRecords],
         NEW sig, Resume(h, b, U, sig)
  PROVE  /\ back' \in [Hosts -> Seq(URLs)] /\ inFlight' \subseteq Hosts
         /\ hosts' \in [Hosts -> HostEntries]
         /\ active' \subseteq Hosts /\ activeN' \in Int
         /\ ready' \subseteq Hosts /\ readyAt' \in [Hosts -> Buckets]
         /\ wait' \subseteq Hosts /\ waitUntil' \in [Hosts -> Nat]
<1>1. PICK H \in Adapted(hosts[h], sig) :
        /\ hosts' = [hosts EXCEPT ![h] = H]
        /\ IF Drained(b)
           THEN /\ active' = active \ {h} /\ activeN' = activeN - 1
                /\ UNCHANGED <<ready, readyAt, wait, waitUntil>>
           ELSE Place(h, H, b, U) /\ UNCHANGED <<active, activeN>>
  BY DEF Resume
<1>2. H \in HostEntries
  BY AdaptedType DEF TypeOK
<1>3. back' \in [Hosts -> Seq(URLs)] /\ inFlight' \subseteq Hosts
  BY DEF Resume, TypeOK
<1>4. hosts' \in [Hosts -> HostEntries] /\ active' \subseteq Hosts /\ activeN' \in Int
  BY <1>1, <1>2 DEF TypeOK
<1>5. /\ ready' \subseteq Hosts /\ readyAt' \in [Hosts -> Buckets]
      /\ wait' \subseteq Hosts /\ waitUntil' \in [Hosts -> Nat]
  <2>1. CASE Drained(b)
    BY <1>1, <2>1 DEF TypeOK
  <2>2. CASE ~Drained(b)
    BY <1>1, <1>2, <2>2, PlaceType
  <2> QED BY <2>1, <2>2
<1> QED BY <1>3, <1>4, <1>5

\* A crawled record.
LEMMA MarkedType ==
  ASSUME NEW U \in [URLs -> URLRecords], NEW u \in URLs, NEW soft, NEW due \in Nat, NEW at \in Nat
  PROVE  Marked(U, u, soft, due, at) \in [URLs -> URLRecords]
<1>1. (IF FreshOn THEN "DueRecrawl" ELSE IF soft THEN "Gone" ELSE "Crawled") \in Statuses
  BY DEF Statuses
<1>2. (IF U[u].born = 0 THEN at ELSE U[u].born) \in Nat /\ U[u].prio \in Buckets
  BY DEF URLRecords
<1>3. (IF FreshOn THEN due ELSE at + RecrawlGap) \in Nat
  BY Bounds
<1>4. ASSUME NEW st \in Statuses, NEW p \in Buckets, NEW d \in Nat, NEW b \in Nat
      PROVE  [status |-> st, prio |-> p, due |-> d, retry |-> 0, born |-> b] \in URLRecords
  BY Bounds DEF URLRecords
<1> QED BY <1>1, <1>2, <1>3, <1>4 DEF Marked

\* A failed record.
LEMMA FailedType ==
  ASSUME NEW rec \in URLRecords, NEW r \in 0..MaxRetries, NEW gone \in BOOLEAN, NEW at \in Nat
  PROVE  FailedURL(rec, r, gone, at) \in URLRecords
<1>1. RetryBackoff(r) \in Nat
  BY Bounds DEF RetryBackoff
<1>2. rec.due \in Nat
  BY DEF URLRecords
<1>3. (IF gone THEN rec.due ELSE at + RetryBackoff(r)) \in Nat
  BY <1>1, <1>2
<1>4. (IF gone THEN "Gone" ELSE "Scheduled") \in Statuses
  BY DEF Statuses
<1>5. ASSUME NEW st \in Statuses, NEW d \in Nat
      PROVE  [rec EXCEPT !.status = st, !.retry = r, !.due = d] \in URLRecords
  BY DEF URLRecords
<1> DEFINE st == IF gone THEN "Gone" ELSE "Scheduled"
           d  == IF gone THEN rec.due ELSE at + RetryBackoff(r)
<1>6. FailedURL(rec, r, gone, at) = [rec EXCEPT !.status = st, !.retry = r, !.due = d]
  BY DEF FailedURL, URLRecords
<1>7. st \in Statuses /\ d \in Nat
  BY <1>3, <1>4
<1> HIDE DEF st, d
<1> QED BY <1>5, <1>6, <1>7

\* A crawl outcome whose URL has its host and whose prices are buckets.
LEMMA ReportCrawledType ==
  ASSUME TypeOK, NEW u \in URLs, NEW soft, NEW due \in Nat, NEW at \in Nat, NEW target,
         NEW links, NEW admit, NEW p, NEW sig,
         \A v \in URLs \cap (target \cup links) : p[v] \in Buckets,
         links # {} => p[u] \in Buckets,
         ReportCrawled(u, soft, due, at, target, links, admit, p, sig)
  PROVE  TypeOK'
<1> DEFINE h == HostOf[u]
           M == Marked(urls, u, soft, due, at)
           T == DiscoverURLs(M, target \cup links, admit, p)
           U == IF links # {} THEN [T EXCEPT ![u].prio = p[u]] ELSE T
<1>0. h \in Hosts
  BY KeyAssumption
<1>1. M \in [URLs -> URLRecords]
  BY MarkedType DEF TypeOK
<1>2. T \in [URLs -> URLRecords]
  BY <1>1, DiscoverType DEF TypeOK
<1>3. U \in [URLs -> URLRecords]
  <2> HIDE DEF T
  <2>1. links # {} => [T[u] EXCEPT !.prio = p[u]] \in URLRecords
    BY <1>2, RecordType
  <2>2. [T EXCEPT ![u].prio = p[u]] = [T EXCEPT ![u] = [T[u] EXCEPT !.prio = p[u]]]
    BY <1>2
  <2> QED BY <1>2, <2>1, <2>2
<1>4. Enter(U) /\ urls' = U /\ Resume(h, Unqueued(h, u), U, sig) /\ Landed(u)
  BY DEF ReportCrawled
<1> HIDE DEF M, T, U, h
<1>5. /\ front' \subseteq URLs /\ filed' \in [URLs -> Buckets]
      /\ frontAge' \in Seq([key : URLs, at : Nat])
  BY <1>3, <1>4, EnterType
<1>6. Unqueued(h, u) \in Seq(URLs)
  BY <1>0, QueueType
<1>7. /\ back' \in [Hosts -> Seq(URLs)] /\ inFlight' \subseteq Hosts
      /\ hosts' \in [Hosts -> HostEntries]
      /\ active' \subseteq Hosts /\ activeN' \in Int
      /\ ready' \subseteq Hosts /\ readyAt' \in [Hosts -> Buckets]
      /\ wait' \subseteq Hosts /\ waitUntil' \in [Hosts -> Nat]
  BY <1>0, <1>3, <1>4, <1>6, ResumeType
<1>8. wheel' \subseteq URLs /\ wheelDue' \in [URLs -> Nat] /\ cursor' \in Nat
  <2>1. U[u].due \in Nat
    BY <1>3 DEF URLRecords
  <2>2. cursor \in Nat /\ wheel \subseteq URLs /\ wheelDue \in [URLs -> Nat]
    BY DEF TypeOK
  <2>3. MaxOf(U[u].due, cursor) \in Nat
    BY <2>1, <2>2 DEF MaxOf
  <2>4. /\ IF WheelOn /\ U[u].status = "Crawled"
           THEN /\ wheel' = wheel \cup {u}
                /\ wheelDue' = [wheelDue EXCEPT ![u] = MaxOf(U[u].due, cursor)]
           ELSE UNCHANGED <<wheel, wheelDue>>
        /\ UNCHANGED cursor
    BY DEF ReportCrawled, U, T, M
  <2> QED BY <2>2, <2>3, <2>4
<1>9. flying' \subseteq Hosts \X (URLs \cup {Robots})
      /\ UNCHANGED <<now, sinceSweep, ipNext, disk, restarts>>
  BY <1>4 DEF Landed, TypeOK
<1>10. urls' \in [URLs -> URLRecords]
  BY <1>3, <1>4
<1> QED BY <1>5, <1>7, <1>8, <1>9, <1>10 DEF TypeOK

LEMMA ReportFailedType ==
  ASSUME TypeOK, NEW u \in URLs, NEW is410 \in BOOLEAN, NEW at \in Nat, NEW sig,
         ReportFailed(u, is410, at, sig)
  PROVE  TypeOK'
<1> DEFINE h == HostOf[u]
           r == MinOf(urls[u].retry + 1, MaxRetries)
           gone == is410 \/ r >= MaxRetries
           U == [urls EXCEPT ![u] = FailedURL(urls[u], r, gone, at)]
           b == IF gone THEN Unqueued(h, u) ELSE Requeued(h, u)
<1>0. h \in Hosts /\ urls \in [URLs -> URLRecords]
  BY KeyAssumption DEF TypeOK
<1>1. r \in 0..MaxRetries
  BY <1>0, Bounds DEF URLRecords, MinOf
<1>2. urls' = U /\ Resume(h, b, U, sig) /\ Landed(u)
  BY <1>0 DEF ReportFailed
<1>3. UNCHANGED <<front, filed, frontAge, wheel, wheelDue, cursor>>
  BY DEF ReportFailed, wheelVars
<1>4. gone \in BOOLEAN
  OBVIOUS
<1> HIDE DEF r, gone, h
<1>5. U \in [URLs -> URLRecords]
  BY <1>0, <1>1, <1>4, FailedType
<1>6. b \in Seq(URLs)
  BY <1>0, QueueType
<1> HIDE DEF U, b
<1>7. /\ back' \in [Hosts -> Seq(URLs)] /\ inFlight' \subseteq Hosts
      /\ hosts' \in [Hosts -> HostEntries]
      /\ active' \subseteq Hosts /\ activeN' \in Int
      /\ ready' \subseteq Hosts /\ readyAt' \in [Hosts -> Buckets]
      /\ wait' \subseteq Hosts /\ waitUntil' \in [Hosts -> Nat]
  BY <1>0, <1>2, <1>5, <1>6, ResumeType
<1>8. flying' \subseteq Hosts \X (URLs \cup {Robots})
      /\ UNCHANGED <<now, sinceSweep, ipNext, disk, restarts>>
  BY <1>2 DEF Landed, TypeOK
<1> QED BY <1>2, <1>3, <1>5, <1>7, <1>8 DEF TypeOK

LEMMA CheckpointType == TypeOK /\ Checkpoint => TypeOK'
  BY DEF TypeOK, Checkpoint, urlVars, poolVars, wheelVars

\* The clock moves on, by a tick or by a sleep, and nothing else changes.
Later ==
  /\ now' \in Nat /\ now' >= now
  /\ UNCHANGED <<urlVars, hosts, sinceSweep, back, poolVars, ipNext, wheelVars, flying,
                 disk, restarts>>

LEMMA LaterType == TypeOK /\ Later => TypeOK'
  BY DEF TypeOK, Later, urlVars, poolVars, wheelVars

LEMMA RecoverType == TypeOK /\ Recover => TypeOK'
<1> SUFFICES ASSUME TypeOK, Recover PROVE TypeOK'
  OBVIOUS
<1> DEFINE U == [u \in URLs |-> RecoveredURL(disk.urls[u])]
           S == {u \in URLs : U[u].status \in Queueable}
           W == {u \in URLs : WheelOn /\ U[u].status = "Crawled" /\ U[u].due > 0}
<1>1. U \in [URLs -> URLRecords]
  <2>1. \A u \in URLs : disk.urls[u] \in URLRecords
    BY DEF TypeOK
  <2>2. \A u \in URLs : RecoveredURL(disk.urls[u]) \in URLRecords
    BY <2>1 DEF RecoveredURL, URLRecords, Statuses
  <2> QED BY <2>2
<1>2. \A h \in Hosts : RecoveredHost(disk.hosts[h]) \in HostEntries
  <2>1. \A h \in Hosts : disk.hosts[h] \in HostEntries
    BY DEF TypeOK
  <2>2. ASSUME NEW H \in HostEntries PROVE RecoveredHost(H) \in HostEntries
    <3>1. ASSUME NEW g \in Nat, g >= MinGap, NEW D \in SUBSET URLs
          PROVE  [H EXCEPT !.gap = g, !.robots = "none", !.deny = D] \in HostEntries
      BY <3>1 DEF HostEntries
    <3>2. MinGap \in Nat /\ MinGap >= MinGap /\ {} \in SUBSET URLs
      BY Bounds
    <3> QED BY <3>1, <3>2 DEF RecoveredHost
  <2> QED BY <2>1, <2>2
<1>3. /\ urls' = U /\ front' = S
      /\ hosts' = [h \in Hosts |-> RecoveredHost(disk.hosts[h])]
      /\ filed' = [u \in URLs |-> IF u \in S THEN U[u].prio ELSE 0]
      /\ \E q \in PushOrders(S) :
           frontAge' = [i \in DOMAIN q |-> [key |-> q[i], at |-> U[q[i]].born]]
      /\ wheel' = W
      /\ wheelDue' = [u \in URLs |-> IF u \in W THEN U[u].due ELSE 0]
  BY DEF Recover
<1> HIDE DEF U
<1>4. \A u \in URLs : U[u].prio \in Buckets /\ U[u].due \in Nat /\ U[u].born \in Nat
  BY <1>1 DEF URLRecords
<1>5. 0 \in Buckets
  BY Bounds DEF Buckets
<1>6. frontAge' \in Seq([key : URLs, at : Nat])
  <2>1. PICK q \in PushOrders(S) :
          frontAge' = [i \in DOMAIN q |-> [key |-> q[i], at |-> U[q[i]].born]]
    BY <1>3
  <2>2. q \in Seq(URLs)
    BY PushOrderSeq
  <2>3. DOMAIN q = 1..Len(q) /\ Len(q) \in Nat /\ \A i \in DOMAIN q : q[i] \in URLs
    BY <2>2
  <2>4. frontAge' \in [1..Len(q) -> [key : URLs, at : Nat]]
    BY <1>4, <2>1, <2>3
  <2> QED BY <2>3, <2>4, FunSeq
<1>7. /\ urls' \in [URLs -> URLRecords] /\ hosts' \in [Hosts -> HostEntries]
      /\ front' \subseteq URLs /\ filed' \in [URLs -> Buckets]
      /\ wheel' \subseteq URLs /\ wheelDue' \in [URLs -> Nat]
  BY <1>1, <1>2, <1>3, <1>4, <1>5
<1>8. /\ sinceSweep' = 0 /\ back' = [h \in Hosts |-> <<>>]
      /\ active' = {} /\ activeN' = 0 /\ inFlight' = {}
      /\ ready' = {} /\ readyAt' = [h \in Hosts |-> 0]
      /\ wait' = {} /\ waitUntil' = [h \in Hosts |-> 0]
      /\ ipNext' = [i \in IPs |-> 0] /\ cursor' = 0 /\ flying' = {}
      /\ now' = now /\ disk' = disk /\ restarts' = restarts + 1
  BY DEF Recover
<1> QED BY <1>5, <1>6, <1>7, <1>8 DEF TypeOK

\* What distribute binds to a host is a queue of URLs, and not an empty one for
\* a host it activates.
LEMMA BindingType ==
  ASSUME TypeOK, NEW ord, NEW n \in Nat, NEW add \in Bindings(ord, n), NEW h \in Hosts
  PROVE  /\ add[h] \in Seq(URLs)
         /\ BoundBack(add)[h] = back[h] \o add[h]
         /\ BoundBack(add)[h] \in Seq(URLs)
         /\ back[h] # <<>> => BoundBack(add)[h] # <<>> /\ BoundBack(add)[h][1] = back[h][1]
<1>1. BoundTo(h, ord, n) \in SUBSET URLs
  BY DEF BoundTo
<1>2. add[h] \in Lines(BoundTo(h, ord, n))
  BY DEF Bindings
<1>3. add[h] \in Seq(BoundTo(h, ord, n))
  BY <1>1, <1>2, SomeURLs, LineSeq
<1>4. add[h] \in Seq(URLs)
  BY <1>1, <1>3
<1>5. back[h] \in Seq(URLs) /\ BoundBack(add)[h] = back[h] \o add[h]
  BY DEF TypeOK, BoundBack
<1>6. BoundBack(add)[h] \in Seq(URLs)
  BY <1>4, <1>5
<1>7. back[h] # <<>> => BoundBack(add)[h] # <<>> /\ BoundBack(add)[h][1] = back[h][1]
  BY <1>4, <1>5, ConcatFirst
<1> QED BY <1>4, <1>5, <1>6, <1>7

LEMMA ActivatedBinds ==
  ASSUME TypeOK, NEW F \in SUBSET URLs, NEW ord \in Lines(F), NEW n \in 0..Cardinality(F),
         NEW add \in Bindings(ord, n), NEW h \in Activated(ord, n)
  PROVE  h \in Hosts /\ BoundBack(add)[h] # <<>>
<1>0. IsFiniteSet(F) /\ Cardinality(F) \in Nat
  BY SomeURLs, FS_CardinalityType
<1>1. PICK i \in 1..n : HostOf[ord[i]] = h /\ ~Disallowed(ord[i])
  BY DEF Activated
<1>2. ord \in [1..Cardinality(F) -> F]
  BY DEF Lines
<1>3. ord[i] \in URLs
  BY <1>0, <1>1, <1>2
<1>4. h \in Hosts
  BY <1>1, <1>3, KeyAssumption
<1>5. ord[i] \in BoundTo(h, ord, n)
  BY <1>1, <1>3 DEF BoundTo
<1>6. add[h] \in Lines(BoundTo(h, ord, n))
  BY <1>4 DEF Bindings
<1>7. add[h] # <<>>
  <2>1. BoundTo(h, ord, n) \in SUBSET URLs
    BY DEF BoundTo
  <2> QED BY <1>5, <1>6, <2>1, SomeURLs, LineSeq
<1>8. add[h] \in Seq(URLs) /\ BoundBack(add)[h] = back[h] \o add[h] /\ back[h] \in Seq(URLs)
  <2>1. n \in Nat
    BY <1>0
  <2>2. back[h] \in Seq(URLs)
    BY <1>4 DEF TypeOK
  <2> QED BY <1>4, <2>1, <2>2, BindingType
<1>9. BoundBack(add)[h] # <<>>
  BY <1>7, <1>8, ConcatFirst
<1> QED BY <1>4, <1>9

\* The tables the promotions leave.
LEMMA PromotedType ==
  ASSUME TypeOK, NEW q \in PushOrders(Revived)
  PROVE  /\ Revived \in SUBSET URLs /\ DueFront \in SUBSET URLs
         /\ DueAge(q) \in Seq([key : URLs, at : Nat])
         /\ SweptURLs(DueAge(q)) \in [URLs -> URLRecords]
         /\ SweptFile(DueAge(q)) \in [URLs -> Buckets]
<1>0. /\ urls \in [URLs -> URLRecords] /\ filed \in [URLs -> Buckets] /\ now \in Nat
      /\ frontAge \in Seq([key : URLs, at : Nat]) /\ front \subseteq URLs /\ wheel \subseteq URLs
  BY DEF TypeOK
<1>1. Revived \in SUBSET URLs
  BY <1>0 DEF Revived, Fired
<1>2. DueFront \in SUBSET URLs
  BY <1>0, <1>1 DEF DueFront
<1>3. DueAge(q) \in Seq([key : URLs, at : Nat])
  <2>1. q \in Seq(URLs)
    BY <1>1, PushOrderSeq
  <2> QED BY <1>0, <2>1, HoursType, AgeSeqNow DEF DueAge
<1>4. DueURLs \in [URLs -> URLRecords]
  <2>1. \A u \in URLs : [urls[u] EXCEPT !.status = "DueRecrawl"] \in URLRecords
    BY <1>0, RecordType DEF Statuses
  <2> QED BY <1>0, <2>1 DEF DueURLs
<1>5. DueFiled \in [URLs -> Buckets]
  BY <1>0 DEF DueFiled, URLRecords
<1>6. Levels \in Buckets
  BY Bounds DEF Buckets
<1>7. SweptFile(DueAge(q)) \in [URLs -> Buckets]
  BY <1>5, <1>6 DEF SweptFile
<1>8. SweptURLs(DueAge(q)) \in [URLs -> URLRecords]
  <2>1. \A u \in URLs : [DueURLs[u] EXCEPT !.prio = Levels] \in URLRecords
    BY <1>4, <1>6, RecordType
  <2> QED BY <1>4, <2>1 DEF SweptURLs
<1> QED BY <1>1, <1>2, <1>3, <1>7, <1>8

\* A dispatch with its choices: distribute stops where it must, at most one host
\* goes out, none that the loop parked again, and only one whose windows are open;
\* when none does, every ready host was parked again.
Chosen(q, ord, n, add, ans, G, pick) ==
  /\ StopsAt(ord, n)
  /\ \A h, g \in pick : h = g
  /\ G \cap pick = {}
  /\ \A h \in pick : ~(EligibleNow(Resolved(h, ans)) > now)
  /\ pick = {} => G = ReadyPool(ord, n)
  /\ Dispatched(q, ord, n, add, ans, G, pick)

\* The choices of a dispatch, with their ranges.
LEMMA DispatchChoices ==
  ASSUME TypeOK, NEW s, DispatchShard(s)
  PROVE  \E q \in PushOrders(Revived), ord \in Lines(DueFront),
            n \in 0..Cardinality(DueFront) :
           \E add \in Bindings(ord, n) :
             \E ans \in Lookups(ReadyPool(ord, n)), G \in SUBSET ReadyPool(ord, n),
                pick \in SUBSET ReadyPool(ord, n) :
               Chosen(q, ord, n, add, ans, G, pick)
<1>0. PICK q \in PushOrders(Revived) :
        \E ord \in PopOrders(DueFront, SweptFile(DueAge(q))),
           n \in 0..Cardinality(DueFront) :
           /\ StopsAt(ord, n)
           /\ \E add \in Bindings(ord, n) :
                LET R   == ReadyPool(ord, n)
                    U   == BoundURLs(SweptURLs(DueAge(q)), ord, n)
                    lvl == ReadyLevel(U, BoundBack(add), ord, n)
                IN \E ans \in Lookups(R), G \in SUBSET R, pick \in {{}} \cup {{h} : h \in R} :
                     /\ PopLoop(s, R, lvl, ans, G, pick)
                     /\ Dispatched(q, ord, n, add, ans, G, pick)
  BY DEF DispatchShard
<1>1. PICK ord \in PopOrders(DueFront, SweptFile(DueAge(q))),
           n \in 0..Cardinality(DueFront) :
        /\ StopsAt(ord, n)
        /\ \E add \in Bindings(ord, n) :
          LET R   == ReadyPool(ord, n)
              U   == BoundURLs(SweptURLs(DueAge(q)), ord, n)
              lvl == ReadyLevel(U, BoundBack(add), ord, n)
          IN \E ans \in Lookups(R), G \in SUBSET R, pick \in {{}} \cup {{h} : h \in R} :
               /\ PopLoop(s, R, lvl, ans, G, pick)
               /\ Dispatched(q, ord, n, add, ans, G, pick)
  BY <1>0
<1>2. PICK add \in Bindings(ord, n),
           ans \in Lookups(ReadyPool(ord, n)), G \in SUBSET ReadyPool(ord, n),
           pick \in {{}} \cup {{h} : h \in ReadyPool(ord, n)} :
        /\ PopLoop(s, ReadyPool(ord, n),
                   ReadyLevel(BoundURLs(SweptURLs(DueAge(q)), ord, n), BoundBack(add), ord, n),
                   ans, G, pick)
        /\ Dispatched(q, ord, n, add, ans, G, pick)
  BY <1>1
<1>3. ord \in Lines(DueFront)
  BY DEF PopOrders
<1>4. pick \in SUBSET ReadyPool(ord, n) /\ \A h, g \in pick : h = g
  OBVIOUS
<1>5. G \cap pick = {}
  BY <1>2 DEF PopLoop
<1>6. \A h \in pick : ~(EligibleNow(Resolved(h, ans)) > now)
  BY <1>2 DEF PopLoop
<1>7. pick = {} => G = ReadyPool(ord, n)
  BY <1>2 DEF PopLoop
<1>8. Chosen(q, ord, n, add, ans, G, pick)
  BY <1>1, <1>2, <1>4, <1>5, <1>6, <1>7 DEF Chosen
<1> QED BY <1>3, <1>4, <1>8

\* Every host the pop loop may meet is a host with a URL queued.
LEMMA ReadyPoolFacts ==
  ASSUME TypeOK, PoolsDisjoint, NEW ord \in Lines(DueFront), DueFront \in SUBSET URLs,
         NEW n \in 0..Cardinality(DueFront), NEW add \in Bindings(ord, n)
  PROVE  /\ Activated(ord, n) \in SUBSET Hosts
         /\ ReadyPool(ord, n) \in SUBSET Hosts
         /\ \A h \in Activated(ord, n) \cup ReadyPool(ord, n) :
              BoundBack(add)[h] \in Seq(URLs) /\ BoundBack(add)[h] # <<>>
         /\ n \in Nat
<1>0. n \in Nat
  <2>1. IsFiniteSet(DueFront)
    BY SomeURLs
  <2>2. Cardinality(DueFront) \in Nat
    BY <2>1, FS_CardinalityType
  <2> QED BY <2>2
<1>1. \A h \in Activated(ord, n) : h \in Hosts /\ BoundBack(add)[h] # <<>>
  BY ActivatedBinds
<1>2. \A h \in Hosts : /\ BoundBack(add)[h] \in Seq(URLs)
                       /\ back[h] # <<>> => BoundBack(add)[h] # <<>>
  <2> TAKE h \in Hosts
  <2> QED BY <1>0, BindingType
<1>3. ready \subseteq Hosts /\ wait \subseteq Hosts
  BY DEF TypeOK
<1>4. \A h \in ready : back[h] # <<>>
  BY DEF PoolsDisjoint
<1>5. \A h \in Opened : h \in Hosts /\ back[h] # <<>>
  BY <1>3 DEF Opened, Popped
<1>6. \A h \in ReadyPool(ord, n) : h \in ready \/ h \in Opened \/ h \in Activated(ord, n)
  BY DEF ReadyPool, Placed
<1>7. ReadyPool(ord, n) \in SUBSET Hosts
  BY <1>1, <1>3, <1>5, <1>6
<1> QED BY <1>0, <1>1, <1>2, <1>3, <1>4, <1>5, <1>6, <1>7

LEMMA DispatchType ==
  ASSUME TypeOK, PoolsDisjoint, NEW s, DispatchShard(s)
  PROVE  TypeOK'
<1>1. PICK q \in PushOrders(Revived), ord \in Lines(DueFront),
           n \in 0..Cardinality(DueFront) :
        \E add \in Bindings(ord, n) :
          \E ans \in Lookups(ReadyPool(ord, n)), G \in SUBSET ReadyPool(ord, n),
             pick \in SUBSET ReadyPool(ord, n) :
            Chosen(q, ord, n, add, ans, G, pick)
  BY DispatchChoices
<1>2. PICK add \in Bindings(ord, n) :
          \E ans \in Lookups(ReadyPool(ord, n)), G \in SUBSET ReadyPool(ord, n),
             pick \in SUBSET ReadyPool(ord, n) :
            Chosen(q, ord, n, add, ans, G, pick)
  BY <1>1
<1>3. PICK ans \in Lookups(ReadyPool(ord, n)), G \in SUBSET ReadyPool(ord, n),
           pick \in SUBSET ReadyPool(ord, n) :
         Chosen(q, ord, n, add, ans, G, pick)
  BY <1>2
<1> DEFINE age == DueAge(q)
           b   == BoundBack(add)
           U   == BoundURLs(SweptURLs(age), ord, n)
           R   == ReadyPool(ord, n)
           lvl == ReadyLevel(U, b, ord, n)
           dial   == Dialled(G \cup pick, ans)
           robots == {h \in pick : NeedsRobots(hosts[h])}
<1>4. /\ Revived \in SUBSET URLs /\ DueFront \in SUBSET URLs
      /\ age \in Seq([key : URLs, at : Nat])
      /\ SweptURLs(age) \in [URLs -> URLRecords] /\ SweptFile(age) \in [URLs -> Buckets]
  BY PromotedType
<1>5. /\ Activated(ord, n) \in SUBSET Hosts /\ R \in SUBSET Hosts
      /\ \A h \in Activated(ord, n) \cup R : b[h] \in Seq(URLs) /\ b[h] # <<>>
      /\ n \in Nat
  BY <1>4, ReadyPoolFacts
<1>6. U \in [URLs -> URLRecords]
  <2>1. \A u \in URLs : [SweptURLs(age)[u] EXCEPT !.status = "ExcludedRobots"] \in URLRecords
    BY <1>4, RecordType DEF Statuses
  <2> QED BY <1>4, <2>1 DEF BoundURLs
<1>7. \A h \in Hosts : dial[h] \in HostEntries
  <2>1. \A h \in G \cup pick : h \in Hosts /\ Resolved(h, ans) \in HostEntries
    BY <1>5, ResolvedType
  <2>2. \A h \in Hosts : hosts[h] \in HostEntries
    BY DEF TypeOK
  <2> QED BY <2>1, <2>2 DEF Dialled
<1>8. \A h \in Activated(ord, n) \cup R : b[h][1] \in URLs
  BY <1>5
<1>9. 0 \in Buckets
  BY Bounds DEF Buckets
<1>10. urls' \in [URLs -> URLRecords]
  <2>1. urls' = [u \in URLs |-> IF \E h \in pick \ robots : b[h][1] = u
                                THEN [U[u] EXCEPT !.status = "InFlight"] ELSE U[u]]
    BY <1>3 DEF Chosen, Dispatched
  <2>2. \A u \in URLs : [U[u] EXCEPT !.status = "InFlight"] \in URLRecords
    BY <1>6, RecordType DEF Statuses
  <2> HIDE DEF U
  <2> QED BY <1>6, <2>1, <2>2
<1>11. hosts' \in [Hosts -> HostEntries]
  <2>1. hosts' = [h \in Hosts |->
                    IF h \in robots THEN [SpendHost(dial[h]) EXCEPT !.robots = "pending"]
                    ELSE IF h \in pick THEN SpendHost(dial[h]) ELSE dial[h]]
    BY <1>3 DEF Chosen, Dispatched
  <2>2. \A h \in Hosts : SpendHost(dial[h]) \in HostEntries
    BY <1>7, WindowType
  <2>3. ASSUME NEW H \in HostEntries PROVE [H EXCEPT !.robots = "pending"] \in HostEntries
    BY DEF HostEntries
  <2> HIDE DEF dial, robots
  <2> QED BY <1>7, <2>1, <2>2, <2>3
<1>12. ipNext' \in [IPs -> Nat]
  <2>1. ipNext' = [i \in IPs |-> IF \E h \in pick : dial[h].ip = i
                                 THEN IPWindow(dial[CHOOSE h \in pick : TRUE])
                                 ELSE ipNext[i]]
    BY <1>3 DEF Chosen, Dispatched
  <2>2. \A h \in pick : IPWindow(dial[CHOOSE g \in pick : TRUE]) \in Nat
    <3>1. pick # {} => (CHOOSE g \in pick : TRUE) \in Hosts
      BY <1>5
    <3> QED BY <1>7, <3>1, WindowType
  <2>3. ipNext \in [IPs -> Nat]
    BY DEF TypeOK
  <2> HIDE DEF dial
  <2> QED BY <2>1, <2>2, <2>3
<1>13. front' \subseteq URLs /\ filed' \in [URLs -> Buckets]
  <2>1. /\ front' = DueFront \ BoundKeys(ord, n)
        /\ filed' = [u \in URLs |-> IF u \in BoundKeys(ord, n) THEN 0 ELSE SweptFile(age)[u]]
    BY <1>3 DEF Chosen, Dispatched
  <2> HIDE DEF age
  <2> QED BY <1>4, <1>9, <2>1
<1>14. frontAge' \in Seq([key : URLs, at : Nat])
  <2>1. frontAge' = SubSeq(age, Cardinality(AgedHead(age)) + 1, Len(age))
    BY <1>3 DEF Chosen, Dispatched
  <2>2. AgedHead(age) \subseteq 1..Len(age)
    BY <1>4 DEF AgedHead
  <2>3. Len(age) \in Nat
    BY <1>4
  <2> HIDE DEF age
  <2>4. Cardinality(AgedHead(age)) \in Nat
    <3>1. IsFiniteSet(1..Len(age))
      BY <2>3, FS_Interval
    <3>2. IsFiniteSet(AgedHead(age))
      BY <2>2, <3>1, FS_Subset
    <3> QED BY <3>2, FS_CardinalityType
  <2> QED BY <1>4, <2>1, <2>4, SuffixSeq
<1>15. sinceSweep' \in Nat
  BY <1>3 DEF Chosen, Dispatched, TypeOK
<1>16. back' \in [Hosts -> Seq(URLs)]
  <2>1. back' = b
    BY <1>3 DEF Chosen, Dispatched
  <2>2. \A h \in Hosts : b[h] \in Seq(URLs)
    BY <1>5, BindingType
  <2> QED BY <2>1, <2>2 DEF BoundBack
<1>17. active' \subseteq Hosts /\ activeN' \in Int /\ inFlight' \subseteq Hosts
  <2>1. Cardinality(Activated(ord, n)) \in Nat
    BY <1>5, FiniteAssumption, FS_Subset, FS_CardinalityType
  <2>2. /\ active' = active \cup Activated(ord, n)
        /\ activeN' = activeN + Cardinality(Activated(ord, n))
        /\ inFlight' = inFlight \cup pick
    BY <1>3 DEF Chosen, Dispatched
  <2> QED BY <1>5, <2>1, <2>2 DEF TypeOK
<1>18. ready' \subseteq Hosts /\ readyAt' \in [Hosts -> Buckets]
  <2>1. /\ ready' = ReadyLeft(R, G, pick)
        /\ readyAt' = [h \in Hosts |-> IF h \in ReadyLeft(R, G, pick) THEN lvl[h] ELSE 0]
    BY <1>3 DEF Chosen, Dispatched
  <2>2. \A h \in Hosts : lvl[h] \in Buckets
    <3>1. \A h \in Placed(ord, n) : U[b[h][1]].prio \in Buckets
      BY <1>6, <1>8 DEF Placed, URLRecords
    <3>2. \A h \in Opened : urls[back[h][1]].prio \in Buckets
      <4>1. \A h \in Opened : back[h] \in Seq(URLs) /\ back[h] # <<>>
        BY DEF Opened, Popped, TypeOK
      <4>2. \A h \in Opened : back[h][1] \in URLs
        BY <4>1
      <4> QED BY <4>2 DEF TypeOK, URLRecords
    <3>3. readyAt \in [Hosts -> Buckets]
      BY DEF TypeOK
    <3> HIDE DEF U, b
    <3> QED BY <3>1, <3>2, <3>3 DEF ReadyLevel
  <2> HIDE DEF lvl
  <2> QED BY <1>5, <1>9, <2>1, <2>2 DEF ReadyLeft
<1>19. wait' \subseteq Hosts /\ waitUntil' \in [Hosts -> Nat]
  <2>1. /\ wait' = WaitPool(ord, n) \cup G
        /\ waitUntil' = [h \in Hosts |->
                          IF h \in G \cup Reparked \cup Parked(ord, n)
                          THEN EligibleNow(dial[h])
                          ELSE IF h \in WaitPool(ord, n) THEN waitUntil[h] ELSE 0]
    BY <1>3 DEF Chosen, Dispatched
  <2>2. WaitPool(ord, n) \subseteq Hosts
    BY <1>5 DEF WaitPool, StillParked, Reparked, Popped, Parked, TypeOK
  <2>3. \A h \in Hosts : EligibleNow(dial[h]) \in Nat
    BY <1>7, WindowType
  <2>4. waitUntil \in [Hosts -> Nat]
    BY DEF TypeOK
  <2> HIDE DEF dial
  <2> QED BY <1>5, <2>1, <2>2, <2>3, <2>4
<1>20. wheel' \subseteq URLs /\ wheelDue' \in [URLs -> Nat] /\ cursor' \in Nat
  <2>1. /\ wheel' = wheel \ Fired
        /\ wheelDue' = [u \in URLs |-> IF u \in Fired THEN 0 ELSE wheelDue[u]]
        /\ cursor' = IF WheelOn THEN MaxOf(cursor, Hours(now) + 1) ELSE cursor
    BY <1>3 DEF Chosen, Dispatched
  <2>2. Hours(now) \in Nat
    BY HoursType DEF TypeOK
  <2> QED BY <2>1, <2>2 DEF TypeOK, MaxOf
<1>21. flying' \subseteq Hosts \X (URLs \cup {Robots})
  <2>1. flying' = flying \cup {<<h, Robots>> : h \in robots}
                         \cup {<<h, b[h][1]>> : h \in pick \ robots}
    BY <1>3 DEF Chosen, Dispatched
  <2>2. flying \subseteq Hosts \X (URLs \cup {Robots})
    BY DEF TypeOK
  <2>3. \A h \in pick : h \in Hosts /\ b[h][1] \in URLs
    BY <1>5, <1>8
  <2> HIDE DEF b
  <2> QED BY <2>1, <2>2, <2>3
<1>22. UNCHANGED <<now, disk, restarts>>
  BY <1>3 DEF Chosen, Dispatched
<1> HIDE DEF age, b, U, R, lvl, dial, robots
<1> QED
  BY <1>10, <1>11, <1>12, <1>13, <1>14, <1>15, <1>16, <1>17, <1>18, <1>19, <1>20, <1>21,
     <1>22 DEF TypeOK

-----------------------------------------------------------------------------
(* One fetch per host, and the pools. *)

\* The inductive invariant.  A host in flight is kept out of the ready bank and
\* the wait heap, which is what stops a second dispatch of it; that every pooled
\* host has a URL queued is what makes the dispatched key one.
IndInv == TypeOK /\ PoolsDisjoint /\ OneFetchPerHost

\* Nothing the pools are made of moves.
LEMMA PoolsUnchanged ==
  ASSUME PoolsDisjoint, OneFetchPerHost, UNCHANGED <<back, active, inFlight, ready, wait, flying>>
  PROVE  PoolsDisjoint' /\ OneFetchPerHost'
  BY DEF PoolsDisjoint, OneFetchPerHost

\* The wait heap the pop loop finds holds hosts with work, none of them ready.
LEMMA DispatchPools ==
  ASSUME IndInv, NEW s, DispatchShard(s)
  PROVE  PoolsDisjoint' /\ OneFetchPerHost'
<1>0. TypeOK /\ PoolsDisjoint /\ OneFetchPerHost
  BY DEF IndInv
<1>1. PICK q \in PushOrders(Revived), ord \in Lines(DueFront),
           n \in 0..Cardinality(DueFront) :
        \E add \in Bindings(ord, n) :
          \E ans \in Lookups(ReadyPool(ord, n)), G \in SUBSET ReadyPool(ord, n),
             pick \in SUBSET ReadyPool(ord, n) :
            Chosen(q, ord, n, add, ans, G, pick)
  BY <1>0, DispatchChoices
<1>2. PICK add \in Bindings(ord, n) :
          \E ans \in Lookups(ReadyPool(ord, n)), G \in SUBSET ReadyPool(ord, n),
             pick \in SUBSET ReadyPool(ord, n) :
            Chosen(q, ord, n, add, ans, G, pick)
  BY <1>1
<1>3. PICK ans \in Lookups(ReadyPool(ord, n)), G \in SUBSET ReadyPool(ord, n),
           pick \in SUBSET ReadyPool(ord, n) :
        Chosen(q, ord, n, add, ans, G, pick)
  BY <1>2
<1> DEFINE b == BoundBack(add)
           R == ReadyPool(ord, n)
           W == WaitPool(ord, n)
           A == Activated(ord, n)
           robots == {h \in pick : NeedsRobots(hosts[h])}
<1>4. DueFront \in SUBSET URLs
  BY <1>0, PromotedType
<1>5. /\ A \in SUBSET Hosts /\ R \in SUBSET Hosts /\ n \in Nat
      /\ \A h \in A \cup R : b[h] # <<>>
  BY <1>0, <1>4, ReadyPoolFacts
<1>6. \A h \in Hosts : back[h] # <<>> => b[h] # <<>>
  <2> TAKE h \in Hosts
  <2>1. n \in Nat /\ TypeOK
    BY <1>0, <1>5
  <2>2. back[h] # <<>> => BoundBack(add)[h] # <<>>
    BY <2>1, BindingType
  <2> QED BY <2>2
<1>7. A \cap active = {}
  BY DEF Activated
<1>8. /\ ready \cap wait = {} /\ inFlight \cap (ready \cup wait) = {}
      /\ ready \cup wait \cup inFlight \subseteq active
      /\ \A h \in ready \cup wait \cup inFlight : back[h] # <<>>
  BY <1>0 DEF PoolsDisjoint
<1>9. Opened \subseteq wait /\ Reparked \subseteq wait /\ Opened \subseteq Popped
      /\ Reparked \subseteq Popped
  BY DEF Opened, Reparked, Popped
<1>10. \A h \in Hosts : ~(EligibleNow(hosts[h]) <= now /\ EligibleNow(hosts[h]) > now)
  <2> TAKE h \in Hosts
  <2>1. EligibleNow(hosts[h]) \in Nat /\ now \in Nat
    BY <1>0, WindowType DEF TypeOK
  <2> QED BY <2>1
<1>11. Opened \cap Reparked = {} /\ Placed(ord, n) \cap Parked(ord, n) = {}
  BY <1>0, <1>5, <1>10 DEF Opened, Reparked, Popped, Placed, Parked, TypeOK
<1>12. /\ Placed(ord, n) \subseteq A \ inFlight /\ Parked(ord, n) \subseteq A \ inFlight
       /\ StillParked = wait \ Popped
  BY DEF Placed, Parked, StillParked
<1>13. R = ready \cup Opened \cup Placed(ord, n)
       /\ W = StillParked \cup Reparked \cup Parked(ord, n)
  BY DEF ReadyPool, WaitPool
<1>14. R \cap W = {} /\ inFlight \cap (R \cup W) = {} /\ R \cup W \subseteq active \cup A
  BY <1>7, <1>8, <1>9, <1>11, <1>12, <1>13
<1>15. wait \subseteq Hosts /\ inFlight \subseteq Hosts /\ G \subseteq R /\ pick \subseteq R
       /\ robots \subseteq pick
  BY <1>0 DEF TypeOK
<1>16. \A h \in W : b[h] # <<>>
  <2>1. W \subseteq wait \cup A
    BY <1>9, <1>12, <1>13
  <2> QED BY <1>5, <1>6, <1>8, <1>15, <2>1
<1>17. /\ back' = b /\ active' = active \cup A /\ inFlight' = inFlight \cup pick
       /\ ready' = R \ (G \cup pick) /\ wait' = W \cup G
       /\ flying' = flying \cup {<<h, Robots>> : h \in robots}
                            \cup {<<h, b[h][1]>> : h \in pick \ robots}
  BY <1>3 DEF Chosen, Dispatched, ReadyLeft
<1> HIDE DEF b, R, W, A, robots
<1>18. PoolsDisjoint'
  <2>1. ready' \cap wait' = {} /\ inFlight' \cap (ready' \cup wait') = {}
    BY <1>3, <1>14, <1>15, <1>17 DEF Chosen
  <2>2. ready' \cup wait' \cup inFlight' \subseteq active'
    BY <1>8, <1>14, <1>15, <1>17
  <2>3. \A h \in ready' \cup wait' \cup inFlight' : back'[h] # <<>>
    <3>1. \A h \in inFlight : b[h] # <<>>
      BY <1>6, <1>8, <1>15
    <3> QED BY <1>5, <1>15, <1>16, <1>17, <3>1
  <2> QED BY <2>1, <2>2, <2>3 DEF PoolsDisjoint
<1>19. OneFetchPerHost'
  <2>1. \A f \in flying : f[1] \in inFlight
    BY <1>0 DEF OneFetchPerHost
  <2>2. \A f \in flying' \ flying : f[1] \in pick
    BY <1>15, <1>17
  <2>3. pick \cap inFlight = {}
    BY <1>14, <1>15
  <2>4. \A f, g \in flying' \ flying : f[1] = g[1] => f = g
    BY <1>17
  <2>5. \A f, g \in flying : f[1] = g[1] => f = g
    BY <1>0 DEF OneFetchPerHost
  <2>6. \A f, g \in flying' : f[1] = g[1] => f = g
    BY <2>1, <2>2, <2>3, <2>4, <2>5
  <2>7. inFlight = {f[1] : f \in flying}
    BY <1>0 DEF OneFetchPerHost
  <2>8. \A h \in pick : \E f \in flying' : f[1] = h
    <3> TAKE h \in pick
    <3>1. CASE h \in robots
      <4>1. <<h, Robots>> \in flying'
        BY <1>17, <3>1
      <4> QED BY <4>1
    <3>2. CASE h \notin robots
      <4>1. <<h, b[h][1]>> \in flying'
        BY <1>17, <3>2
      <4> QED BY <4>1
    <3> QED BY <3>1, <3>2
  <2>9. flying \subseteq flying'
    BY <1>17
  <2>10. inFlight' = {f[1] : f \in flying'}
    BY <1>17, <2>1, <2>2, <2>7, <2>8, <2>9
  <2> QED BY <2>6, <2>10 DEF OneFetchPerHost
<1> QED BY <1>18, <1>19

\* A host whose fetch lands leaves the pool and is filed at most once.
LEMMA LandedPools ==
  ASSUME IndInv, NEW h \in Hosts, NEW x, <<h, x>> \in flying, flying' = flying \ {<<h, x>>},
         inFlight' = inFlight \ {h}, NEW b, back' = [back EXCEPT ![h] = b],
         ready' \subseteq ready \cup {h}, wait' \subseteq wait \cup {h},
         h \notin ready' \cap wait',
         h \in ready' \cup wait' => b # <<>> /\ h \in active',
         active \ {h} \subseteq active'
  PROVE  PoolsDisjoint' /\ OneFetchPerHost'
<1> USE DEF IndInv
<1>1. h \in inFlight /\ h \in active
  BY DEF OneFetchPerHost, PoolsDisjoint
<1>2. back \in [Hosts -> Seq(URLs)] /\ ready \cup wait \cup inFlight \subseteq Hosts
  BY DEF TypeOK
<1>3. /\ ready \cap wait = {} /\ inFlight \cap (ready \cup wait) = {}
      /\ ready \cup wait \cup inFlight \subseteq active
      /\ \A g \in ready \cup wait \cup inFlight : back[g] # <<>>
  BY DEF PoolsDisjoint
<1>4. PoolsDisjoint'
  <2>1. ready' \cap wait' = {} /\ inFlight' \cap (ready' \cup wait') = {}
    BY <1>3
  <2>2. ready' \cup wait' \cup inFlight' \subseteq active'
    BY <1>3
  <2>3. \A g \in ready' \cup wait' \cup inFlight' : back'[g] # <<>>
    BY <1>2, <1>3
  <2> QED BY <2>1, <2>2, <2>3 DEF PoolsDisjoint
<1>5. OneFetchPerHost'
  <2>1. /\ \A f, g \in flying : f[1] = g[1] => f = g
        /\ inFlight = {f[1] : f \in flying}
    BY DEF OneFetchPerHost
  <2>2. \A f \in flying' : f[1] # h
    <3> SUFFICES ASSUME NEW f \in flying', f[1] = h PROVE FALSE
      OBVIOUS
    <3>1. f \in flying /\ f # <<h, x>>
      OBVIOUS
    <3>2. f = <<h, x>>
      BY <2>1, <3>1
    <3> QED BY <3>1, <3>2
  <2>3. inFlight' = {f[1] : f \in flying'}
    BY <2>1, <2>2
  <2> QED BY <2>1, <2>3 DEF OneFetchPerHost
<1> QED BY <1>4, <1>5

LEMMA ApplyRobotsPools ==
  ASSUME IndInv, NEW h \in Hosts, NEW resp, NEW deny, NEW delay,
         ApplyRobots(h, resp, deny, delay)
  PROVE  PoolsDisjoint' /\ OneFetchPerHost'
<1> DEFINE H == RobotsHost(hosts[h], resp, deny, delay)
           U == [u \in URLs |-> IF u \in KeysOf(back[h]) \cap H.deny
                                THEN [urls[u] EXCEPT !.status = "ExcludedRobots"]
                                ELSE urls[u]]
<1>1. PICK b \in Kept(back[h], H.deny) :
         back' = [back EXCEPT ![h] = b] /\ Place(h, H, b, U)
  BY DEF ApplyRobots
<1>2. /\ <<h, Robots>> \in flying /\ flying' = flying \ {<<h, Robots>>}
      /\ inFlight' = inFlight \ {h} /\ active' = active
  BY DEF ApplyRobots
<1>3. h \in active /\ h \notin ready \cup wait
  BY <1>2 DEF IndInv, OneFetchPerHost, PoolsDisjoint
<1> HIDE DEF H, U
<1>4. /\ ready' \subseteq ready \cup {h} /\ wait' \subseteq wait \cup {h}
      /\ h \in ready' \cup wait' => b # <<>>
  BY <1>1, <1>3 DEF Place
<1>5. h \notin ready' \cap wait'
  BY <1>1, <1>3 DEF Place
<1> QED BY <1>1, <1>2, <1>3, <1>4, <1>5, LandedPools

LEMMA ResumePools ==
  ASSUME IndInv, NEW u \in URLs, NEW b, NEW U, NEW sig, Landed(u), Resume(HostOf[u], b, U, sig)
  PROVE  PoolsDisjoint' /\ OneFetchPerHost'
<1> DEFINE h == HostOf[u]
<1>0. h \in Hosts
  BY KeyAssumption
<1>1. /\ <<h, u>> \in flying /\ flying' = flying \ {<<h, u>>}
      /\ inFlight' = inFlight \ {h} /\ back' = [back EXCEPT ![h] = b]
  BY DEF Landed, Resume
<1>2. h \in active /\ h \notin ready \cup wait
  BY <1>1 DEF IndInv, OneFetchPerHost, PoolsDisjoint
<1>3. PICK H \in Adapted(hosts[h], sig) :
        IF Drained(b)
           THEN /\ active' = active \ {h} /\ activeN' = activeN - 1
                /\ UNCHANGED <<ready, readyAt, wait, waitUntil>>
           ELSE Place(h, H, b, U) /\ UNCHANGED <<active, activeN>>
  BY DEF Resume
<1> HIDE DEF h
<1>4. /\ ready' \subseteq ready \cup {h} /\ wait' \subseteq wait \cup {h}
      /\ h \in ready' \cup wait' => b # <<>> /\ h \in active'
      /\ active \ {h} \subseteq active'
  BY <1>2, <1>3 DEF Place, Drained
<1>5. h \notin ready' \cap wait'
  BY <1>2, <1>3 DEF Place
<1> QED BY <1>0, <1>1, <1>4, <1>5, LandedPools

\* Any call of the frontier, by its own Next or by the engine that drives it: the
\* arguments range over all the types of the lemmas above, and the clock is free.
AnyCall ==
  \/ \E u \in URLs, p \in Buckets, d \in Nat : Seed(u, p, d)
  \/ \E u \in URLs, p \in Buckets : \E admit : Discover(u, admit, p)
  \/ \E s : DispatchShard(s)
  \/ \E h \in Hosts, deny \in SUBSET URLs, delay \in Nat : \E resp :
        ApplyRobots(h, resp, deny, delay)
  \/ \E u \in URLs, soft \in BOOLEAN, due \in Nat, at \in Nat :
        \E target, links, admit, p, sig :
          /\ \A v \in URLs \cap (target \cup links) : p[v] \in Buckets
          /\ links # {} => p[u] \in Buckets
          /\ ReportCrawled(u, soft, due, at, target, links, admit, p, sig)
  \/ \E u \in URLs, is410 \in BOOLEAN, at \in Nat : \E sig : ReportFailed(u, is410, at, sig)
  \/ Checkpoint
  \/ Recover
  \/ Later

LEMMA NextIsCall == ASSUME TypeOK, Next PROVE AnyCall
<1>h. Hours(now) \in Nat /\ now \in Nat
  BY HoursType DEF TypeOK
<1>1. ASSUME NEW u \in URLs, NEW p \in Buckets, NEW d \in 0..SeedDefer, Seed(u, p, Hours(now) + d)
      PROVE  AnyCall
  <2>1. Hours(now) + d \in Nat
    BY <1>h, Bounds
  <2> QED BY <1>1, <2>1 DEF AnyCall
<1>2. ASSUME NEW u \in URLs, NEW p \in Buckets, NEW admit, Discover(u, admit, p)
      PROVE  AnyCall
  BY <1>2 DEF AnyCall
<1>3. ASSUME NEW s, DispatchShard(s) PROVE AnyCall
  BY <1>3 DEF AnyCall
<1>4. ASSUME NEW h \in Hosts, NEW resp, NEW deny \in SUBSET URLs, NEW delay \in Nat,
             ApplyRobots(h, resp, deny, delay)
      PROVE  AnyCall
  BY <1>4 DEF AnyCall
<1>5. ASSUME NEW u \in URLs, NEW soft \in BOOLEAN, NEW at \in CrawlStamps, NEW sig,
             NEW target \in Targets, NEW links \in LinkSets, NEW admit,
             NEW p \in Prices(u, target \cup links),
             ReportCrawled(u, soft, Hours(now) + 1, at, target, links, admit, p, sig)
      PROVE  AnyCall
  <2>1. at \in Nat /\ Hours(now) + 1 \in Nat
    BY <1>h DEF CrawlStamps, FetchStamp, ErrorStamp
  <2>2. \A v \in URLs \cap (target \cup links) : p[v] \in Buckets
    BY DEF Prices, TypeOK, URLRecords
  <2>3. links # {} => p[u] \in Buckets
    BY DEF Prices, LinkSets
  <2> QED BY <1>5, <2>1, <2>2, <2>3 DEF AnyCall
<1>6. ASSUME NEW u \in URLs, NEW is410 \in BOOLEAN, NEW at \in Nat, NEW sig,
             ReportFailed(u, is410, at, sig)
      PROVE  AnyCall
  BY <1>6 DEF AnyCall
<1>7. ASSUME Tick PROVE AnyCall
  <2>1. Later
    BY <1>h, <1>7 DEF Tick, Later
  <2> QED BY <2>1 DEF AnyCall
<1>8. ASSUME Checkpoint \/ Recover PROVE AnyCall
  BY <1>8 DEF AnyCall
<1>11. CASE \E h \in Hosts, deny \in SUBSET URLs, delay \in Delays :
              ApplyRobots(h, "2xx", deny, delay)
  BY <1>4, <1>11, Bounds
<1>12. CASE \E h \in Hosts, resp \in {"4xx", "err"} : ApplyRobots(h, resp, {}, 0)
  <2>1. PICK h \in Hosts, resp \in {"4xx", "err"} : ApplyRobots(h, resp, {}, 0)
    BY <1>12
  <2>2. {} \in SUBSET URLs /\ 0 \in Nat
    OBVIOUS
  <2> QED BY <1>4, <2>1, <2>2
<1>13. CASE \E u \in URLs, soft \in BOOLEAN, at \in CrawlStamps, sig \in CrawlSignals,
              target \in Targets, links \in LinkSets :
              \E admit \in SUBSET (target \cup links), p \in Prices(u, target \cup links) :
                ReportCrawled(u, soft, Hours(now) + 1, at, target, links, admit, p, sig)
  BY <1>5, <1>13
<1>14. CASE \/ \E u \in URLs, sig \in {"ok", "slow", "err"} : ReportFailed(u, FALSE, FetchStamp, sig)
            \/ \E u \in URLs, sig \in {"ok", "slow"} : ReportFailed(u, TRUE, FetchStamp, sig)
            \/ \E u \in URLs, sig \in {"ok", "slow"} : ReportFailed(u, FALSE, ErrorStamp, sig)
  BY <1>h, <1>6, <1>14 DEF FetchStamp, ErrorStamp
<1> QED
  BY <1>1, <1>2, <1>3, <1>7, <1>8, <1>11, <1>12, <1>13, <1>14 DEF Next

LEMMA CallInv == IndInv /\ [AnyCall]_vars => IndInv'
<1> SUFFICES ASSUME IndInv, [AnyCall]_vars PROVE IndInv'
  OBVIOUS
<1>0. TypeOK /\ PoolsDisjoint /\ OneFetchPerHost
  BY DEF IndInv
<1>1. ASSUME NEW u \in URLs, NEW p \in Buckets, NEW d \in Nat, Seed(u, p, d)
      PROVE  IndInv'
  <2>2. TypeOK'
    BY <1>0, <1>1, SeedType
  <2>3. UNCHANGED <<back, active, inFlight, ready, wait, flying>>
    BY <1>1 DEF Seed, poolVars
  <2> QED BY <1>0, <2>2, <2>3, PoolsUnchanged DEF IndInv
<1>2. ASSUME NEW u \in URLs, NEW p \in Buckets, NEW admit, Discover(u, admit, p)
      PROVE  IndInv'
  <2>1. TypeOK'
    BY <1>0, <1>2, DiscoverStepType
  <2>2. UNCHANGED <<back, active, inFlight, ready, wait, flying>>
    BY <1>2 DEF Discover, poolVars
  <2> QED BY <1>0, <2>1, <2>2, PoolsUnchanged DEF IndInv
<1>3. ASSUME NEW s, DispatchShard(s) PROVE IndInv'
  <2>1. TypeOK'
    BY <1>0, <1>3, DispatchType
  <2>2. PoolsDisjoint' /\ OneFetchPerHost'
    BY <1>3, DispatchPools
  <2> QED BY <2>1, <2>2 DEF IndInv
<1>4. ASSUME NEW h \in Hosts, NEW resp, NEW deny \in SUBSET URLs, NEW delay \in Nat,
             ApplyRobots(h, resp, deny, delay)
      PROVE  IndInv'
  <2>1. TypeOK'
    BY <1>0, <1>4, ApplyRobotsType
  <2>2. PoolsDisjoint' /\ OneFetchPerHost'
    BY <1>4, ApplyRobotsPools
  <2> QED BY <2>1, <2>2 DEF IndInv
<1>5. ASSUME NEW u \in URLs, NEW soft \in BOOLEAN, NEW due \in Nat, NEW at \in Nat,
             NEW target, NEW links, NEW admit, NEW p, NEW sig,
             \A v \in URLs \cap (target \cup links) : p[v] \in Buckets,
             links # {} => p[u] \in Buckets,
             ReportCrawled(u, soft, due, at, target, links, admit, p, sig)
      PROVE  IndInv'
  <2>1. TypeOK'
    BY <1>0, <1>5, ReportCrawledType
  <2>2. PoolsDisjoint' /\ OneFetchPerHost'
    BY <1>5, ResumePools DEF ReportCrawled
  <2> QED BY <2>1, <2>2 DEF IndInv
<1>6. ASSUME NEW u \in URLs, NEW is410 \in BOOLEAN, NEW at \in Nat, NEW sig,
             ReportFailed(u, is410, at, sig)
      PROVE  IndInv'
  <2>1. TypeOK'
    BY <1>0, <1>6, ReportFailedType
  <2>2. PoolsDisjoint' /\ OneFetchPerHost'
    BY <1>6, ResumePools DEF ReportFailed
  <2> QED BY <2>1, <2>2 DEF IndInv
<1>7. CASE Checkpoint
  <2>1. UNCHANGED <<back, active, inFlight, ready, wait, flying>>
    BY <1>7 DEF Checkpoint, poolVars
  <2> QED BY <1>0, <1>7, <2>1, CheckpointType, PoolsUnchanged DEF IndInv
<1>8. CASE Recover
  <2>1. TypeOK'
    BY <1>0, <1>8, RecoverType
  <2>2. active' = {} /\ inFlight' = {} /\ ready' = {} /\ wait' = {} /\ flying' = {}
    BY <1>8 DEF Recover
  <2> QED BY <2>1, <2>2 DEF IndInv, PoolsDisjoint, OneFetchPerHost
<1>9. CASE Later
  <2>1. UNCHANGED <<back, active, inFlight, ready, wait, flying>>
    BY <1>9 DEF Later, poolVars
  <2> QED BY <1>0, <1>9, <2>1, LaterType, PoolsUnchanged DEF IndInv
<1>10. CASE UNCHANGED vars
  <2>1. UNCHANGED <<back, active, inFlight, ready, wait, flying>>
    BY <1>10 DEF vars, poolVars
  <2>2. TypeOK'
    BY <1>0, <1>10 DEF TypeOK, vars, urlVars, poolVars, wheelVars
  <2> QED BY <1>0, <2>1, <2>2, PoolsUnchanged DEF IndInv
<1> QED
  BY <1>1, <1>2, <1>3, <1>4, <1>5, <1>6, <1>7, <1>8, <1>9, <1>10 DEF AnyCall

LEMMA NextInv == IndInv /\ [Next]_vars => IndInv'
  BY CallInv, NextIsCall DEF IndInv

LEMMA InitInv == Init => IndInv
<1> SUFFICES ASSUME Init PROVE IndInv
  OBVIOUS
<1>1. PoolsDisjoint /\ OneFetchPerHost
  BY DEF Init, PoolsDisjoint, OneFetchPerHost
<1> QED BY <1>1, InitType DEF IndInv

LEMMA Invariance == Spec => []IndInv
  BY InitInv, NextInv, PTL DEF Spec


\* A dispatch is polite: the host that goes out was popped with both windows
\* open, at the address the resolver just gave, and is charged for both.
LEMMA DispatchPolite ==
  ASSUME IndInv, NEW s, DispatchShard(s)
  PROVE  PoliteStep
<1>0. TypeOK /\ PoolsDisjoint
  BY DEF IndInv
<1>1. PICK q \in PushOrders(Revived), ord \in Lines(DueFront),
           n \in 0..Cardinality(DueFront) :
        \E add \in Bindings(ord, n) :
          \E ans \in Lookups(ReadyPool(ord, n)), G \in SUBSET ReadyPool(ord, n),
             pick \in SUBSET ReadyPool(ord, n) :
            Chosen(q, ord, n, add, ans, G, pick)
  BY <1>0, DispatchChoices
<1>2. PICK add \in Bindings(ord, n) :
          \E ans \in Lookups(ReadyPool(ord, n)), G \in SUBSET ReadyPool(ord, n),
             pick \in SUBSET ReadyPool(ord, n) :
            Chosen(q, ord, n, add, ans, G, pick)
  BY <1>1
<1>3. PICK ans \in Lookups(ReadyPool(ord, n)), G \in SUBSET ReadyPool(ord, n),
           pick \in SUBSET ReadyPool(ord, n) :
        Chosen(q, ord, n, add, ans, G, pick)
  BY <1>2
<1> DEFINE dial   == Dialled(G \cup pick, ans)
           robots == {h \in pick : NeedsRobots(hosts[h])}
<1>4. ReadyPool(ord, n) \in SUBSET Hosts
  <2>1. DueFront \in SUBSET URLs
    BY <1>0, PromotedType
  <2> QED BY <1>0, <2>1, ReadyPoolFacts
<1>5. inFlight' = inFlight \cup pick
  BY <1>3 DEF Chosen, Dispatched
<1> SUFFICES ASSUME NEW h \in pick
             PROVE  /\ now >= hosts[h].next
                    /\ hosts'[h].next >= now + MinGap
                    /\ hosts'[h].ip # NoIP =>
                         /\ now >= ipNext[hosts'[h].ip]
                         /\ ipNext'[hosts'[h].ip] >= now + IPFloor
  BY <1>5 DEF PoliteStep
<1> DEFINE H == Resolved(h, ans)
<1>6. h \in Hosts /\ h \in ReadyPool(ord, n)
  BY <1>4
<1>7. H \in HostEntries /\ hosts[h] \in HostEntries /\ now \in Nat /\ ipNext \in [IPs -> Nat]
  BY <1>0, <1>6, ResolvedType DEF TypeOK
<1>8. dial[h] = H
  BY <1>6 DEF Dialled
<1>9. H.next = hosts[h].next
  BY <1>7 DEF Resolved, HostEntries
<1>10. /\ hosts'[h].next = SpendHost(H).next
       /\ hosts'[h].ip = SpendHost(H).ip
  <2>1. hosts' = [g \in Hosts |->
                    IF g \in robots THEN [SpendHost(dial[g]) EXCEPT !.robots = "pending"]
                    ELSE IF g \in pick THEN SpendHost(dial[g]) ELSE dial[g]]
    BY <1>3 DEF Chosen, Dispatched
  <2>2. SpendHost(H) \in HostEntries
    BY <1>0, <1>7, WindowType
  <2>3. ASSUME NEW K \in HostEntries
        PROVE  /\ [K EXCEPT !.robots = "pending"].next = K.next
               /\ [K EXCEPT !.robots = "pending"].ip = K.ip
    BY DEF HostEntries
  <2>4. hosts'[h] \in {SpendHost(H), [SpendHost(H) EXCEPT !.robots = "pending"]}
    <3> HIDE DEF dial, robots, H
    <3> QED BY <1>6, <1>8, <2>1
  <2> HIDE DEF H
  <2> QED BY <2>2, <2>3, <2>4
<1>11. SpendHost(H).next = now + HostInterval(H) /\ SpendHost(H).ip = H.ip
  <2>1. ASSUME NEW K \in HostEntries, NEW a \in Nat, NEW c \in Nat
        PROVE  /\ [K EXCEPT !.next = a, !.ipNext = c].next = a
               /\ [K EXCEPT !.next = a, !.ipNext = c].ip = K.ip
    BY DEF HostEntries
  <2>2. now + HostInterval(H) \in Nat /\ IPWindow(H) \in Nat
    BY <1>0, <1>7, IntervalType, WindowType DEF HostEntries
  <2> HIDE DEF H
  <2> QED BY <1>7, <2>1, <2>2 DEF SpendHost
<1>12. HostInterval(H) \in Nat /\ HostInterval(H) >= MinGap
  BY <1>7, IntervalType DEF HostEntries
<1>13. EligibleNow(H) <= now
  <2>1. ~(EligibleNow(H) > now)
    BY <1>3 DEF Chosen
  <2>2. EligibleNow(H) \in Nat
    BY <1>0, <1>7, WindowType
  <2> HIDE DEF H
  <2> QED BY <1>7, <2>1, <2>2
<1>14. H.next <= now /\ (H.ip # NoIP => ipNext[H.ip] <= now)
  <2>1. H.next \in Nat /\ (H.ip # NoIP => ipNext[H.ip] \in Nat)
    BY <1>7 DEF HostEntries
  <2> HIDE DEF H
  <2> QED BY <1>7, <1>13, <2>1 DEF EligibleNow, MaxOf
<1>15. H.ip # NoIP => ipNext'[H.ip] >= now + IPFloor
  <2>1. ipNext' = [i \in IPs |-> IF \E g \in pick : dial[g].ip = i
                                 THEN IPWindow(dial[CHOOSE g \in pick : TRUE])
                                 ELSE ipNext[i]]
    BY <1>3 DEF Chosen, Dispatched
  <2>2. (CHOOSE g \in pick : TRUE) = h
    BY <1>3 DEF Chosen
  <2>3. H.ip # NoIP => H.ip \in IPs
    BY <1>7 DEF HostEntries
  <2> HIDE DEF dial, H
  <2>4. H.ip # NoIP => ipNext'[H.ip] = IPWindow(H)
    BY <1>8, <2>1, <2>2, <2>3
  <2>5. H.ip # NoIP => IPWindow(H) >= now + IPFloor
    BY <1>7, <1>12, Bounds DEF IPWindow, MaxOf
  <2> QED BY <2>4, <2>5
<1> HIDE DEF H
<1> QED BY <1>7, <1>9, <1>10, <1>11, <1>12, <1>14, <1>15, Bounds

\* Only a dispatch puts a host in flight.
LEMMA CallPolite == IndInv /\ [AnyCall]_vars => [PoliteStep]_vars
<1> SUFFICES ASSUME IndInv, AnyCall PROVE PoliteStep
  OBVIOUS
<1>1. CASE \E s : DispatchShard(s)
  BY <1>1, DispatchPolite
<1>2. ASSUME inFlight' \subseteq inFlight PROVE PoliteStep
  BY <1>2 DEF PoliteStep
<1>3. ASSUME NEW u, NEW p, NEW d, Seed(u, p, d) PROVE inFlight' \subseteq inFlight
  BY <1>3 DEF Seed, poolVars
<1>4. ASSUME NEW u, NEW admit, NEW p, Discover(u, admit, p) PROVE inFlight' \subseteq inFlight
  BY <1>4 DEF Discover, poolVars
<1>5. ASSUME NEW h, NEW resp, NEW deny, NEW delay, ApplyRobots(h, resp, deny, delay)
      PROVE  inFlight' \subseteq inFlight
  BY <1>5 DEF ApplyRobots
<1>6. ASSUME NEW u, NEW soft, NEW due, NEW at, NEW target, NEW links, NEW admit, NEW p,
             NEW sig, ReportCrawled(u, soft, due, at, target, links, admit, p, sig)
      PROVE  inFlight' \subseteq inFlight
  BY <1>6 DEF ReportCrawled, Resume
<1>7. ASSUME NEW u, NEW is410, NEW at, NEW sig, ReportFailed(u, is410, at, sig)
      PROVE  inFlight' \subseteq inFlight
  BY <1>7 DEF ReportFailed, Resume
<1>8. ASSUME Checkpoint \/ Recover \/ Later PROVE inFlight' \subseteq inFlight
  BY <1>8 DEF Checkpoint, Recover, Later, poolVars
<1> QED BY <1>1, <1>2, <1>3, <1>4, <1>5, <1>6, <1>7, <1>8 DEF AnyCall

LEMMA NextPolite == IndInv /\ [Next]_vars => [PoliteStep]_vars
  BY CallPolite, NextIsCall DEF IndInv

-----------------------------------------------------------------------------
(* What holds of every behaviour. *)

\* Every record, queue and window keeps its shape under every call of the
\* frontier: DispatchShard never binds a key that is not one, the retry count
\* stays within its budget and the adaptive gap above the politeness floor.
THEOREM TypeCorrect == Spec => []TypeOK
  BY Invariance, PTL DEF IndInv

\* A host is in one of the ready bank, the wait heap and the fetcher pool, and
\* only while it has work (promote, distribute, popShard, Report, Recover).
THEOREM PoolsCorrect == Spec => []PoolsDisjoint
  BY Invariance, PTL DEF IndInv

\* No host is ever fetched twice at once, and its in-flight flag is exact
\* (DispatchShard, Report, applyRobots).
THEOREM OneFetch == Spec => []OneFetchPerHost
  BY Invariance, PTL DEF IndInv

\* Every fetch starts with the windows of its host and of its address open and
\* closes both for at least their floors (spend, eligibleNow, resolveHost).
THEOREM Polite == Spec => PoliteStart
  BY Invariance, NextPolite, PTL DEF Spec, PoliteStart

-----------------------------------------------------------------------------
(* Queues without repetition. *)

Distinct(s) == \A i, j \in DOMAIN s : s[i] = s[j] => i = j

\* The keys of a queue are the elements of the sequence.
LEMMA KeysAre ==
  ASSUME NEW S, NEW s \in Seq(S)
  PROVE  /\ KeysOf(s) \subseteq S
         /\ \A x : x \in KeysOf(s) <=> \E i \in 1..Len(s) : s[i] = x
         /\ KeysOf(s) = {} <=> s = <<>>
         /\ s # <<>> => Head(s) \in KeysOf(s) /\ Head(s) = s[1]
<1>1. DOMAIN s = 1..Len(s) /\ Len(s) \in Nat /\ \A i \in 1..Len(s) : s[i] \in S
  OBVIOUS
<1>2. s # <<>> => 1 \in 1..Len(s) /\ Head(s) = s[1]
  OBVIOUS
<1>3. s = <<>> => DOMAIN s = {}
  OBVIOUS
<1>4. /\ KeysOf(s) \subseteq S
      /\ \A x : x \in KeysOf(s) <=> \E i \in 1..Len(s) : s[i] = x
  BY <1>1 DEF KeysOf
<1>5. s # <<>> => Head(s) \in KeysOf(s) /\ Head(s) = s[1]
  BY <1>2, <1>4
<1>6. s = <<>> => KeysOf(s) = {}
  BY <1>3 DEF KeysOf
<1> QED BY <1>4, <1>5, <1>6

\* Binding appends: the keys unite, and stay distinct if they were apart.
LEMMA KeysConcat ==
  ASSUME NEW S, NEW s \in Seq(S), NEW t \in Seq(S)
  PROVE  /\ KeysOf(s \o t) = KeysOf(s) \cup KeysOf(t)
         /\ Distinct(s) /\ Distinct(t) /\ KeysOf(s) \cap KeysOf(t) = {} => Distinct(s \o t)
<1> DEFINE m == Len(s)
           k == Len(t)
           c == s \o t
<1>1. /\ m \in Nat /\ k \in Nat /\ DOMAIN s = 1..m /\ DOMAIN t = 1..k
      /\ DOMAIN c = 1..(m + k)
      /\ \A i \in 1..m : c[i] = s[i]
      /\ \A i \in (m + 1)..(m + k) : c[i] = t[i - m]
  OBVIOUS
<1> HIDE DEF m, k, c
<1>2. \A i \in 1..m : s[i] \in KeysOf(s)
  BY <1>1 DEF KeysOf
<1>3. \A i \in 1..k : t[i] \in KeysOf(t)
  BY <1>1 DEF KeysOf
<1>4. \A i \in 1..(m + k) : i \in 1..m \/ (i \in (m + 1)..(m + k) /\ i - m \in 1..k)
  BY <1>1
<1>5. KeysOf(c) \subseteq KeysOf(s) \cup KeysOf(t)
  <2> SUFFICES ASSUME NEW i \in 1..(m + k) PROVE c[i] \in KeysOf(s) \cup KeysOf(t)
    BY <1>1 DEF KeysOf
  <2> QED BY <1>1, <1>2, <1>3, <1>4
<1>6. KeysOf(s) \subseteq KeysOf(c)
  <2> SUFFICES ASSUME NEW i \in 1..m PROVE s[i] \in KeysOf(c)
    BY <1>1 DEF KeysOf
  <2>1. i \in 1..(m + k) /\ c[i] = s[i]
    BY <1>1
  <2> QED BY <1>1, <2>1 DEF KeysOf
<1>7. KeysOf(t) \subseteq KeysOf(c)
  <2> SUFFICES ASSUME NEW i \in 1..k PROVE t[i] \in KeysOf(c)
    BY <1>1 DEF KeysOf
  <2>1. i + m \in (m + 1)..(m + k) /\ i + m \in 1..(m + k) /\ (i + m) - m = i
    BY <1>1
  <2>2. c[i + m] = t[i]
    BY <1>1, <2>1
  <2> QED BY <1>1, <2>1, <2>2 DEF KeysOf
<1>8. ASSUME Distinct(s), Distinct(t), KeysOf(s) \cap KeysOf(t) = {} PROVE Distinct(c)
  <2> SUFFICES ASSUME NEW i \in 1..(m + k), NEW j \in 1..(m + k), c[i] = c[j] PROVE i = j
    BY <1>1 DEF Distinct
  <2>1. CASE i \in 1..m /\ j \in 1..m
    BY <1>1, <1>8, <2>1 DEF Distinct
  <2>2. CASE i \in (m + 1)..(m + k) /\ j \in (m + 1)..(m + k) /\ i - m \in 1..k /\ j - m \in 1..k
    <3>1. i - m = j - m
      BY <1>1, <1>8, <2>2 DEF Distinct
    <3> QED BY <1>1, <3>1
  <2>3. CASE i \in 1..m /\ j \in (m + 1)..(m + k) /\ j - m \in 1..k
    BY <1>1, <1>2, <1>3, <1>8, <2>3
  <2>4. CASE j \in 1..m /\ i \in (m + 1)..(m + k) /\ i - m \in 1..k
    BY <1>1, <1>2, <1>3, <1>8, <2>4
  <2> QED BY <1>4, <2>1, <2>2, <2>3, <2>4
<1> QED BY <1>5, <1>6, <1>7, <1>8 DEF c

\* Reporting pops the head: only its key leaves a queue without repetition.
LEMMA KeysTail ==
  ASSUME NEW S, NEW s \in Seq(S), s # <<>>, Distinct(s)
  PROVE  /\ Tail(s) \in Seq(S) /\ Distinct(Tail(s))
         /\ KeysOf(Tail(s)) = KeysOf(s) \ {Head(s)}
<1> DEFINE t == Tail(s)
           m == Len(s)
<1>1. /\ t \in Seq(S) /\ m \in Nat /\ m > 0 /\ DOMAIN s = 1..m /\ DOMAIN t = 1..(m - 1)
      /\ \A i \in 1..(m - 1) : t[i] = s[i + 1]
      /\ Head(s) = s[1]
  BY HeadTailProperties
<1> HIDE DEF t, m
<1>2. Distinct(t)
  <2> SUFFICES ASSUME NEW i \in 1..(m - 1), NEW j \in 1..(m - 1), t[i] = t[j] PROVE i = j
    BY <1>1 DEF Distinct
  <2>1. i + 1 \in 1..m /\ j + 1 \in 1..m /\ s[i + 1] = s[j + 1]
    BY <1>1
  <2>2. i + 1 = j + 1
    BY <1>1, <2>1 DEF Distinct
  <2> QED BY <1>1, <2>2
<1>3. KeysOf(t) \subseteq KeysOf(s) \ {Head(s)}
  <2> SUFFICES ASSUME NEW i \in 1..(m - 1) PROVE t[i] \in KeysOf(s) /\ t[i] # Head(s)
    BY <1>1 DEF KeysOf
  <2>1. i + 1 \in 1..m /\ 1 \in 1..m /\ i + 1 # 1 /\ t[i] = s[i + 1]
    BY <1>1
  <2>2. s[i + 1] # s[1]
    BY <1>1, <2>1 DEF Distinct
  <2> QED BY <1>1, <2>1, <2>2 DEF KeysOf
<1>4. KeysOf(s) \ {Head(s)} \subseteq KeysOf(t)
  <2> SUFFICES ASSUME NEW i \in 1..m, s[i] # Head(s) PROVE s[i] \in KeysOf(t)
    BY <1>1 DEF KeysOf
  <2>1. i - 1 \in 1..(m - 1) /\ (i - 1) + 1 = i
    BY <1>1
  <2>2. t[i - 1] = s[i]
    BY <1>1, <2>1
  <2> QED BY <1>1, <2>1, <2>2 DEF KeysOf
<1> QED BY <1>1, <1>2, <1>3, <1>4 DEF t

\* A failed key goes back to the end of its queue.
LEMMA KeysAppend ==
  ASSUME NEW S, NEW s \in Seq(S), NEW e \in S, e \notin KeysOf(s), Distinct(s)
  PROVE  /\ Append(s, e) \in Seq(S) /\ Append(s, e) # <<>> /\ Distinct(Append(s, e))
         /\ KeysOf(Append(s, e)) = KeysOf(s) \cup {e}
<1> DEFINE t == <<e>>
<1>1. /\ t \in Seq(S) /\ Append(s, e) = s \o t
      /\ Append(s, e) \in Seq(S) /\ Append(s, e) # <<>>
  BY AppendIsConcat, AppendProperties
<1>2. Distinct(t) /\ KeysOf(t) = {e}
  <2>1. DOMAIN t = {1} /\ t[1] = e
    OBVIOUS
  <2> QED BY <2>1 DEF Distinct, KeysOf
<1> HIDE DEF t
<1>3. Distinct(s \o t) /\ KeysOf(s \o t) = KeysOf(s) \cup {e}
  BY <1>1, <1>2, KeysConcat
<1> QED BY <1>1, <1>3

\* A listing of a set of URLs holds exactly the set, each URL once.
LEMMA KeysLine ==
  ASSUME NEW S \in SUBSET URLs, NEW q \in Lines(S)
  PROVE  q \in Seq(S) /\ Distinct(q) /\ KeysOf(q) = S
<1>1. q \in Seq(S) /\ Cardinality(S) \in Nat
  BY SomeURLs, LineSeq, FS_CardinalityType
<1>2. q \in [1..Cardinality(S) -> S]
  BY DEF Lines
<1>3. Distinct(q)
  BY <1>2 DEF Distinct, Lines
<1>4. KeysOf(q) = S
  BY <1>2 DEF KeysOf, Lines
<1> QED BY <1>1, <1>3, <1>4

-----------------------------------------------------------------------------
(* The inductive invariant. *)

\* A content fetch is of the head of its host's queue, and marked in flight.
FlyingHead ==
  \A h \in Hosts, u \in URLs : <<h, u>> \in flying =>
     /\ HostOf[u] = h
     /\ back[h] # <<>> /\ Head(back[h]) = u
     /\ urls[u].status = "InFlight"

\* What waits is still to be crawled: no queue holds a terminal or unknown URL.
Waiting ==
  /\ \A u \in front : urls[u].status \in Queueable
  /\ \A u \in wheel : urls[u].status \in Queueable \cup {"Crawled"}
  /\ \A h \in Hosts : \A u \in KeysOf(back[h]) :
       urls[u].status \in Queueable \/ <<h, u>> \in flying

\* URLInOnePlace is inductive only with the other two: a URL is pushed when its
\* status says that no structure holds it, and a report pops the head of a queue.
PlaceInv == IndInv /\ URLInOnePlace /\ FlyingHead /\ Waiting

\* URLInOnePlace over a front bank f, a wheel w and back queues b.
OneHome(f, w, b) ==
  /\ f \cap w = {}
  /\ \A h \in Hosts : /\ Distinct(b[h])
                      /\ \A u \in KeysOf(b[h]) : HostOf[u] = h /\ u \notin f \cup w

LEMMA OnePlace ==
  /\ URLInOnePlace <=> OneHome(front, wheel, back)
  /\ URLInOnePlace' <=> OneHome(front', wheel', back')
<1>1. ASSUME NEW s, NEW x PROVE x \in KeysOf(s) <=> \E i \in DOMAIN s : s[i] = x
  BY DEF KeysOf
<1>2. URLInOnePlace <=> OneHome(front, wheel, back)
  BY <1>1 DEF URLInOnePlace, OneHome, Distinct
<1>3. URLInOnePlace' <=> OneHome(front', wheel', back')
  BY <1>1 DEF URLInOnePlace, OneHome, Distinct
<1> QED BY <1>2, <1>3

\* What the status of a URL says about where it is.
LEMMA Standing ==
  ASSUME PlaceInv, NEW u \in URLs
  PROVE  /\ urls[u].status \in Terminal \cup {"none"} =>
              /\ u \notin front \cup wheel
              /\ \A h \in Hosts : u \notin KeysOf(back[h]) /\ <<h, u>> \notin flying
         /\ u \in front \cup wheel =>
              \A h \in Hosts : u \notin KeysOf(back[h]) /\ <<h, u>> \notin flying
         /\ \A h \in Hosts : <<h, u>> \in flying =>
              h = HostOf[u] /\ u \in KeysOf(back[h]) /\ urls[u].status = "InFlight"
         /\ \A h \in Hosts : u \in KeysOf(back[h]) => h = HostOf[u]
<1>1. \A h \in Hosts : back[h] \in Seq(URLs)
  BY DEF PlaceInv, IndInv, TypeOK
<1>2. \A h \in Hosts : <<h, u>> \in flying =>
         h = HostOf[u] /\ u \in KeysOf(back[h]) /\ urls[u].status = "InFlight"
  BY <1>1, KeysAre DEF PlaceInv, FlyingHead
<1>3. \A h \in Hosts : u \in KeysOf(back[h]) => h = HostOf[u] /\ u \notin front \cup wheel
  BY OnePlace DEF PlaceInv, OneHome
<1>4. urls[u].status \in Terminal \cup {"none"} =>
              /\ u \notin front \cup wheel
              /\ \A h \in Hosts : u \notin KeysOf(back[h]) /\ <<h, u>> \notin flying
  BY <1>2 DEF PlaceInv, Waiting, Terminal, Queueable
<1> QED BY <1>2, <1>3, <1>4

\* Discovery gives a URL it has not met a status and leaves every other status.
LEMMA DiscoverStatus ==
  ASSUME NEW U \in [URLs -> URLRecords], NEW L, NEW admit, NEW p, NEW v \in URLs
  PROVE  LET r == DiscoverURLs(U, L, admit, p)[v] IN
         /\ U[v].status # "none" => r.status = U[v].status /\ r.due = U[v].due
         /\ U[v].status = "none" => r.status \in {"none", "Scheduled", "Trapped"}
<1>1. U[v] \in URLRecords
  OBVIOUS
<1>2. /\ [U[v] EXCEPT !.prio = p[v]].status = U[v].status
      /\ [U[v] EXCEPT !.prio = p[v]].due = U[v].due
  BY <1>1 DEF URLRecords
<1>3. [NoRecord EXCEPT !.status = IF v \in admit THEN "Scheduled" ELSE "Trapped",
                       !.prio = p[v], !.born = Hours(now)].status
         \in {"Scheduled", "Trapped"}
  BY DEF NoRecord
<1> QED BY <1>2, <1>3 DEF DiscoverURLs, Unseen

\* Enter pushes exactly the URLs that become scheduled, and keeps the bank filed.
LEMMA EnterBank ==
  ASSUME TypeOK, NEW U \in [URLs -> URLRecords], Enter(U)
  PROVE  /\ front' = front \cup {u \in URLs : urls[u].status = "none" /\ U[u].status = "Scheduled"}
         /\ FrontBucketed /\ (\A u \in front : U[u].status \in Queueable) =>
              \A u \in front' : filed'[u] = U[u].prio
<1> DEFINE new == {u \in URLs : Unseen(urls[u]) /\ U[u].status = "Scheduled"}
<1>1. /\ front' = front \cup new
      /\ filed' = [u \in URLs |-> IF u \in new THEN U[u].prio ELSE Rebucketed(u, U)]
  BY DEF Enter
<1>2. new = {u \in URLs : urls[u].status = "none" /\ U[u].status = "Scheduled"}
  BY DEF Unseen
<1>3. front \subseteq URLs
  BY DEF TypeOK
<1> QED BY <1>1, <1>2, <1>3 DEF FrontBucketed, Rebucketed

-----------------------------------------------------------------------------
(* Each operation keeps every URL in one place. *)

LEMMA SeedPlace ==
  ASSUME PlaceInv, NEW u \in URLs, NEW p, NEW d, Seed(u, p, d)
  PROVE  URLInOnePlace' /\ FlyingHead' /\ Waiting'
<1>1. urls[u].status = "none" /\ urls \in [URLs -> URLRecords] /\ front \subseteq URLs
      /\ wheel \subseteq URLs /\ \A h \in Hosts : KeysOf(back[h]) \subseteq URLs
  BY KeysAre DEF Seed, Unseen, PlaceInv, IndInv, TypeOK
<1>2. /\ u \notin front \cup wheel
      /\ \A h \in Hosts : u \notin KeysOf(back[h]) /\ <<h, u>> \notin flying
  BY <1>1, Standing
<1>3. /\ urls'[u].status = "Scheduled" /\ \A v \in URLs \ {u} : urls'[v] = urls[v]
      /\ back' = back /\ flying' = flying
  BY <1>1 DEF Seed
<1>4. \/ front' = front \cup {u} /\ wheel' = wheel
      \/ front' = front /\ wheel' = wheel \cup {u}
  BY DEF Seed, FrontPush
<1>5. URLInOnePlace'
  BY <1>2, <1>3, <1>4, OnePlace DEF OneHome, PlaceInv
<1>6. FlyingHead'
  BY <1>2, <1>3 DEF FlyingHead, PlaceInv
<1>7. Waiting'
  BY <1>1, <1>2, <1>3, <1>4 DEF Waiting, PlaceInv, Queueable
<1> QED BY <1>5, <1>6, <1>7

LEMMA DiscoverPlace ==
  ASSUME PlaceInv, NEW u \in URLs, NEW admit, NEW p \in Buckets, Discover(u, admit, p)
  PROVE  URLInOnePlace' /\ FlyingHead' /\ Waiting'
<1> DEFINE new == {v \in URLs : urls[v].status = "none" /\ urls'[v].status = "Scheduled"}
<1>1. TypeOK /\ urls \in [URLs -> URLRecords] /\ front \subseteq URLs
      /\ wheel \subseteq URLs /\ \A h \in Hosts : KeysOf(back[h]) \subseteq URLs
  BY KeysAre DEF PlaceInv, IndInv, TypeOK
<1>2. urls' \in [URLs -> URLRecords]
  BY <1>1, DiscoverType DEF Discover, TypeOK
<1>3. front' = front \cup new
  BY <1>1, <1>2, EnterBank DEF Discover
<1>4. wheel' = wheel /\ back' = back /\ flying' = flying
  BY DEF Discover, wheelVars
<1>5. \A v \in URLs : urls[v].status # "none" => urls'[v].status = urls[v].status
  BY <1>1, DiscoverStatus DEF Discover
<1>6. \A v \in new : /\ v \notin front \cup wheel
                     /\ \A h \in Hosts : v \notin KeysOf(back[h])
  BY Standing
<1>7. URLInOnePlace'
  <2> HIDE DEF new
  <2> QED BY <1>3, <1>4, <1>6, OnePlace DEF OneHome, PlaceInv
<1>8. FlyingHead'
  BY <1>4, <1>5 DEF FlyingHead, PlaceInv
<1>9. Waiting'
  BY <1>1, <1>3, <1>4, <1>5 DEF Waiting, PlaceInv, Queueable
<1> QED BY <1>7, <1>8, <1>9

\* A restart: everything queueable is in the front bank, everything crawled on
\* the wheel, and nothing else holds a URL.
LEMMA RecoverPlace ==
  ASSUME TypeOK, Recover
  PROVE  URLInOnePlace' /\ FlyingHead' /\ Waiting'
<1>1. /\ front' = {u \in URLs : urls'[u].status \in Queueable}
      /\ wheel' \subseteq {u \in URLs : urls'[u].status = "Crawled"}
      /\ flying' = {} /\ \A h \in Hosts : back'[h] = <<>>
  BY DEF Recover
<1>2. \A h \in Hosts : KeysOf(back'[h]) = {} /\ Distinct(back'[h])
  BY <1>1 DEF KeysOf, Distinct
<1>3. URLInOnePlace'
  BY <1>1, <1>2, OnePlace DEF OneHome, Queueable
<1>4. FlyingHead' /\ Waiting'
  BY <1>1, <1>2 DEF FlyingHead, Waiting
<1> QED BY <1>3, <1>4

\* Nothing that places a URL moves.
LEMMA PlaceUnchanged ==
  ASSUME URLInOnePlace, FlyingHead, Waiting, UNCHANGED <<urls, front, wheel, back, flying>>
  PROVE  URLInOnePlace' /\ FlyingHead' /\ Waiting'
  BY DEF URLInOnePlace, FlyingHead, Waiting

\* robots.txt lands: the disallowed keys leave the queue as excluded, and no
\* content fetch of the host is out to lose its place.
LEMMA ApplyRobotsPlace ==
  ASSUME PlaceInv, NEW h \in Hosts, NEW resp, NEW deny, NEW delay,
         ApplyRobots(h, resp, deny, delay)
  PROVE  URLInOnePlace' /\ FlyingHead' /\ Waiting'
<1> DEFINE H == RobotsHost(hosts[h], resp, deny, delay)
           X == KeysOf(back[h]) \cap H.deny
<1>1. PICK b \in Kept(back[h], H.deny) : back' = [back EXCEPT ![h] = b]
  BY DEF ApplyRobots
<1>2. /\ urls' = [u \in URLs |-> IF u \in X THEN [urls[u] EXCEPT !.status = "ExcludedRobots"]
                                 ELSE urls[u]]
      /\ <<h, Robots>> \in flying /\ flying' = flying \ {<<h, Robots>>}
      /\ front' = front /\ wheel' = wheel
  BY DEF ApplyRobots, wheelVars
<1>3. TypeOK /\ front \subseteq URLs /\ wheel \subseteq URLs /\ back \in [Hosts -> Seq(URLs)]
      /\ \A g \in Hosts : KeysOf(back[g]) \subseteq URLs
  BY KeysAre DEF PlaceInv, IndInv, TypeOK
<1>4. Distinct(b) /\ KeysOf(b) = KeysOf(back[h]) \ H.deny
  <2>1. KeysOf(back[h]) \ H.deny \in SUBSET URLs
    BY <1>3
  <2> QED BY <2>1, KeysLine DEF Kept
<1>5. \A u \in URLs : u \notin X => urls'[u] = urls[u]
  BY <1>2
<1>6. \A u \in URLs : <<h, u>> \notin flying
  <2>1. \A f, g \in flying : f[1] = g[1] => f = g
    BY DEF PlaceInv, IndInv, OneFetchPerHost
  <2>2. ASSUME NEW u \in URLs, <<h, u>> \in flying PROVE FALSE
    <3>1. <<h, u>> = <<h, Robots>>
      BY <1>2, <2>1, <2>2
    <3> QED BY <3>1, KeyAssumption
  <2> QED BY <2>2
<1>7. \A g \in Hosts, u \in URLs : <<g, u>> \in flying' <=> <<g, u>> \in flying
  BY <1>2, KeyAssumption
<1>8. \A u \in X : HostOf[u] = h /\ u \notin front \cup wheel
  BY OnePlace DEF OneHome, PlaceInv
<1>9. back'[h] = b /\ \A g \in Hosts \ {h} : back'[g] = back[g]
  BY <1>1, <1>3
<1> HIDE DEF X, H
<1>10. URLInOnePlace'
  BY <1>2, <1>4, <1>9, OnePlace DEF OneHome, PlaceInv
<1>11. FlyingHead'
  <2> SUFFICES ASSUME NEW g \in Hosts, NEW u \in URLs, <<g, u>> \in flying
               PROVE  /\ HostOf[u] = g /\ back'[g] # <<>> /\ Head(back'[g]) = u
                      /\ urls'[u].status = "InFlight"
    BY <1>7 DEF FlyingHead
  <2>1. g # h /\ HostOf[u] = g /\ back[g] # <<>> /\ Head(back[g]) = u
        /\ urls[u].status = "InFlight"
    BY <1>6 DEF FlyingHead, PlaceInv
  <2> QED BY <1>5, <1>8, <1>9, <2>1
<1>12. Waiting'
  <2>1. \A u \in front \cup wheel : urls'[u] = urls[u]
    BY <1>3, <1>5, <1>8
  <2>2. \A u \in KeysOf(b) : urls'[u].status \in Queueable
    BY <1>3, <1>4, <1>5, <1>6 DEF Waiting, PlaceInv, X
  <2>3. ASSUME NEW g \in Hosts \ {h}, NEW u \in KeysOf(back[g])
        PROVE  urls'[u].status \in Queueable \/ <<g, u>> \in flying'
    <3>1. u \in URLs /\ urls'[u] = urls[u]
      BY <1>3, <1>5, <1>8, OnePlace DEF OneHome, PlaceInv
    <3> QED BY <1>7, <3>1 DEF Waiting, PlaceInv
  <2> QED BY <1>2, <1>9, <2>1, <2>2, <2>3 DEF Waiting, PlaceInv
<1> QED BY <1>10, <1>11, <1>12

\* A content outcome of u lands: u leaves the head of its queue, to be put back
\* as queueable (u in KeysOf(b)), to go on the wheel, or to go nowhere.
LEMMA LandedPlace ==
  ASSUME PlaceInv, TypeOK', NEW u \in URLs, Landed(u), NEW b, NEW new \in SUBSET URLs,
         back' = [back EXCEPT ![HostOf[u]] = b], Distinct(b),
         KeysOf(b) \subseteq KeysOf(back[HostOf[u]]),
         u \in KeysOf(b) => urls'[u].status \in Queueable /\ wheel' = wheel,
         \A v \in URLs \ {u} : urls[v].status # "none" => urls'[v].status = urls[v].status,
         front' = front \cup new,
         \A v \in new : urls[v].status = "none" /\ urls'[v].status = "Scheduled",
         wheel' = wheel \/ (wheel' = wheel \cup {u} /\ urls'[u].status = "Crawled")
  PROVE  URLInOnePlace' /\ FlyingHead' /\ Waiting'
<1> DEFINE h == HostOf[u]
<1>0. h \in Hosts
  BY KeyAssumption
<1>1. /\ front \subseteq URLs /\ wheel \subseteq URLs /\ back \in [Hosts -> Seq(URLs)]
      /\ \A g \in Hosts : KeysOf(back[g]) \subseteq URLs
  BY KeysAre DEF PlaceInv, IndInv, TypeOK
<1>2. <<h, u>> \in flying /\ flying' = flying \ {<<h, u>>}
  BY DEF Landed
<1>3. u \in KeysOf(back[h]) /\ u \notin front \cup wheel /\ urls[u].status = "InFlight"
  BY <1>0, <1>2, Standing
<1>4. \A v \in new : v # u /\ v \notin front \cup wheel
                     /\ \A g \in Hosts : v \notin KeysOf(back[g])
  BY <1>3, Standing
<1>5. back'[h] = b /\ \A g \in Hosts \ {h} : back'[g] = back[g]
  BY <1>0, <1>1
<1>6. \A f, g \in flying : f[1] = g[1] => f = g
  BY DEF PlaceInv, IndInv, OneFetchPerHost
<1>7. \A v \in URLs : <<h, v>> \in flying => v = u
  <2> SUFFICES ASSUME NEW v \in URLs, <<h, v>> \in flying PROVE v = u
    OBVIOUS
  <2>1. <<h, v>> = <<h, u>>
    BY <1>2, <1>6
  <2> QED BY <2>1
<1>8. \A g \in Hosts : \A v \in KeysOf(back[g]) : HostOf[v] = g /\ v \notin front \cup wheel
  BY OnePlace DEF OneHome, PlaceInv
<1> HIDE DEF h
<1>9. URLInOnePlace'
  <2>1. front' \cap wheel' = {}
    BY <1>3, <1>4, OnePlace DEF OneHome, PlaceInv
  <2>2. \A g \in Hosts : Distinct(back'[g])
    BY <1>5, OnePlace DEF OneHome, PlaceInv
  <2>3. \A g \in Hosts \ {h} : \A v \in KeysOf(back'[g]) : HostOf[v] = g /\ v \notin front' \cup wheel'
    BY <1>4, <1>5, <1>8, <1>0, <1>3
  <2>4. \A v \in KeysOf(b) : HostOf[v] = h /\ v \notin front' \cup wheel'
    BY <1>4, <1>8, <1>0 DEF h
  <2> QED BY <1>5, <2>1, <2>2, <2>3, <2>4, OnePlace DEF OneHome
<1>10. FlyingHead'
  <2> SUFFICES ASSUME NEW g \in Hosts, NEW v \in URLs, <<g, v>> \in flying'
               PROVE  /\ HostOf[v] = g /\ back'[g] # <<>> /\ Head(back'[g]) = v
                      /\ urls'[v].status = "InFlight"
    BY DEF FlyingHead
  <2>1. g # h /\ <<g, v>> \in flying
    BY <1>2, <1>7
  <2>2. HostOf[v] = g /\ back[g] # <<>> /\ Head(back[g]) = v /\ urls[v].status = "InFlight"
    BY <2>1 DEF FlyingHead, PlaceInv
  <2>3. v # u
    BY <2>1, <2>2 DEF h
  <2> QED BY <1>5, <2>1, <2>2, <2>3
<1>11. Waiting'
  <2>1. \A v \in front \cup wheel : v \in URLs \ {u} /\ urls'[v].status = urls[v].status
    BY <1>1, <1>3 DEF Waiting, PlaceInv, Queueable
  <2>2. \A v \in KeysOf(b) : urls'[v].status \in Queueable
    BY <1>0, <1>1, <1>7 DEF Waiting, PlaceInv, Queueable, h
  <2>3. ASSUME NEW g \in Hosts \ {h}, NEW v \in KeysOf(back[g])
        PROVE  urls'[v].status \in Queueable \/ <<g, v>> \in flying'
    <3>1. v \in URLs \ {u}
      BY <1>1, <1>8 DEF h
    <3>2. urls[v].status \in Queueable \/ <<g, v>> \in flying
      BY DEF Waiting, PlaceInv
    <3>3. CASE urls[v].status \in Queueable
      BY <3>1, <3>3 DEF Queueable
    <3>4. CASE <<g, v>> \in flying
      BY <1>2, <3>4
    <3> QED BY <3>2, <3>3, <3>4
  <2>4. \A v \in front' : urls'[v].status \in Queueable
    BY <2>1 DEF Waiting, PlaceInv, Queueable
  <2>5. \A v \in wheel' : urls'[v].status \in Queueable \cup {"Crawled"}
    BY <2>1 DEF Waiting, PlaceInv
  <2> QED BY <1>5, <2>2, <2>3, <2>4, <2>5 DEF Waiting
<1> QED BY <1>9, <1>10, <1>11

\* The reported key is the head of its queue, so popping it takes it out.
LEMMA UnqueuedKeys ==
  ASSUME PlaceInv, NEW u \in URLs, Landed(u)
  PROVE  LET b == Unqueued(HostOf[u], u) IN
         /\ HostOf[u] \in Hosts /\ b \in Seq(URLs) /\ Distinct(b)
         /\ KeysOf(b) = KeysOf(back[HostOf[u]]) \ {u}
         /\ u \in KeysOf(back[HostOf[u]]) /\ urls[u].status = "InFlight"
<1> DEFINE h == HostOf[u]
<1>0. h \in Hosts
  BY KeyAssumption
<1>1. <<h, u>> \in flying
  BY DEF Landed
<1>2. back[h] # <<>> /\ Head(back[h]) = u /\ urls[u].status = "InFlight"
  BY <1>0, <1>1 DEF FlyingHead, PlaceInv
<1>3. back[h] \in Seq(URLs) /\ Distinct(back[h])
  BY <1>0, OnePlace DEF OneHome, PlaceInv, IndInv, TypeOK
<1>4. Unqueued(h, u) = Tail(back[h])
  BY <1>2 DEF Unqueued
<1> HIDE DEF h
<1>5. u \in KeysOf(back[h])
  BY <1>2, <1>3, KeysAre
<1> QED BY <1>0, <1>2, <1>3, <1>4, <1>5, KeysTail DEF h

\* The URL table a crawl outcome leaves: the crawled URL's own status, and for
\* every other URL what discovery says.
CrawledTable(u, soft, due, at, target, links, admit, p) ==
  LET T == DiscoverURLs(Marked(urls, u, soft, due, at), target \cup links, admit, p)
  IN IF links # {} THEN [T EXCEPT ![u].prio = p[u]] ELSE T

LEMMA CrawledTableFacts ==
  ASSUME TypeOK, NEW u \in URLs, NEW soft \in BOOLEAN, NEW due \in Nat, NEW at \in Nat, NEW target,
         NEW links, NEW admit, NEW p,
         \A v \in URLs \cap (target \cup links) : p[v] \in Buckets,
         links # {} => p[u] \in Buckets
  PROVE  LET U == CrawledTable(u, soft, due, at, target, links, admit, p) IN
         /\ U \in [URLs -> URLRecords]
         /\ FreshOn => U[u].status = "DueRecrawl"
         /\ ~FreshOn => U[u].status \in {"Crawled", "Gone"} /\ U[u].due > 0
         /\ \A v \in URLs \ {u} :
              /\ urls[v].status # "none" => U[v].status = urls[v].status /\ U[v].due = urls[v].due
              /\ urls[v].status = "none" => U[v].status \in {"none", "Scheduled", "Trapped"}
<1> DEFINE M == Marked(urls, u, soft, due, at)
           T == DiscoverURLs(M, target \cup links, admit, p)
           U == CrawledTable(u, soft, due, at, target, links, admit, p)
<1>1. M \in [URLs -> URLRecords] /\ urls \in [URLs -> URLRecords]
  BY MarkedType DEF TypeOK
<1>2. /\ M[u].status = IF FreshOn THEN "DueRecrawl" ELSE IF soft THEN "Gone" ELSE "Crawled"
      /\ M[u].due = IF FreshOn THEN due ELSE at + RecrawlGap
      /\ \A v \in URLs \ {u} : M[v] = urls[v]
  BY <1>1 DEF Marked
<1>3. at + RecrawlGap > 0
  BY BoundAssumption
<1>4. T \in [URLs -> URLRecords]
  <2> HIDE DEF M
  <2> QED BY <1>1, DiscoverType DEF TypeOK
<1>5. \A v \in URLs :
         /\ M[v].status # "none" => T[v].status = M[v].status /\ T[v].due = M[v].due
         /\ M[v].status = "none" => T[v].status \in {"none", "Scheduled", "Trapped"}
  <2> HIDE DEF M
  <2> QED BY <1>1, DiscoverStatus
<1> HIDE DEF M, T
<1>6. U = IF links # {} THEN [T EXCEPT ![u] = [T[u] EXCEPT !.prio = p[u]]] ELSE T
  BY <1>4 DEF CrawledTable, T, M
<1>7. links # {} => [T[u] EXCEPT !.prio = p[u]] \in URLRecords
  BY <1>4, RecordType
<1>8. U \in [URLs -> URLRecords]
  BY <1>4, <1>6, <1>7
<1>9. \A v \in URLs : U[v].status = T[v].status /\ U[v].due = T[v].due
  BY <1>4, <1>6 DEF URLRecords
<1> HIDE DEF U
<1>10. U[u].status = M[u].status /\ U[u].due = M[u].due
  BY <1>2, <1>5, <1>9
<1> QED BY <1>2, <1>3, <1>5, <1>8, <1>9, <1>10 DEF U

LEMMA ReportCrawledPlace ==
  ASSUME PlaceInv, TypeOK', NEW u \in URLs, NEW soft \in BOOLEAN, NEW due \in Nat, NEW at \in Nat,
         NEW target, NEW links, NEW admit, NEW p, NEW sig,
         \A v \in URLs \cap (target \cup links) : p[v] \in Buckets,
         links # {} => p[u] \in Buckets,
         ReportCrawled(u, soft, due, at, target, links, admit, p, sig)
  PROVE  URLInOnePlace' /\ FlyingHead' /\ Waiting'
<1> DEFINE U == CrawledTable(u, soft, due, at, target, links, admit, p)
           b == Unqueued(HostOf[u], u)
           new == {v \in URLs : urls[v].status = "none" /\ U[v].status = "Scheduled"}
<1>0. TypeOK
  BY DEF PlaceInv, IndInv
<1>1. /\ urls' = U /\ Enter(U) /\ Landed(u)
      /\ back' = [back EXCEPT ![HostOf[u]] = b]
      /\ wheel' = wheel \/ (wheel' = wheel \cup {u} /\ U[u].status = "Crawled")
  BY DEF ReportCrawled, CrawledTable, Resume
<1>2. /\ U \in [URLs -> URLRecords]
      /\ \A v \in URLs \ {u} : urls[v].status # "none" => U[v].status = urls[v].status
  BY <1>0, CrawledTableFacts
<1> HIDE DEF U
<1>3. front' = front \cup new
  BY <1>0, <1>1, <1>2, EnterBank
<1>4. Distinct(b) /\ KeysOf(b) \subseteq KeysOf(back[HostOf[u]]) /\ u \notin KeysOf(b)
  BY <1>1, UnqueuedKeys
<1> HIDE DEF b
<1>5. new \in SUBSET URLs /\ \A v \in new : urls[v].status = "none" /\ urls'[v].status = "Scheduled"
  BY <1>1
<1> HIDE DEF new
<1> QED BY <1>1, <1>2, <1>3, <1>4, <1>5, LandedPlace

LEMMA ReportFailedPlace ==
  ASSUME PlaceInv, TypeOK', NEW u \in URLs, NEW is410 \in BOOLEAN, NEW at, NEW sig,
         ReportFailed(u, is410, at, sig)
  PROVE  URLInOnePlace' /\ FlyingHead' /\ Waiting'
<1> DEFINE h == HostOf[u]
           r == MinOf(urls[u].retry + 1, MaxRetries)
           gone == is410 \/ r >= MaxRetries
           q == Unqueued(h, u)
           b == IF gone THEN q ELSE Append(q, u)
<1>1. urls \in [URLs -> URLRecords]
  BY DEF PlaceInv, IndInv, TypeOK
<1>2. /\ urls' = [urls EXCEPT ![u] = FailedURL(urls[u], r, gone, at)] /\ Landed(u)
      /\ back' = [back EXCEPT ![h] = b]
      /\ front' = front /\ wheel' = wheel
  BY <1>1 DEF ReportFailed, Resume, Requeued, wheelVars
<1> HIDE DEF gone, r
<1>3. ~gone => urls'[u].status = "Scheduled"
  BY <1>1, <1>2 DEF FailedURL, URLRecords
<1>4. \A v \in URLs \ {u} : urls'[v] = urls[v]
  BY <1>1, <1>2
<1>5. q \in Seq(URLs) /\ Distinct(q) /\ KeysOf(q) = KeysOf(back[h]) \ {u} /\ u \in KeysOf(back[h])
  BY <1>2, UnqueuedKeys
<1> HIDE DEF q, h
<1>6. Distinct(b) /\ KeysOf(b) \subseteq KeysOf(back[h]) /\ (u \in KeysOf(b) => ~gone)
  <2>1. CASE gone
    BY <1>5, <2>1
  <2>2. CASE ~gone
    <3>1. Distinct(Append(q, u)) /\ KeysOf(Append(q, u)) = KeysOf(q) \cup {u}
      BY <1>5, KeysAppend
    <3> QED BY <1>5, <2>2, <3>1
  <2> QED BY <2>1, <2>2
<1> HIDE DEF b
<1>7. front' = front \cup {} /\ {} \in SUBSET URLs
  BY <1>2
<1>8. u \in KeysOf(b) => urls'[u].status \in Queueable
  BY <1>3, <1>6 DEF Queueable
<1> QED BY <1>2, <1>4, <1>6, <1>7, <1>8, LandedPlace DEF h

-----------------------------------------------------------------------------
(* A dispatch, as what it moves. *)

\* A dispatch binds the keys B of the front bank, add[h] to the queue of host h,
\* and sends out the one host of sent, for robots.txt if it is in robots.
Moves(B, add, sent, robots) ==
  /\ B \subseteq DueFront
  /\ front' = DueFront \ B /\ wheel' = wheel \ Fired
  /\ \A h \in Hosts :
       /\ back'[h] = back[h] \o add[h]
       /\ add[h] \in Seq(URLs) /\ Distinct(add[h])
       /\ KeysOf(add[h]) = {u \in B : HostOf[u] = h /\ ~Disallowed(u)}
  /\ sent \subseteq Hosts \ inFlight
  /\ robots = {h \in sent : NeedsRobots(hosts[h])}
  /\ \A h \in sent : back'[h] # <<>>
  /\ flying' = flying \cup {<<h, Robots>> : h \in robots}
                      \cup {<<h, Head(back'[h])>> : h \in sent \ robots}
  /\ \A u \in URLs :
       /\ urls'[u].status =
            IF \E h \in sent \ robots : Head(back'[h]) = u THEN "InFlight"
            ELSE IF u \in B /\ Disallowed(u) THEN "ExcludedRobots"
            ELSE IF u \in Revived /\ urls[u].status = "Crawled" THEN "DueRecrawl"
            ELSE urls[u].status
       /\ urls'[u].due = urls[u].due
  /\ FrontBucketed => FrontBucketed'
  /\ \A h \in Hosts :
       /\ hosts'[h].deny = hosts[h].deny
       /\ hosts'[h].robots = IF h \in robots THEN "pending" ELSE hosts[h].robots

\* The host records a dispatch leaves: only the robots state of a host that goes
\* out for robots.txt changes, and no rule does.
LEMMA DispatchHost ==
  ASSUME TypeOK, NEW R, NEW ans \in Lookups(R), NEW h \in Hosts, NEW T, T \subseteq R
  PROVE  LET K == Dialled(T, ans)[h] IN
         /\ K.deny = hosts[h].deny /\ K.robots = hosts[h].robots
         /\ SpendHost(K).deny = hosts[h].deny /\ SpendHost(K).robots = hosts[h].robots
         /\ [SpendHost(K) EXCEPT !.robots = "pending"].deny = hosts[h].deny
         /\ [SpendHost(K) EXCEPT !.robots = "pending"].robots = "pending"
<1> DEFINE K == Dialled(T, ans)[h]
<1>1. hosts[h] \in HostEntries
  BY DEF TypeOK
<1>2. h \in T => Resolved(h, ans) \in HostEntries
  BY ResolvedType
<1>3. Resolved(h, ans).deny = hosts[h].deny /\ Resolved(h, ans).robots = hosts[h].robots
  BY <1>1 DEF Resolved, HostEntries
<1>4. K \in HostEntries /\ K.deny = hosts[h].deny /\ K.robots = hosts[h].robots
  BY <1>1, <1>2, <1>3 DEF Dialled
<1> HIDE DEF K
<1>5. SpendHost(K) \in HostEntries
  BY <1>4, WindowType
<1>6. SpendHost(K).deny = K.deny /\ SpendHost(K).robots = K.robots
  BY <1>4 DEF SpendHost, HostEntries
<1>7. /\ [SpendHost(K) EXCEPT !.robots = "pending"].deny = SpendHost(K).deny
      /\ [SpendHost(K) EXCEPT !.robots = "pending"].robots = "pending"
  BY <1>5 DEF HostEntries
<1> QED BY <1>4, <1>6, <1>7 DEF K

LEMMA DispatchMoves ==
  ASSUME IndInv, NEW s, DispatchShard(s)
  PROVE  \E B, add, sent, robots : Moves(B, add, sent, robots)
<1>0. TypeOK /\ PoolsDisjoint
  BY DEF IndInv
<1>1. PICK q \in PushOrders(Revived), ord \in Lines(DueFront),
           n \in 0..Cardinality(DueFront) :
        \E add \in Bindings(ord, n) :
          \E ans \in Lookups(ReadyPool(ord, n)), G \in SUBSET ReadyPool(ord, n),
             pick \in SUBSET ReadyPool(ord, n) :
            Chosen(q, ord, n, add, ans, G, pick)
  BY <1>0, DispatchChoices
<1>2. PICK add \in Bindings(ord, n) :
          \E ans \in Lookups(ReadyPool(ord, n)), G \in SUBSET ReadyPool(ord, n),
             pick \in SUBSET ReadyPool(ord, n) :
            Chosen(q, ord, n, add, ans, G, pick)
  BY <1>1
<1>3. PICK ans \in Lookups(ReadyPool(ord, n)), G \in SUBSET ReadyPool(ord, n),
           pick \in SUBSET ReadyPool(ord, n) :
        Chosen(q, ord, n, add, ans, G, pick)
  BY <1>2
<1> DEFINE age == DueAge(q)
           b   == BoundBack(add)
           V   == SweptURLs(age)
           U   == BoundURLs(V, ord, n)
           B   == BoundKeys(ord, n)
           dial   == Dialled(G \cup pick, ans)
           robots == {h \in pick : NeedsRobots(hosts[h])}
<1>4. /\ Revived \in SUBSET URLs /\ DueFront \in SUBSET URLs
      /\ V \in [URLs -> URLRecords] /\ SweptFile(age) \in [URLs -> Buckets]
  BY <1>0, PromotedType
<1>5. /\ ReadyPool(ord, n) \in SUBSET Hosts /\ n \in Nat
      /\ \A h \in ReadyPool(ord, n) : b[h] # <<>>
  BY <1>0, <1>4, ReadyPoolFacts
<1>6. Chosen(q, ord, n, add, ans, G, pick) /\ Dispatched(q, ord, n, add, ans, G, pick)
  BY <1>3 DEF Chosen
<1>7. \A h \in Hosts : b[h] = back[h] \o add[h] /\ add[h] \in Seq(URLs) /\ b[h] \in Seq(URLs)
  <2> TAKE h \in Hosts
  <2> QED BY <1>0, <1>5, BindingType
<1>8. \A h \in pick : h \in Hosts /\ b[h] # <<>> /\ b[h][1] = Head(b[h]) /\ Head(b[h]) \in URLs
  <2> TAKE h \in pick
  <2>1. h \in Hosts /\ b[h] \in Seq(URLs) /\ b[h] # <<>>
    BY <1>5, <1>7
  <2> HIDE DEF b
  <2> QED BY <2>1, KeysAre
<1>9. pick \cap inFlight = {}
  <2>1. inFlight \cap ready = {} /\ inFlight \cap wait = {}
    BY <1>0 DEF PoolsDisjoint
  <2> QED BY <2>1 DEF ReadyPool, Opened, Popped, Placed
<1>10. ord \in [1..Cardinality(DueFront) -> DueFront] /\ Cardinality(DueFront) \in Nat
  <2>1. IsFiniteSet(DueFront)
    BY <1>4, SomeURLs
  <2> QED BY <2>1, FS_CardinalityType DEF Lines
<1>11. B \subseteq DueFront
  BY <1>10 DEF BoundKeys
<1>12. ASSUME NEW h \in Hosts
       PROVE  Distinct(add[h]) /\ KeysOf(add[h]) = {u \in B : HostOf[u] = h /\ ~Disallowed(u)}
  <2>1. BoundTo(h, ord, n) = {u \in B : HostOf[u] = h /\ ~Disallowed(u)}
    BY <1>4, <1>11 DEF BoundTo, BoundKeys
  <2>2. add[h] \in Lines(BoundTo(h, ord, n)) /\ BoundTo(h, ord, n) \in SUBSET URLs
    BY DEF Bindings, BoundTo
  <2> QED BY <2>1, <2>2, KeysLine
<1>13. /\ back' = b /\ front' = DueFront \ B /\ wheel' = wheel \ Fired
       /\ flying' = flying \cup {<<h, Robots>> : h \in robots}
                            \cup {<<h, b[h][1]>> : h \in pick \ robots}
       /\ urls' = [u \in URLs |-> IF \E h \in pick \ robots : b[h][1] = u
                                  THEN [U[u] EXCEPT !.status = "InFlight"] ELSE U[u]]
       /\ filed' = [u \in URLs |-> IF u \in B THEN 0 ELSE SweptFile(age)[u]]
       /\ hosts' = [h \in Hosts |->
                     IF h \in robots THEN [SpendHost(dial[h]) EXCEPT !.robots = "pending"]
                     ELSE IF h \in pick THEN SpendHost(dial[h]) ELSE dial[h]]
  BY <1>6 DEF Dispatched
<1>14. ASSUME NEW h \in Hosts
       PROVE  /\ hosts'[h].deny = hosts[h].deny
              /\ hosts'[h].robots = IF h \in robots THEN "pending" ELSE hosts[h].robots
  <2>1. G \cup pick \subseteq ReadyPool(ord, n)
    OBVIOUS
  <2>2. /\ dial[h].deny = hosts[h].deny /\ dial[h].robots = hosts[h].robots
        /\ SpendHost(dial[h]).deny = hosts[h].deny
        /\ SpendHost(dial[h]).robots = hosts[h].robots
        /\ [SpendHost(dial[h]) EXCEPT !.robots = "pending"].deny = hosts[h].deny
        /\ [SpendHost(dial[h]) EXCEPT !.robots = "pending"].robots = "pending"
    BY <1>0, <2>1, DispatchHost
  <2> HIDE DEF dial, robots
  <2> QED BY <1>13, <2>2
<1>15. ASSUME NEW u \in URLs
       PROVE  /\ V[u].status = IF u \in Revived /\ urls[u].status = "Crawled"
                               THEN "DueRecrawl" ELSE urls[u].status
              /\ V[u].due = urls[u].due
  <2>1. urls[u] \in URLRecords
    BY <1>0 DEF TypeOK
  <2>2. DueURLs[u] \in URLRecords /\ DueURLs[u].due = urls[u].due
        /\ DueURLs[u].status = IF u \in Revived /\ urls[u].status = "Crawled"
                               THEN "DueRecrawl" ELSE urls[u].status
    BY <2>1 DEF DueURLs, URLRecords, Statuses
  <2> QED BY <2>2 DEF SweptURLs, URLRecords
<1>16. ASSUME NEW u \in URLs
       PROVE  /\ U[u] \in URLRecords /\ U[u].due = urls[u].due
              /\ U[u].status = IF u \in B /\ Disallowed(u) THEN "ExcludedRobots" ELSE V[u].status
  <2> HIDE DEF V
  <2>1. V[u] \in URLRecords
    BY <1>4
  <2> QED BY <1>15, <2>1 DEF BoundURLs, URLRecords, Statuses
<1>17. ASSUME NEW u \in URLs
       PROVE  /\ urls'[u].status = IF \E h \in pick \ robots : b[h][1] = u
                                   THEN "InFlight" ELSE U[u].status
              /\ urls'[u].due = urls[u].due /\ urls'[u].prio = U[u].prio
  <2> HIDE DEF U, robots, b
  <2> QED BY <1>13, <1>16 DEF URLRecords
<1>18. FrontBucketed => FrontBucketed'
  <2> SUFFICES ASSUME FrontBucketed, NEW u \in DueFront, u \notin B
               PROVE  filed'[u] = urls'[u].prio
    BY <1>13 DEF FrontBucketed
  <2>1. u \in URLs /\ urls[u] \in URLRecords
    BY <1>0, <1>4 DEF TypeOK
  <2>2. U[u] = V[u]
    BY <2>1 DEF BoundURLs
  <2>3. DueURLs[u].prio = urls[u].prio /\ DueURLs[u] \in URLRecords
    BY <2>1 DEF DueURLs, URLRecords, Statuses
  <2>4. DueFiled[u] = DueURLs[u].prio
    BY <2>1, <2>3 DEF DueFiled, DueFront, FrontBucketed
  <2>5. SweptFile(age)[u] = V[u].prio
    BY <2>1, <2>3, <2>4 DEF SweptFile, SweptURLs, URLRecords
  <2>6. filed'[u] = SweptFile(age)[u]
    BY <1>13, <2>1
  <2> HIDE DEF U, V, age
  <2> QED BY <1>17, <2>1, <2>2, <2>5, <2>6
<1> HIDE DEF age, b, V, U, B, dial, robots
<1>19. \A u \in URLs : (\E h \in pick \ robots : b[h][1] = u)
                         <=> (\E h \in pick \ robots : Head(back'[h]) = u)
  BY <1>8, <1>13
<1>20. {<<h, b[h][1]>> : h \in pick \ robots} = {<<h, Head(back'[h])>> : h \in pick \ robots}
  BY <1>8, <1>13
<1>21. ASSUME NEW u \in URLs
       PROVE  urls'[u].status =
                IF \E h \in pick \ robots : Head(back'[h]) = u THEN "InFlight"
                ELSE IF u \in B /\ Disallowed(u) THEN "ExcludedRobots"
                ELSE IF u \in Revived /\ urls[u].status = "Crawled" THEN "DueRecrawl"
                ELSE urls[u].status
  BY <1>15, <1>16, <1>17, <1>19
<1>22. robots = {h \in pick : NeedsRobots(hosts[h])}
  BY DEF robots
<1>23. Moves(B, add, pick, robots)
  <2>1. pick \subseteq Hosts \ inFlight /\ \A h \in pick : back'[h] # <<>>
    BY <1>8, <1>9, <1>13
  <2>2. \A h \in Hosts : /\ back'[h] = back[h] \o add[h]
                         /\ add[h] \in Seq(URLs) /\ Distinct(add[h])
                         /\ KeysOf(add[h]) = {u \in B : HostOf[u] = h /\ ~Disallowed(u)}
    BY <1>7, <1>12, <1>13
  <2>3. flying' = flying \cup {<<h, Robots>> : h \in robots}
                         \cup {<<h, Head(back'[h])>> : h \in pick \ robots}
    BY <1>13, <1>20
  <2> QED BY <1>11, <1>13, <1>14, <1>17, <1>18, <1>21, <1>22, <2>1, <2>2, <2>3 DEF Moves
<1> QED BY <1>23

\* A dispatch takes keys out of the bank and the wheel before it queues them,
\* and fetches the head of a queue that nothing else is fetching from.
LEMMA DispatchPlace ==
  ASSUME PlaceInv, NEW B, NEW add, NEW sent, NEW robots, Moves(B, add, sent, robots)
  PROVE  URLInOnePlace' /\ FlyingHead' /\ Waiting'
<1> DEFINE K(h) == KeysOf(back[h])
           N(h) == KeysOf(add[h])
<1>1. /\ TypeOK /\ back \in [Hosts -> Seq(URLs)] /\ front \subseteq URLs /\ wheel \subseteq URLs
      /\ \A h \in Hosts : K(h) \subseteq URLs
  BY KeysAre DEF PlaceInv, IndInv, TypeOK
<1>2. /\ front \cap wheel = {}
      /\ \A h \in Hosts : /\ Distinct(back[h])
                          /\ \A u \in K(h) : HostOf[u] = h /\ u \notin front \cup wheel
  BY OnePlace DEF OneHome, PlaceInv
<1>3. /\ Revived \subseteq Fired /\ Fired \subseteq wheel /\ DueFront = front \cup Revived
      /\ \A u \in Revived : urls[u].status \in Queueable \cup {"Crawled"}
  BY DEF Revived, Fired, DueFront
<1>4. /\ B \subseteq DueFront /\ front' = DueFront \ B /\ wheel' = wheel \ Fired
      /\ \A h \in Hosts : N(h) = {u \in B : HostOf[u] = h /\ ~Disallowed(u)}
  BY DEF Moves
<1>q. \A h \in Hosts : /\ back'[h] = back[h] \o add[h]
                       /\ add[h] \in Seq(URLs) /\ Distinct(add[h])
  BY DEF Moves
<1>5. /\ sent \subseteq Hosts \ inFlight /\ robots \subseteq sent /\ \A h \in sent : back'[h] # <<>>
      /\ flying' = flying \cup {<<h, Robots>> : h \in robots}
                           \cup {<<h, Head(back'[h])>> : h \in sent \ robots}
  BY DEF Moves
<1>6. \A u \in URLs :
        urls'[u].status =
            IF \E h \in sent \ robots : Head(back'[h]) = u THEN "InFlight"
            ELSE IF u \in B /\ Disallowed(u) THEN "ExcludedRobots"
            ELSE IF u \in Revived /\ urls[u].status = "Crawled" THEN "DueRecrawl"
            ELSE urls[u].status
  BY DEF Moves
<1>7. \A h \in Hosts : N(h) \subseteq B /\ K(h) \cap N(h) = {}
  <2> HIDE DEF K, N
  <2> QED BY <1>2, <1>3, <1>4
<1>8. \A h \in Hosts : back'[h] \in Seq(URLs) /\ KeysOf(back'[h]) = K(h) \cup N(h)
                       /\ Distinct(back'[h])
  <2> TAKE h \in Hosts
  <2>1. back[h] \in Seq(URLs) /\ add[h] \in Seq(URLs) /\ back'[h] = back[h] \o add[h]
        /\ Distinct(back[h]) /\ Distinct(add[h]) /\ K(h) \cap N(h) = {}
    BY <1>1, <1>2, <1>q, <1>7
  <2> QED BY <2>1, KeysConcat
<1>9. \A h \in sent : Head(back'[h]) \in KeysOf(back'[h]) /\ Head(back'[h]) \in URLs
  <2> TAKE h \in sent
  <2>1. back'[h] \in Seq(URLs) /\ back'[h] # <<>>
    BY <1>5, <1>8
  <2> QED BY <2>1, KeysAre
<1>10. OneHome(front', wheel', back')
  <2>1. front' \cap wheel' = {}
    BY <1>2, <1>3, <1>4
  <2>2. \A h \in Hosts : \A u \in K(h) \cup N(h) : HostOf[u] = h /\ u \notin front' \cup wheel'
    <3> HIDE DEF K, N
    <3> QED BY <1>2, <1>3, <1>4
  <2> QED BY <1>8, <2>1, <2>2 DEF OneHome
<1>11. URLInOnePlace'
  BY <1>10, OnePlace
<1>12. \A h \in Hosts : \A u \in KeysOf(back'[h]) : HostOf[u] = h /\ u \notin front' \cup wheel'
  BY <1>10 DEF OneHome
<1>13. \A g \in Hosts, u \in URLs : <<g, u>> \in flying => g \in inFlight
  BY DEF PlaceInv, IndInv, OneFetchPerHost
<1>14. \A g \in Hosts, u \in URLs : <<g, u>> \in flying =>
          /\ HostOf[u] = g /\ back[g] # <<>> /\ Head(back[g]) = u
          /\ urls[u].status = "InFlight" /\ u \in K(g)
  BY Standing DEF PlaceInv, FlyingHead
<1> HIDE DEF K, N
<1>15. FlyingHead'
  <2> SUFFICES ASSUME NEW g \in Hosts, NEW u \in URLs, <<g, u>> \in flying'
               PROVE  /\ HostOf[u] = g /\ back'[g] # <<>> /\ Head(back'[g]) = u
                      /\ urls'[u].status = "InFlight"
    BY DEF FlyingHead
  <2>1. CASE <<g, u>> \in flying
    <3>1. u \in K(g) /\ u \notin B /\ urls[u].status = "InFlight"
      BY <1>2, <1>3, <1>4, <1>14, <2>1 DEF K
    <3>2. back[g] # <<>> /\ Head(back[g]) = u /\ HostOf[u] = g
      BY <1>14, <2>1
    <3>3. back'[g] # <<>> /\ back'[g][1] = back[g][1]
      BY <1>1, <1>q, <3>2, ConcatFirst
    <3>4. Head(back'[g]) = back'[g][1] /\ Head(back[g]) = back[g][1]
      BY <1>1, <1>8, <3>2, <3>3, KeysAre
    <3>5. urls'[u].status = "InFlight"
      BY <1>6, <3>1
    <3> QED BY <3>2, <3>3, <3>4, <3>5
  <2>2. CASE <<g, u>> \notin flying
    <3>1. g \in sent \ robots /\ u = Head(back'[g])
      BY <1>5, <2>2, KeyAssumption
    <3> QED BY <1>5, <1>6, <1>9, <1>12, <3>1
  <2> QED BY <2>1, <2>2
<1>16. \A u \in DueFront : u \in URLs /\ urls[u].status \in Queueable \cup {"Crawled"}
                           /\ (urls[u].status = "Crawled" => u \in Revived)
  BY <1>1, <1>3 DEF Waiting, PlaceInv, Queueable
<1>17. ASSUME NEW u \in URLs, u \in front' \cup wheel'
       PROVE  ~ \E h \in sent \ robots : Head(back'[h]) = u
  BY <1>5, <1>9, <1>12, <1>17
<1>18. \A u \in front' : urls'[u].status \in Queueable
  BY <1>4, <1>6, <1>16, <1>17 DEF Queueable
<1>19. \A u \in wheel' : urls'[u].status \in Queueable \cup {"Crawled"}
  <2> SUFFICES ASSUME NEW u \in wheel' PROVE urls'[u].status \in Queueable \cup {"Crawled"}
    OBVIOUS
  <2>1. u \in wheel /\ u \in URLs /\ u \notin DueFront /\ u \notin Revived
    BY <1>1, <1>2, <1>3, <1>4
  <2>2. urls'[u].status = urls[u].status
    BY <1>4, <1>6, <1>17, <2>1
  <2> QED BY <2>1, <2>2 DEF Waiting, PlaceInv
<1>20. ASSUME NEW h \in Hosts, NEW u \in KeysOf(back'[h])
       PROVE  urls'[u].status \in Queueable \/ <<h, u>> \in flying'
  <2>0. u \in URLs /\ HostOf[u] = h
    BY <1>8, <1>12, KeysAre
  <2>1. CASE \E g \in sent \ robots : Head(back'[g]) = u
    <3>1. PICK g \in sent \ robots : Head(back'[g]) = u
      BY <2>1
    <3>2. g = h
      BY <1>5, <1>9, <1>12, <2>0, <3>1
    <3> QED BY <1>5, <3>1, <3>2
  <2>2. CASE ~ \E g \in sent \ robots : Head(back'[g]) = u
    <3>1. CASE u \in K(h)
      <4>1. u \notin B /\ u \notin Revived
        BY <1>2, <1>3, <1>4, <3>1 DEF K
      <4>2. urls'[u].status = urls[u].status
        BY <1>6, <2>0, <2>2, <4>1
      <4>3. urls[u].status \in Queueable \/ <<h, u>> \in flying
        BY <3>1 DEF Waiting, PlaceInv, K
      <4> QED BY <1>5, <4>2, <4>3
    <3>2. CASE u \in N(h)
      <4>1. u \in B /\ ~Disallowed(u) /\ u \in DueFront
        BY <1>4, <3>2
      <4> QED BY <1>6, <1>16, <2>0, <2>2, <4>1 DEF Queueable
    <3> QED BY <1>8, <3>1, <3>2
  <2> QED BY <2>1, <2>2
<1>21. Waiting'
  BY <1>18, <1>19, <1>20 DEF Waiting
<1> QED BY <1>11, <1>15, <1>21

-----------------------------------------------------------------------------
(* The bank's buckets, terminal URLs, and crawled URLs' due hours. *)

\* A crawled URL has a due hour, in memory and in the checkpoint: Recover files
\* only a positive one on the wheel.
CrawledDue ==
  \A u \in URLs : /\ urls[u].status = "Crawled" => urls[u].due > 0
                  /\ disk.urls[u].status = "Crawled" => disk.urls[u].due > 0

\* No terminal status is left.
TerminalStep ==
  \A u \in URLs : urls[u].status \in Terminal => urls'[u].status = urls[u].status

LEMMA SeedBank ==
  ASSUME PlaceInv, FrontBucketed, CrawledDue, NEW u \in URLs, NEW p, NEW d, Seed(u, p, d)
  PROVE  FrontBucketed' /\ CrawledDue' /\ TerminalStep
<1>1. /\ urls \in [URLs -> URLRecords] /\ urls[u].status = "none" /\ front \subseteq URLs
      /\ filed \in [URLs -> Buckets] /\ disk' = disk
  BY DEF PlaceInv, IndInv, TypeOK, Seed, Unseen
<1>2. u \notin front
  BY <1>1, Standing
<1>3. /\ urls'[u].status = "Scheduled" /\ \A v \in URLs \ {u} : urls'[v] = urls[v]
  BY <1>1 DEF Seed
<1>4. \/ front' = front /\ filed' = filed
      \/ /\ front' = front \cup {u}
         /\ filed' = [v \in URLs |-> IF v \in {u} THEN urls'[v].prio ELSE filed[v]]
  BY DEF Seed, FrontPush
<1>5. FrontBucketed'
  BY <1>1, <1>2, <1>3, <1>4 DEF FrontBucketed
<1>6. CrawledDue'
  BY <1>1, <1>3 DEF CrawledDue
<1>7. TerminalStep
  BY <1>1, <1>3 DEF TerminalStep, Terminal
<1> QED BY <1>5, <1>6, <1>7

LEMMA DiscoverBank ==
  ASSUME PlaceInv, FrontBucketed, CrawledDue, NEW u \in URLs, NEW admit, NEW p \in Buckets,
         Discover(u, admit, p)
  PROVE  FrontBucketed' /\ CrawledDue' /\ TerminalStep
<1>1. /\ TypeOK /\ urls \in [URLs -> URLRecords] /\ front \subseteq URLs
  BY DEF PlaceInv, IndInv, TypeOK
<1>2. urls' \in [URLs -> URLRecords] /\ disk' = disk
  BY <1>1, DiscoverType DEF Discover, TypeOK
<1>3. \A v \in URLs :
        /\ urls[v].status # "none" => urls'[v].status = urls[v].status /\ urls'[v].due = urls[v].due
        /\ urls[v].status = "none" => urls'[v].status \in {"none", "Scheduled", "Trapped"}
  BY <1>1, DiscoverStatus DEF Discover
<1>4. \A v \in front : urls'[v].status \in Queueable
  BY <1>1, <1>3 DEF PlaceInv, Waiting, Queueable
<1>5. FrontBucketed'
  BY <1>1, <1>2, <1>4, EnterBank DEF Discover, FrontBucketed
<1>6. CrawledDue'
  BY <1>2, <1>3 DEF CrawledDue
<1>7. TerminalStep
  BY <1>3 DEF TerminalStep, Terminal
<1> QED BY <1>5, <1>6, <1>7

\* A dispatch marks and excludes only what a queue holds, so nothing terminal.
LEMMA DispatchBank ==
  ASSUME PlaceInv, FrontBucketed, CrawledDue, disk' = disk,
         NEW B, NEW add, NEW sent, NEW robots, Moves(B, add, sent, robots)
  PROVE  FrontBucketed' /\ CrawledDue' /\ TerminalStep
<1>1. FrontBucketed'
  BY DEF Moves
<1>2. CrawledDue'
  BY DEF Moves, CrawledDue
<1>3. TerminalStep
  <2> SUFFICES ASSUME NEW u \in URLs, urls[u].status \in Terminal
               PROVE  urls'[u].status = urls[u].status
    BY DEF TerminalStep
  <2>1. /\ u \notin front \cup wheel
        /\ \A h \in Hosts : u \notin KeysOf(back[h])
    BY Standing
  <2>2. u \notin DueFront /\ u \notin Revived /\ B \subseteq DueFront
    BY <2>1 DEF DueFront, Revived, Fired, Moves
  <2>3. ~ \E h \in sent \ robots : Head(back'[h]) = u
    <3> SUFFICES ASSUME NEW h \in sent PROVE Head(back'[h]) # u
      OBVIOUS
    <3>1. h \in Hosts /\ back'[h] # <<>> /\ back'[h] = back[h] \o add[h]
      BY DEF Moves
    <3>2. add[h] \in Seq(URLs) /\ KeysOf(add[h]) \subseteq B
      BY <3>1 DEF Moves
    <3>3. back[h] \in Seq(URLs)
      BY <3>1 DEF PlaceInv, IndInv, TypeOK
    <3>4. back'[h] \in Seq(URLs) /\ KeysOf(back'[h]) = KeysOf(back[h]) \cup KeysOf(add[h])
      BY <3>1, <3>2, <3>3, KeysConcat
    <3>5. Head(back'[h]) \in KeysOf(back'[h])
      BY <3>1, <3>4, KeysAre
    <3> QED BY <2>1, <2>2, <3>1, <3>2, <3>4, <3>5
  <2> QED BY <2>2, <2>3 DEF Moves, Terminal
<1> QED BY <1>1, <1>2, <1>3

LEMMA ApplyRobotsBank ==
  ASSUME PlaceInv, FrontBucketed, CrawledDue, NEW h \in Hosts, NEW resp, NEW deny, NEW delay,
         ApplyRobots(h, resp, deny, delay)
  PROVE  FrontBucketed' /\ CrawledDue' /\ TerminalStep
<1> DEFINE X == KeysOf(back[h]) \cap RobotsHost(hosts[h], resp, deny, delay).deny
<1>1. /\ urls' = [u \in URLs |-> IF u \in X THEN [urls[u] EXCEPT !.status = "ExcludedRobots"]
                                 ELSE urls[u]]
      /\ front' = front /\ filed' = filed /\ disk' = disk
  BY DEF ApplyRobots
<1>2. urls \in [URLs -> URLRecords] /\ front \subseteq URLs
  BY DEF PlaceInv, IndInv, TypeOK
<1>3. X \subseteq KeysOf(back[h])
  OBVIOUS
<1> HIDE DEF X
<1>4. \A u \in URLs : urls'[u].prio = urls[u].prio
  BY <1>1, <1>2 DEF URLRecords
<1>5. \A u \in URLs : IF u \in X THEN urls'[u].status = "ExcludedRobots" ELSE urls'[u] = urls[u]
  BY <1>1, <1>2 DEF URLRecords
<1>6. FrontBucketed'
  BY <1>1, <1>2, <1>4 DEF FrontBucketed
<1>7. CrawledDue'
  BY <1>1, <1>5 DEF CrawledDue
<1>8. TerminalStep
  BY <1>3, <1>5, Standing DEF TerminalStep
<1> QED BY <1>6, <1>7, <1>8

LEMMA ReportCrawledBank ==
  ASSUME PlaceInv, FrontBucketed, CrawledDue,
         NEW u \in URLs, NEW soft \in BOOLEAN, NEW due \in Nat, NEW at \in Nat,
         NEW target, NEW links, NEW admit, NEW p, NEW sig,
         \A v \in URLs \cap (target \cup links) : p[v] \in Buckets,
         links # {} => p[u] \in Buckets,
         ReportCrawled(u, soft, due, at, target, links, admit, p, sig)
  PROVE  FrontBucketed' /\ CrawledDue' /\ TerminalStep
<1> DEFINE U == CrawledTable(u, soft, due, at, target, links, admit, p)
<1>0. TypeOK
  BY DEF PlaceInv, IndInv
<1>1. /\ urls' = U /\ Enter(U) /\ Landed(u) /\ disk' = disk
  BY DEF ReportCrawled, CrawledTable, Landed
<1>2. /\ U \in [URLs -> URLRecords]
      /\ FreshOn => U[u].status = "DueRecrawl"
      /\ ~FreshOn => U[u].status \in {"Crawled", "Gone"} /\ U[u].due > 0
      /\ \A v \in URLs \ {u} :
           /\ urls[v].status # "none" => U[v].status = urls[v].status /\ U[v].due = urls[v].due
           /\ urls[v].status = "none" => U[v].status \in {"none", "Scheduled", "Trapped"}
  BY <1>0, CrawledTableFacts
<1> HIDE DEF U
<1>3. urls[u].status = "InFlight" /\ front \subseteq URLs /\ u \notin front
  BY <1>0, <1>1, UnqueuedKeys, Standing DEF TypeOK
<1>4. \A v \in front : U[v].status \in Queueable
  BY <1>2, <1>3 DEF PlaceInv, Waiting, Queueable
<1>5. FrontBucketed'
  BY <1>0, <1>1, <1>2, <1>4, EnterBank DEF FrontBucketed
<1>6. CrawledDue'
  BY <1>1, <1>2 DEF CrawledDue
<1>7. TerminalStep
  BY <1>1, <1>2, <1>3 DEF TerminalStep, Terminal
<1> QED BY <1>5, <1>6, <1>7

LEMMA ReportFailedBank ==
  ASSUME PlaceInv, FrontBucketed, CrawledDue, NEW u \in URLs, NEW is410, NEW at, NEW sig,
         ReportFailed(u, is410, at, sig)
  PROVE  FrontBucketed' /\ CrawledDue' /\ TerminalStep
<1> DEFINE r == MinOf(urls[u].retry + 1, MaxRetries)
           gone == is410 \/ r >= MaxRetries
<1>1. urls \in [URLs -> URLRecords] /\ front \subseteq URLs
  BY DEF PlaceInv, IndInv, TypeOK
<1>2. /\ urls' = [urls EXCEPT ![u] = FailedURL(urls[u], r, gone, at)] /\ Landed(u)
      /\ front' = front /\ filed' = filed /\ disk' = disk
  BY <1>1 DEF ReportFailed, Landed
<1> HIDE DEF gone, r
<1>3. urls'[u].prio = urls[u].prio /\ urls'[u].status \in {"Gone", "Scheduled"}
  BY <1>1, <1>2 DEF FailedURL, URLRecords
<1>4. \A v \in URLs \ {u} : urls'[v] = urls[v]
  BY <1>1, <1>2
<1>5. urls[u].status = "InFlight"
  BY <1>2, UnqueuedKeys
<1>6. FrontBucketed'
  BY <1>1, <1>2, <1>3, <1>4 DEF FrontBucketed
<1>7. CrawledDue'
  BY <1>2, <1>3, <1>4 DEF CrawledDue
<1>8. TerminalStep
  BY <1>4, <1>5 DEF TerminalStep, Terminal
<1> QED BY <1>6, <1>7, <1>8

LEMMA RecoverBank ==
  ASSUME PlaceInv, CrawledDue, Recover
  PROVE  FrontBucketed' /\ CrawledDue'
<1>1. \A u \in URLs : disk.urls[u] \in URLRecords
  BY DEF PlaceInv, IndInv, TypeOK
<1>2. /\ urls' = [u \in URLs |-> RecoveredURL(disk.urls[u])] /\ disk' = disk
      /\ front' = {u \in URLs : urls'[u].status \in Queueable}
      /\ filed' = [u \in URLs |-> IF u \in front' THEN urls'[u].prio ELSE 0]
  BY DEF Recover
<1>3. \A u \in URLs : urls'[u].status = "Crawled" =>
          disk.urls[u].status = "Crawled" /\ urls'[u].due = disk.urls[u].due
  BY <1>1, <1>2 DEF RecoveredURL, URLRecords
<1>4. FrontBucketed'
  BY <1>2 DEF FrontBucketed
<1>5. CrawledDue'
  BY <1>2, <1>3 DEF CrawledDue
<1> QED BY <1>4, <1>5

-----------------------------------------------------------------------------
(* robots.txt. *)

\* Rules awaited are being fetched, and rules in force hold of the whole queue of
\* their host: that is why the head of a queue may be fetched unchecked.
RulesKept ==
  \A h \in Hosts :
    /\ hosts[h].robots = "pending" => <<h, Robots>> \in flying
    /\ hosts[h].robots = "ready" => KeysOf(back[h]) \cap hosts[h].deny = {}

RulesInv == RulesKept /\ NoDisallowedFetch

LEMMA RulesUnchanged ==
  ASSUME RulesInv, UNCHANGED <<hosts, back, flying>> PROVE RulesInv'
  BY DEF RulesInv, RulesKept, NoDisallowedFetch

\* A dispatch for content finds rules in force, since a host whose rules are
\* awaited is in flight, and binds only what they allow.
LEMMA DispatchRules ==
  ASSUME PlaceInv, RulesInv, NEW B, NEW add, NEW sent, NEW robots, Moves(B, add, sent, robots)
  PROVE  RulesInv'
<1>1. /\ \A h \in Hosts : /\ hosts'[h].deny = hosts[h].deny
                          /\ hosts'[h].robots = IF h \in robots THEN "pending" ELSE hosts[h].robots
      /\ sent \subseteq Hosts \ inFlight /\ robots = {h \in sent : NeedsRobots(hosts[h])}
      /\ flying' = flying \cup {<<h, Robots>> : h \in robots}
                           \cup {<<h, Head(back'[h])>> : h \in sent \ robots}
      /\ \A h \in sent : back'[h] # <<>>
  BY DEF Moves
<1>2. flying \subseteq Hosts \X (URLs \cup {Robots}) /\ \A f \in flying : f[1] \in inFlight
  BY DEF PlaceInv, IndInv, TypeOK, OneFetchPerHost
<1>3. ASSUME NEW h \in Hosts
      PROVE  /\ back'[h] \in Seq(URLs)
             /\ hosts[h].robots = "ready" => KeysOf(back'[h]) \cap hosts[h].deny = {}
  <2>1. back[h] \in Seq(URLs)
    BY DEF PlaceInv, IndInv, TypeOK
  <2>2. /\ back'[h] = back[h] \o add[h] /\ add[h] \in Seq(URLs)
        /\ KeysOf(add[h]) = {u \in B : HostOf[u] = h /\ ~Disallowed(u)}
    BY DEF Moves
  <2>3. back'[h] \in Seq(URLs) /\ KeysOf(back'[h]) = KeysOf(back[h]) \cup KeysOf(add[h])
    BY <2>1, <2>2, KeysConcat
  <2>4. hosts[h].robots = "ready" => \A u \in KeysOf(add[h]) : u \notin hosts[h].deny
    BY <2>2 DEF Disallowed
  <2> QED BY <2>3, <2>4 DEF RulesInv, RulesKept
<1>4. RulesKept'
  <2> SUFFICES ASSUME NEW h \in Hosts
               PROVE  /\ hosts'[h].robots = "pending" => <<h, Robots>> \in flying'
                      /\ hosts'[h].robots = "ready" => KeysOf(back'[h]) \cap hosts'[h].deny = {}
    BY DEF RulesKept
  <2>1. CASE h \in robots
    BY <1>1, <2>1
  <2>2. CASE h \notin robots
    BY <1>1, <1>3, <2>2 DEF RulesInv, RulesKept
  <2> QED BY <2>1, <2>2
<1>5. NoDisallowedFetch'
  <2> SUFFICES ASSUME RobotsOn, NEW f \in flying', f[2] # Robots
               PROVE  hosts'[f[1]].robots = "ready" /\ f[2] \notin hosts'[f[1]].deny
    BY DEF NoDisallowedFetch
  <2>1. CASE f \in flying
    <3>1. f[1] \in Hosts /\ f[1] \notin sent
      BY <1>1, <1>2, <2>1
    <3> QED BY <1>1, <2>1, <3>1 DEF RulesInv, NoDisallowedFetch
  <2>2. CASE f \notin flying
    <3>1. PICK h \in sent \ robots : f = <<h, Head(back'[h])>>
      BY <1>1, <2>2
    <3>2. h \in Hosts /\ h \notin inFlight /\ ~NeedsRobots(hosts[h])
      BY <1>1
    <3>3. hosts[h].robots # "pending"
      <4> SUFFICES ASSUME hosts[h].robots = "pending" PROVE FALSE
        OBVIOUS
      <4>1. <<h, Robots>> \in flying
        BY <3>2 DEF RulesInv, RulesKept
      <4>2. <<h, Robots>>[1] \in inFlight
        BY <1>2, <4>1
      <4> QED BY <3>2, <4>2
    <3>4. hosts[h].robots = "ready"
      BY <3>2, <3>3 DEF NeedsRobots
    <3>5. Head(back'[h]) \in KeysOf(back'[h])
      BY <1>1, <1>3, <3>2, KeysAre
    <3> QED BY <1>1, <1>3, <3>1, <3>2, <3>4, <3>5
  <2> QED BY <2>1, <2>2
<1> QED BY <1>4, <1>5 DEF RulesInv

\* New rules replace the old ones and are applied to the queue at once.
LEMMA ApplyRobotsRules ==
  ASSUME PlaceInv, RulesInv, NEW h \in Hosts, NEW resp, NEW deny \in SUBSET URLs, NEW delay \in Nat,
         ApplyRobots(h, resp, deny, delay)
  PROVE  RulesInv'
<1> DEFINE H == RobotsHost(hosts[h], resp, deny, delay)
<1>1. PICK b \in Kept(back[h], H.deny) : back' = [back EXCEPT ![h] = b]
  BY DEF ApplyRobots
<1>2. /\ hosts' = [hosts EXCEPT ![h] = H] /\ <<h, Robots>> \in flying
      /\ flying' = flying \ {<<h, Robots>>}
  BY DEF ApplyRobots
<1>3. hosts \in [Hosts -> HostEntries] /\ back \in [Hosts -> Seq(URLs)]
      /\ flying \subseteq Hosts \X (URLs \cup {Robots}) /\ now \in Nat
  BY DEF PlaceInv, IndInv, TypeOK
<1>4. H.robots = "ready"
  BY <1>3 DEF RobotsHost, HostEntries
<1>5. KeysOf(b) \cap H.deny = {}
  <2>1. KeysOf(back[h]) \ H.deny \in SUBSET URLs
    BY <1>3, KeysAre
  <2> QED BY <2>1, KeysLine DEF Kept
<1>6. \A f \in flying' : f \in flying /\ f[1] # h
  <2>1. \A f, g \in flying : f[1] = g[1] => f = g
    BY DEF PlaceInv, IndInv, OneFetchPerHost
  <2> QED BY <1>2, <2>1
<1> HIDE DEF H
<1>7. hosts'[h] = H /\ back'[h] = b
      /\ \A g \in Hosts \ {h} : hosts'[g] = hosts[g] /\ back'[g] = back[g]
  BY <1>1, <1>2, <1>3
<1>8. RulesKept'
  <2> SUFFICES ASSUME NEW g \in Hosts
               PROVE  /\ hosts'[g].robots = "pending" => <<g, Robots>> \in flying'
                      /\ hosts'[g].robots = "ready" => KeysOf(back'[g]) \cap hosts'[g].deny = {}
    BY DEF RulesKept
  <2>1. CASE g = h
    BY <1>4, <1>5, <1>7, <2>1
  <2>2. CASE g # h
    BY <1>2, <1>7, <2>2 DEF RulesInv, RulesKept
  <2> QED BY <2>1, <2>2
<1>9. NoDisallowedFetch'
  BY <1>3, <1>6, <1>7 DEF RulesInv, NoDisallowedFetch
<1> QED BY <1>8, <1>9 DEF RulesInv

\* A report touches no rule and only shortens what they hold of.
LEMMA ResumeRules ==
  ASSUME PlaceInv, RulesInv, NEW u \in URLs, NEW b, NEW U, NEW sig,
         Landed(u), Resume(HostOf[u], b, U, sig), KeysOf(b) \subseteq KeysOf(back[HostOf[u]])
  PROVE  RulesInv'
<1> DEFINE h == HostOf[u]
<1>0. h \in Hosts
  BY KeyAssumption
<1>1. <<h, u>> \in flying /\ flying' = flying \ {<<h, u>>} /\ back' = [back EXCEPT ![h] = b]
  BY DEF Landed, Resume
<1>2. PICK H \in Adapted(hosts[h], sig) : hosts' = [hosts EXCEPT ![h] = H]
  BY DEF Resume
<1>3. hosts \in [Hosts -> HostEntries] /\ back \in [Hosts -> Seq(URLs)]
      /\ flying \subseteq Hosts \X (URLs \cup {Robots})
  BY DEF PlaceInv, IndInv, TypeOK
<1>4. H.robots = hosts[h].robots /\ H.deny = hosts[h].deny
  BY <1>0, <1>3 DEF Adapted, HostEntries
<1>5. \A f \in flying' : f \in flying /\ f[1] # h
  <2>1. \A f, g \in flying : f[1] = g[1] => f = g
    BY DEF PlaceInv, IndInv, OneFetchPerHost
  <2> QED BY <1>1, <2>1
<1>6. <<h, Robots>> \notin flying
  <2> SUFFICES ASSUME <<h, Robots>> \in flying PROVE FALSE
    OBVIOUS
  <2>1. \A f, g \in flying : f[1] = g[1] => f = g
    BY DEF PlaceInv, IndInv, OneFetchPerHost
  <2>2. <<h, Robots>> = <<h, u>>
    BY <1>1, <2>1
  <2> QED BY <2>2, KeyAssumption
<1> HIDE DEF h
<1>7. hosts'[h] = H /\ back'[h] = b
      /\ \A g \in Hosts \ {h} : hosts'[g] = hosts[g] /\ back'[g] = back[g]
  BY <1>0, <1>1, <1>2, <1>3
<1>8. RulesKept'
  <2> SUFFICES ASSUME NEW g \in Hosts
               PROVE  /\ hosts'[g].robots = "pending" => <<g, Robots>> \in flying'
                      /\ hosts'[g].robots = "ready" => KeysOf(back'[g]) \cap hosts'[g].deny = {}
    BY DEF RulesKept
  <2>1. CASE g = h
    BY <1>0, <1>4, <1>6, <1>7, <2>1 DEF RulesInv, RulesKept, h
  <2>2. CASE g # h
    BY <1>1, <1>7, <2>2 DEF RulesInv, RulesKept
  <2> QED BY <2>1, <2>2
<1>9. NoDisallowedFetch'
  BY <1>3, <1>5, <1>7 DEF RulesInv, NoDisallowedFetch
<1> QED BY <1>8, <1>9 DEF RulesInv

LEMMA RecoverRules ==
  ASSUME TypeOK, Recover PROVE RulesInv'
<1>1. flying' = {} /\ hosts' = [h \in Hosts |-> RecoveredHost(disk.hosts[h])]
  BY DEF Recover
<1>2. \A h \in Hosts : disk.hosts[h] \in HostEntries
  BY DEF TypeOK
<1>3. \A h \in Hosts : hosts'[h].robots = "none"
  BY <1>1, <1>2 DEF RecoveredHost, HostEntries
<1> QED BY <1>1, <1>3 DEF RulesInv, RulesKept, NoDisallowedFetch

-----------------------------------------------------------------------------
(* Nothing is lost. *)

\* With the freshness model off.  With it on, a crawled URL becomes DueRecrawl and
\* enters no queue until a restart (markCrawled), so NoURLLost does not hold.
KeptInv == ~FreshOn => NoURLLost

\* What is left to show of NoURLLost once the places are known.
LEMMA KeptBy ==
  ASSUME FlyingHead',
         \A u \in URLs :
           /\ urls'[u].status \in Queueable => u \in front' \cup wheel' \cup KeysOf(back'[HostOf[u]])
           /\ urls'[u].status = "InFlight" => <<HostOf[u], u>> \in flying'
           /\ WheelOn /\ urls'[u].status = "Crawled" => u \in wheel'
  PROVE  NoURLLost'
  BY KeyAssumption DEF NoURLLost, FlyingHead

LEMMA SeedKept ==
  ASSUME PlaceInv, NoURLLost, FlyingHead', NEW u \in URLs, NEW p, NEW d, Seed(u, p, d)
  PROVE  NoURLLost'
<1>1. urls \in [URLs -> URLRecords]
  BY DEF PlaceInv, IndInv, TypeOK
<1>2. /\ urls'[u].status = "Scheduled" /\ \A v \in URLs \ {u} : urls'[v] = urls[v]
      /\ back' = back /\ flying' = flying
  BY <1>1 DEF Seed
<1>3. \/ front' = front \cup {u} /\ wheel' = wheel
      \/ front' = front /\ wheel' = wheel \cup {u}
  BY DEF Seed, FrontPush
<1> QED BY <1>2, <1>3, KeptBy DEF NoURLLost

LEMMA DiscoverKept ==
  ASSUME PlaceInv, NoURLLost, FlyingHead', NEW u \in URLs, NEW admit, NEW p \in Buckets,
         Discover(u, admit, p)
  PROVE  NoURLLost'
<1>1. TypeOK /\ urls \in [URLs -> URLRecords]
  BY DEF PlaceInv, IndInv, TypeOK
<1>2. urls' \in [URLs -> URLRecords]
  BY <1>1, DiscoverType DEF Discover, TypeOK
<1>3. front' = front \cup {v \in URLs : urls[v].status = "none" /\ urls'[v].status = "Scheduled"}
  BY <1>1, <1>2, EnterBank DEF Discover
<1>4. \A v \in URLs :
        /\ urls[v].status # "none" => urls'[v].status = urls[v].status
        /\ urls[v].status = "none" => urls'[v].status \in {"none", "Scheduled", "Trapped"}
  BY <1>1, DiscoverStatus DEF Discover
<1>5. wheel' = wheel /\ back' = back /\ flying' = flying
  BY DEF Discover, wheelVars
<1>6. \A v \in URLs :
        /\ urls'[v].status \in Queueable => v \in front' \cup wheel' \cup KeysOf(back'[HostOf[v]])
        /\ urls'[v].status = "InFlight" => <<HostOf[v], v>> \in flying'
        /\ WheelOn /\ urls'[v].status = "Crawled" => v \in wheel'
  BY <1>3, <1>4, <1>5 DEF NoURLLost, Queueable
<1> QED BY <1>6, KeptBy

\* A dispatch moves a due URL from the wheel to the bank, from the bank to its
\* host's queue, and from there into flight.
LEMMA DispatchKept ==
  ASSUME PlaceInv, NoURLLost, FlyingHead', URLInOnePlace',
         NEW B, NEW add, NEW sent, NEW robots, Moves(B, add, sent, robots)
  PROVE  NoURLLost'
<1> SUFFICES ASSUME NEW u \in URLs
             PROVE  /\ urls'[u].status \in Queueable =>
                         u \in front' \cup wheel' \cup KeysOf(back'[HostOf[u]])
                    /\ urls'[u].status = "InFlight" => <<HostOf[u], u>> \in flying'
                    /\ WheelOn /\ urls'[u].status = "Crawled" => u \in wheel'
  BY KeptBy
<1> DEFINE h == HostOf[u]
<1>0. h \in Hosts
  BY KeyAssumption
<1>1. /\ B \subseteq DueFront /\ front' = DueFront \ B /\ wheel' = wheel \ Fired
      /\ KeysOf(add[h]) = {v \in B : HostOf[v] = h /\ ~Disallowed(v)}
      /\ DueFront = front \cup Revived
      /\ Revived = {v \in Fired : urls[v].status \in {"Crawled"} \cup Queueable}
  BY <1>0 DEF Moves, DueFront, Revived
<1>2. /\ \A g \in sent : g \in Hosts /\ back'[g] # <<>>
      /\ flying \subseteq flying' /\ \A g \in sent \ robots : <<g, Head(back'[g])>> \in flying'
  BY DEF Moves
<1>3. urls'[u].status =
            IF \E g \in sent \ robots : Head(back'[g]) = u THEN "InFlight"
            ELSE IF u \in B /\ Disallowed(u) THEN "ExcludedRobots"
            ELSE IF u \in Revived /\ urls[u].status = "Crawled" THEN "DueRecrawl"
            ELSE urls[u].status
  BY DEF Moves
<1>4. KeysOf(back'[h]) = KeysOf(back[h]) \cup KeysOf(add[h])
  <2>1. back[h] \in Seq(URLs) /\ add[h] \in Seq(URLs) /\ back'[h] = back[h] \o add[h]
    BY <1>0 DEF PlaceInv, IndInv, TypeOK, Moves
  <2> QED BY <2>1, KeysConcat
<1>5. /\ urls[u].status \in Queueable => u \in front \cup wheel \cup KeysOf(back[h])
      /\ urls[u].status = "InFlight" => <<h, u>> \in flying
      /\ WheelOn /\ urls[u].status = "Crawled" => u \in wheel
  BY DEF NoURLLost
<1>6. CASE \E g \in sent \ robots : Head(back'[g]) = u
  <2>1. PICK g \in sent \ robots : Head(back'[g]) = u
    BY <1>6
  <2>2. <<g, u>> \in flying' /\ g \in Hosts
    BY <1>2, <2>1
  <2>3. g = h
    BY <2>2 DEF FlyingHead
  <2> QED BY <1>3, <1>6, <2>2, <2>3 DEF Queueable
<1>7. CASE ~ \E g \in sent \ robots : Head(back'[g]) = u
  <2> HIDE DEF h
  <2>1. urls'[u].status \in Queueable => u \in front' \cup wheel' \cup KeysOf(back'[h])
    <3> SUFFICES ASSUME urls'[u].status \in Queueable
                 PROVE  u \in front' \cup wheel' \cup KeysOf(back'[h])
      OBVIOUS
    <3>1. ~(u \in B /\ Disallowed(u))
      BY <1>3, <1>7 DEF Queueable
    <3>2. u \in Revived \/ urls[u].status \in Queueable
      BY <1>3, <1>7, <3>1
    <3>3. CASE u \in B
      BY <1>1, <1>4, <3>1, <3>3 DEF h
    <3>4. CASE u \notin B
      BY <1>1, <1>4, <1>5, <3>2, <3>4
    <3> QED BY <3>3, <3>4
  <2>2. urls'[u].status = "InFlight" => <<h, u>> \in flying'
    BY <1>2, <1>3, <1>5, <1>7
  <2>3. WheelOn /\ urls'[u].status = "Crawled" => u \in wheel'
    BY <1>1, <1>3, <1>5, <1>7
  <2> QED BY <2>1, <2>2, <2>3 DEF h
<1> QED BY <1>6, <1>7

LEMMA ApplyRobotsKept ==
  ASSUME PlaceInv, NoURLLost, FlyingHead', NEW h \in Hosts, NEW resp, NEW deny, NEW delay,
         ApplyRobots(h, resp, deny, delay)
  PROVE  NoURLLost'
<1> DEFINE H == RobotsHost(hosts[h], resp, deny, delay)
           X == KeysOf(back[h]) \cap H.deny
<1>1. PICK b \in Kept(back[h], H.deny) : back' = [back EXCEPT ![h] = b]
  BY DEF ApplyRobots
<1>2. /\ urls' = [u \in URLs |-> IF u \in X THEN [urls[u] EXCEPT !.status = "ExcludedRobots"]
                                 ELSE urls[u]]
      /\ flying' = flying \ {<<h, Robots>>} /\ front' = front /\ wheel' = wheel
  BY DEF ApplyRobots, wheelVars
<1>3. urls \in [URLs -> URLRecords] /\ back \in [Hosts -> Seq(URLs)]
  BY DEF PlaceInv, IndInv, TypeOK
<1>4. KeysOf(b) = KeysOf(back[h]) \ H.deny
  <2>1. KeysOf(back[h]) \ H.deny \in SUBSET URLs
    BY <1>3, KeysAre
  <2> QED BY <2>1, KeysLine DEF Kept
<1>5. \A u \in URLs : \/ urls'[u].status = "ExcludedRobots"
                      \/ urls'[u] = urls[u] /\ u \notin X
  BY <1>2, <1>3 DEF URLRecords
<1>6. back'[h] = b /\ \A g \in Hosts \ {h} : back'[g] = back[g]
  BY <1>1, <1>3
<1>7. \A u \in URLs : u \notin X /\ u \in KeysOf(back[HostOf[u]]) => u \in KeysOf(back'[HostOf[u]])
  <2> HIDE DEF H
  <2> QED BY <1>4, <1>6, KeyAssumption
<1> HIDE DEF X
<1>8. \A u \in URLs :
        /\ urls'[u].status \in Queueable => u \in front' \cup wheel' \cup KeysOf(back'[HostOf[u]])
        /\ urls'[u].status = "InFlight" => <<HostOf[u], u>> \in flying'
        /\ WheelOn /\ urls'[u].status = "Crawled" => u \in wheel'
  BY <1>2, <1>5, <1>7, KeyAssumption DEF NoURLLost, Queueable
<1> QED BY <1>8, KeptBy

LEMMA ReportCrawledKept ==
  ASSUME PlaceInv, NoURLLost, FlyingHead', ~FreshOn,
         NEW u \in URLs, NEW soft \in BOOLEAN, NEW due \in Nat, NEW at \in Nat,
         NEW target, NEW links, NEW admit, NEW p, NEW sig,
         \A v \in URLs \cap (target \cup links) : p[v] \in Buckets,
         links # {} => p[u] \in Buckets,
         ReportCrawled(u, soft, due, at, target, links, admit, p, sig)
  PROVE  NoURLLost'
<1> DEFINE U == CrawledTable(u, soft, due, at, target, links, admit, p)
           h == HostOf[u]
           b == Unqueued(h, u)
<1>0. TypeOK /\ back \in [Hosts -> Seq(URLs)]
  BY DEF PlaceInv, IndInv, TypeOK
<1>1. /\ urls' = U /\ Enter(U) /\ Landed(u) /\ back' = [back EXCEPT ![h] = b]
      /\ IF WheelOn /\ U[u].status = "Crawled" THEN wheel' = wheel \cup {u} ELSE wheel' = wheel
      /\ flying' = flying \ {<<h, u>>}
  BY DEF ReportCrawled, CrawledTable, Landed, Resume
<1>2. /\ U \in [URLs -> URLRecords]
      /\ U[u].status \in {"Crawled", "Gone"}
      /\ \A v \in URLs \ {u} :
           /\ urls[v].status # "none" => U[v].status = urls[v].status
           /\ urls[v].status = "none" => U[v].status \in {"none", "Scheduled", "Trapped"}
  BY <1>0, CrawledTableFacts
<1> HIDE DEF U
<1>3. front' = front \cup {v \in URLs : urls[v].status = "none" /\ U[v].status = "Scheduled"}
  BY <1>0, <1>1, <1>2, EnterBank
<1>4. h \in Hosts /\ KeysOf(b) = KeysOf(back[h]) \ {u}
  BY <1>1, UnqueuedKeys
<1>5. back'[h] = b /\ \A g \in Hosts \ {h} : back'[g] = back[g]
  BY <1>0, <1>1, <1>4
<1> HIDE DEF b, h
<1>6. \A v \in URLs \ {u} : v \in KeysOf(back[HostOf[v]]) => v \in KeysOf(back'[HostOf[v]])
  BY <1>4, <1>5, KeyAssumption
<1>7. \A v \in URLs \ {u} :
        /\ urls'[v].status \in Queueable => v \in front' \cup wheel' \cup KeysOf(back'[HostOf[v]])
        /\ urls'[v].status = "InFlight" => <<HostOf[v], v>> \in flying'
        /\ WheelOn /\ urls'[v].status = "Crawled" => v \in wheel'
  BY <1>1, <1>2, <1>3, <1>6 DEF NoURLLost, Queueable
<1>8. urls'[u].status \notin Queueable \cup {"InFlight"}
      /\ (WheelOn /\ urls'[u].status = "Crawled" => u \in wheel')
  BY <1>1, <1>2 DEF Queueable
<1> QED BY <1>7, <1>8, KeptBy

LEMMA ReportFailedKept ==
  ASSUME PlaceInv, NoURLLost, FlyingHead', NEW u \in URLs, NEW is410 \in BOOLEAN, NEW at, NEW sig,
         ReportFailed(u, is410, at, sig)
  PROVE  NoURLLost'
<1> DEFINE h == HostOf[u]
           r == MinOf(urls[u].retry + 1, MaxRetries)
           gone == is410 \/ r >= MaxRetries
           q == Unqueued(h, u)
           b == IF gone THEN q ELSE Append(q, u)
<1>1. urls \in [URLs -> URLRecords] /\ back \in [Hosts -> Seq(URLs)]
  BY DEF PlaceInv, IndInv, TypeOK
<1>2. /\ urls' = [urls EXCEPT ![u] = FailedURL(urls[u], r, gone, at)] /\ Landed(u)
      /\ back' = [back EXCEPT ![h] = b] /\ flying' = flying \ {<<h, u>>}
      /\ front' = front /\ wheel' = wheel
  BY <1>1 DEF ReportFailed, Resume, Requeued, wheelVars, Landed
<1> HIDE DEF gone, r
<1>3. urls'[u].status = IF gone THEN "Gone" ELSE "Scheduled"
  BY <1>1, <1>2 DEF FailedURL, URLRecords
<1>4. \A v \in URLs \ {u} : urls'[v] = urls[v]
  BY <1>1, <1>2
<1>5. /\ h \in Hosts /\ q \in Seq(URLs) /\ Distinct(q)
      /\ KeysOf(q) = KeysOf(back[h]) \ {u}
  BY <1>2, UnqueuedKeys
<1> HIDE DEF q, h
<1>6. KeysOf(back[h]) \ {u} \subseteq KeysOf(b) /\ (~gone => u \in KeysOf(b))
  <2>1. KeysOf(Append(q, u)) = KeysOf(q) \cup {u}
    BY <1>5, KeysAppend
  <2> QED BY <1>5, <2>1
<1>7. back'[h] = b /\ \A g \in Hosts \ {h} : back'[g] = back[g]
  BY <1>1, <1>2, <1>5
<1> HIDE DEF b
<1>8. \A v \in URLs \ {u} : v \in KeysOf(back[HostOf[v]]) => v \in KeysOf(back'[HostOf[v]])
  BY <1>6, <1>7, KeyAssumption
<1>9. \A v \in URLs \ {u} :
        /\ urls'[v].status \in Queueable => v \in front' \cup wheel' \cup KeysOf(back'[HostOf[v]])
        /\ urls'[v].status = "InFlight" => <<HostOf[v], v>> \in flying'
        /\ WheelOn /\ urls'[v].status = "Crawled" => v \in wheel'
  BY <1>2, <1>4, <1>8 DEF NoURLLost
<1>10. /\ urls'[u].status \in Queueable => u \in KeysOf(back'[HostOf[u]])
       /\ urls'[u].status \notin {"InFlight", "Crawled"}
  BY <1>3, <1>6, <1>7 DEF Queueable, h
<1> QED BY <1>9, <1>10, KeptBy

\* Every URL of the checkpoint that is to be crawled is queued again.
LEMMA RecoverKept ==
  ASSUME TypeOK, CrawledDue, FlyingHead', Recover
  PROVE  NoURLLost'
<1>1. \A u \in URLs : disk.urls[u] \in URLRecords
  BY DEF TypeOK
<1>2. /\ urls' = [u \in URLs |-> RecoveredURL(disk.urls[u])]
      /\ front' = {u \in URLs : urls'[u].status \in Queueable}
      /\ wheel' = {u \in URLs : WheelOn /\ urls'[u].status = "Crawled" /\ urls'[u].due > 0}
  BY DEF Recover
<1>3. \A u \in URLs :
        /\ urls'[u].status # "InFlight"
        /\ urls'[u].status = "Crawled" => urls'[u].due > 0
  BY <1>1, <1>2 DEF RecoveredURL, URLRecords, CrawledDue
<1>4. \A u \in URLs : WheelOn /\ urls'[u].status = "Crawled" => u \in wheel'
  BY <1>2, <1>3
<1>5. \A u \in URLs : urls'[u].status \in Queueable => u \in front'
  BY <1>2
<1> QED BY <1>3, <1>4, <1>5, KeptBy

-----------------------------------------------------------------------------
(* The active set. *)

\* The counter is exact and within the target, and only active hosts have queues.
ActiveCounted ==
  /\ \A h \in Hosts \ active : back[h] = <<>>
  /\ activeN = Cardinality(active)
  /\ activeN <= Target

\* With robots off.  With them on, applyRobots may empty the queue of a host and
\* leaves it active (ApplyRobots).
ActiveServed ==
  ~RobotsOn => \A h \in active : back[h] # <<>> /\ h \in ready \cup wait \cup inFlight

ActiveInv == ActiveCounted /\ ActiveServed

LEMMA ActiveUnchanged ==
  ASSUME ActiveInv, UNCHANGED <<back, active, activeN, ready, wait, inFlight>>
  PROVE  ActiveInv'
  BY DEF ActiveInv, ActiveCounted, ActiveServed

\* A nonempty set of naturals has a least element.
LEMMA LeastNat ==
  ASSUME NEW T \in SUBSET Nat, T # {}
  PROVE  \E x \in T : \A y \in T : x <= y
<1> DEFINE Q == {0..x : x \in T}
<1>1. \A x \in T : 0..x \in SUBSET Nat /\ IsFiniteSet(0..x)
  BY FS_Interval
<1>2. Q \subseteq FiniteSubsetsOf(Nat) /\ Q # {}
  BY <1>1 DEF FiniteSubsetsOf
<1>3. PICK q \in Q : \A r \in Q : ~ (<<r, q>> \in StrictSubsetOrdering(Nat))
  BY <1>2, FS_StrictSubsetOrderingWellFounded, WFMin
<1>4. PICK x \in T : q = 0..x
  OBVIOUS
<1>5. ASSUME NEW y \in T, y < x PROVE FALSE
  <2>1. 0..y \in Q /\ 0..y \in SUBSET Nat /\ 0..x \in SUBSET Nat
    BY <1>1
  <2>2. 0..y \subseteq 0..x /\ x \in 0..x /\ x \notin 0..y
    BY <1>5
  <2>3. <<0..y, 0..x>> \in StrictSubsetOrdering(Nat)
    BY <2>1, <2>2 DEF StrictSubsetOrdering
  <2> QED BY <1>3, <1>4, <2>1, <2>3
<1> QED BY <1>5

\* distribute fills the active set up to the target and no further: consider the
\* last pop that activated a host.
LEMMA ActivatedFits ==
  ASSUME TypeOK, activeN <= Target, NEW F \in SUBSET URLs, NEW ord \in Lines(F),
         NEW n \in 0..Cardinality(F), StopsAt(ord, n)
  PROVE  activeN + Cardinality(Activated(ord, n)) <= Target
<1> DEFINE A(k) == Activated(ord, k)
           S == {k \in 0..n : A(k) = A(n)}
<1>0. Cardinality(F) \in Nat /\ n \in Nat /\ activeN \in Int /\ Target \in Nat
  BY SomeURLs, FS_CardinalityType, Bounds DEF TypeOK
<1>1. \A k \in 0..n : A(k) \subseteq Hosts
  <2>1. \A i \in 1..n : ord[i] \in URLs
    BY <1>0 DEF Lines
  <2> QED BY <1>0, <2>1, KeyAssumption DEF Activated
<1>2. \A k \in 0..n : IsFiniteSet(A(k)) /\ Cardinality(A(k)) \in Nat
  BY <1>1, FiniteAssumption, FS_Subset, FS_CardinalityType
<1>3. PICK k \in S : \A j \in S : k <= j
  <2>1. S \in SUBSET Nat /\ n \in S
    BY <1>0
  <2> HIDE DEF S
  <2> QED BY <2>1, LeastNat
<1>4. CASE k = 0
  <2>1. A(0) = {}
    BY DEF Activated
  <2>2. A(n) = {}
    BY <1>4, <2>1
  <2> QED BY <1>0, <2>2, FS_EmptySet
<1>5. CASE k # 0
  <2>1. k \in 1..n /\ k - 1 \in 0..n /\ k - 1 \notin S
    BY <1>0, <1>3, <1>5
  <2>2. A(k - 1) # A(k) /\ A(k) = A(n)
    BY <2>1
  <2>3. 1..k = (1..(k - 1)) \cup {k}
    BY <1>0, <2>1
  <2>4. A(k) \subseteq A(k - 1) \cup {HostOf[ord[k]]} /\ A(k - 1) \subseteq A(k)
    BY <2>3 DEF Activated
  <2>5. HostOf[ord[k]] \notin A(k - 1) /\ HostOf[ord[k]] \notin active
        /\ A(k) = A(k - 1) \cup {HostOf[ord[k]]}
    <3>1. A(k) \cap active = {}
      BY DEF Activated
    <3> HIDE DEF A
    <3> QED BY <2>2, <2>4, <3>1
  <2>6. activeN + Cardinality(A(k - 1)) < Target
    BY <2>1, <2>5 DEF StopsAt, Placeable
  <2>7. Cardinality(A(k)) = Cardinality(A(k - 1)) + 1
    <3> DEFINE P == A(k - 1)
               x == HostOf[ord[k]]
    <3>1. IsFiniteSet(P) /\ x \notin P /\ A(k) = P \cup {x}
      BY <1>2, <2>1, <2>5
    <3> HIDE DEF P, x
    <3>2. Cardinality(P \cup {x}) = Cardinality(P) + 1
      BY <3>1, FS_AddElement
    <3>3. Cardinality(A(k)) = Cardinality(P) + 1
      BY <3>1, <3>2
    <3> QED BY <3>3 DEF P
  <2>8. Cardinality(A(k - 1)) \in Nat
    BY <1>2, <2>1
  <2> HIDE DEF A
  <2>9. activeN + Cardinality(A(n)) <= Target
    BY <1>0, <2>2, <2>6, <2>7, <2>8
  <2> QED BY <2>9 DEF A
<1> QED BY <1>4, <1>5

LEMMA DispatchActive ==
  ASSUME IndInv, ActiveInv, NEW s, DispatchShard(s)
  PROVE  ActiveInv'
<1>0. TypeOK /\ PoolsDisjoint
  BY DEF IndInv
<1>1. PICK q \in PushOrders(Revived), ord \in Lines(DueFront),
           n \in 0..Cardinality(DueFront) :
        \E add \in Bindings(ord, n) :
          \E ans \in Lookups(ReadyPool(ord, n)), G \in SUBSET ReadyPool(ord, n),
             pick \in SUBSET ReadyPool(ord, n) :
            Chosen(q, ord, n, add, ans, G, pick)
  BY <1>0, DispatchChoices
<1>2. PICK add \in Bindings(ord, n) :
          \E ans \in Lookups(ReadyPool(ord, n)), G \in SUBSET ReadyPool(ord, n),
             pick \in SUBSET ReadyPool(ord, n) :
            Chosen(q, ord, n, add, ans, G, pick)
  BY <1>1
<1>3. PICK ans \in Lookups(ReadyPool(ord, n)), G \in SUBSET ReadyPool(ord, n),
           pick \in SUBSET ReadyPool(ord, n) :
        Chosen(q, ord, n, add, ans, G, pick)
  BY <1>2
<1> DEFINE b == BoundBack(add)
           A == Activated(ord, n)
<1>4. DueFront \in SUBSET URLs
  BY <1>0, PromotedType
<1>5. A \in SUBSET Hosts /\ n \in Nat /\ \A h \in A : b[h] # <<>>
  BY <1>0, <1>4, ReadyPoolFacts
<1>6. \A h \in Hosts : back[h] # <<>> => b[h] # <<>>
  <2> TAKE h \in Hosts
  <2>1. n \in Nat /\ TypeOK
    BY <1>0, <1>5
  <2>2. back[h] # <<>> => BoundBack(add)[h] # <<>>
    BY <2>1, BindingType
  <2> QED BY <2>2
<1>7. /\ back' = b /\ active' = active \cup A /\ activeN' = activeN + Cardinality(A)
      /\ inFlight' = inFlight \cup pick
      /\ ready' = ReadyPool(ord, n) \ (G \cup pick) /\ wait' = WaitPool(ord, n) \cup G
      /\ StopsAt(ord, n)
  BY <1>3 DEF Chosen, Dispatched, ReadyLeft
<1>8. activeN' = Cardinality(active')
  <2>1. IsFiniteSet(A) /\ IsFiniteSet(active) /\ A \cap active = {}
    BY <1>0, <1>5, FiniteAssumption, FS_Subset DEF TypeOK, Activated
  <2>2. Cardinality(active \cap A) = 0
    BY <2>1, FS_EmptySet
  <2>3. Cardinality(active \cup A) = Cardinality(active) + Cardinality(A) - Cardinality(active \cap A)
    BY <2>1, FS_Union
  <2>4. Cardinality(active) \in Nat /\ Cardinality(A) \in Nat
    BY <2>1, FS_CardinalityType
  <2> HIDE DEF A
  <2> QED BY <1>7, <2>2, <2>3, <2>4 DEF ActiveInv, ActiveCounted
<1>9. activeN' <= Target
  BY <1>0, <1>4, <1>7, ActivatedFits DEF ActiveInv, ActiveCounted
<1>10. ASSUME NEW h \in Hosts \ active' PROVE back'[h] = <<>>
  <2>1. h \in Hosts /\ h \notin active /\ h \notin A
    BY <1>7
  <2>2. BoundTo(h, ord, n) = {}
    BY <2>1 DEF BoundTo, Activated
  <2>3. add[h] \in Lines({}) /\ IsFiniteSet({}) /\ Cardinality({}) = 0
    BY <2>1, <2>2, FS_EmptySet DEF Bindings
  <2>4. add[h] \in Seq({}) /\ Len(add[h]) = 0
    BY <2>3, LineSeq
  <2>5. add[h] = <<>>
    BY <2>4
  <2>6. back[h] = <<>>
    BY <2>1 DEF ActiveInv, ActiveCounted
  <2>7. back'[h] = back[h] \o add[h]
    BY <1>7, <2>1 DEF BoundBack
  <2> QED BY <2>5, <2>6, <2>7
<1>11. ActiveServed'
  <2> SUFFICES ASSUME ~RobotsOn, NEW h \in active'
               PROVE  back'[h] # <<>> /\ h \in ready' \cup wait' \cup inFlight'
    BY DEF ActiveServed
  <2>0. active \subseteq Hosts /\ now \in Nat /\ inFlight \subseteq active
    BY <1>0 DEF TypeOK, PoolsDisjoint
  <2>1. h \in Hosts
    BY <1>5, <1>7, <2>0
  <2>2. EligibleNow(hosts[h]) \in Nat
    BY <1>0, <2>1, WindowType DEF TypeOK
  <2>3. EligibleNow(hosts[h]) <= now \/ EligibleNow(hosts[h]) > now
    BY <2>0, <2>2
  <2>4. ReadyPool(ord, n) \cup WaitPool(ord, n) \cup inFlight \subseteq ready' \cup wait' \cup inFlight'
    BY <1>7
  <2>5. CASE h \in active
    <3>1. back[h] # <<>> /\ h \in ready \cup wait \cup inFlight
      BY <2>5 DEF ActiveInv, ActiveServed
    <3>2. back'[h] # <<>>
      BY <1>6, <1>7, <2>1, <3>1
    <3>3. h \in ReadyPool(ord, n) \cup WaitPool(ord, n) \cup inFlight
      BY <2>3, <3>1 DEF ReadyPool, WaitPool, StillParked, Opened, Reparked, Popped
    <3> QED BY <2>4, <3>2, <3>3
  <2>6. CASE h \in A
    <3>1. h \notin inFlight
      BY <2>0, <2>6 DEF Activated
    <3>2. h \in ReadyPool(ord, n) \cup WaitPool(ord, n)
      BY <2>3, <2>6, <3>1 DEF ReadyPool, WaitPool, Placed, Parked
    <3> QED BY <1>5, <1>7, <2>4, <2>6, <3>2
  <2> QED BY <1>7, <2>5, <2>6
<1> QED BY <1>8, <1>9, <1>10, <1>11 DEF ActiveInv, ActiveCounted

LEMMA ApplyRobotsActive ==
  ASSUME IndInv, ActiveInv, NEW h \in Hosts, NEW resp, NEW deny, NEW delay,
         ApplyRobots(h, resp, deny, delay)
  PROVE  ActiveInv'
<1>1. /\ RobotsOn /\ <<h, Robots>> \in flying /\ UNCHANGED <<active, activeN>>
      /\ \E b : back' = [back EXCEPT ![h] = b]
  BY DEF ApplyRobots
<1>2. h \in active /\ back \in [Hosts -> Seq(URLs)]
  BY <1>1 DEF IndInv, OneFetchPerHost, PoolsDisjoint, TypeOK
<1> QED BY <1>1, <1>2 DEF ActiveInv, ActiveCounted, ActiveServed

\* A report counts its host out exactly when its queue has drained.
LEMMA ResumeActive ==
  ASSUME IndInv, ActiveInv, NEW u \in URLs, NEW b, NEW U, NEW sig, Landed(u),
         Resume(HostOf[u], b, U, sig)
  PROVE  ActiveInv'
<1> DEFINE h == HostOf[u]
<1>0. h \in Hosts
  BY KeyAssumption
<1>1. <<h, u>> \in flying /\ back' = [back EXCEPT ![h] = b] /\ inFlight' = inFlight \ {h}
  BY DEF Landed, Resume
<1>2. PICK H \in Adapted(hosts[h], sig) :
        IF Drained(b)
           THEN /\ active' = active \ {h} /\ activeN' = activeN - 1
                /\ UNCHANGED <<ready, readyAt, wait, waitUntil>>
           ELSE Place(h, H, b, U) /\ UNCHANGED <<active, activeN>>
  BY DEF Resume
<1>3. h \in active /\ back \in [Hosts -> Seq(URLs)] /\ active \subseteq Hosts
  BY <1>1 DEF IndInv, OneFetchPerHost, PoolsDisjoint, TypeOK
<1> HIDE DEF h
<1>4. back'[h] = b /\ \A g \in Hosts \ {h} : back'[g] = back[g]
  BY <1>0, <1>1, <1>3
<1>5. CASE Drained(b)
  <2>1. IsFiniteSet(active)
    BY <1>3, FiniteAssumption, FS_Subset
  <2>2. Cardinality(active \ {h}) = Cardinality(active) - 1 /\ Cardinality(active) \in Nat
    BY <1>3, <2>1, FS_RemoveElement, FS_CardinalityType
  <2>3. ActiveCounted'
    <3>1. active' = active \ {h} /\ activeN' = activeN - 1 /\ b = <<>>
      BY <1>2, <1>5 DEF Drained
    <3>2. /\ \A g \in Hosts \ active : back[g] = <<>>
          /\ activeN = Cardinality(active) /\ activeN <= Target
      BY DEF ActiveInv, ActiveCounted
    <3>3. activeN' = Cardinality(active') /\ activeN' <= Target
      BY <2>2, <3>1, <3>2, Bounds
    <3>4. \A g \in Hosts \ active' : back'[g] = <<>>
      BY <1>4, <3>1, <3>2
    <3> QED BY <3>3, <3>4 DEF ActiveCounted
  <2>4. ActiveServed'
    BY <1>1, <1>2, <1>3, <1>4, <1>5 DEF ActiveInv, ActiveServed
  <2> QED BY <2>3, <2>4 DEF ActiveInv
<1>6. CASE ~Drained(b)
  <2>1. b # <<>> /\ h \in ready' \cup wait' /\ ready \subseteq ready' /\ wait \subseteq wait'
    BY <1>2, <1>6 DEF Drained, Place
  <2>2. active' = active /\ activeN' = activeN
    BY <1>2, <1>6
  <2>3. ActiveCounted'
    BY <1>3, <1>4, <2>2 DEF ActiveInv, ActiveCounted
  <2>4. ActiveServed'
    BY <1>1, <1>3, <1>4, <2>1, <2>2 DEF ActiveInv, ActiveServed
  <2> QED BY <2>3, <2>4 DEF ActiveInv
<1> QED BY <1>5, <1>6

-----------------------------------------------------------------------------
(* Every step. *)

\* The inductive invariant of this module.
QueueInv == PlaceInv /\ FrontBucketed /\ CrawledDue /\ RulesInv /\ KeptInv /\ ActiveInv

\* The parts of QueueInv once those of FrontierProofs are known to hold.
LEMMA QueueParts ==
  ASSUME IndInv', URLInOnePlace' /\ FlyingHead' /\ Waiting', FrontBucketed' /\ CrawledDue',
         RulesInv', KeptInv', ActiveInv'
  PROVE  QueueInv'
  BY DEF QueueInv, PlaceInv

LEMMA InitQueue == Init => QueueInv
<1> SUFFICES ASSUME Init PROVE QueueInv
  OBVIOUS
<1>1. /\ urls = [u \in URLs |-> NoRecord] /\ hosts = [h \in Hosts |-> NewHost]
      /\ front = {} /\ wheel = {} /\ flying = {} /\ back = [h \in Hosts |-> <<>>]
      /\ active = {} /\ activeN = 0 /\ disk = [urls |-> urls, hosts |-> hosts]
  BY DEF Init
<1>2. \A h \in Hosts : KeysOf(back[h]) = {} /\ Distinct(back[h])
  BY <1>1 DEF KeysOf, Distinct
<1>3. \A u \in URLs : urls[u].status = "none" /\ disk.urls[u].status = "none"
  BY <1>1 DEF NoRecord
<1>4. PlaceInv
  <2>1. URLInOnePlace
    BY <1>1, <1>2, OnePlace DEF OneHome
  <2> QED BY <1>1, <1>2, <2>1, InitInv DEF PlaceInv, FlyingHead, Waiting
<1>5. FrontBucketed /\ CrawledDue /\ KeptInv
  BY <1>1, <1>3 DEF FrontBucketed, CrawledDue, KeptInv, NoURLLost, Queueable
<1>6. RulesInv
  BY <1>1 DEF RulesInv, RulesKept, NoDisallowedFetch, NewHost
<1>7. ActiveInv
  BY <1>1, FS_EmptySet, Bounds DEF ActiveInv, ActiveCounted, ActiveServed
<1> QED BY <1>4, <1>5, <1>6, <1>7 DEF QueueInv

\* What a step keeps: the invariant, and terminal URLs until a restart.
Safe == QueueInv' /\ (restarts' = restarts => TerminalStep)

LEMMA CallSafe == QueueInv /\ [AnyCall]_vars => Safe
<1> SUFFICES ASSUME QueueInv, [AnyCall]_vars PROVE Safe
  OBVIOUS
<1>0. /\ PlaceInv /\ FrontBucketed /\ CrawledDue /\ RulesInv /\ KeptInv /\ ActiveInv
      /\ IndInv /\ TypeOK /\ URLInOnePlace /\ FlyingHead /\ Waiting
  BY DEF QueueInv, PlaceInv, IndInv
<1>i. IndInv' /\ TypeOK'
  BY <1>0, CallInv DEF IndInv
<1>1. ASSUME NEW u \in URLs, NEW p, NEW d, Seed(u, p, d) PROVE Safe
  <2>1. URLInOnePlace' /\ FlyingHead' /\ Waiting'
    BY <1>0, <1>1, SeedPlace
  <2>2. FrontBucketed' /\ CrawledDue' /\ TerminalStep
    BY <1>0, <1>1, SeedBank
  <2>3. RulesInv' /\ ActiveInv'
    BY <1>0, <1>1, RulesUnchanged, ActiveUnchanged DEF Seed, poolVars
  <2>4. KeptInv'
    BY <1>0, <1>1, <2>1, SeedKept DEF KeptInv
  <2> QED BY <1>i, <2>1, <2>2, <2>3, <2>4, QueueParts DEF Safe
<1>2. ASSUME NEW u \in URLs, NEW p \in Buckets, NEW admit, Discover(u, admit, p) PROVE Safe
  <2>1. URLInOnePlace' /\ FlyingHead' /\ Waiting'
    BY <1>0, <1>2, DiscoverPlace
  <2>2. FrontBucketed' /\ CrawledDue' /\ TerminalStep
    BY <1>0, <1>2, DiscoverBank
  <2>3. RulesInv' /\ ActiveInv'
    BY <1>0, <1>2, RulesUnchanged, ActiveUnchanged DEF Discover, poolVars
  <2>4. KeptInv'
    BY <1>0, <1>2, <2>1, DiscoverKept DEF KeptInv
  <2> QED BY <1>i, <2>1, <2>2, <2>3, <2>4, QueueParts DEF Safe
<1>3. ASSUME NEW s, DispatchShard(s) PROVE Safe
  <2>0. PICK B, add, sent, robots : Moves(B, add, sent, robots)
    BY <1>0, <1>3, DispatchMoves
  <2>1. URLInOnePlace' /\ FlyingHead' /\ Waiting'
    BY <1>0, <2>0, DispatchPlace
  <2>d. disk' = disk
    BY <1>3 DEF DispatchShard, Dispatched
  <2>2. FrontBucketed' /\ CrawledDue' /\ TerminalStep
    BY <1>0, <2>0, <2>d, DispatchBank
  <2>3. RulesInv'
    BY <1>0, <2>0, DispatchRules
  <2>4. KeptInv'
    BY <1>0, <2>0, <2>1, DispatchKept DEF KeptInv
  <2>5. ActiveInv'
    BY <1>0, <1>3, DispatchActive
  <2> QED BY <1>i, <2>1, <2>2, <2>3, <2>4, <2>5, QueueParts DEF Safe
<1>4. ASSUME NEW h \in Hosts, NEW resp, NEW deny \in SUBSET URLs, NEW delay \in Nat,
             ApplyRobots(h, resp, deny, delay)
      PROVE  Safe
  <2>1. URLInOnePlace' /\ FlyingHead' /\ Waiting'
    BY <1>0, <1>4, ApplyRobotsPlace
  <2>2. FrontBucketed' /\ CrawledDue' /\ TerminalStep
    BY <1>0, <1>4, ApplyRobotsBank
  <2>3. RulesInv'
    BY <1>0, <1>4, ApplyRobotsRules
  <2>4. KeptInv'
    BY <1>0, <1>4, <2>1, ApplyRobotsKept DEF KeptInv
  <2>5. ActiveInv'
    BY <1>0, <1>4, ApplyRobotsActive
  <2> QED BY <1>i, <2>1, <2>2, <2>3, <2>4, <2>5, QueueParts DEF Safe
<1>5. ASSUME NEW u \in URLs, NEW soft \in BOOLEAN, NEW due \in Nat, NEW at \in Nat,
             NEW target, NEW links, NEW admit, NEW p, NEW sig,
             \A v \in URLs \cap (target \cup links) : p[v] \in Buckets,
             links # {} => p[u] \in Buckets,
             ReportCrawled(u, soft, due, at, target, links, admit, p, sig)
      PROVE  Safe
  <2>d. Landed(u) /\ \E U : Resume(HostOf[u], Unqueued(HostOf[u], u), U, sig)
    BY <1>5 DEF ReportCrawled
  <2>e. KeysOf(Unqueued(HostOf[u], u)) \subseteq KeysOf(back[HostOf[u]])
    BY <1>0, <2>d, UnqueuedKeys
  <2>1. URLInOnePlace' /\ FlyingHead' /\ Waiting'
    BY <1>0, <1>i, <1>5, ReportCrawledPlace
  <2>2. FrontBucketed' /\ CrawledDue' /\ TerminalStep
    BY <1>0, <1>5, ReportCrawledBank
  <2>3. RulesInv'
    BY <1>0, <2>d, <2>e, ResumeRules
  <2>4. KeptInv'
    BY <1>0, <1>5, <2>1, ReportCrawledKept DEF KeptInv
  <2>5. ActiveInv'
    BY <1>0, <2>d, ResumeActive
  <2> QED BY <1>i, <2>1, <2>2, <2>3, <2>4, <2>5, QueueParts DEF Safe
<1>6. ASSUME NEW u \in URLs, NEW is410 \in BOOLEAN, NEW at \in Nat, NEW sig,
             ReportFailed(u, is410, at, sig)
      PROVE  Safe
  <2>d. Landed(u) /\ \E U : \E b \in {Unqueued(HostOf[u], u), Append(Unqueued(HostOf[u], u), u)} :
                       Resume(HostOf[u], b, U, sig)
    BY <1>6 DEF ReportFailed, Requeued
  <2>e. /\ KeysOf(Unqueued(HostOf[u], u)) \subseteq KeysOf(back[HostOf[u]])
        /\ KeysOf(Append(Unqueued(HostOf[u], u), u)) \subseteq KeysOf(back[HostOf[u]])
    <3> DEFINE q == Unqueued(HostOf[u], u)
    <3>1. /\ q \in Seq(URLs) /\ Distinct(q) /\ KeysOf(q) = KeysOf(back[HostOf[u]]) \ {u}
          /\ u \in KeysOf(back[HostOf[u]])
      BY <1>0, <2>d, UnqueuedKeys
    <3> HIDE DEF q
    <3>2. KeysOf(Append(q, u)) = KeysOf(q) \cup {u}
      BY <3>1, KeysAppend
    <3>3. KeysOf(q) \subseteq KeysOf(back[HostOf[u]])
          /\ KeysOf(Append(q, u)) \subseteq KeysOf(back[HostOf[u]])
      BY <3>1, <3>2
    <3> QED BY <3>3 DEF q
  <2>1. URLInOnePlace' /\ FlyingHead' /\ Waiting'
    BY <1>0, <1>i, <1>6, ReportFailedPlace
  <2>2. FrontBucketed' /\ CrawledDue' /\ TerminalStep
    BY <1>0, <1>6, ReportFailedBank
  <2>3. RulesInv'
    BY <1>0, <2>d, <2>e, ResumeRules
  <2>4. KeptInv'
    BY <1>0, <1>6, <2>1, ReportFailedKept DEF KeptInv
  <2>5. ActiveInv'
    BY <1>0, <2>d, ResumeActive
  <2> QED BY <1>i, <2>1, <2>2, <2>3, <2>4, <2>5, QueueParts DEF Safe
<1>7. ASSUME UNCHANGED <<urls, hosts, front, filed, back, active, activeN, ready, wait, inFlight,
                         wheel, flying>>,
             CrawledDue'
      PROVE  Safe
  <2>1. URLInOnePlace' /\ FlyingHead' /\ Waiting'
    BY <1>0, <1>7, PlaceUnchanged
  <2>2. FrontBucketed' /\ TerminalStep
    BY <1>0, <1>7 DEF FrontBucketed, TerminalStep
  <2>3. RulesInv' /\ ActiveInv'
    BY <1>0, <1>7, RulesUnchanged, ActiveUnchanged
  <2>4. KeptInv'
    BY <1>0, <1>7 DEF KeptInv, NoURLLost
  <2> QED BY <1>i, <1>7, <2>1, <2>2, <2>3, <2>4, QueueParts DEF Safe
<1>8. CASE Checkpoint
  <2>1. disk'.urls = urls /\ urls' = urls
    BY <1>8 DEF Checkpoint, urlVars
  <2>2. CrawledDue'
    BY <1>0, <2>1 DEF CrawledDue
  <2> QED BY <1>7, <1>8, <2>2 DEF Checkpoint, urlVars, poolVars, wheelVars
<1>9. CASE Later \/ UNCHANGED vars
  <2>1. disk' = disk /\ urls' = urls
    BY <1>9 DEF Later, vars, urlVars
  <2>2. CrawledDue'
    BY <1>0, <2>1 DEF CrawledDue
  <2> QED BY <1>7, <1>9, <2>2 DEF Later, vars, urlVars, poolVars, wheelVars
<1>10. CASE Recover
  <2>1. URLInOnePlace' /\ FlyingHead' /\ Waiting'
    BY <1>0, <1>10, RecoverPlace
  <2>2. FrontBucketed' /\ CrawledDue'
    BY <1>0, <1>10, RecoverBank
  <2>3. RulesInv'
    BY <1>0, <1>10, RecoverRules
  <2>4. KeptInv'
    BY <1>0, <1>10, <2>1, RecoverKept DEF KeptInv
  <2>5. ActiveInv'
    <3>1. active' = {} /\ activeN' = 0 /\ back' = [h \in Hosts |-> <<>>]
      BY <1>10 DEF Recover
    <3> QED BY <3>1, FS_EmptySet, Bounds DEF ActiveInv, ActiveCounted, ActiveServed
  <2>6. restarts' # restarts
    BY <1>0, <1>10 DEF Recover, TypeOK
  <2> QED BY <1>i, <2>1, <2>2, <2>3, <2>4, <2>5, <2>6, QueueParts DEF Safe
<1> QED
  BY <1>1, <1>2, <1>3, <1>4, <1>5, <1>6, <1>8, <1>9, <1>10 DEF AnyCall

LEMMA NextSafe == QueueInv /\ [Next]_vars => Safe
<1>1. QueueInv => TypeOK
  BY DEF QueueInv, PlaceInv, IndInv
<1> QED BY <1>1, CallSafe, NextIsCall

LEMMA QueueInvariance == Spec => []QueueInv
<1>1. QueueInv /\ [Next]_vars => QueueInv'
  BY NextSafe DEF Safe
<1> QED BY <1>1, InitQueue, PTL DEF Spec

-----------------------------------------------------------------------------
(* What holds of every behaviour. *)

\* A URL waits in one of the front bank, the wheel and its host's back queue, and
\* there once, under every option (frontPush, promoteDue, distribute, Report,
\* Recover): no URL is ever fetched twice for one schedule.
THEOREM OnePlaceOnly == Spec => []URLInOnePlace
<1>1. QueueInv => URLInOnePlace
  BY DEF QueueInv, PlaceInv
<1> QED BY <1>1, QueueInvariance, PTL

\* The bank files each URL under the priority of its record, so rebucket and
\* promoteAged find it, across repricing, aging and recovery.
THEOREM BankFiled == Spec => []FrontBucketed
<1>1. QueueInv => FrontBucketed
  BY DEF QueueInv
<1> QED BY <1>1, QueueInvariance, PTL

\* Content is fetched only under rules in force and never against them
\* (filterRobots, distribute, NeedsRobots), whatever expires and lands meanwhile.
THEOREM RulesObeyed == Spec => []NoDisallowedFetch
<1>1. QueueInv => NoDisallowedFetch
  BY DEF QueueInv, RulesInv
<1> QED BY <1>1, QueueInvariance, PTL

\* With the freshness model off, every URL that is to be crawled is queued, being
\* fetched or on the wheel, through retries, exclusions and restarts.
THEOREM NothingLost ==
  ASSUME ~FreshOn PROVE Spec => []NoURLLost
<1>1. QueueInv => NoURLLost
  BY DEF QueueInv, KeptInv
<1> QED BY <1>1, QueueInvariance, PTL

\* With robots off, a host is active exactly while it holds a queue that
\* something will come for, and the counter f.active is exact and within the
\* target (distribute, Report).
THEOREM ActiveExact ==
  ASSUME ~RobotsOn PROVE Spec => []ActiveHoldsBack
<1>1. QueueInv => ActiveHoldsBack
  BY DEF QueueInv, ActiveInv, ActiveCounted, ActiveServed, ActiveHoldsBack
<1> QED BY <1>1, QueueInvariance, PTL

\* With robots on as well, f.active counts the active hosts and stays within the
\* target, and no host outside the active set holds a queue.
THEOREM ActiveBounded == Spec => []ActiveCounted
<1>1. QueueInv => ActiveCounted
  BY DEF QueueInv, ActiveInv
<1> QED BY <1>1, QueueInvariance, PTL

\* A tombstoned, excluded or trapped URL stays so until a restart: no discovery,
\* redirect, wheel entry or late outcome revives it.
THEOREM TerminalKept == Spec => TerminalStays
<1>1. QueueInv /\ [Next]_vars =>
        [restarts' = restarts =>
           \A u \in URLs : urls[u].status \in Terminal => urls'[u].status = urls[u].status]_vars
  BY NextSafe DEF Safe, TerminalStep
<1> QED BY <1>1, QueueInvariance, PTL DEF Spec, TerminalStays

-----------------------------------------------------------------------------
(* The run loop: the inductive invariant. *)

\* A fetch in flight is with the loop, with a worker or in the result channel,
\* with one of them only; the loop holds one while it places it.
InHands ==
  /\ flying = hand \cup busy \cup out
  /\ hand \cap busy = {} /\ hand \cap out = {} /\ busy \cap out = {}
  /\ pc # "place" => hand = {}

\* With nothing dispatched, the loop waits or stops with no fetch in flight and
\* no host ready, and, if no host is parked either, with the front bank empty.
Resting == {"idle", "inbound", "done"}
Quiet ==
  /\ pc \in Resting => flying = {} /\ ready = {}
  /\ ~RobotsOn /\ pc \in Resting /\ wait = {} => front = {}
  /\ pc = "done" => wait = {} /\ wheel = {}

\* Without the wheel option nothing is on the wheel.
WheelOff == ~WheelOn => wheel = {}

\* The heap key of a parked host is never later than its windows.
ParkedEarly == \A h \in wait : waitUntil[h] <= EligibleNow(hosts[h])

EngineInv == QueueInv /\ InHands /\ Quiet /\ WheelOff /\ ParkedEarly

-----------------------------------------------------------------------------
(* Every step of the engine is a call of the frontier, or leaves it alone. *)

\* The instants the loop may sleep to, and the one it picks.
LEMMA EarliestLeast ==
  ASSUME TypeOK, Instants # {}
  PROVE  /\ Instants \subseteq Nat
         /\ Earliest \in Instants /\ \A t \in Instants : Earliest <= t
         /\ Wake \in Nat /\ Wake >= now
<1>1. Instants \subseteq Nat
  BY Bounds DEF Instants, TypeOK
<1>2. \E t \in Instants : \A s \in Instants : t <= s
  BY <1>1, LeastNat
<1>3. Earliest \in Instants /\ \A t \in Instants : Earliest <= t
  BY <1>2 DEF Earliest
<1>4. now \in Nat /\ Earliest \in Nat
  BY <1>1, <1>3 DEF TypeOK
<1>5. Wake \in Nat /\ Wake >= now
  BY <1>4 DEF Wake, MaxOf
<1> QED BY <1>1, <1>3, <1>5

LEMMA EngineIsCall == ASSUME TypeOK, [EngineNext]_allVars PROVE [AnyCall]_vars
<1>h. Hours(now) \in Nat /\ now \in Nat
  BY HoursType DEF TypeOK
<1>1. ASSUME NEW u \in URLs, NEW p \in Buckets, SeedFirst(u, p) PROVE AnyCall
  BY <1>1 DEF AnyCall, SeedFirst
<1>2. ASSUME NEW u \in URLs, Intake(u) PROVE AnyCall
  BY <1>2 DEF AnyCall, Intake
<1>3. ASSUME Dispatch PROVE AnyCall
  BY <1>3 DEF AnyCall, Dispatch
<1>4. ASSUME NEW h \in Hosts, NEW resp, NEW deny \in SUBSET URLs, NEW delay \in Nat,
             FoldRobots(h, resp, deny, delay)
      PROVE  AnyCall
  BY <1>4 DEF AnyCall, FoldRobots
<1>5. ASSUME NEW u \in URLs, NEW at \in Nat, NEW target, NEW admit, NEW sig,
             ReportCrawled(u, FALSE, Hours(now) + 1, at, target, {}, admit,
                           [v \in target |-> urls[u].prio], sig)
      PROVE  AnyCall
  <2> DEFINE p == [v \in target |-> urls[u].prio]
  <2>1. urls[u].prio \in Buckets
    BY RecordType DEF TypeOK, URLRecords
  <2>2. \A v \in URLs \cap (target \cup {}) : p[v] \in Buckets
    BY <2>1
  <2>3. Hours(now) + 1 \in Nat
    BY <1>h
  <2>4. ReportCrawled(u, FALSE, Hours(now) + 1, at, target, {}, admit, p, sig)
    BY <1>5
  <2> HIDE DEF p
  <2> QED BY <2>2, <2>3, <2>4 DEF AnyCall
<1>6. ASSUME NEW u \in URLs, NEW target, NEW admit, NEW sig, FoldCrawled(u, target, admit, sig)
      PROVE  AnyCall
  <2>1. FetchStamp \in Nat
    BY <1>h DEF FetchStamp
  <2>2. ReportCrawled(u, FALSE, Hours(now) + 1, FetchStamp, target, {}, admit,
                      [v \in target |-> urls[u].prio], sig)
    BY <1>6 DEF FoldCrawled
  <2> QED BY <2>1, <2>2, <1>5
<1>7. ASSUME NEW u \in URLs, NEW is410 \in BOOLEAN, NEW sig, FoldFailed(u, is410, sig)
      PROVE  AnyCall
  BY <1>7, <1>h DEF AnyCall, FoldFailed, FetchStamp
<1>8. ASSUME NEW u \in URLs, NEW sig, FoldError(u, sig) PROVE AnyCall
  <2>1. ErrorStamp \in Nat
    BY <1>h DEF ErrorStamp
  <2>2. CASE StateOn
    BY <1>8, <2>1, <2>2 DEF FoldError, AnyCall
  <2>3. CASE ~StateOn
    <3>1. [v \in {} |-> 0] = [v \in {} |-> urls[u].prio]
      OBVIOUS
    <3>2. ReportCrawled(u, FALSE, Hours(now) + 1, ErrorStamp, {}, {}, {}, [v \in {} |-> 0], sig)
      BY <1>8, <2>3 DEF FoldError
    <3> QED BY <2>1, <3>1, <3>2, <1>5
  <2> QED BY <2>2, <2>3
<1>9. ASSUME SleepUntil PROVE AnyCall
  <2>1. now' = Wake /\ Wake \in Nat /\ Wake >= now
    BY <1>9, EarliestLeast DEF SleepUntil
  <2>2. Later
    BY <2>1, <1>9 DEF Later, SleepUntil, wheelVars, poolVars, urlVars
  <2> QED BY <2>2 DEF AnyCall
<1>10. ASSUME Elapse PROVE AnyCall
  BY <1>10, <1>h DEF AnyCall, Elapse, Tick, Later
<1>11. ASSUME Begin \/ IntakeDone \/ Place_Send \/ Drain \/ (\E f \in flying : Fetched(f)) \/ Rest
              \/ UNCHANGED allVars
       PROVE  UNCHANGED vars
  BY <1>11 DEF Begin, IntakeDone, Place_Send, Drain, Fetched, Rest, allVars
<1>12. ASSUME Loop PROVE [AnyCall]_vars
  <2>1. \A x \in Delays : x \in Nat
    BY Bounds
  <2>2. 0 \in Nat /\ {} \in SUBSET URLs
    OBVIOUS
  <2> QED BY <2>1, <2>2, <1>12, <1>3, <1>4, <1>6, <1>7, <1>8, <1>9, <1>11 DEF Loop
<1>13. Save => AnyCall
  BY DEF Save, AnyCall
<1>14. Restart => AnyCall
  BY DEF Restart, AnyCall
<1> QED BY <1>1, <1>2, <1>10, <1>11, <1>12, <1>13, <1>14 DEF EngineNext

-----------------------------------------------------------------------------
(* The heap key of a parked host. *)

\* Windows only open later, so a key written from them, or kept with them, is
\* still early.
LEMMA ParkedKept ==
  ASSUME TypeOK, TypeOK', ParkedEarly,
         \A i \in IPs : ipNext'[i] >= ipNext[i],
         \A h \in wait' :
           \/ waitUntil'[h] = EligibleNow(hosts'[h])
           \/ /\ h \in wait /\ waitUntil'[h] = waitUntil[h]
              /\ hosts'[h].next = hosts[h].next /\ hosts'[h].ip = hosts[h].ip
  PROVE  ParkedEarly'
<1>1. SUFFICES ASSUME NEW h \in wait'
               PROVE  waitUntil'[h] <= EligibleNow(hosts[h])'
  BY DEF ParkedEarly
<1>2. h \in Hosts /\ (h \in wait => hosts[h] \in HostEntries) /\ hosts'[h] \in HostEntries
  BY DEF TypeOK
<1>3. PICK K \in HostEntries : K = hosts'[h]
  BY <1>2
<1>4. /\ K.next \in Nat /\ K.ip \in IPs \cup {NoIP}
      /\ \A i \in IPs : ipNext[i] \in Nat /\ ipNext'[i] \in Nat
  BY DEF HostEntries, TypeOK
<1>5. EligibleNow(hosts[h])' = MaxOf(K.next, IF K.ip = NoIP THEN 0 ELSE ipNext'[K.ip])
  BY <1>3 DEF EligibleNow, MaxOf
<1>6. EligibleNow(K) \in Nat /\ EligibleNow(K) <= EligibleNow(hosts[h])'
  BY <1>4, <1>5 DEF EligibleNow, MaxOf
<1>7. CASE waitUntil'[h] = EligibleNow(hosts'[h])
  BY <1>3, <1>6, <1>7
<1>8. CASE /\ h \in wait /\ waitUntil'[h] = waitUntil[h]
           /\ hosts'[h].next = hosts[h].next /\ hosts'[h].ip = hosts[h].ip
  <2>1. EligibleNow(hosts[h]) = EligibleNow(K)
    BY <1>3, <1>8 DEF EligibleNow
  <2>2. waitUntil[h] <= EligibleNow(hosts[h]) /\ waitUntil[h] \in Nat
    BY <1>2, <1>8 DEF ParkedEarly, TypeOK
  <2>3. EligibleNow(hosts[h])' \in Nat
    BY <1>4, <1>5 DEF MaxOf
  <2> QED BY <1>6, <1>8, <2>1, <2>2, <2>3
<1> QED BY <1>7, <1>8

LEMMA DispatchParked ==
  ASSUME IndInv, IndInv', ParkedEarly, NEW s, DispatchShard(s)
  PROVE  ParkedEarly'
<1>0. TypeOK /\ PoolsDisjoint /\ PoolsDisjoint' /\ TypeOK' /\ PoliteStep
  BY DispatchPolite DEF IndInv
<1>1. PICK q \in PushOrders(Revived), ord \in Lines(DueFront),
           n \in 0..Cardinality(DueFront) :
        \E add \in Bindings(ord, n) :
          \E ans \in Lookups(ReadyPool(ord, n)), G \in SUBSET ReadyPool(ord, n),
             pick \in SUBSET ReadyPool(ord, n) :
            Chosen(q, ord, n, add, ans, G, pick)
  BY <1>0, DispatchChoices
<1>2. PICK add \in Bindings(ord, n) :
          \E ans \in Lookups(ReadyPool(ord, n)), G \in SUBSET ReadyPool(ord, n),
             pick \in SUBSET ReadyPool(ord, n) :
            Chosen(q, ord, n, add, ans, G, pick)
  BY <1>1
<1>3. PICK ans \in Lookups(ReadyPool(ord, n)), G \in SUBSET ReadyPool(ord, n),
           pick \in SUBSET ReadyPool(ord, n) :
        Chosen(q, ord, n, add, ans, G, pick)
  BY <1>2
<1>4. /\ ReadyPool(ord, n) \in SUBSET Hosts
      /\ Activated(ord, n) \in SUBSET Hosts
  <2>1. DueFront \in SUBSET URLs
    BY <1>0, PromotedType
  <2> QED BY <1>0, <2>1, ReadyPoolFacts
<1>5. PICK dial : dial = Dialled(G \cup pick, ans)
  OBVIOUS
<1>6. PICK robots \in SUBSET pick : robots = {h \in pick : NeedsRobots(hosts[h])}
  OBVIOUS
<1>7. /\ hosts' = [h \in Hosts |->
                     IF h \in robots THEN [SpendHost(dial[h]) EXCEPT !.robots = "pending"]
                     ELSE IF h \in pick THEN SpendHost(dial[h]) ELSE dial[h]]
      /\ ipNext' = [i \in IPs |-> IF \E h \in pick : dial[h].ip = i
                                  THEN IPWindow(dial[CHOOSE h \in pick : TRUE])
                                  ELSE ipNext[i]]
      /\ inFlight' = inFlight \cup pick
      /\ wait' = WaitPool(ord, n) \cup G
      /\ waitUntil' = [h \in Hosts |->
                         IF h \in G \cup Reparked \cup Parked(ord, n)
                         THEN EligibleNow(dial[h])
                         ELSE IF h \in WaitPool(ord, n) THEN waitUntil[h] ELSE 0]
  BY <1>3, <1>5, <1>6 DEF Chosen, Dispatched
<1>8. pick \cap inFlight = {}
  BY <1>0 DEF ReadyPool, Opened, Popped, Placed, PoolsDisjoint
<1>9. \A i \in IPs : ipNext'[i] >= ipNext[i]
  <2> SUFFICES ASSUME NEW i \in IPs PROVE ipNext'[i] >= ipNext[i]
    OBVIOUS
  <2>1. ipNext[i] \in Nat /\ ipNext'[i] \in Nat /\ now \in Nat /\ IPFloor \in Nat
    BY <1>0, Bounds DEF TypeOK
  <2>2. CASE ~\E h \in pick : dial[h].ip = i
    BY <1>7, <2>1, <2>2
  <2>3. ASSUME NEW h \in pick, dial[h].ip = i PROVE ipNext'[i] >= ipNext[i]
    <3>1. h \in inFlight' \ inFlight /\ h \in Hosts
      BY <1>4, <1>7, <1>8
    <3>2. PICK K \in HostEntries : K = dial[h]
      BY <1>0, <1>4, <1>5, <3>1, ResolvedType DEF Dialled
    <3>3. ASSUME NEW a, NEW c
          PROVE  /\ [K EXCEPT !.next = a, !.ipNext = c].ip = K.ip
                 /\ [[K EXCEPT !.next = a, !.ipNext = c] EXCEPT !.robots = "pending"].ip = K.ip
      BY DEF HostEntries
    <3>4. SpendHost(K).ip = K.ip /\ [SpendHost(K) EXCEPT !.robots = "pending"].ip = K.ip
      BY <3>3 DEF SpendHost
    <3>5. hosts'[h].ip = i
      BY <1>7, <2>3, <3>1, <3>2, <3>4
    <3>6. i # NoIP
      BY IPAssumption
    <3>7. now >= ipNext[i] /\ ipNext'[i] >= now + IPFloor
      BY <1>0, <3>1, <3>5, <3>6 DEF PoliteStep
    <3> QED BY <2>1, <3>7
  <2> QED BY <2>2, <2>3
<1>10. ASSUME NEW h \in wait'
       PROVE  \/ waitUntil'[h] = EligibleNow(hosts'[h])
              \/ /\ h \in wait /\ waitUntil'[h] = waitUntil[h]
                 /\ hosts'[h].next = hosts[h].next /\ hosts'[h].ip = hosts[h].ip
  <2>1. h \in Hosts /\ h \notin pick
    BY <1>0, <1>7 DEF TypeOK, PoolsDisjoint
  <2>2. hosts'[h] = dial[h]
    BY <1>7, <2>1
  <2>3. CASE h \in G \cup Reparked \cup Parked(ord, n)
    BY <1>7, <2>1, <2>2, <2>3
  <2>4. CASE h \notin G \cup Reparked \cup Parked(ord, n)
    <3>1. h \in WaitPool(ord, n) /\ h \in wait
      BY <1>7, <2>4 DEF WaitPool, StillParked
    <3>2. waitUntil'[h] = waitUntil[h]
      BY <1>7, <2>1, <2>4, <3>1
    <3>3. dial[h] = hosts[h]
      BY <1>5, <2>1, <2>4 DEF Dialled
    <3> QED BY <2>2, <3>1, <3>2, <3>3
  <2> QED BY <2>3, <2>4
<1> QED BY <1>0, <1>9, <1>10, ParkedKept

\* Reports change neither a window nor an address, and park a host at its windows.
LEMMA PlaceParked ==
  ASSUME TypeOK, TypeOK', ParkedEarly, NEW h \in Hosts, NEW H \in HostEntries, NEW b, NEW U,
         H.next = hosts[h].next, H.ip = hosts[h].ip,
         hosts' = [hosts EXCEPT ![h] = H], ipNext' = ipNext,
         Place(h, H, b, U) \/ UNCHANGED <<wait, waitUntil>>
  PROVE  ParkedEarly'
<1>1. \A i \in IPs : ipNext'[i] >= ipNext[i]
  BY DEF TypeOK
<1>2. hosts \in [Hosts -> HostEntries] /\ waitUntil \in [Hosts -> Nat] /\ wait \subseteq Hosts
  BY DEF TypeOK
<1>3. UNCHANGED <<wait, waitUntil>>
      \/ (wait' = wait \cup {h} /\ waitUntil' = [waitUntil EXCEPT ![h] = EligibleNow(H)])
  BY DEF Place
<1>4. ASSUME NEW g \in wait'
      PROVE  \/ waitUntil'[g] = EligibleNow(hosts'[g])
             \/ /\ g \in wait /\ waitUntil'[g] = waitUntil[g]
                /\ hosts'[g].next = hosts[g].next /\ hosts'[g].ip = hosts[g].ip
  BY <1>2, <1>3
<1> QED BY <1>1, <1>4, ParkedKept

LEMMA ResumeParked ==
  ASSUME TypeOK, TypeOK', ParkedEarly, NEW h \in Hosts, NEW b, NEW U, NEW sig,
         Resume(h, b, U, sig), ipNext' = ipNext
  PROVE  ParkedEarly'
<1>1. PICK H \in Adapted(hosts[h], sig) :
        /\ hosts' = [hosts EXCEPT ![h] = H]
        /\ Place(h, H, b, U) \/ UNCHANGED <<wait, waitUntil>>
  BY DEF Resume
<1>2. hosts[h] \in HostEntries
  BY DEF TypeOK
<1>3. H.next = hosts[h].next /\ H.ip = hosts[h].ip
  <2>1. \E g : H = [hosts[h] EXCEPT !.gap = g]
    BY DEF Adapted
  <2> QED BY <1>2, <2>1 DEF HostEntries
<1>4. H \in HostEntries
  <2>1. hosts'[h] = H
    BY <1>1 DEF TypeOK
  <2> QED BY <2>1 DEF TypeOK
<1> QED BY <1>1, <1>3, <1>4, PlaceParked

LEMMA RobotsParked ==
  ASSUME TypeOK, TypeOK', ParkedEarly, NEW h \in Hosts, NEW resp, NEW deny, NEW delay,
         ApplyRobots(h, resp, deny, delay)
  PROVE  ParkedEarly'
<1>1. PICK H : H = RobotsHost(hosts[h], resp, deny, delay)
  OBVIOUS
<1>2. /\ hosts' = [hosts EXCEPT ![h] = H] /\ ipNext' = ipNext
      /\ \E b, U : Place(h, H, b, U)
  BY <1>1 DEF ApplyRobots
<1>3. hosts[h] \in HostEntries /\ hosts'[h] = H /\ H \in HostEntries
  <2>1. hosts'[h] = H
    BY <1>2 DEF TypeOK
  <2> QED BY <2>1 DEF TypeOK
<1>4. H.next = hosts[h].next /\ H.ip = hosts[h].ip
  BY <1>1, <1>3 DEF RobotsHost, HostEntries
<1> QED BY <1>2, <1>3, <1>4, PlaceParked

\* The parts of the invariant that every call keeps, whoever makes it.
LEMMA CallParked ==
  ASSUME IndInv, IndInv', ParkedEarly, WheelOff, [AnyCall]_vars
  PROVE  ParkedEarly' /\ WheelOff'
<1>0. TypeOK /\ TypeOK'
  BY DEF IndInv
<1>1. ASSUME UNCHANGED <<hosts, ipNext, wait, waitUntil>> PROVE ParkedEarly'
  BY <1>1 DEF ParkedEarly, EligibleNow
<1>2. ASSUME NEW u \in URLs, NEW p, NEW d, Seed(u, p, d) PROVE ParkedEarly' /\ WheelOff'
  BY <1>1, <1>2 DEF Seed, WheelOff, poolVars
<1>3. ASSUME NEW u, NEW p, NEW admit, Discover(u, admit, p) PROVE ParkedEarly' /\ WheelOff'
  BY <1>1, <1>3 DEF Discover, WheelOff, poolVars, wheelVars
<1>4. ASSUME NEW s, DispatchShard(s) PROVE ParkedEarly' /\ WheelOff'
  <2>1. wheel' \subseteq wheel
    BY <1>4 DEF DispatchShard, Dispatched
  <2> QED BY <1>4, <2>1, DispatchParked DEF WheelOff
<1>5. ASSUME NEW h \in Hosts, NEW resp, NEW deny, NEW delay, ApplyRobots(h, resp, deny, delay)
      PROVE  ParkedEarly' /\ WheelOff'
  <2>1. wheel' = wheel
    BY <1>5 DEF ApplyRobots, wheelVars
  <2> QED BY <1>0, <1>5, <2>1, RobotsParked DEF WheelOff
<1>6. ASSUME NEW u \in URLs, NEW soft, NEW due, NEW at, NEW target, NEW links, NEW admit,
             NEW p, NEW sig, ReportCrawled(u, soft, due, at, target, links, admit, p, sig)
      PROVE  ParkedEarly' /\ WheelOff'
  <2>1. WheelOn \/ wheel' = wheel
    BY <1>6 DEF ReportCrawled
  <2>2. ipNext' = ipNext /\ HostOf[u] \in Hosts /\ \E b, U : Resume(HostOf[u], b, U, sig)
    BY <1>6, KeyAssumption DEF ReportCrawled, Landed
  <2>3. ParkedEarly'
    BY <1>0, <2>2, ResumeParked
  <2> QED BY <2>1, <2>3 DEF WheelOff
<1>7. ASSUME NEW u \in URLs, NEW is410, NEW at, NEW sig, ReportFailed(u, is410, at, sig)
      PROVE  ParkedEarly' /\ WheelOff'
  <2>1. wheel' = wheel
    BY <1>7 DEF ReportFailed, wheelVars
  <2>2. ipNext' = ipNext /\ HostOf[u] \in Hosts /\ \E b, U : Resume(HostOf[u], b, U, sig)
    BY <1>7, KeyAssumption DEF ReportFailed, Landed
  <2>3. ParkedEarly'
    BY <1>0, <2>2, ResumeParked
  <2> QED BY <2>1, <2>3 DEF WheelOff
<1>8. ASSUME Checkpoint \/ Later PROVE ParkedEarly' /\ WheelOff'
  BY <1>1, <1>8 DEF Checkpoint, Later, WheelOff, poolVars, wheelVars
<1>9. ASSUME Recover PROVE ParkedEarly' /\ WheelOff'
  BY <1>9 DEF Recover, ParkedEarly, WheelOff
<1>10. ASSUME UNCHANGED vars PROVE ParkedEarly' /\ WheelOff'
  BY <1>1, <1>10 DEF vars, poolVars, wheelVars, WheelOff
<1> QED
  BY <1>2, <1>3, <1>4, <1>5, <1>6, <1>7, <1>8, <1>9, <1>10 DEF AnyCall

-----------------------------------------------------------------------------
(* The fetches in flight, and what an idle loop knows. *)

\* A dispatch only adds fetches; one that adds none has parked every ready host.
\* With nothing in flight and nothing parked no host is active, so distribute met
\* no full active set and the front bank is empty.
LEMMA DispatchIdle ==
  ASSUME QueueInv, QueueInv', NEW s, DispatchShard(s)
  PROVE  /\ flying \subseteq flying'
         /\ flying' = {} => ready' = {}
         /\ ~RobotsOn /\ flying' = {} /\ wait' = {} => front' = {}
<1>0. TypeOK /\ PoolsDisjoint /\ OneFetchPerHost' /\ ActiveInv /\ ActiveInv' /\ TypeOK'
  BY DEF QueueInv, PlaceInv, IndInv
<1>1. PICK q \in PushOrders(Revived), ord \in Lines(DueFront),
           n \in 0..Cardinality(DueFront) :
        \E add \in Bindings(ord, n) :
          \E ans \in Lookups(ReadyPool(ord, n)), G \in SUBSET ReadyPool(ord, n),
             pick \in SUBSET ReadyPool(ord, n) :
            Chosen(q, ord, n, add, ans, G, pick)
  BY <1>0, DispatchChoices
<1>2. PICK add \in Bindings(ord, n) :
          \E ans \in Lookups(ReadyPool(ord, n)), G \in SUBSET ReadyPool(ord, n),
             pick \in SUBSET ReadyPool(ord, n) :
            Chosen(q, ord, n, add, ans, G, pick)
  BY <1>1
<1>3. PICK ans \in Lookups(ReadyPool(ord, n)), G \in SUBSET ReadyPool(ord, n),
           pick \in SUBSET ReadyPool(ord, n) :
        Chosen(q, ord, n, add, ans, G, pick)
  BY <1>2
<1>4. /\ inFlight' = inFlight \cup pick
      /\ ready' = ReadyLeft(ReadyPool(ord, n), G, pick)
      /\ front' = DueFront \ BoundKeys(ord, n)
      /\ active' = active \cup Activated(ord, n)
      /\ flying \subseteq flying'
      /\ StopsAt(ord, n) /\ (pick = {} => G = ReadyPool(ord, n))
  BY <1>3 DEF Chosen, Dispatched
<1>5. ASSUME flying' = {} PROVE pick = {} /\ inFlight' = {} /\ ready' = {}
  <2>1. inFlight' = {}
    BY <1>0, <1>5 DEF OneFetchPerHost
  <2>2. pick = {}
    BY <1>4, <2>1
  <2> QED BY <1>4, <2>1, <2>2 DEF ReadyLeft
<1>6. ASSUME ~RobotsOn, flying' = {}, wait' = {} PROVE front' = {}
  <2>1. active' = {}
    BY <1>0, <1>5, <1>6 DEF ActiveInv, ActiveServed, TypeOK
  <2>2. active = {} /\ Activated(ord, n) = {}
    BY <1>4, <2>1
  <2>3. activeN + Cardinality(Activated(ord, n)) < Target
    <3>1. activeN = 0 /\ Cardinality(Activated(ord, n)) = 0
      <4>1. Cardinality(active) = 0 /\ Cardinality(Activated(ord, n)) = 0
        BY <2>2, FS_EmptySet
      <4> QED BY <1>0, <4>1 DEF ActiveInv, ActiveCounted
    <3>2. Target \in Nat /\ Target >= 1
      BY BoundAssumption
    <3> QED BY <3>1, <3>2
  <2>4. IsFiniteSet(DueFront)
    BY <1>0, PromotedType, SomeURLs
  <2>5. Len(ord) = Cardinality(DueFront) /\ Cardinality(DueFront) \in Nat
    BY <2>4, LineSeq, FS_CardinalityType
  <2>6. n \in Nat /\ n <= Cardinality(DueFront) /\ (n + 1) - 1 = n
    BY <2>5
  <2>7. Placeable(ord, n + 1)
    BY <2>3, <2>6 DEF Placeable
  <2>8. n = Cardinality(DueFront)
    BY <1>4, <2>5, <2>6, <2>7 DEF StopsAt
  <2>9. DueFront \subseteq BoundKeys(ord, n)
    BY <2>8 DEF Lines, BoundKeys
  <2> QED BY <1>4, <2>9
<1> QED BY <1>4, <1>5, <1>6

\* A discovery the frontier does not admit leaves the front bank as it was.
LEMMA RejectedIntake ==
  ASSUME TypeOK, NEW u \in URLs, Unseen(urls[u]), NEW p, Discover(u, {}, p)
  PROVE  front' = front
<1>1. ASSUME NEW v \in URLs, Unseen(urls[v]) PROVE urls'[v].status # "Scheduled"
  <2>1. urls' = DiscoverURLs(urls, {u}, {}, [w \in URLs |-> p])
    BY DEF Discover
  <2>2. CASE v = u
    BY <1>1, <2>1, <2>2 DEF DiscoverURLs, NoRecord
  <2>3. CASE v # u
    BY <1>1, <2>1, <2>3 DEF DiscoverURLs, Unseen
  <2> QED BY <2>2, <2>3
<1>2. front' = front \cup {v \in URLs : Unseen(urls[v]) /\ urls'[v].status = "Scheduled"}
  BY DEF Discover, Enter
<1> QED BY <1>1, <1>2

\* A report takes its own fetch out of the result channel and out of the air.
LEMMA FoldHands ==
  ASSUME InHands, NEW f, Received(f), flying' = flying \ {f}
  PROVE  InHands' /\ Quiet'
<1>1. /\ MayFold /\ f \in out /\ out' = out \ {f} /\ hand' = hand /\ busy' = busy
      /\ pc' = (IF pc = "drain" THEN "intake" ELSE pc)
  BY DEF Received
<1>2. pc' \in {"place", "intake"} /\ (pc' # "place" => hand = {})
  BY <1>1 DEF MayFold, InHands
<1>3. f \notin hand /\ f \notin busy
  BY <1>1 DEF InHands
<1> QED BY <1>1, <1>2, <1>3 DEF InHands, Quiet, Resting

LEMMA EngineHands ==
  ASSUME EngineInv, QueueInv', [EngineNext]_allVars
  PROVE  InHands' /\ Quiet'
<1>0. TypeOK /\ QueueInv /\ InHands /\ Quiet /\ WheelOff
  BY DEF EngineInv, QueueInv, PlaceInv, IndInv
<1>1. ASSUME UNCHANGED <<pc, hand, busy, out, flying, ready, front, wait, wheel>>
      PROVE  InHands' /\ Quiet'
  BY <1>0, <1>1 DEF InHands, Quiet
<1>2. ASSUME NEW u \in URLs, NEW p, SeedFirst(u, p) PROVE InHands' /\ Quiet'
  BY <1>0, <1>2 DEF SeedFirst, Seed, engineVars, InHands, Quiet, Resting
<1>3. ASSUME NEW u \in URLs, Intake(u) PROVE InHands' /\ Quiet'
  <2>1. PICK admit \in SUBSET {u}, p \in Buckets :
          Discover(u, admit, p) /\ pc' = IF admit = {} THEN pc ELSE "intake"
    BY <1>3 DEF Intake
  <2>2. /\ UNCHANGED <<hand, busy, out, flying, ready, wait, wheel>>
        /\ pc \in {"intake", "idle", "inbound"} /\ Unseen(urls[u])
    BY <1>3, <2>1 DEF Intake, Discover, poolVars, wheelVars
  <2>3. InHands'
    BY <1>0, <2>1, <2>2 DEF InHands
  <2>4. CASE admit = {}
    <3>1. Discover(u, {}, p)
      BY <2>1, <2>4
    <3>2. front' = front
      BY <1>0, <2>2, <3>1, RejectedIntake
    <3> QED BY <1>1, <2>1, <2>2, <2>4, <3>2
  <2>5. CASE admit # {}
    BY <2>1, <2>3, <2>5 DEF Quiet, Resting
  <2> QED BY <2>4, <2>5
<1>4. ASSUME Dispatch PROVE InHands' /\ Quiet'
  <2>1. /\ pc = "dispatch" /\ hand' = flying' \ flying /\ busy' = busy /\ out' = out
        /\ pc' = (IF hand' # {} THEN "place" ELSE IF flying # {} THEN "drain" ELSE "idle")
    BY <1>4 DEF Dispatch
  <2>2. /\ flying \subseteq flying'
        /\ flying' = {} => ready' = {}
        /\ ~RobotsOn /\ flying' = {} /\ wait' = {} => front' = {}
    BY <1>0, <1>4, DispatchIdle DEF Dispatch
  <2>3. hand = {}
    BY <1>0, <2>1 DEF InHands
  <2>4. InHands'
    BY <1>0, <2>1, <2>2, <2>3 DEF InHands
  <2>5. pc' \in Resting => pc' = "idle" /\ flying' = {}
    BY <2>1, <2>2 DEF Resting
  <2>6. pc' # "done"
    BY <2>1
  <2>7. Quiet'
    BY <2>2, <2>5, <2>6, Zenon DEF Quiet
  <2> QED BY <2>4, <2>7
<1>5. ASSUME NEW h \in Hosts, NEW resp, NEW deny, NEW delay, FoldRobots(h, resp, deny, delay)
      PROVE  InHands' /\ Quiet'
  <2>1. Received(<<h, Robots>>) /\ flying' = flying \ {<<h, Robots>>}
    BY <1>5 DEF FoldRobots, ApplyRobots
  <2> QED BY <1>0, <2>1, FoldHands
<1>6. ASSUME NEW u \in URLs, Received(<<HostOf[u], u>>), Landed(u) PROVE InHands' /\ Quiet'
  <2>1. flying' = flying \ {<<HostOf[u], u>>}
    BY <1>6 DEF Landed
  <2> QED BY <1>0, <1>6, <2>1, FoldHands
<1>7. ASSUME NEW u \in URLs, NEW target, NEW admit, NEW sig, FoldCrawled(u, target, admit, sig)
      PROVE  InHands' /\ Quiet'
  BY <1>6, <1>7 DEF FoldCrawled, ReportCrawled
<1>8. ASSUME NEW u \in URLs, NEW is410, NEW sig, FoldFailed(u, is410, sig)
      PROVE  InHands' /\ Quiet'
  BY <1>6, <1>8 DEF FoldFailed, ReportFailed
<1>9. ASSUME NEW u \in URLs, NEW sig, FoldError(u, sig) PROVE InHands' /\ Quiet'
  BY <1>6, <1>9 DEF FoldError, ReportCrawled, ReportFailed
<1>10. ASSUME Begin \/ IntakeDone PROVE InHands' /\ Quiet'
  BY <1>0, <1>10 DEF Begin, IntakeDone, vars, InHands, Quiet, Resting
<1>11. ASSUME Place_Send PROVE InHands' /\ Quiet'
  BY <1>0, <1>11 DEF Place_Send, vars, InHands, Quiet, Resting
<1>12. ASSUME SleepUntil PROVE InHands' /\ Quiet'
  <2>1. pc = "idle" /\ pc' = "intake" /\ UNCHANGED <<flying, hand, busy, out>>
    BY <1>12 DEF SleepUntil
  <2> QED BY <1>0, <2>1 DEF InHands, Quiet, Resting
<1>13. ASSUME Drain PROVE InHands' /\ Quiet'
  <2>1. /\ pc = "idle" /\ pc' \in {"done", "inbound"} /\ Instants = {}
        /\ UNCHANGED <<hand, busy, out, flying, ready, front, wait, wheel>>
    BY <1>13 DEF Drain, vars, urlVars, poolVars, wheelVars
  <2>2. wait = {} /\ (WheelOn => wheel = {})
    BY <2>1 DEF Instants
  <2>3. wheel = {}
    BY <1>0, <2>2 DEF WheelOff
  <2> QED BY <1>0, <2>1, <2>2, <2>3 DEF InHands, Quiet, Resting
<1>14. ASSUME NEW f \in flying, Fetched(f) PROVE InHands' /\ Quiet'
  <2>1. /\ UNCHANGED <<pc, hand, flying, ready, front, wait, wheel>>
        /\ f \in busy /\ busy' = busy \ {f} /\ out' = out \cup {f}
    BY <1>14 DEF Fetched, vars, urlVars, poolVars, wheelVars
  <2>2. InHands'
    BY <1>0, <2>1 DEF InHands
  <2>3. Quiet'
    BY <1>0, <2>1 DEF Quiet
  <2> QED BY <2>2, <2>3
<1>15. ASSUME Save \/ Elapse \/ Rest \/ UNCHANGED allVars PROVE InHands' /\ Quiet'
  <2>1. UNCHANGED <<pc, hand, busy, out, flying, ready, front, wait, wheel>>
    BY <1>15 DEF Save, Checkpoint, Elapse, Tick, Rest, allVars, engineVars, vars,
                 urlVars, poolVars, wheelVars
  <2> QED BY <1>1, <2>1
<1>16. ASSUME Restart PROVE InHands' /\ Quiet'
  BY <1>16 DEF Restart, Recover, InHands, Quiet, Resting
<1>17. ASSUME Loop PROVE InHands' /\ Quiet'
  BY <1>4, <1>5, <1>7, <1>8, <1>9, <1>10, <1>11, <1>12, <1>13, <1>17 DEF Loop
<1> QED BY <1>2, <1>3, <1>14, <1>15, <1>16, <1>17 DEF EngineNext

-----------------------------------------------------------------------------
(* The invariant holds. *)

LEMMA EngineInitInv == EngineInit => EngineInv
<1> SUFFICES ASSUME EngineInit PROVE EngineInv
  OBVIOUS
<1>1. Init /\ pc = "start" /\ hand = {} /\ busy = {} /\ out = {}
  BY DEF EngineInit
<1>2. QueueInv
  BY <1>1, InitQueue
<1>3. flying = {} /\ wait = {} /\ wheel = {}
  BY <1>1 DEF Init
<1>4. InHands /\ Quiet /\ WheelOff /\ ParkedEarly
  BY <1>1, <1>3 DEF InHands, Quiet, Resting, WheelOff, ParkedEarly
<1> QED BY <1>2, <1>4 DEF EngineInv

LEMMA EngineStep ==
  ASSUME EngineInv, [EngineNext]_allVars
  PROVE  EngineInv' /\ [PoliteStep]_vars /\ (restarts' = restarts => TerminalStep)
<1>1. QueueInv /\ IndInv /\ TypeOK /\ WheelOff /\ ParkedEarly
  BY DEF EngineInv, QueueInv, PlaceInv, IndInv
<1>2. [AnyCall]_vars
  BY <1>1, EngineIsCall
<1>3. QueueInv' /\ (restarts' = restarts => TerminalStep)
  BY <1>1, <1>2, CallSafe DEF Safe
<1>4. IndInv'
  BY <1>3 DEF QueueInv, PlaceInv
<1>5. ParkedEarly' /\ WheelOff'
  BY <1>1, <1>2, <1>4, CallParked
<1>6. [PoliteStep]_vars
  BY <1>1, <1>2, CallPolite
<1> QED BY <1>3, <1>5, <1>6, EngineHands DEF EngineInv

LEMMA EngineInvariance == EngineSpec => []EngineInv
<1>1. EngineInv /\ [EngineNext]_allVars => EngineInv'
  BY EngineStep
<1> QED BY <1>1, EngineInitInv, PTL DEF EngineSpec

-----------------------------------------------------------------------------
(* The theorems. *)

\* However the run loop interleaves intake, dispatch, folding, sleeping, restarts
\* and a live clock with the fetches of its workers, the frontier it drives keeps
\* its safety: one fetch per host, one pool per host, one place per URL, the front
\* bank filed by priority, no fetch the rules forbid, the active count exact.
THEOREM EngineKeepsFrontier ==
  EngineSpec => [](TypeOK /\ PoolsDisjoint /\ OneFetchPerHost /\ URLInOnePlace
                   /\ FrontBucketed /\ NoDisallowedFetch /\ ActiveCounted)
<1>1. EngineInv => TypeOK /\ PoolsDisjoint /\ OneFetchPerHost /\ URLInOnePlace
                   /\ FrontBucketed /\ NoDisallowedFetch /\ ActiveCounted
  BY DEF EngineInv, QueueInv, PlaceInv, IndInv, RulesInv, ActiveInv
<1> QED BY <1>1, EngineInvariance, PTL

\* The engine starts a fetch only when the windows of the host and of its address
\* are open, and leaves them closed (dispatch in Engine.Run).
THEOREM EnginePolite == EngineSpec => PoliteStart
<1>1. EngineInv /\ [EngineNext]_allVars => [PoliteStep]_vars
  BY EngineStep
<1> QED BY <1>1, EngineInvariance, PTL DEF EngineSpec, PoliteStart

\* No step of the engine short of a restart revives a terminal URL.
THEOREM EngineTerminal == EngineSpec => TerminalStays
<1>1. EngineInv /\ [EngineNext]_allVars => (restarts' = restarts => TerminalStep)
  BY EngineStep
<1>2. EngineInv /\ [EngineNext]_allVars =>
        [restarts' = restarts =>
           \A u \in URLs : urls[u].status \in Terminal => urls'[u].status = urls[u].status]_vars
  BY <1>1 DEF TerminalStep
<1> QED BY <1>2, EngineInvariance, PTL DEF EngineSpec, TerminalStays

\* A fetch in flight is in one hand only: the loop's while it places it, a
\* worker's, or the result channel's.  None is lost between them, none is folded
\* twice.
THEOREM FetchesInHands == EngineSpec => []InHands
<1>1. EngineInv => InHands
  BY DEF EngineInv
<1> QED BY <1>1, EngineInvariance, PTL

\* A bounded run returns only when there is no work.  Without rescheduling
\* (FreshOn), which leaves recrawls to the next run, and without robots, whose
\* filter may leave an emptied host in the active set.
THEOREM RunDrains ==
  ASSUME ~FreshOn, ~RobotsOn
  PROVE  EngineSpec => []DrainedMeansDone
<1>1. ASSUME EngineInv PROVE DrainedMeansDone
  <2> SUFFICES ASSUME pc = "done"
               PROVE  /\ flying = {}
                      /\ \A u \in URLs : urls[u].status \notin Queueable \cup {"InFlight"}
    BY DEF DrainedMeansDone
  <2>1. flying = {} /\ ready = {} /\ wait = {} /\ wheel = {} /\ front = {}
    BY <1>1 DEF EngineInv, Quiet, Resting
  <2>2. NoURLLost /\ OneFetchPerHost /\ ActiveCounted /\ ActiveServed /\ TypeOK
    BY <1>1 DEF EngineInv, QueueInv, KeptInv, PlaceInv, IndInv, ActiveInv
  <2>3. inFlight = {}
    BY <2>1, <2>2 DEF OneFetchPerHost
  <2>4. active = {}
    BY <2>1, <2>2, <2>3 DEF ActiveServed
  <2>5. \A h \in Hosts : back[h] = <<>>
    BY <2>2, <2>4 DEF ActiveCounted
  <2>6. \A u \in URLs : HostOf[u] \in Hosts
    BY KeyAssumption
  <2>7. \A u \in URLs : KeysOf(back[HostOf[u]]) = {}
    BY <2>5, <2>6 DEF KeysOf
  <2> QED BY <2>1, <2>2, <2>7 DEF NoURLLost
<1> QED BY <1>1, EngineInvariance, PTL

\* With robots off, the active set the engine sees is exact: every active host has
\* a URL queued and something that will come for it.
THEOREM EngineActiveExact ==
  ASSUME ~RobotsOn
  PROVE  EngineSpec => []ActiveHoldsBack
<1>1. ASSUME EngineInv PROVE ActiveHoldsBack
  BY <1>1 DEF EngineInv, QueueInv, ActiveInv, ActiveCounted, ActiveServed, ActiveHoldsBack
<1> QED BY <1>1, EngineInvariance, PTL

\* The loop never sleeps past work: when it moves the clock no host is ready, every
\* parked host opens, and every wheel entry fires, no earlier than it wakes
\* (NextEligible, sleepUntil).
THEOREM NeverOversleeps == EngineSpec => NoOversleep
<1> DEFINE A == pc = "idle" /\ pc' = "intake" /\ now' > now =>
                  /\ \A h \in ready \cup wait : EligibleNow(hosts[h]) >= now'
                  /\ \A u \in wheel : WheelOn => wheelDue[u] * HourSecs >= now'
<1>1. ASSUME EngineInv, [EngineNext]_allVars, pc = "idle", pc' = "intake", now' > now
      PROVE  A
  <2>0. TypeOK /\ ready = {} /\ ParkedEarly
    BY <1>1 DEF EngineInv, QueueInv, PlaceInv, IndInv, Quiet, Resting
  <2>1. now \in Nat
    BY <2>0 DEF TypeOK
  <2>2. now' # now
    BY <1>1, <2>1
  <2>3. SleepUntil
    <3>1. ~ UNCHANGED allVars /\ ~ Restart /\ ~ Save /\ ~ Rest
      BY <1>1, <2>2 DEF allVars, vars, Restart, Recover, Save, engineVars, Rest
    <3>2. \A u \in URLs : ~ Intake(u)
      BY <2>2 DEF Intake, Discover
    <3>3. \A u \in URLs, p \in Buckets : ~ SeedFirst(u, p)
      BY <1>1 DEF SeedFirst
    <3>4. ~ Elapse /\ \A f \in flying : ~ Fetched(f)
      BY <1>1 DEF Elapse, Fetched, engineVars
    <3>5. Loop
      BY <1>1, <3>1, <3>2, <3>3, <3>4 DEF EngineNext
    <3>6. ~ Begin /\ ~ IntakeDone /\ ~ Dispatch /\ ~ Place_Send /\ \A f : ~ Received(f)
      BY <1>1 DEF Begin, IntakeDone, Dispatch, Place_Send, Received, MayFold
    <3>7. ~ Drain
      BY <1>1 DEF Drain
    <3> QED
      BY <3>5, <3>6, <3>7 DEF Loop, FoldRobots, FoldCrawled, FoldFailed, FoldError
  <2>4. Instants # {} /\ now' = Wake
    BY <2>3 DEF SleepUntil
  <2>5. Earliest \in Nat /\ Instants \subseteq Nat /\ \A t \in Instants : Earliest <= t
    BY <2>0, <2>4, EarliestLeast
  <2>6. now' = Earliest
    BY <2>1, <2>2, <2>4, <2>5 DEF Wake, MaxOf
  <2>7. ASSUME NEW h \in wait PROVE EligibleNow(hosts[h]) >= now'
    <3>1. waitUntil[h] \in Instants /\ waitUntil[h] <= EligibleNow(hosts[h])
      BY <2>0 DEF Instants, ParkedEarly
    <3>2. EligibleNow(hosts[h]) \in Nat
      BY <2>0, WindowType DEF TypeOK
    <3>3. PICK e \in Nat, w \in Nat : e = EligibleNow(hosts[h]) /\ w = waitUntil[h]
      BY <2>5, <3>1, <3>2
    <3>4. Earliest <= w /\ w <= e
      BY <2>5, <3>1, <3>3
    <3>5. Earliest <= e
      BY <2>5, <3>4
    <3> QED BY <2>6, <3>3, <3>5
  <2>8. ASSUME NEW u \in wheel, WheelOn PROVE wheelDue[u] * HourSecs >= now'
    <3>1. wheelDue[u] * HourSecs \in Instants
      BY <2>8 DEF Instants
    <3> QED BY <2>5, <2>6, <3>1
  <2> QED BY <2>0, <2>7, <2>8
<1>2. EngineInv /\ [EngineNext]_allVars => [A]_allVars
  BY <1>1
<1> QED BY <1>2, EngineInvariance, PTL DEF EngineSpec, NoOversleep
=============================================================================
