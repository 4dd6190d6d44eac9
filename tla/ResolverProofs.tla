--------------------------- MODULE ResolverProofs ---------------------------
(***************************************************************************)
(* The DNS pool, proved for any number of prefetchers, workers, callers    *)
(* and hosts: a reservation always has a hand that will clear it, the pool *)
(* alone resolves a host once at a time and never contradicts itself, and  *)
(* the WaitGroup counts what is outstanding.                               *)
(***************************************************************************)
EXTENDS Resolver, FiniteSetTheorems, SequenceTheorems, TLAPS

-----------------------------------------------------------------------------
(* The inductive invariant. *)

Jobs == [pc : {"idle", "resolving", "store", "done", "exited"}, host : Hosts,
         ttl : TTLs \cup {0, Failed}, now : Nat]
Prefetching == [pc : {"idle", "reserve", "add", "send", "release"}, todo : Seq(Hosts), now : Nat]

\* The fields' types; a prefetcher under way has a host in hand.
PoolType ==
  /\ now \in Nat /\ positive \in [Hosts -> Nat]
  /\ negative \in [Hosts -> [until : Nat, failures : Nat]]
  /\ inflight \subseteq Hosts /\ queue \in Seq(Hosts)
  /\ pf \in [Prefetchers -> Prefetching]
  /\ worker \in [Workers -> Jobs]
  /\ call \in [Callers -> Jobs]
  /\ \A p \in Prefetchers : pf[p].pc # "idle" => pf[p].todo # <<>>

\* A prefetcher, a queue slot or a worker has the host.
InHand(h) == Sending(h) # {} \/ Queued(h) # {} \/ Working(h) # {}

\* No two of them have it.
Alone(h) ==
  /\ \A p, q \in Sending(h) : p = q
  /\ \A i, j \in Queued(h) : i = j
  /\ \A v, w \in Working(h) : v = w
  /\ Sending(h) = {} \/ Queued(h) = {}
  /\ Sending(h) = {} \/ Working(h) = {}
  /\ Queued(h) = {} \/ Working(h) = {}

\* What is reserved is in some hand.
Reserved == \A h \in inflight : InHand(h)

\* A host no synchronous Resolve went out for is in one hand at most, reserved
\* while it is, and its address has expired by then.
Sole == \A h \in Hosts \ synced :
          Alone(h) /\ (InHand(h) => h \in inflight /\ positive[h] <= now)

\* A synchronous caller's host is marked, and no prefetcher's clock is ahead.
CallersMarked == \A c \in Callers : call[c].pc \in {"resolving", "store"} => call[c].host \in synced
ClocksBehind == \A p \in Prefetchers : pf[p].now <= now

\* The WaitGroup's counter: sends not yet decided, queued hosts, busy workers.
Sends == {p \in Prefetchers : pf[p].pc = "send"}
Busy == {w \in Workers : worker[w].pc \in {"resolving", "store", "done"}}
PendingExact == pending = Cardinality(Sends) + Len(queue) + Cardinality(Busy)

PoolInv == PoolType /\ Reserved /\ Sole /\ CallersMarked /\ ClocksBehind
           /\ OneVerdict /\ PendingExact

-----------------------------------------------------------------------------
(* Facts about the operators. *)

LEMMA Constants ==
  /\ QueueCap \in Nat /\ NegativeTTL \in Nat /\ Hosts # {}
  /\ Idle \in Prefetching /\ Free \in Jobs /\ Free.pc = "idle" /\ Idle.pc = "idle"
  /\ \A ttl \in Nat : clamp(ttl) \in Nat
  /\ \A l \in Lists : l \in Seq(Hosts) /\ l # <<>>
<1>1. (CHOOSE h \in Hosts : TRUE) \in Hosts
  BY ResolverAssumption
<1>2. Free \in Jobs /\ Free.pc = "idle"
  BY <1>1 DEF Free, Jobs
<1>3. Idle \in Prefetching /\ Idle.pc = "idle"
  BY DEF Idle, Prefetching
<1> QED BY <1>2, <1>3, ResolverAssumption DEF clamp, EffectiveMax

\* Advanced ends the call or puts the next host in hand.
LEMMA AdvancedPf ==
  ASSUME PoolType, NEW p \in Prefetchers, pf[p].pc # "idle"
  PROVE  /\ Advanced(p) \in [Prefetchers -> Prefetching]
         /\ Advanced(p)[p].pc \in {"idle", "reserve"}
         /\ Advanced(p)[p].pc # "idle" => Advanced(p)[p].todo # <<>>
         /\ Advanced(p)[p].now \in {0, pf[p].now}
         /\ \A q \in Prefetchers : q # p => Advanced(p)[q] = pf[q]
<1>1. /\ pf[p] \in Prefetching /\ pf[p].todo \in Seq(Hosts) /\ pf[p].todo # <<>>
      /\ pf \in [Prefetchers -> Prefetching]
  BY DEF PoolType, Prefetching
<1>2. CASE Len(pf[p].todo) = 1
  <2>1. Advanced(p) = [pf EXCEPT ![p] = Idle]
    BY <1>2 DEF Advanced
  <2> QED BY <1>1, <2>1, Constants DEF Idle
<1>3. CASE Len(pf[p].todo) # 1
  <2> DEFINE t == Tail(pf[p].todo)
  <2>1. t \in Seq(Hosts) /\ t # <<>>
    <3>1. Len(pf[p].todo) \in Nat /\ Len(pf[p].todo) # 0
      BY <1>1
    <3>2. t \in Seq(Hosts) /\ Len(t) = Len(pf[p].todo) - 1
      BY <1>1
    <3>3. Len(t) # 0 /\ Len(<<>>) = 0
      BY <1>3, <3>1, <3>2
    <3> QED BY <3>2, <3>3
  <2> DEFINE r == [pf[p] EXCEPT !.pc = "reserve", !.todo = t]
  <2>2. Advanced(p) = [pf EXCEPT ![p] = r]
    BY <1>1, <1>3 DEF Advanced, Prefetching
  <2> HIDE DEF t
  <2>3. r \in Prefetching /\ r.pc = "reserve" /\ r.todo = t /\ r.now = pf[p].now
    BY <1>1, <2>1 DEF Prefetching
  <2> HIDE DEF r
  <2>4. Advanced(p) \in [Prefetchers -> Prefetching] /\ Advanced(p)[p] = r
        /\ \A q \in Prefetchers : q # p => Advanced(p)[q] = pf[q]
    BY <1>1, <2>2, <2>3
  <2> QED BY <2>1, <2>3, <2>4
<1> QED BY <1>2, <1>3

\* Removing or adding one element of a finite set.
LEMMA OneMore ==
  ASSUME NEW S, IsFiniteSet(S), NEW x, x \notin S
  PROVE  Cardinality(S \cup {x}) = Cardinality(S) + 1 /\ Cardinality(S) \in Nat
  BY FS_AddElement, FS_CardinalityType

LEMMA OneLess ==
  ASSUME NEW S, IsFiniteSet(S), NEW x \in S
  PROVE  Cardinality(S \ {x}) = Cardinality(S) - 1 /\ Cardinality(S) \in Nat
  BY FS_RemoveElement, FS_CardinalityType

LEMMA HandsFinite == IsFiniteSet(Sends) /\ IsFiniteSet(Busy)
<1>1. Sends \subseteq Prefetchers /\ Busy \subseteq Workers
  BY DEF Sends, Busy
<1> QED BY <1>1, ResolverAssumption, FS_Subset

-----------------------------------------------------------------------------
(* Every action preserves it. *)

LEMMA InitPool == Init => PoolInv
<1> SUFFICES ASSUME Init PROVE PoolInv
  OBVIOUS
<1>1. PoolType
  BY Constants DEF Init, PoolType
<1>2. \A h \in Hosts : Sending(h) = {} /\ Queued(h) = {} /\ Working(h) = {}
  BY Constants DEF Init, Sending, Queued, Working
<1>3. Reserved /\ Sole
  BY <1>2 DEF Init, Reserved, Sole, Alone, InHand
<1>4. CallersMarked /\ ClocksBehind
  BY Constants DEF Init, CallersMarked, ClocksBehind, Idle
<1>5. OneVerdict
  BY DEF Init, OneVerdict, Fresh
<1>6. Sends = {} /\ Busy = {}
  BY Constants DEF Init, Sends, Busy
<1>7. PendingExact
  BY <1>6, FS_EmptySet DEF Init, PendingExact
<1> QED BY <1>1, <1>3, <1>4, <1>5, <1>7 DEF PoolInv

\* A step that moves no host from hand to hand and stores nothing.
LEMMA SameHands ==
  ASSUME Reserved, Sole, OneVerdict, PoolType, now' \in Nat, now' >= now,
         UNCHANGED <<positive, negative, inflight>>, synced \subseteq synced',
         \A h \in Hosts : /\ Sending(h)' = Sending(h) /\ Queued(h)' = Queued(h)
                          /\ Working(h)' = Working(h)
  PROVE  Reserved' /\ Sole' /\ OneVerdict'
<1>1. now \in Nat /\ inflight \subseteq Hosts
      /\ \A h \in Hosts : positive[h] \in Nat /\ negative[h].until \in Nat
  BY DEF PoolType
<1>2. \A h \in Hosts : (InHand(h)' <=> InHand(h)) /\ (Alone(h)' <=> Alone(h))
  BY DEF InHand, Alone
<1>3. Reserved'
  BY <1>1, <1>2 DEF Reserved
<1>4. Sole'
  <2> SUFFICES ASSUME NEW h \in Hosts \ synced'
               PROVE  Alone(h)' /\ (InHand(h)' => h \in inflight' /\ positive'[h] <= now')
    BY DEF Sole
  <2>1. h \in Hosts \ synced /\ positive'[h] = positive[h] /\ positive[h] \in Nat
    BY <1>1
  <2> QED BY <1>1, <1>2, <2>1 DEF Sole
<1>5. OneVerdict'
  <2> SUFFICES ASSUME NEW h \in Hosts \ synced'
               PROVE  ~(now' < positive'[h] /\ now' < negative'[h].until)
    BY DEF OneVerdict, Fresh, Suppressed
  <2>1. h \in Hosts \ synced /\ positive'[h] = positive[h] /\ negative'[h] = negative[h]
        /\ positive[h] \in Nat /\ negative[h].until \in Nat
    BY <1>1
  <2>2. ~(now < positive[h] /\ now < negative[h].until)
    BY <2>1 DEF OneVerdict, Fresh, Suppressed
  <2> QED BY <1>1, <2>1, <2>2
<1> QED BY <1>3, <1>4, <1>5

LEMMA PrefetchCallPool ==
  ASSUME PoolInv, NEW p \in Prefetchers, NEW hosts \in Lists, PrefetchCall(p, hosts)
  PROVE  PoolInv'
<1> DEFINE r == [pc |-> "reserve", todo |-> hosts, now |-> now]
<1>1. /\ pf' = [pf EXCEPT ![p] = r] /\ pf[p].pc = "idle"
      /\ UNCHANGED <<now, positive, negative, inflight, queue, pending, worker, call, synced>>
  BY DEF PrefetchCall
<1>2. r \in Prefetching /\ r.todo # <<>> /\ r.now = now /\ r.pc = "reserve" /\ now \in Nat
      /\ pf \in [Prefetchers -> Prefetching]
  BY Constants DEF Prefetching, PoolInv, PoolType
<1> HIDE DEF r
<1>3. pf' \in [Prefetchers -> Prefetching] /\ pf'[p] = r
      /\ \A q \in Prefetchers : q # p => pf'[q] = pf[q]
  BY <1>1, <1>2
<1>4. PoolType'
  BY <1>1, <1>2, <1>3 DEF PoolInv, PoolType
<1>5. \A h \in Hosts : Sending(h)' = Sending(h) /\ Queued(h)' = Queued(h)
                       /\ Working(h)' = Working(h)
  <2> TAKE h \in Hosts
  <2>1. Sending(h)' = Sending(h)
    BY <1>1, <1>2, <1>3 DEF Sending, Sends
  <2> QED BY <1>1, <2>1 DEF Queued, Working
<1>6. Reserved' /\ Sole' /\ OneVerdict'
  BY <1>1, <1>2, <1>5, SameHands DEF PoolInv
<1>7. CallersMarked' /\ ClocksBehind'
  BY <1>1, <1>2, <1>3 DEF PoolInv, CallersMarked, ClocksBehind
<1>8. Sends' = Sends /\ Busy' = Busy
  <2>1. Sends' = Sends
    BY <1>1, <1>2, <1>3 DEF Sending, Sends
  <2> QED BY <1>1, <2>1 DEF Busy
<1>9. PendingExact'
  BY <1>1, <1>8 DEF PoolInv, PendingExact
<1> QED BY <1>4, <1>6, <1>7, <1>9 DEF PoolInv

\* Reserving puts a host that nothing in the pool has in one hand.
LEMMA PrefetchReservePool ==
  ASSUME PoolInv, NEW p \in Prefetchers, PrefetchReserve(p)
  PROVE  PoolInv'
<1>1. /\ pf[p].pc = "reserve"
      /\ UNCHANGED <<now, positive, negative, queue, pending, worker, call, synced>>
  BY DEF PrefetchReserve
<1>2. /\ pf \in [Prefetchers -> Prefetching] /\ pf[p] \in Prefetching /\ now \in Nat
      /\ pf[p].todo \in Seq(Hosts) /\ pf[p].todo # <<>> /\ pf[p].now \in Nat
      /\ inflight \subseteq Hosts /\ positive \in [Hosts -> Nat]
  BY <1>1 DEF PoolInv, PoolType, Prefetching
<1>3. PICK h \in Hosts : h = Head(pf[p].todo)
  BY <1>2
<1>4. CASE skipLocked(h, pf[p].now)
  <2>1. pf' = Advanced(p) /\ inflight' = inflight
    BY <1>3, <1>4 DEF PrefetchReserve
  <2>2. /\ pf' \in [Prefetchers -> Prefetching] /\ pf'[p].pc \in {"idle", "reserve"}
        /\ pf'[p].pc # "idle" => pf'[p].todo # <<>>
        /\ pf'[p].now \in {0, pf[p].now}
        /\ \A q \in Prefetchers : q # p => pf'[q] = pf[q]
    BY <1>1, <2>1, AdvancedPf DEF PoolInv
  <2>3. PoolType'
    BY <1>1, <2>1, <2>2 DEF PoolInv, PoolType
  <2>4. \A g \in Hosts : Sending(g)' = Sending(g) /\ Queued(g)' = Queued(g)
                         /\ Working(g)' = Working(g)
    <3> TAKE g \in Hosts
    <3>1. Sending(g)' = Sending(g)
      BY <1>1, <2>2 DEF Sending, Sends
    <3> QED BY <1>1, <3>1 DEF Queued, Working
  <2>5. Reserved' /\ Sole' /\ OneVerdict'
    BY <1>1, <1>2, <2>1, <2>4, SameHands DEF PoolInv
  <2>6. CallersMarked' /\ ClocksBehind'
    BY <1>1, <1>2, <2>2 DEF PoolInv, CallersMarked, ClocksBehind
  <2>7. Sends' = Sends /\ Busy' = Busy
    <3>1. Sends' = Sends
      BY <1>1, <2>2 DEF Sending, Sends
    <3> QED BY <1>1, <3>1 DEF Busy
  <2>8. PendingExact'
    BY <1>1, <2>7 DEF PoolInv, PendingExact
  <2> QED BY <2>3, <2>5, <2>6, <2>8 DEF PoolInv
<1>5. CASE ~skipLocked(h, pf[p].now)
  <2>1. pf' = [pf EXCEPT ![p].pc = "add"] /\ inflight' = inflight \cup {h}
    BY <1>3, <1>5 DEF PrefetchReserve
  <2>2. /\ pf' \in [Prefetchers -> Prefetching] /\ pf'[p].pc = "add"
        /\ pf'[p].todo = pf[p].todo /\ pf'[p].now = pf[p].now
        /\ \A q \in Prefetchers : q # p => pf'[q] = pf[q]
    BY <1>2, <2>1 DEF Prefetching
  <2>3. PoolType'
    BY <1>1, <1>2, <1>3, <2>1, <2>2 DEF PoolInv, PoolType
  <2>4. \A g \in Hosts : /\ Queued(g)' = Queued(g) /\ Working(g)' = Working(g)
                         /\ g # h => Sending(g)' = Sending(g)
    <3> TAKE g \in Hosts
    <3>1. g # h => Sending(g)' = Sending(g)
      BY <1>1, <1>3, <2>2 DEF Sending
    <3> QED BY <1>1, <3>1 DEF Queued, Working
  <2>5. Sending(h)' = Sending(h) \cup {p}
    BY <1>1, <1>3, <2>2 DEF Sending
  <2>6. h \notin inflight /\ positive[h] <= now
    <3>1. h \notin inflight /\ ~(pf[p].now < positive[h])
      BY <1>5 DEF skipLocked, Fresh
    <3> QED BY <1>2, <1>3, <3>1 DEF PoolInv, ClocksBehind
  <2>7. Reserved'
    BY <1>2, <2>1, <2>4, <2>5 DEF PoolInv, Reserved, InHand
  <2>8. Sole'
    <3> SUFFICES ASSUME NEW g \in Hosts \ synced
                 PROVE  Alone(g)' /\ (InHand(g)' => g \in inflight' /\ positive'[g] <= now')
      BY <1>1 DEF Sole
    <3>1. Alone(g) /\ (InHand(g) => g \in inflight /\ positive[g] <= now)
      BY DEF PoolInv, Sole
    <3>2. CASE g # h
      BY <1>1, <2>1, <2>4, <3>1, <3>2 DEF Alone, InHand
    <3>3. CASE g = h
      <4>1. Sending(h) = {} /\ Queued(h) = {} /\ Working(h) = {}
        BY <2>6, <3>1, <3>3 DEF InHand
      <4>2. Sending(h)' = {p} /\ Queued(h)' = {} /\ Working(h)' = {}
        BY <1>3, <2>4, <2>5, <4>1
      <4> QED BY <1>1, <2>1, <2>6, <3>3, <4>2 DEF Alone
    <3> QED BY <3>2, <3>3
  <2>9. CallersMarked' /\ ClocksBehind' /\ OneVerdict'
    <3>1. CallersMarked' /\ ClocksBehind'
      BY <1>1, <2>2 DEF PoolInv, CallersMarked, ClocksBehind
    <3> QED BY <1>1, <3>1 DEF PoolInv, OneVerdict, Fresh, Suppressed
  <2>10. Sends' = Sends /\ Busy' = Busy
    <3>1. Sends' = Sends
      BY <1>1, <2>2 DEF Sending, Sends
    <3> QED BY <1>1, <3>1 DEF Busy
  <2>11. PendingExact'
    BY <1>1, <2>10 DEF PoolInv, PendingExact
  <2> QED BY <2>3, <2>7, <2>8, <2>9, <2>11 DEF PoolInv
<1> QED BY <1>4, <1>5

LEMMA PrefetchAddPool ==
  ASSUME PoolInv, NEW p \in Prefetchers, PrefetchAdd(p)
  PROVE  PoolInv'
<1>1. /\ pf[p].pc = "add" /\ pf' = [pf EXCEPT ![p].pc = "send"] /\ pending' = pending + 1
      /\ UNCHANGED <<now, positive, negative, inflight, queue, worker, call, synced>>
  BY DEF PrefetchAdd
<1>2. pf \in [Prefetchers -> Prefetching] /\ now \in Nat
  BY DEF PoolInv, PoolType
<1>3. /\ pf' \in [Prefetchers -> Prefetching] /\ pf'[p].pc = "send"
      /\ pf'[p].todo = pf[p].todo /\ pf'[p].now = pf[p].now
      /\ \A q \in Prefetchers : q # p => pf'[q] = pf[q]
  BY <1>1, <1>2 DEF Prefetching
<1>4. PoolType'
  BY <1>1, <1>3 DEF PoolInv, PoolType
<1>5. \A g \in Hosts : Sending(g)' = Sending(g) /\ Queued(g)' = Queued(g)
                       /\ Working(g)' = Working(g)
  <2> TAKE g \in Hosts
  <2>1. Sending(g)' = Sending(g)
    BY <1>1, <1>3 DEF Sending, Sends
  <2> QED BY <1>1, <2>1 DEF Queued, Working
<1>6. Reserved' /\ Sole' /\ OneVerdict'
  BY <1>1, <1>2, <1>5, SameHands DEF PoolInv
<1>7. CallersMarked' /\ ClocksBehind'
  BY <1>1, <1>3 DEF PoolInv, CallersMarked, ClocksBehind
<1>8. Sends' = Sends \cup {p} /\ p \notin Sends /\ Busy' = Busy
  <2>1. Sends' = Sends \cup {p} /\ p \notin Sends
    BY <1>1, <1>3 DEF Sending, Sends
  <2> QED BY <1>1, <2>1 DEF Busy
<1>9. PendingExact'
  <2>1. Cardinality(Sends') = Cardinality(Sends) + 1 /\ Cardinality(Sends) \in Nat
    BY <1>8, HandsFinite, OneMore
  <2>2. Cardinality(Busy) \in Nat /\ Len(queue) \in Nat
    BY HandsFinite, FS_CardinalityType DEF PoolInv, PoolType
  <2> QED BY <1>1, <1>8, <2>1, <2>2 DEF PoolInv, PendingExact
<1> QED BY <1>4, <1>6, <1>7, <1>9 DEF PoolInv

\* The send hands the host to the queue, or, the queue full, keeps it in hand.
LEMMA PrefetchSendPool ==
  ASSUME PoolInv, NEW p \in Prefetchers, PrefetchSend(p)
  PROVE  PoolInv'
<1>1. /\ pf[p].pc = "send"
      /\ UNCHANGED <<now, positive, negative, inflight, worker, call, synced>>
  BY DEF PrefetchSend
<1>2. /\ pf \in [Prefetchers -> Prefetching] /\ pf[p] \in Prefetching /\ now \in Nat
      /\ pf[p].todo \in Seq(Hosts) /\ pf[p].todo # <<>> /\ pf[p].now \in Nat
      /\ queue \in Seq(Hosts) /\ Len(queue) \in Nat /\ DOMAIN queue = 1..Len(queue)
      /\ inflight \subseteq Hosts
  BY <1>1 DEF PoolInv, PoolType, Prefetching
<1>3. PICK h \in Hosts : h = Head(pf[p].todo)
  BY <1>2
<1>4. p \in Sends /\ Cardinality(Sends \ {p}) = Cardinality(Sends) - 1
      /\ Cardinality(Sends) \in Nat /\ Cardinality(Busy) \in Nat /\ Busy' = Busy
  <2>1. p \in Sends
    BY <1>1 DEF Sends
  <2>2. Busy' = Busy
    BY <1>1 DEF Busy
  <2> QED BY <2>1, <2>2, HandsFinite, OneLess, FS_CardinalityType
<1>5. CASE Len(queue) < QueueCap
  <2>1. pf' = Advanced(p) /\ queue' = Append(queue, h) /\ pending' = pending
    BY <1>3, <1>5 DEF PrefetchSend
  <2>2. /\ pf' \in [Prefetchers -> Prefetching] /\ pf'[p].pc \in {"idle", "reserve"}
        /\ pf'[p].pc # "idle" => pf'[p].todo # <<>>
        /\ pf'[p].now \in {0, pf[p].now}
        /\ \A q \in Prefetchers : q # p => pf'[q] = pf[q]
    BY <1>1, <2>1, AdvancedPf DEF PoolInv
  <2> DEFINE n == Len(queue) + 1
  <2>3. /\ queue' \in Seq(Hosts) /\ Len(queue') = n /\ DOMAIN queue' = 1..n
        /\ \A k \in 1..Len(queue) : queue'[k] = queue[k]
        /\ queue'[n] = h
    BY <1>2, <2>1
  <2>4. PoolType'
    BY <1>1, <2>2, <2>3 DEF PoolInv, PoolType
  <2>5. 1..n = (1..Len(queue)) \cup {n} /\ n \notin 1..Len(queue)
    BY <1>2
  <2>6. PICK m : m = n
    OBVIOUS
  <2>7. /\ \A g \in Hosts : g # h => Sending(g)' = Sending(g) /\ Queued(g)' = Queued(g)
        /\ \A g \in Hosts : Working(g)' = Working(g)
    <3>1. \A g \in Hosts : g # h => Sending(g)' = Sending(g)
      BY <1>1, <1>3, <2>2 DEF Sending
    <3>2. \A g \in Hosts : g # h => Queued(g)' = Queued(g)
      <4> HIDE DEF n
      <4> QED BY <1>2, <2>3, <2>5 DEF Queued
    <3> QED BY <1>1, <3>1, <3>2 DEF Working
  <2>8. /\ Sending(h)' = Sending(h) \ {p} /\ p \in Sending(h)
        /\ Queued(h)' = Queued(h) \cup {m}
    <3>1. Sending(h)' = Sending(h) \ {p} /\ p \in Sending(h)
      BY <1>1, <1>3, <2>2 DEF Sending
    <3>2. Queued(h)' = Queued(h) \cup {m}
      <4> HIDE DEF n
      <4> QED BY <1>2, <2>3, <2>5, <2>6 DEF Queued
    <3> QED BY <3>1, <3>2
  <2>9. Reserved'
    <3> SUFFICES ASSUME NEW g \in inflight PROVE InHand(g)'
      BY <1>1 DEF Reserved
    <3>1. InHand(g) /\ g \in Hosts
      BY <1>2 DEF PoolInv, Reserved
    <3>2. CASE g = h
      BY <2>8, <3>2 DEF InHand
    <3>3. CASE g # h
      BY <2>7, <3>1, <3>3 DEF InHand
    <3> QED BY <3>2, <3>3
  <2>10. Sole'
    <3> SUFFICES ASSUME NEW g \in Hosts \ synced
                 PROVE  Alone(g)' /\ (InHand(g)' => g \in inflight' /\ positive'[g] <= now')
      BY <1>1 DEF Sole
    <3>1. Alone(g) /\ (InHand(g) => g \in inflight /\ positive[g] <= now)
      BY DEF PoolInv, Sole
    <3>2. CASE g # h
      BY <1>1, <2>7, <3>1, <3>2 DEF Alone, InHand
    <3>3. CASE g = h
      <4>1. Sending(h) = {p} /\ Queued(h) = {} /\ Working(h) = {}
        BY <2>8, <3>1, <3>3 DEF Alone
      <4>2. Sending(h)' = {} /\ Queued(h)' = {m} /\ Working(h)' = {}
        BY <1>3, <2>7, <2>8, <4>1
      <4> QED BY <1>1, <2>8, <3>1, <3>3, <4>2 DEF Alone, InHand
    <3> QED BY <3>2, <3>3
  <2>11. CallersMarked' /\ ClocksBehind' /\ OneVerdict'
    <3>1. CallersMarked' /\ ClocksBehind'
      BY <1>1, <1>2, <2>2 DEF PoolInv, CallersMarked, ClocksBehind
    <3> QED BY <1>1, <3>1 DEF PoolInv, OneVerdict, Fresh, Suppressed
  <2>12. Sends' = Sends \ {p}
    BY <1>1, <2>2 DEF Sends
  <2>13. PendingExact'
    BY <1>2, <1>4, <2>1, <2>3, <2>12 DEF PoolInv, PendingExact
  <2> QED BY <2>4, <2>9, <2>10, <2>11, <2>13 DEF PoolInv
<1>6. CASE ~(Len(queue) < QueueCap)
  <2>1. pf' = [pf EXCEPT ![p].pc = "release"] /\ queue' = queue /\ pending' = pending - 1
    BY <1>6 DEF PrefetchSend
  <2>2. /\ pf' \in [Prefetchers -> Prefetching] /\ pf'[p].pc = "release"
        /\ pf'[p].todo = pf[p].todo /\ pf'[p].now = pf[p].now
        /\ \A q \in Prefetchers : q # p => pf'[q] = pf[q]
    BY <1>2, <2>1 DEF Prefetching
  <2>3. PoolType'
    BY <1>1, <2>1, <2>2 DEF PoolInv, PoolType
  <2>4. \A g \in Hosts : Sending(g)' = Sending(g) /\ Queued(g)' = Queued(g)
                         /\ Working(g)' = Working(g)
    <3> TAKE g \in Hosts
    <3>1. Sending(g)' = Sending(g)
      BY <1>1, <2>2 DEF Sending
    <3> QED BY <1>1, <2>1, <3>1 DEF Queued, Working
  <2>5. Reserved' /\ Sole' /\ OneVerdict'
    BY <1>1, <1>2, <2>4, SameHands DEF PoolInv
  <2>6. CallersMarked' /\ ClocksBehind'
    BY <1>1, <2>2 DEF PoolInv, CallersMarked, ClocksBehind
  <2>7. Sends' = Sends \ {p}
    BY <1>1, <2>2 DEF Sends
  <2>8. PendingExact'
    BY <1>2, <1>4, <2>1, <2>7 DEF PoolInv, PendingExact
  <2> QED BY <2>3, <2>5, <2>6, <2>8 DEF PoolInv
<1> QED BY <1>5, <1>6

\* Releasing takes the host out of hand and the reservation with it.
LEMMA PrefetchReleasePool ==
  ASSUME PoolInv, NEW p \in Prefetchers, PrefetchRelease(p)
  PROVE  PoolInv'
<1>1. /\ pf[p].pc = "release" /\ pf' = Advanced(p)
      /\ UNCHANGED <<now, positive, negative, queue, pending, worker, call, synced>>
  BY DEF PrefetchRelease
<1>2. /\ pf \in [Prefetchers -> Prefetching] /\ pf[p] \in Prefetching /\ now \in Nat
      /\ pf[p].todo \in Seq(Hosts) /\ pf[p].todo # <<>> /\ pf[p].now \in Nat
      /\ inflight \subseteq Hosts
  BY <1>1 DEF PoolInv, PoolType, Prefetching
<1>3. PICK h \in Hosts : h = Head(pf[p].todo)
  BY <1>2
<1>4. inflight' = inflight \ {h}
  BY <1>3 DEF PrefetchRelease
<1>5. /\ pf' \in [Prefetchers -> Prefetching] /\ pf'[p].pc \in {"idle", "reserve"}
      /\ pf'[p].pc # "idle" => pf'[p].todo # <<>>
      /\ pf'[p].now \in {0, pf[p].now}
      /\ \A q \in Prefetchers : q # p => pf'[q] = pf[q]
  BY <1>1, AdvancedPf DEF PoolInv
<1>6. PoolType'
  BY <1>1, <1>2, <1>4, <1>5 DEF PoolInv, PoolType
<1>7. \A g \in Hosts : /\ Queued(g)' = Queued(g) /\ Working(g)' = Working(g)
                       /\ g # h => Sending(g)' = Sending(g)
  <2>1. \A g \in Hosts : g # h => Sending(g)' = Sending(g)
    BY <1>1, <1>3, <1>5 DEF Sending
  <2> QED BY <1>1, <2>1 DEF Queued, Working
<1>8. Sending(h)' = Sending(h) \ {p} /\ p \in Sending(h)
  BY <1>1, <1>3, <1>5 DEF Sending
<1>9. Reserved'
  BY <1>2, <1>4, <1>7 DEF PoolInv, Reserved, InHand
<1>10. Sole'
  <2> SUFFICES ASSUME NEW g \in Hosts \ synced
               PROVE  Alone(g)' /\ (InHand(g)' => g \in inflight' /\ positive'[g] <= now')
    BY <1>1 DEF Sole
  <2>1. Alone(g) /\ (InHand(g) => g \in inflight /\ positive[g] <= now)
    BY DEF PoolInv, Sole
  <2>2. CASE g # h
    BY <1>1, <1>4, <1>7, <2>1, <2>2 DEF Alone, InHand
  <2>3. CASE g = h
    <3>1. Sending(h) = {p} /\ Queued(h) = {} /\ Working(h) = {}
      BY <1>8, <2>1, <2>3 DEF Alone
    <3>2. Sending(h)' = {} /\ Queued(h)' = {} /\ Working(h)' = {}
      BY <1>3, <1>7, <1>8, <3>1
    <3> QED BY <2>3, <3>2 DEF Alone, InHand
  <2> QED BY <2>2, <2>3
<1>11. CallersMarked' /\ ClocksBehind' /\ OneVerdict'
  <2>1. CallersMarked' /\ ClocksBehind'
    BY <1>1, <1>2, <1>5 DEF PoolInv, CallersMarked, ClocksBehind
  <2> QED BY <1>1, <2>1 DEF PoolInv, OneVerdict, Fresh, Suppressed
<1>12. Sends' = Sends /\ Busy' = Busy
  <2>1. Sends' = Sends
    BY <1>1, <1>5 DEF Sends
  <2> QED BY <1>1, <2>1 DEF Busy
<1>13. PendingExact'
  BY <1>1, <1>12 DEF PoolInv, PendingExact
<1> QED BY <1>6, <1>9, <1>10, <1>11, <1>13 DEF PoolInv

\* A worker takes the queue's head: the other slots move up by one.
LEMMA WorkerTakePool ==
  ASSUME PoolInv, NEW w \in Workers, WorkerTake(w)
  PROVE  PoolInv'
<1>1. /\ worker[w].pc = "idle" /\ queue # <<>> /\ queue' = Tail(queue)
      /\ UNCHANGED <<now, positive, negative, inflight, pending, pf, call, synced>>
  BY DEF WorkerTake
<1>2. /\ queue \in Seq(Hosts) /\ worker \in [Workers -> Jobs] /\ now \in Nat
      /\ inflight \subseteq Hosts
  BY DEF PoolInv, PoolType
<1>3. PICK h \in Hosts : h = Head(queue)
  BY <1>1, <1>2
<1>4. PICK n \in Nat : n = Len(queue)
  BY <1>2
<1>5. /\ n >= 1 /\ DOMAIN queue = 1..n /\ queue[1] = h
      /\ queue' \in Seq(Hosts) /\ Len(queue') = n - 1 /\ DOMAIN queue' = 1..(n - 1)
      /\ \A k \in 1..(n - 1) : queue'[k] = queue[k + 1]
  BY <1>1, <1>2, <1>3, <1>4
<1> DEFINE r == [Free EXCEPT !.pc = "resolving", !.host = h]
<1>6. r \in Jobs /\ r.pc = "resolving" /\ r.host = h /\ worker' = [worker EXCEPT ![w] = r]
  BY <1>3, Constants DEF WorkerTake, Jobs
<1> HIDE DEF r
<1>7. worker' \in [Workers -> Jobs] /\ worker'[w] = r
      /\ \A v \in Workers : v # w => worker'[v] = worker[v]
  BY <1>2, <1>6
<1>8. PoolType'
  BY <1>1, <1>5, <1>7 DEF PoolInv, PoolType
<1>9. \A g \in Hosts : Sending(g)' = Sending(g) /\ (g # h => Working(g)' = Working(g))
  BY <1>1, <1>6, <1>7 DEF Sending, Working
<1>10. Working(h)' = Working(h) \cup {w}
  BY <1>6, <1>7 DEF Working
<1>11. 1 \in Queued(h) /\ \A g \in Hosts : g # h => 1 \notin Queued(g)
  BY <1>5 DEF Queued
<1>12. \A g \in Hosts : /\ \A k \in Queued(g)' : k \in Nat /\ k + 1 \in Queued(g)
                        /\ \A k \in Queued(g) : k = 1 \/ (k \in Nat /\ k - 1 \in Queued(g)')
  <2> TAKE g \in Hosts
  <2>1. ASSUME NEW k \in Queued(g)' PROVE k \in Nat /\ k + 1 \in Queued(g)
    <3>1. k \in 1..(n - 1) /\ queue'[k] = g
      BY <1>5 DEF Queued
    <3>2. k \in Nat /\ k + 1 \in 1..n /\ queue[k + 1] = g
      BY <1>5, <3>1
    <3> QED BY <1>5, <3>2 DEF Queued
  <2>2. ASSUME NEW k \in Queued(g), k # 1 PROVE k \in Nat /\ k - 1 \in Queued(g)'
    <3>1. k \in 1..n /\ queue[k] = g
      BY <1>5 DEF Queued
    <3>2. k \in Nat /\ k - 1 \in 1..(n - 1) /\ (k - 1) + 1 = k
      BY <2>2, <3>1
    <3>3. queue'[k - 1] = g
      BY <1>5, <3>1, <3>2
    <3> QED BY <1>5, <3>2, <3>3 DEF Queued
  <2> QED BY <2>1, <2>2
<1>13. Reserved'
  <2> SUFFICES ASSUME NEW g \in inflight PROVE InHand(g)'
    BY <1>1 DEF Reserved
  <2>1. InHand(g) /\ g \in Hosts
    BY <1>2 DEF PoolInv, Reserved
  <2>2. CASE g = h
    BY <1>10, <2>2 DEF InHand
  <2>3. CASE g # h
    <3>1. Queued(g) # {} => Queued(g)' # {}
      BY <1>11, <1>12, <2>1, <2>3
    <3> QED BY <1>9, <2>1, <2>3, <3>1 DEF InHand
  <2> QED BY <2>2, <2>3
<1>14. Sole'
  <2> SUFFICES ASSUME NEW g \in Hosts \ synced
               PROVE  Alone(g)' /\ (InHand(g)' => g \in inflight' /\ positive'[g] <= now')
    BY <1>1 DEF Sole
  <2>1. Alone(g) /\ (InHand(g) => g \in inflight /\ positive[g] <= now)
    BY DEF PoolInv, Sole
  <2>2. CASE g # h
    <3>1. Queued(g) = {} => Queued(g)' = {}
      BY <1>12
    <3>2. Queued(g)' # {} => Queued(g) # {}
      BY <3>1
    <3>3. ASSUME NEW i \in Queued(g)', NEW j \in Queued(g)' PROVE i = j
      <4>1. i \in Nat /\ j \in Nat /\ i + 1 \in Queued(g) /\ j + 1 \in Queued(g)
        BY <1>12
      <4>2. i + 1 = j + 1
        BY <2>1, <4>1 DEF Alone
      <4> QED BY <4>1, <4>2
    <3> QED BY <1>1, <1>9, <2>1, <2>2, <3>1, <3>2, <3>3 DEF Alone, InHand
  <2>3. CASE g = h
    <3>1. Sending(h) = {} /\ Queued(h) = {1} /\ Working(h) = {}
      BY <1>11, <2>1, <2>3 DEF Alone
    <3>2. Queued(h)' = {}
      <4> SUFFICES ASSUME NEW k \in Queued(h)' PROVE FALSE
        OBVIOUS
      <4>1. k \in 1..(n - 1) /\ k + 1 \in Queued(h)
        BY <1>5, <1>12 DEF Queued
      <4> QED BY <1>5, <3>1, <4>1
    <3>3. Sending(h)' = {} /\ Working(h)' = {w}
      BY <1>9, <1>10, <3>1
    <3> QED BY <1>1, <2>1, <2>3, <3>1, <3>2, <3>3 DEF Alone, InHand
  <2> QED BY <2>2, <2>3
<1>15. CallersMarked' /\ ClocksBehind' /\ OneVerdict'
  BY <1>1 DEF PoolInv, CallersMarked, ClocksBehind, OneVerdict, Fresh, Suppressed
<1>16. Sends' = Sends /\ Busy' = Busy \cup {w} /\ w \notin Busy
  BY <1>1, <1>6, <1>7 DEF Sends, Busy
<1>17. PendingExact'
  <2>1. Cardinality(Busy') = Cardinality(Busy) + 1 /\ Cardinality(Busy) \in Nat
    BY <1>16, HandsFinite, OneMore
  <2>2. Cardinality(Sends) \in Nat
    BY HandsFinite, FS_CardinalityType
  <2> QED BY <1>1, <1>4, <1>5, <1>16, <2>1, <2>2 DEF PoolInv, PendingExact
<1> QED BY <1>8, <1>13, <1>14, <1>15, <1>17 DEF PoolInv

\* Exiting, and an answer, change no hand.
LEMMA WorkerQuietPool ==
  ASSUME PoolInv, NEW w \in Workers, NEW r \in Jobs, worker' = [worker EXCEPT ![w] = r],
         UNCHANGED <<now, positive, negative, inflight, queue, pending, pf, call, synced>>,
         r.pc \in {"resolving", "store"} <=> worker[w].pc \in {"resolving", "store"},
         r.pc \in {"resolving", "store"} => r.host = worker[w].host,
         r.pc # "done", worker[w].pc # "done"
  PROVE  PoolInv'
<1>1. worker \in [Workers -> Jobs] /\ now \in Nat
  BY DEF PoolInv, PoolType
<1>2. worker' \in [Workers -> Jobs] /\ worker'[w] = r
      /\ \A v \in Workers : v # w => worker'[v] = worker[v]
  BY <1>1
<1>3. PoolType'
  BY <1>2 DEF PoolInv, PoolType
<1>4. \A g \in Hosts : Sending(g)' = Sending(g) /\ Queued(g)' = Queued(g)
                       /\ Working(g)' = Working(g)
  BY <1>2 DEF Sending, Queued, Working
<1>5. Reserved' /\ Sole' /\ OneVerdict'
  BY <1>1, <1>4, SameHands DEF PoolInv
<1>6. Sends' = Sends /\ Busy' = Busy
  BY <1>2 DEF Sends, Busy
<1>7. CallersMarked' /\ ClocksBehind' /\ PendingExact'
  BY <1>6 DEF PoolInv, CallersMarked, ClocksBehind, PendingExact
<1> QED BY <1>3, <1>5, <1>7 DEF PoolInv

LEMMA WorkerExitPool ==
  ASSUME PoolInv, NEW w \in Workers, WorkerExit(w)
  PROVE  PoolInv'
<1> DEFINE r == [worker[w] EXCEPT !.pc = "exited"]
<1>1. worker[w] \in Jobs /\ worker[w].pc = "idle" /\ worker \in [Workers -> Jobs]
  BY DEF PoolInv, PoolType, WorkerExit
<1>2. r \in Jobs /\ r.pc = "exited"
  BY <1>1 DEF Jobs
<1>3. worker' = [worker EXCEPT ![w] = r]
      /\ UNCHANGED <<now, positive, negative, inflight, queue, pending, pf, call, synced>>
  BY <1>1 DEF WorkerExit
<1> HIDE DEF r
<1> QED BY <1>1, <1>2, <1>3, WorkerQuietPool

LEMMA WorkerAnswerPool ==
  ASSUME PoolInv, NEW w \in Workers, NEW ttl \in TTLs \cup {Failed}, WorkerAnswer(w, ttl)
  PROVE  PoolInv'
<1> DEFINE r == Answered(worker[w], ttl)
<1>1. worker[w] \in Jobs /\ worker[w].pc = "resolving" /\ worker \in [Workers -> Jobs]
      /\ now \in Nat
  BY DEF PoolInv, PoolType, WorkerAnswer
<1>2. r \in Jobs /\ r.pc = "store" /\ r.host = worker[w].host
  BY <1>1 DEF Jobs, Answered
<1>3. worker' = [worker EXCEPT ![w] = r]
      /\ UNCHANGED <<now, positive, negative, inflight, queue, pending, pf, call, synced>>
  BY <1>1 DEF WorkerAnswer
<1> HIDE DEF r
<1> QED BY <1>1, <1>2, <1>3, WorkerQuietPool

LEMMA WorkerDonePool ==
  ASSUME PoolInv, NEW w \in Workers, WorkerDone(w)
  PROVE  PoolInv'
<1>1. /\ worker[w].pc = "done" /\ worker' = [worker EXCEPT ![w] = Free]
      /\ pending' = pending - 1 /\ worker \in [Workers -> Jobs] /\ now \in Nat
      /\ UNCHANGED <<now, positive, negative, inflight, queue, pf, call, synced>>
  BY DEF WorkerDone, PoolInv, PoolType
<1>2. worker' \in [Workers -> Jobs] /\ worker'[w].pc = "idle"
      /\ \A v \in Workers : v # w => worker'[v] = worker[v]
  BY <1>1, Constants
<1>3. PoolType'
  BY <1>1, <1>2 DEF PoolInv, PoolType
<1>4. \A g \in Hosts : Sending(g)' = Sending(g) /\ Queued(g)' = Queued(g)
                       /\ Working(g)' = Working(g)
  BY <1>1, <1>2 DEF Sending, Queued, Working
<1>5. Reserved' /\ Sole' /\ OneVerdict'
  BY <1>1, <1>4, SameHands DEF PoolInv
<1>6. Sends' = Sends /\ Busy' = Busy \ {w} /\ w \in Busy
  BY <1>1, <1>2 DEF Sends, Busy
<1>7. PendingExact'
  <2>1. Cardinality(Busy') = Cardinality(Busy) - 1 /\ Cardinality(Busy) \in Nat
    BY <1>6, HandsFinite, OneLess
  <2>2. Cardinality(Sends) \in Nat /\ Len(queue) \in Nat
    BY HandsFinite, FS_CardinalityType DEF PoolInv, PoolType
  <2> QED BY <1>1, <1>6, <2>1, <2>2 DEF PoolInv, PendingExact
<1>8. CallersMarked' /\ ClocksBehind'
  BY <1>1 DEF PoolInv, CallersMarked, ClocksBehind
<1> QED BY <1>3, <1>5, <1>7, <1>8 DEF PoolInv

\* The critical section keeps both tables typed and decides between them.
LEMMA StoreTables ==
  ASSUME PoolType, NEW rec \in Jobs, resolveAndStore(rec)
  PROVE  /\ positive' \in [Hosts -> Nat]
         /\ negative' \in [Hosts -> [until : Nat, failures : Nat]]
         /\ \A g \in Hosts : g # rec.host =>
              positive'[g] = positive[g] /\ negative'[g] = negative[g]
         /\ positive'[rec.host] = positive[rec.host] \/ negative'[rec.host].until = 0
         /\ inflight' = inflight \ {rec.host}
<1>1. /\ positive \in [Hosts -> Nat] /\ negative \in [Hosts -> [until : Nat, failures : Nat]]
      /\ rec.host \in Hosts /\ rec.now \in Nat /\ NegativeTTL \in Nat
  BY Constants DEF PoolType, Jobs
<1>2. CASE rec.ttl = Failed
  <2>1. negative[rec.host].failures + 1 \in Nat /\ rec.now + NegativeTTL \in Nat
    BY <1>1
  <2> QED BY <1>1, <1>2, <2>1 DEF resolveAndStore
<1>3. CASE rec.ttl # Failed
  <2>1. rec.now + clamp(rec.ttl) \in Nat
    <3>1. rec.ttl \in TTLs \cup {0, Failed}
      BY DEF Jobs
    <3>2. rec.ttl \in Nat
      <4>1. \A x \in TTLs : x \in Nat
        BY ResolverAssumption
      <4> QED BY <1>3, <3>1, <4>1
    <3>3. clamp(rec.ttl) \in Nat
      BY <3>2, Constants
    <3> QED BY <1>1, <3>3
  <2> QED BY <1>1, <1>3, <2>1 DEF resolveAndStore
<1> QED BY <1>2, <1>3

\* A store leaves no host both answerable and suppressed, if the one it is for
\* had no live address, or is a synchronous caller's.
LEMMA StoreVerdict ==
  ASSUME PoolInv, NEW rec \in Jobs, resolveAndStore(rec), UNCHANGED <<now, synced>>,
         rec.host \in synced \/ positive[rec.host] <= now
  PROVE  OneVerdict'
<1>1. /\ \A g \in Hosts : g # rec.host =>
           positive'[g] = positive[g] /\ negative'[g] = negative[g]
      /\ positive'[rec.host] = positive[rec.host] \/ negative'[rec.host].until = 0
  BY StoreTables DEF PoolInv
<1>2. now \in Nat /\ rec.host \in Hosts /\ positive \in [Hosts -> Nat]
  BY DEF PoolInv, PoolType, Jobs
<1> SUFFICES ASSUME NEW g \in Hosts \ synced
             PROVE  ~(now < positive'[g] /\ now < negative'[g].until)
  BY DEF OneVerdict, Fresh, Suppressed
<1>3. CASE g # rec.host
  <2>1. ~(now < positive[g] /\ now < negative[g].until)
    BY DEF PoolInv, OneVerdict, Fresh, Suppressed
  <2> QED BY <1>1, <1>3, <2>1
<1>4. CASE g = rec.host
  <2>1. positive[g] <= now /\ positive[g] \in Nat
    BY <1>2, <1>4
  <2> QED BY <1>1, <1>2, <1>4, <2>1
<1> QED BY <1>3, <1>4

\* A worker's store takes the host out of its hand and the reservation with it.
LEMMA WorkerStorePool ==
  ASSUME PoolInv, NEW w \in Workers, WorkerStore(w)
  PROVE  PoolInv'
<1>1. /\ worker[w].pc = "store" /\ worker' = [worker EXCEPT ![w].pc = "done"]
      /\ UNCHANGED <<now, queue, pending, pf, call, synced>>
  BY DEF WorkerStore
<1>2. PICK rec \in Jobs : rec = worker[w]
  BY DEF PoolInv, PoolType
<1>3. PICK h \in Hosts : h = rec.host
  BY DEF Jobs
<1>4. resolveAndStore(rec)
  BY <1>2 DEF WorkerStore
<1>5. /\ positive' \in [Hosts -> Nat]
      /\ negative' \in [Hosts -> [until : Nat, failures : Nat]]
      /\ \A g \in Hosts : g # h => positive'[g] = positive[g]
      /\ inflight' = inflight \ {h}
  BY <1>3, <1>4, StoreTables DEF PoolInv
<1>6. worker' \in [Workers -> Jobs] /\ worker'[w].pc = "done" /\ worker'[w].host = h
      /\ \A v \in Workers : v # w => worker'[v] = worker[v]
  BY <1>1, <1>2, <1>3 DEF PoolInv, PoolType, Jobs
<1>7. PoolType'
  BY <1>1, <1>5, <1>6 DEF PoolInv, PoolType
<1>8. \A g \in Hosts : /\ Sending(g)' = Sending(g) /\ Queued(g)' = Queued(g)
                       /\ g # h => Working(g)' = Working(g)
  BY <1>1, <1>2, <1>3, <1>6 DEF Sending, Queued, Working
<1>9. Working(h)' = Working(h) \ {w} /\ w \in Working(h)
  BY <1>1, <1>2, <1>3, <1>6 DEF Working
<1>10. Reserved'
  <2>1. inflight \subseteq Hosts
    BY DEF PoolInv, PoolType
  <2> QED BY <1>5, <1>8, <2>1 DEF PoolInv, Reserved, InHand
<1>11. Sole'
  <2> SUFFICES ASSUME NEW g \in Hosts \ synced
               PROVE  Alone(g)' /\ (InHand(g)' => g \in inflight' /\ positive'[g] <= now')
    BY <1>1 DEF Sole
  <2>1. Alone(g) /\ (InHand(g) => g \in inflight /\ positive[g] <= now)
    BY DEF PoolInv, Sole
  <2>2. CASE g # h
    BY <1>1, <1>5, <1>8, <2>1, <2>2 DEF Alone, InHand
  <2>3. CASE g = h
    <3>1. Sending(h) = {} /\ Queued(h) = {} /\ Working(h) = {w}
      BY <1>9, <2>1, <2>3 DEF Alone
    <3>2. Sending(h)' = {} /\ Queued(h)' = {} /\ Working(h)' = {}
      BY <1>8, <1>9, <3>1
    <3> QED BY <2>3, <3>2 DEF Alone, InHand
  <2> QED BY <2>2, <2>3
<1>12. OneVerdict'
  <2>1. h \in synced \/ positive[h] <= now
    BY <1>9 DEF PoolInv, Sole, InHand
  <2> QED BY <1>1, <1>3, <1>4, <2>1, StoreVerdict
<1>13. Sends' = Sends /\ Busy' = Busy
  BY <1>1, <1>6 DEF Sends, Busy
<1>14. CallersMarked' /\ ClocksBehind' /\ PendingExact'
  BY <1>1, <1>13 DEF PoolInv, CallersMarked, ClocksBehind, PendingExact
<1> QED BY <1>7, <1>10, <1>11, <1>12, <1>14 DEF PoolInv

\* The hands of the pool, when only a caller, the clock or a bystander moves.
LEMMA BystanderHands ==
  ASSUME UNCHANGED <<queue, pf, worker>>
  PROVE  /\ \A h \in Hosts : Sending(h)' = Sending(h) /\ Queued(h)' = Queued(h)
                             /\ Working(h)' = Working(h)
         /\ Sends' = Sends /\ Busy' = Busy
  BY DEF Sending, Queued, Working, Sends, Busy

LEMMA ResolveCallPool ==
  ASSUME PoolInv, NEW c \in Callers, NEW h \in Hosts, ResolveCall(c, h)
  PROVE  PoolInv'
<1>1. UNCHANGED <<now, positive, negative, inflight, queue, pending, pf, worker>>
  BY DEF ResolveCall
<1> DEFINE r == [Free EXCEPT !.pc = "resolving", !.host = h]
<1>2. r \in Jobs /\ r.host = h
  BY Constants DEF Jobs
<1>3. \/ UNCHANGED <<call, synced>>
      \/ call' = [call EXCEPT ![c] = r] /\ synced' = synced \cup {h}
  BY DEF ResolveCall
<1> HIDE DEF r
<1>4. synced \subseteq synced' /\ now \in Nat /\ call \in [Callers -> Jobs]
  BY <1>3 DEF PoolInv, PoolType
<1>5. CallersMarked' /\ call' \in [Callers -> Jobs]
  BY <1>2, <1>3, <1>4 DEF PoolInv, CallersMarked
<1>6. PoolType'
  BY <1>1, <1>5 DEF PoolInv, PoolType
<1>7. Reserved' /\ Sole' /\ OneVerdict'
  BY <1>1, <1>4, BystanderHands, SameHands DEF PoolInv
<1>8. ClocksBehind' /\ PendingExact'
  BY <1>1, BystanderHands DEF PoolInv, ClocksBehind, PendingExact
<1> QED BY <1>5, <1>6, <1>7, <1>8 DEF PoolInv

LEMMA ResolveAnswerPool ==
  ASSUME PoolInv, NEW c \in Callers, NEW ttl \in TTLs \cup {Failed}, ResolveAnswer(c, ttl)
  PROVE  PoolInv'
<1> DEFINE r == Answered(call[c], ttl)
<1>1. /\ call[c].pc = "resolving" /\ call' = [call EXCEPT ![c] = r] /\ now \in Nat
      /\ UNCHANGED <<now, positive, negative, inflight, queue, pending, pf, worker, synced>>
      /\ call[c] \in Jobs /\ call \in [Callers -> Jobs]
  BY DEF ResolveAnswer, PoolInv, PoolType
<1>2. r \in Jobs /\ r.host = call[c].host
  BY <1>1 DEF Jobs, Answered
<1> HIDE DEF r
<1>3. CallersMarked' /\ call' \in [Callers -> Jobs]
  BY <1>1, <1>2 DEF PoolInv, CallersMarked
<1>4. PoolType'
  BY <1>1, <1>3 DEF PoolInv, PoolType
<1>5. Reserved' /\ Sole' /\ OneVerdict'
  BY <1>1, BystanderHands, SameHands DEF PoolInv
<1>6. ClocksBehind' /\ PendingExact'
  BY <1>1, BystanderHands DEF PoolInv, ClocksBehind, PendingExact
<1> QED BY <1>3, <1>4, <1>5, <1>6 DEF PoolInv

\* A caller's store clears the reservation under the pool's hands, and only for
\* a host that is marked.
LEMMA ResolveStorePool ==
  ASSUME PoolInv, NEW c \in Callers, ResolveStore(c)
  PROVE  PoolInv'
<1>1. /\ call[c].pc = "store" /\ call' = [call EXCEPT ![c] = Free]
      /\ UNCHANGED <<now, queue, pending, pf, worker, synced>>
      /\ call \in [Callers -> Jobs] /\ inflight \subseteq Hosts
  BY DEF ResolveStore, PoolInv, PoolType
<1>2. PICK rec \in Jobs : rec = call[c]
  BY <1>1
<1>3. PICK h \in Hosts : h = rec.host
  BY DEF Jobs
<1>4. resolveAndStore(rec) /\ h \in synced
  BY <1>1, <1>2, <1>3 DEF ResolveStore, PoolInv, CallersMarked
<1>5. /\ positive' \in [Hosts -> Nat]
      /\ negative' \in [Hosts -> [until : Nat, failures : Nat]]
      /\ \A g \in Hosts : g # h => positive'[g] = positive[g]
      /\ inflight' = inflight \ {h}
  BY <1>3, <1>4, StoreTables DEF PoolInv
<1>6. call' \in [Callers -> Jobs] /\ CallersMarked'
  BY <1>1, Constants DEF PoolInv, CallersMarked
<1>7. PoolType'
  BY <1>1, <1>5, <1>6 DEF PoolInv, PoolType
<1>8. \A g \in Hosts : (InHand(g)' <=> InHand(g)) /\ (Alone(g)' <=> Alone(g))
  BY <1>1, BystanderHands DEF InHand, Alone
<1>9. Reserved'
  BY <1>1, <1>5, <1>8 DEF PoolInv, Reserved
<1>10. Sole'
  BY <1>1, <1>4, <1>5, <1>8 DEF PoolInv, Sole
<1>11. OneVerdict'
  BY <1>1, <1>3, <1>4, StoreVerdict
<1>12. ClocksBehind' /\ PendingExact'
  BY <1>1, BystanderHands DEF PoolInv, ClocksBehind, PendingExact
<1> QED BY <1>6, <1>7, <1>9, <1>10, <1>11, <1>12 DEF PoolInv

\* Wait, Close, the clock, and no step at all.
LEMMA BystanderPool ==
  ASSUME PoolInv, WaitCall \/ WaitReturn \/ Close \/ Tick \/ UNCHANGED vars
  PROVE  PoolInv'
<1>1. /\ UNCHANGED <<positive, negative, inflight, queue, pending, pf, worker, call, synced>>
      /\ now' = now \/ now' = now + 1
  BY DEF WaitCall, WaitReturn, Close, Tick, vars
<1>2. now \in Nat /\ now' \in Nat /\ now' >= now
  BY <1>1 DEF PoolInv, PoolType
<1>3. PoolType'
  BY <1>1, <1>2 DEF PoolInv, PoolType
<1>4. Reserved' /\ Sole' /\ OneVerdict'
  BY <1>1, <1>2, BystanderHands, SameHands DEF PoolInv
<1>5. ClocksBehind'
  <2>1. \A p \in Prefetchers : pf[p].now \in Nat
    BY DEF PoolInv, PoolType, Prefetching
  <2> QED BY <1>1, <1>2, <2>1 DEF PoolInv, ClocksBehind
<1>6. CallersMarked' /\ PendingExact'
  BY <1>1, BystanderHands DEF PoolInv, CallersMarked, PendingExact
<1> QED BY <1>3, <1>4, <1>5, <1>6 DEF PoolInv

LEMMA PoolInvariance == Spec => []PoolInv
<1>1. PoolInv /\ [Next]_vars => PoolInv'
  <2> SUFFICES ASSUME PoolInv, [Next]_vars PROVE PoolInv'
    OBVIOUS
  <2>1. ASSUME NEW p \in Prefetchers, PrefetchStep(p) PROVE PoolInv'
    BY <2>1, PrefetchReservePool, PrefetchAddPool, PrefetchSendPool, PrefetchReleasePool
       DEF PrefetchStep
  <2>2. ASSUME NEW p \in Prefetchers, NEW hosts \in Lists, PrefetchCall(p, hosts) PROVE PoolInv'
    BY <2>2, PrefetchCallPool
  <2>3. ASSUME NEW w \in Workers, WorkerStep(w) PROVE PoolInv'
    BY <2>3, WorkerTakePool, WorkerExitPool, WorkerStorePool, WorkerDonePool, WorkerAnswerPool
       DEF WorkerStep
  <2>4. ASSUME NEW c \in Callers, NEW h \in Hosts, ResolveCall(c, h) PROVE PoolInv'
    BY <2>4, ResolveCallPool
  <2>5. ASSUME NEW c \in Callers, NEW ttl \in TTLs \cup {Failed}, ResolveAnswer(c, ttl)
        PROVE  PoolInv'
    BY <2>5, ResolveAnswerPool
  <2>6. ASSUME NEW c \in Callers, ResolveStore(c) PROVE PoolInv'
    BY <2>6, ResolveStorePool
  <2>7. ASSUME WaitCall \/ WaitReturn \/ Close \/ Tick \/ UNCHANGED vars PROVE PoolInv'
    BY <2>7, BystanderPool
  <2> QED BY <2>1, <2>2, <2>3, <2>4, <2>5, <2>6, <2>7 DEF Next
<1> QED BY <1>1, InitPool, PTL DEF Spec

-----------------------------------------------------------------------------
(* What holds of every behaviour. *)

\* However many prefetchers, workers and synchronous callers interleave, a
\* reservation is never left behind (skipLocked would refuse the host for good),
\* and the pool alone resolves a host once at a time.
THEOREM PoolResolvesOnce == Spec => []PoolOnce
<1>1. PoolInv => PoolOnce
  <2> SUFFICES ASSUME PoolInv, NEW h \in Hosts
               PROVE  /\ h \in inflight => Copies(h) > 0
                      /\ h \notin synced => Copies(h) <= 1 /\ (Copies(h) = 1 => h \in inflight)
    BY DEF PoolOnce
  <2>1. IsFiniteSet(Sending(h)) /\ IsFiniteSet(Queued(h)) /\ IsFiniteSet(Working(h))
    <3>1. Sending(h) \subseteq Prefetchers /\ Working(h) \subseteq Workers
          /\ Queued(h) \subseteq 1..Len(queue) /\ Len(queue) \in Nat
      BY DEF Sending, Working, Queued, PoolInv, PoolType
    <3>2. IsFiniteSet(1..Len(queue))
      BY <3>1, FS_Interval
    <3> QED BY <3>1, <3>2, ResolverAssumption, FS_Subset
  <2> DEFINE s == Cardinality(Sending(h))
             q == Cardinality(Queued(h))
             k == Cardinality(Working(h))
  <2>2. s \in Nat /\ q \in Nat /\ k \in Nat /\ Copies(h) = s + q + k
    BY <2>1, FS_CardinalityType DEF Copies
  <2>3. (s = 0 <=> Sending(h) = {}) /\ (q = 0 <=> Queued(h) = {}) /\ (k = 0 <=> Working(h) = {})
    BY <2>1, FS_EmptySet
  <2> HIDE DEF s, q, k
  <2>4. h \in inflight => Copies(h) > 0
    <3>1. h \in inflight => InHand(h)
      BY DEF PoolInv, Reserved
    <3> QED BY <2>2, <2>3, <3>1 DEF InHand
  <2>5. ASSUME h \notin synced PROVE Copies(h) <= 1 /\ (Copies(h) = 1 => h \in inflight)
    <3>1. Alone(h) /\ (InHand(h) => h \in inflight)
      BY <2>5 DEF PoolInv, Sole
    <3>2. ASSUME NEW S, \A x, y \in S : x = y PROVE Cardinality(S) \in {0, 1}
      <4>1. S = {} \/ \E x : S = {x}
        BY <3>2
      <4> QED BY <4>1, FS_EmptySet, FS_Singleton
    <3>3. s \in {0, 1} /\ q \in {0, 1} /\ k \in {0, 1}
      BY <3>1, <3>2 DEF Alone, s, q, k
    <3>4. Copies(h) = 1 => InHand(h)
      BY <2>2, <2>3 DEF InHand
    <3>5. Copies(h) <= 1
      BY <2>2, <2>3, <3>1, <3>3 DEF Alone
    <3> QED BY <3>1, <3>4, <3>5
  <2> QED BY <2>4, <2>5
<1> QED BY <1>1, PoolInvariance, PTL

\* No late answer leaves a host of the pool both answerable and suppressed,
\* whatever the clock does between the answer and the lock.
THEOREM PoolVerdict == Spec => []OneVerdict
<1>1. PoolInv => OneVerdict
  BY DEF PoolInv
<1> QED BY <1>1, PoolInvariance, PTL

\* The WaitGroup's counter never goes below zero (Done would panic) and is zero
\* only with nothing queued and no worker at work, which is what Wait promises.
WaitSound ==
  /\ pending \in Nat
  /\ pending = 0 => /\ queue = <<>>
                    /\ \A w \in Workers : worker[w].pc \in {"idle", "exited"}
                    /\ \A p \in Prefetchers : pf[p].pc # "send"

THEOREM WaitGroupSound == Spec => []WaitSound
<1>1. PoolInv => WaitSound
  <2> SUFFICES ASSUME PoolInv PROVE WaitSound
    OBVIOUS
  <2>1. /\ Cardinality(Sends) \in Nat /\ Cardinality(Busy) \in Nat
        /\ Cardinality(Sends) = 0 <=> Sends = {}
        /\ Cardinality(Busy) = 0 <=> Busy = {}
    BY HandsFinite, FS_CardinalityType, FS_EmptySet
  <2>2. queue \in Seq(Hosts) /\ Len(queue) \in Nat /\ (Len(queue) = 0 => queue = <<>>)
    <3>1. queue \in Seq(Hosts)
      BY DEF PoolInv, PoolType
    <3> QED BY <3>1, EmptySeq
  <2>3. pending \in Nat
        /\ (pending = 0 => Sends = {} /\ queue = <<>> /\ Busy = {})
    <3> DEFINE s == Cardinality(Sends)
               b == Cardinality(Busy)
               n == Len(queue)
    <3>1. pending = s + n + b
      BY DEF PoolInv, PendingExact
    <3>2. s \in Nat /\ b \in Nat /\ n \in Nat
      BY <2>1, <2>2
    <3>3. (s = 0 => Sends = {}) /\ (b = 0 => Busy = {}) /\ (n = 0 => queue = <<>>)
      BY <2>1, <2>2
    <3> HIDE DEF s, b, n
    <3>4. pending \in Nat /\ (pending = 0 => s = 0 /\ b = 0 /\ n = 0)
      BY <3>1, <3>2
    <3> QED BY <3>3, <3>4
  <2>4. \A w \in Workers : worker[w].pc \in {"idle", "resolving", "store", "done", "exited"}
    BY DEF PoolInv, PoolType, Jobs
  <2> QED BY <2>3, <2>4 DEF WaitSound, Sends, Busy
<1> QED BY <1>1, PoolInvariance, PTL
=============================================================================
