------------------------------ MODULE Resolver ------------------------------
(***************************************************************************)
(* The DNS cache, src/dns/dns.go: prefetchers reserve and queue hosts, a   *)
(* pool of workers resolves them, callers may resolve synchronously beside *)
(* it, and all of them meet under one mutex and one buffered channel.      *)
(*                                                                         *)
(* A critical section is one step; the points between two of them (the     *)
(* channel operations, the resolver's answer, the clock read before the    *)
(* lock) are steps of their own.  The address itself is left out: an       *)
(* answer is its TTL or a failure.  Lookup, Suppressed, Failures and Stats *)
(* read the state below.  The owner of a Cache calls Close with no         *)
(* Prefetch under way and none after it: one that came later would send on *)
(* the closed channel.                                                     *)
(***************************************************************************)
EXTENDS Integers, Sequences, FiniteSets

CONSTANTS
  Hosts, Prefetchers, Workers, Callers,
  Lists,                      \* the host lists Prefetch may be called with; it
                              \* does nothing for an empty one
  QueueCap,                   \* the channel's buffer
  MinTTL, MaxTTL, NegativeTTL,
  TTLs,                       \* the lifetimes a resolver may report
  MaxNow, MaxPrefetch, MaxResolve

ASSUME ResolverAssumption ==
  /\ {QueueCap, MinTTL, MaxTTL, NegativeTTL} \subseteq Nat \ {0}
  /\ TTLs \subseteq Nat
  /\ Hosts # {} /\ Lists \subseteq Seq(Hosts) \ {<<>>}
  /\ IsFiniteSet(Prefetchers) /\ IsFiniteSet(Workers)

VARIABLES
  now,
  positive,    \* host -> expiry of its address (0: none)
  negative,    \* host -> [until, failures]
  inflight,    \* hosts reserved
  queue, closed,
  pending,     \* the WaitGroup's counter
  pf,          \* prefetcher -> [pc, todo, now]
  worker,      \* worker -> [pc, host, ttl, now]
  call,        \* synchronous caller -> the same
  waiting,     \* a Wait is under way
  left,        \* Prefetch and Resolve calls still to come
  synced       \* ghost: hosts a synchronous Resolve has gone out for

vars == <<now, positive, negative, inflight, queue, closed, pending, pf, worker, call,
          waiting, left, synced>>

Failed == -1
Idle == [pc |-> "idle", todo |-> <<>>, now |-> 0]
Free == [pc |-> "idle", host |-> CHOOSE h \in Hosts : TRUE, ttl |-> 0, now |-> 0]

Init ==
  /\ now = 0
  /\ positive = [h \in Hosts |-> 0]
  /\ negative = [h \in Hosts |-> [until |-> 0, failures |-> 0]]
  /\ inflight = {} /\ queue = <<>> /\ closed = FALSE /\ pending = 0
  /\ pf = [p \in Prefetchers |-> Idle]
  /\ worker = [w \in Workers |-> Free]
  /\ call = [c \in Callers |-> Free]
  /\ waiting = FALSE
  /\ left = [prefetch |-> MaxPrefetch, resolve |-> MaxResolve]
  /\ synced = {}

Fresh(h, t) == t < positive[h]
Suppressed(h, t) == t < negative[h].until

\* Mutant: a host with a live address is resolved again.
skipLocked_NoFresh(h, t) == h \in inflight \/ Suppressed(h, t)

skipLocked(h, t) == h \in inflight \/ Fresh(h, t) \/ Suppressed(h, t)

EffectiveMax == IF MinTTL > MaxTTL THEN MinTTL ELSE MaxTTL

clamp(ttl) == IF ttl < MinTTL THEN MinTTL ELSE IF ttl > EffectiveMax THEN EffectiveMax ELSE ttl

---------------------------------------------------------------------------
(* Prefetch *)

\* The clock is read once for all of the call's hosts.
PrefetchCall(p, hosts) ==
  /\ ~closed /\ left.prefetch > 0 /\ pf[p].pc = "idle"
  /\ pf' = [pf EXCEPT ![p] = [pc |-> "reserve", todo |-> hosts, now |-> now]]
  /\ left' = [left EXCEPT !.prefetch = @ - 1]
  /\ UNCHANGED <<now, positive, negative, inflight, queue, closed, pending, worker, call, waiting, synced>>

Advanced(p) ==
  IF Len(pf[p].todo) = 1 THEN [pf EXCEPT ![p] = Idle]
  ELSE [pf EXCEPT ![p].pc = "reserve", ![p].todo = Tail(@)]

PrefetchReserve(p) ==
  /\ pf[p].pc = "reserve"
  /\ LET h == Head(pf[p].todo)
     IN IF skipLocked(h, pf[p].now)
        THEN pf' = Advanced(p) /\ UNCHANGED inflight
        ELSE inflight' = inflight \cup {h} /\ pf' = [pf EXCEPT ![p].pc = "add"]
  /\ UNCHANGED <<now, positive, negative, queue, closed, pending, worker, call, waiting, left, synced>>

PrefetchAdd(p) ==
  /\ pf[p].pc = "add"
  /\ pending' = pending + 1
  /\ pf' = [pf EXCEPT ![p].pc = "send"]
  /\ UNCHANGED <<now, positive, negative, inflight, queue, closed, worker, call, waiting, left, synced>>

\* The send succeeds when the buffer has room; the default branch takes the
\* work back and goes on to release the reservation.
PrefetchSend(p) ==
  /\ pf[p].pc = "send"
  /\ IF Len(queue) < QueueCap
     THEN queue' = Append(queue, Head(pf[p].todo)) /\ pf' = Advanced(p) /\ UNCHANGED pending
     ELSE pending' = pending - 1 /\ pf' = [pf EXCEPT ![p].pc = "release"] /\ UNCHANGED queue
  /\ UNCHANGED <<now, positive, negative, inflight, closed, worker, call, waiting, left, synced>>

\* Mutant: the full queue keeps the host reserved.
PrefetchRelease_Leak(p) ==
  /\ pf[p].pc = "release"
  /\ pf' = Advanced(p)
  /\ UNCHANGED <<now, positive, negative, inflight, queue, closed, pending, worker, call, waiting, left, synced>>

PrefetchRelease(p) ==
  /\ pf[p].pc = "release"
  /\ inflight' = inflight \ {Head(pf[p].todo)}
  /\ pf' = Advanced(p)
  /\ UNCHANGED <<now, positive, negative, queue, closed, pending, worker, call, waiting, left, synced>>

---------------------------------------------------------------------------
(* The pool *)

\* The range over the queue goes on after Close until the queue is empty.
WorkerTake(w) ==
  /\ worker[w].pc = "idle" /\ queue # <<>>
  /\ worker' = [worker EXCEPT ![w] = [Free EXCEPT !.pc = "resolving", !.host = Head(queue)]]
  /\ queue' = Tail(queue)
  /\ UNCHANGED <<now, positive, negative, inflight, closed, pending, pf, call, waiting, left, synced>>

\* Mutant: a worker leaves as soon as the pool is closed.
WorkerExit_Eager(w) ==
  /\ worker[w].pc = "idle" /\ closed
  /\ worker' = [worker EXCEPT ![w].pc = "exited"]
  /\ UNCHANGED <<now, positive, negative, inflight, queue, closed, pending, pf, call, waiting, left, synced>>

WorkerExit(w) ==
  /\ worker[w].pc = "idle" /\ queue = <<>> /\ closed
  /\ worker' = [worker EXCEPT ![w].pc = "exited"]
  /\ UNCHANGED <<now, positive, negative, inflight, queue, closed, pending, pf, call, waiting, left, synced>>

\* The resolver's answer and the clock read that follows it, before the lock.
Answered(rec, ttl) == [rec EXCEPT !.pc = "store", !.ttl = ttl, !.now = now]

WorkerAnswer(w, ttl) ==
  /\ worker[w].pc = "resolving"
  /\ worker' = [worker EXCEPT ![w] = Answered(@, ttl)]
  /\ UNCHANGED <<now, positive, negative, inflight, queue, closed, pending, pf, call, waiting, left, synced>>

\* The critical section of resolveAndStore.  A failure leaves the address.
resolveAndStore(rec) ==
  /\ inflight' = inflight \ {rec.host}
  /\ IF rec.ttl = Failed
     THEN /\ negative' = [negative EXCEPT ![rec.host] =
                            [until |-> rec.now + NegativeTTL, failures |-> @.failures + 1]]
          /\ UNCHANGED positive
     ELSE /\ negative' = [negative EXCEPT ![rec.host] = [until |-> 0, failures |-> 0]]
          /\ positive' = [positive EXCEPT ![rec.host] = rec.now + clamp(rec.ttl)]

WorkerStore(w) ==
  /\ worker[w].pc = "store"
  /\ resolveAndStore(worker[w])
  /\ worker' = [worker EXCEPT ![w].pc = "done"]
  /\ UNCHANGED <<now, queue, closed, pending, pf, call, waiting, left, synced>>

WorkerDone(w) ==
  /\ worker[w].pc = "done"
  /\ pending' = pending - 1
  /\ worker' = [worker EXCEPT ![w] = Free]
  /\ UNCHANGED <<now, positive, negative, inflight, queue, closed, pf, call, waiting, left, synced>>

---------------------------------------------------------------------------
(* Synchronous Resolve, Wait, Close *)

\* A fresh or a suppressed host returns at once; a reserved one does not.
ResolveCall(c, h) ==
  /\ call[c].pc = "idle" /\ left.resolve > 0
  /\ left' = [left EXCEPT !.resolve = @ - 1]
  /\ IF Fresh(h, now) \/ Suppressed(h, now)
     THEN UNCHANGED <<call, synced>>
     ELSE /\ call' = [call EXCEPT ![c] = [Free EXCEPT !.pc = "resolving", !.host = h]]
          /\ synced' = synced \cup {h}
  /\ UNCHANGED <<now, positive, negative, inflight, queue, closed, pending, pf, worker, waiting>>

ResolveAnswer(c, ttl) ==
  /\ call[c].pc = "resolving"
  /\ call' = [call EXCEPT ![c] = Answered(@, ttl)]
  /\ UNCHANGED <<now, positive, negative, inflight, queue, closed, pending, pf, worker, waiting, left, synced>>

ResolveStore(c) ==
  /\ call[c].pc = "store"
  /\ resolveAndStore(call[c])
  /\ call' = [call EXCEPT ![c] = Free]
  /\ UNCHANGED <<now, queue, closed, pending, pf, worker, waiting, left, synced>>

WaitCall ==
  /\ waiting = FALSE
  /\ waiting' = TRUE
  /\ UNCHANGED <<now, positive, negative, inflight, queue, closed, pending, pf, worker, call, left, synced>>

WaitReturn ==
  /\ waiting /\ pending = 0
  /\ waiting' = FALSE
  /\ UNCHANGED <<now, positive, negative, inflight, queue, closed, pending, pf, worker, call, left, synced>>

\* Close goes on to wait for the workers: it returns once all have exited.
Close ==
  /\ ~closed /\ \A p \in Prefetchers : pf[p].pc = "idle"
  /\ closed' = TRUE
  /\ UNCHANGED <<now, positive, negative, inflight, queue, pending, pf, worker, call, waiting, left, synced>>

Tick ==
  /\ now < MaxNow /\ now' = now + 1
  /\ UNCHANGED <<positive, negative, inflight, queue, closed, pending, pf, worker, call, waiting, left, synced>>

PrefetchStep(p) == PrefetchReserve(p) \/ PrefetchAdd(p) \/ PrefetchSend(p) \/ PrefetchRelease(p)
WorkerStep(w) ==
  WorkerTake(w) \/ WorkerExit(w) \/ WorkerStore(w) \/ WorkerDone(w)
  \/ \E ttl \in TTLs \cup {Failed} : WorkerAnswer(w, ttl)

Next ==
  \/ \E p \in Prefetchers : PrefetchStep(p)
  \/ \E p \in Prefetchers, hosts \in Lists : PrefetchCall(p, hosts)
  \/ \E w \in Workers : WorkerStep(w)
  \/ \E c \in Callers, h \in Hosts : ResolveCall(c, h)
  \/ \E c \in Callers, ttl \in TTLs \cup {Failed} : ResolveAnswer(c, ttl)
  \/ \E c \in Callers : ResolveStore(c)
  \/ WaitCall \/ WaitReturn \/ Close \/ Tick

\* The goroutines run and a lookup ends: resolvers give up by themselves.
\* Nobody is bound to call Prefetch, Resolve, Wait or Close.
Spec ==
  /\ Init /\ [][Next]_vars
  /\ \A p \in Prefetchers : WF_vars(PrefetchStep(p))
  /\ \A w \in Workers : WF_vars(WorkerStep(w))
  /\ WF_vars(WaitReturn)

---------------------------------------------------------------------------
(* Properties *)

Sending(h) == {p \in Prefetchers : pf[p].pc \in {"add", "send", "release"} /\ Head(pf[p].todo) = h}
Queued(h) == {k \in DOMAIN queue : queue[k] = h}
Working(h) == {w \in Workers : worker[w].pc \in {"resolving", "store"} /\ worker[w].host = h}
Copies(h) == Cardinality(Sending(h)) + Cardinality(Queued(h)) + Cardinality(Working(h))

\* The pool resolves a host once at a time and a reservation is never left
\* behind: with no synchronous Resolve of the host, it is in flight exactly
\* while one prefetcher, queue slot or worker has it; with one, what is in
\* flight is still in some hand that will clear it.
PoolOnce ==
  \A h \in Hosts :
    /\ h \in inflight => Copies(h) > 0
    /\ h \notin synced => Copies(h) <= 1 /\ (Copies(h) = 1 => h \in inflight)

\* A host the pool alone resolves is never both answerable and suppressed:
\* no late or repeated failure overrides a live address, and no success
\* leaves an old failure in force.
OneVerdict == \A h \in Hosts \ synced : ~(Fresh(h, now) /\ Suppressed(h, now))

\* Wait returns once prefetching has stopped, and Close lets the pool finish
\* every host that was queued before it: the workers all exit, with nothing
\* queued, counted or reserved.
PoolDrains ==
  /\ [](waiting => <>~waiting)
  /\ [](closed => <>[](/\ \A w \in Workers : worker[w].pc = "exited"
                       /\ queue = <<>> /\ pending = 0 /\ inflight = {}))
=============================================================================
