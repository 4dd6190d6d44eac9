------------------------------- MODULE Engine -------------------------------
(***************************************************************************)
(* Engine.Run of src/engine: the single goroutine that drives a frontier,  *)
(* the bounded pool of fetch workers (batch.go), and the clock it sleeps   *)
(* on.  The loop goroutine intakes routed discoveries, dispatches, hands   *)
(* the request to a worker (folding outcomes while the pool is full),      *)
(* folds an outcome when nothing can be dispatched, and, with nothing in   *)
(* flight, moves the clock to the next eligible instant or stops.          *)
(*                                                                         *)
(* Every frontier call is the action of module Frontier.  The request      *)
(* channel is unbuffered and the result channel holds Workers results, so  *)
(* a worker whose result does not fit stays busy.                          *)
(***************************************************************************)
EXTENDS Frontier

CONSTANTS
  Workers,     \* pool size, and capacity of the result channel
  Routed,      \* URLs other partitions may route here
  Until,       \* UntilEmpty: stop when the frontier drains
  Horizon      \* bound: the loop does not sleep past this instant

ASSUME PoolAssumption ==
  Workers \in Nat \ {0} /\ Until \in BOOLEAN /\ Routed \subseteq URLs /\ Horizon \in Nat

VARIABLES
  pc,      \* where the caller, then the run goroutine, is
  hand,    \* the request it is handing to the pool
  busy,    \* the requests the workers hold
  out      \* the results in the result channel

engineVars == <<pc, hand, busy, out>>
allVars == <<vars, engineVars>>

EngineInit ==
  /\ Init
  /\ pc = "start" /\ hand = {} /\ busy = {} /\ out = {}

-----------------------------------------------------------------------------
(* The run loop. *)

\* The caller seeds the frontier, then runs the loop.
SeedFirst(u, p) ==
  /\ pc = "start"
  /\ Seed(u, p, 0)
  /\ UNCHANGED engineVars

Begin ==
  /\ pc = "start"
  /\ pc' = "intake"
  /\ UNCHANGED <<vars, hand, busy, out>>

\* intake: fold the routed discoveries that have arrived.  The second call, in
\* the idle branch, goes round the loop again when one was added.
Intake(u) ==
  /\ pc \in {"intake", "idle", "inbound"}
  /\ u \in Routed /\ Unseen(urls[u])
  /\ \E admit \in SUBSET {u}, p \in Buckets :
       /\ Discover(u, admit, p)
       /\ pc' = IF admit = {} THEN pc ELSE "intake"
  /\ UNCHANGED <<hand, busy, out>>

IntakeDone ==
  /\ pc = "intake"
  /\ pc' = "dispatch"
  /\ UNCHANGED <<vars, hand, busy, out>>

\* Dispatch; a request goes on to the pool.
Dispatch ==
  /\ pc = "dispatch"
  /\ DispatchShard(0)
  /\ hand' = flying' \ flying
  /\ pc' = IF hand' # {} THEN "place" ELSE IF flying # {} THEN "drain" ELSE "idle"
  /\ UNCHANGED <<busy, out>>

\* place: a free worker takes the request.
Place_Send ==
  /\ pc = "place"
  /\ Cardinality(busy) < Workers
  /\ busy' = busy \cup hand /\ hand' = {}
  /\ pc' = "intake"
  /\ UNCHANGED <<vars, out>>

\* fold: receive one result, while waiting for a worker or when idle hosts leave
\* nothing to dispatch, and report it.
MayFold == pc \in {"place", "drain"}

Received(f) ==
  /\ MayFold
  /\ f \in out /\ out' = out \ {f}
  /\ pc' = IF pc = "drain" THEN "intake" ELSE pc
  /\ UNCHANGED <<hand, busy>>

FoldRobots(h, resp, deny, delay) ==
  Received(<<h, Robots>>) /\ ApplyRobots(h, resp, deny, delay)
FoldCrawled(u, target, admit, sig) ==
  /\ Received(<<HostOf[u], u>>)
  /\ ReportCrawled(u, FALSE, Hours(now) + 1, FetchStamp, target, {}, admit,
                   [v \in target |-> urls[u].prio], sig)
FoldFailed(u, is410, sig) ==
  /\ Received(<<HostOf[u], u>>)
  /\ ReportFailed(u, is410, FetchStamp, sig)
FoldError(u, sig) ==
  /\ Received(<<HostOf[u], u>>)
  /\ IF StateOn THEN ReportFailed(u, FALSE, ErrorStamp, sig)
     ELSE ReportCrawled(u, FALSE, Hours(now) + 1, ErrorStamp, {}, {}, {}, [v \in {} |-> 0], sig)

\* Mutant: the parked hosts are left out.
Instants_WheelOnly == {wheelDue[u] * HourSecs : u \in IF WheelOn THEN wheel ELSE {}}

\* NextEligible: the earliest parked host, or the wheel's next hour.
Instants == {waitUntil[h] : h \in wait} \cup
            {wheelDue[u] * HourSecs : u \in IF WheelOn THEN wheel ELSE {}}
Earliest == CHOOSE t \in Instants : \A s \in Instants : t <= s

\* Mutant: the heap is read from the wrong end.
Wake_Latest == MaxOf(now, CHOOSE t \in Instants : \A s \in Instants : t >= s)

\* Mutant: the loop wakes at once.
Wake_AtOnce == now

Wake == MaxOf(now, Earliest)

\* Nothing in flight, nothing to dispatch: sleep to the next eligible instant.
SleepUntil ==
  /\ pc = "idle"
  /\ Instants # {}
  /\ Wake <= Horizon
  /\ now' = Wake
  /\ pc' = "intake"
  /\ UNCHANGED <<urlVars, hosts, sinceSweep, back, poolVars, ipNext, wheelVars, flying,
                 disk, restarts, hand, busy, out>>

\* The frontier is drained: a bounded run returns, a live one waits for inbound
\* discoveries.
Drain ==
  /\ pc = "idle"
  /\ Instants = {}
  /\ pc' = IF Until THEN "done" ELSE "inbound"
  /\ UNCHANGED <<vars, hand, busy, out>>

\* A worker's fetch ends; its result takes a slot of the result channel.
Fetched(f) ==
  /\ f \in busy
  /\ Cardinality(out) < Workers
  /\ busy' = busy \ {f} /\ out' = out \cup {f}
  /\ UNCHANGED <<vars, pc, hand>>

\* The process checkpoints, and it stops and recovers, wherever it is.
Save == Checkpoint /\ UNCHANGED engineVars
Restart ==
  /\ Recover
  /\ pc' = "intake" /\ hand' = {} /\ busy' = {} /\ out' = {}

\* The wall clock moves while the loop works.
Elapse == Tick /\ pc # "done" /\ UNCHANGED engineVars

\* Run has returned, a live partition waits for a discovery that never comes, or
\* the next instant is beyond the model's horizon.
Rest ==
  /\ \/ pc = "done"
     \/ pc = "inbound" /\ \A u \in Routed : ~Unseen(urls[u])
     \/ pc = "idle" /\ Instants # {} /\ Wake > Horizon
  /\ UNCHANGED allVars

Loop ==
  \/ Begin
  \/ IntakeDone
  \/ Dispatch
  \/ Place_Send
  \/ \E h \in Hosts, deny \in SUBSET URLs, delay \in Delays :
        FoldRobots(h, "2xx", deny, delay)
  \/ \E h \in Hosts, resp \in {"4xx", "err"} : FoldRobots(h, resp, {}, 0)
  \/ \E u \in URLs, target \in Targets, sig \in {"ok", "slow"} :
        \E admit \in SUBSET target : FoldCrawled(u, target, admit, sig)
  \/ \E u \in URLs, sig \in {"ok", "err"} : FoldFailed(u, FALSE, sig)
  \/ \E u \in URLs : FoldFailed(u, TRUE, "ok")
  \/ \E u \in URLs : FoldError(u, "ok")
  \/ SleepUntil
  \/ Drain

EngineNext ==
  \/ Loop
  \/ \E u \in URLs : Intake(u)
  \/ \E u \in URLs, p \in Buckets : SeedFirst(u, p)
  \/ \E f \in flying : Fetched(f)
  \/ Save
  \/ Restart
  \/ Elapse
  \/ Rest

EngineSpec == EngineInit /\ [][EngineNext]_allVars

\* The goroutine runs whenever it can, and every fetch returns.
FairSpec ==
  /\ EngineSpec
  /\ WF_allVars(Loop)
  /\ \A h \in Hosts : WF_allVars(\E u \in URLs \cup {Robots} : Fetched(<<h, u>>))

-----------------------------------------------------------------------------
(* Correctness. *)

\* Run returns only when there is no work: every URL is settled.
DrainedMeansDone ==
  pc = "done" => /\ flying = {}
                 /\ \A u \in URLs : urls[u].status \notin Queueable \cup {"InFlight"}

\* The clock never jumps past work: no pooled host is really eligible (by its
\* windows, which a fetch on a shared address may have moved since the heap key was
\* written) and no wheel entry due strictly before the instant the loop sleeps to.
NoOversleep ==
  [][pc = "idle" /\ pc' = "intake" /\ now' > now =>
       /\ \A h \in ready \cup wait : EligibleNow(hosts[h]) >= now'
       /\ \A u \in wheel : WheelOn => wheelDue[u] * HourSecs >= now']_allVars

\* A bounded run ends: whatever order fetches return in, however often they
\* fail, the loop neither blocks on the pool nor spins on a closed window.
RunReturns == <>(pc = "done")

\* A URL waiting to be fetched is eventually fetched, failed or excluded.
ScheduledRuns ==
  \A u \in URLs : urls[u].status = "Scheduled" ~> urls[u].status \notin {"Scheduled", "InFlight"}

=============================================================================
