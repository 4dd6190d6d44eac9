------------------------------- MODULE Control ------------------------------
(***************************************************************************)
(* The control plane of src/distribute: the partition table and its        *)
(* placement on machines by rendezvous hashing (control.go, rendezvous.go), *)
(* the health verdict and the promotion of replicas (failover.go) and the   *)
(* loop that resizes the fleet from the reported backlog (elasticity.go).   *)
(*                                                                         *)
(* Every operation of Control is one critical section.  Elasticity.Tick is *)
(* not: it reads the backlog, then the count, then resizes, each under its *)
(* own lock, so heartbeats, operators and failures may come between.       *)
(* hashCombine is an arbitrary score of a partition and a machine.  Who    *)
(* owns a host, pins and routers are in Fleet.                             *)
(***************************************************************************)
EXTENDS Integers, Sequences, FiniteSets, SequencesExt

CONSTANTS
  Machines,       \* machine ids, positive
  Weight,         \* machine -> capacity weight
  Addressed,      \* the machines that carry an address
  Score,          \* hashCombine: partition -> machine -> score
  MaxParts,       \* partition ids are 0..MaxParts - 1
  FailThreshold,
  HighWater, LowWater, MinPartitions, MaxPartitions, Breaches, Cooldown,
  Depths,         \* the backlogs a heartbeat may report
  Factors,        \* the replication factors an operator may set
  MaxEpoch

ASSUME ControlAssumption ==
  /\ Machines \subseteq Nat \ {0} /\ Addressed \subseteq Machines
  /\ {MaxParts, FailThreshold, Breaches, HighWater, MinPartitions, MaxPartitions} \subseteq Nat \ {0}
  /\ MinPartitions <= MaxPartitions /\ MaxPartitions <= MaxParts
  /\ {LowWater, Cooldown} \subseteq Nat
  /\ IsFiniteSet(Machines) /\ Factors \subseteq Int
  /\ \A m \in Machines : Weight[m] \in Nat /\ \A p \in 0..(MaxParts - 1) : Score[p][m] \in Nat

VARIABLES
  parts,      \* the table: position id + 1 -> [health, primary, replicas, address]
  replicas,   \* the replication factor
  machines,
  epoch,
  misses, backlog,   \* partition id -> count; ids that left the table too
  loop,       \* Elasticity: [pc, load, n, high, low, cooldown]
  since,      \* ghost: ticks since the loop last resized
  raced       \* ghost: an operator resized since the loop read the count

vars == <<parts, replicas, machines, epoch, misses, backlog, loop, since, raced>>

Ids == 0..(MaxParts - 1)
None == 0     \* the zero MachineID, and no address
NumPartitions == Len(parts)
Member(id) == id < NumPartitions

---------------------------------------------------------------------------
(* Placement *)

Weighted(ms) == \E m \in ms : Weight[m] \notin {0, 1}

\* Machines by score, the lower id first on a tie: as many go ahead of a
\* machine as its place in the list says.
Before(score, a, b) == score[a] > score[b] \/ (score[a] = score[b] /\ a < b)
Ahead(score, m) == {a \in DOMAIN score : Before(score, a, m)}
Ranked(score) ==
  [i \in 1..Cardinality(DOMAIN score) |->
     CHOOSE m \in DOMAIN score : Cardinality(Ahead(score, m)) = i - 1]

preferenceList(p, ms) == Ranked([m \in ms |-> Score[p][m]])
weightedPreference(p, ms) == Ranked([m \in ms |-> Score[p][m] * Weight[m]])

\* Mutant: the rank of a machine depends on how many there are.
Preference_Modulo(p, ms, n) ==
  LET all == Ranked([m \in ms |-> (Score[p][m] + m) % Cardinality(ms)])
  IN SubSeq(all, 1, Min({n + 1, Len(all)}))

\* The primary and the n replicas of partition p.
Preference(p, ms, n) ==
  LET all == IF Weighted(ms) THEN weightedPreference(p, ms) ELSE preferenceList(p, ms)
  IN SubSeq(all, 1, Min({n + 1, Len(all)}))

\* Mutant: with no machine left the replica sets stay.
replace_KeepsReplicas(ps, ms, n) ==
  [i \in DOMAIN ps |->
     LET pref == Preference(i - 1, ms, n)
     IN IF ms = {} \/ n <= 0 THEN ps[i]
        ELSE [ps[i] EXCEPT !.primary = pref[1], !.replicas = Tail(pref),
                           !.address = IF pref[1] \in Addressed THEN pref[1] ELSE @]]

replace(ps, ms, n) ==
  [i \in DOMAIN ps |->
     LET pref == Preference(i - 1, ms, n)
     IN IF ms = {} \/ n <= 0 THEN [ps[i] EXCEPT !.replicas = <<>>]
        ELSE [ps[i] EXCEPT !.primary = pref[1], !.replicas = Tail(pref),
                           !.address = IF pref[1] \in Addressed THEN pref[1] ELSE @]]

NewPart == [health |-> "alive", primary |-> None, replicas |-> <<>>, address |-> None]

Init ==
  /\ parts = <<NewPart>> /\ replicas = 0 /\ machines = {} /\ epoch = 1
  /\ misses = [id \in Ids |-> 0] /\ backlog = [id \in Ids |-> 0]
  /\ loop = [pc |-> "idle", load |-> 0, n |-> 0, high |-> 0, low |-> 0, cooldown |-> 0]
  /\ since = Cooldown /\ raced = FALSE

Bump == epoch < MaxEpoch /\ epoch' = epoch + 1

SetReplicas(n) ==
  /\ n # replicas
  /\ replicas' = n
  /\ parts' = replace(parts, machines, n)
  /\ UNCHANGED <<machines, epoch, misses, backlog, loop, since, raced>>

SetMachines(ms) ==
  /\ ms # machines
  /\ machines' = ms
  /\ parts' = replace(parts, ms, replicas)
  /\ UNCHANGED <<replicas, epoch, misses, backlog, loop, since, raced>>

AddPartition ==
  /\ NumPartitions < MaxParts
  /\ Bump
  /\ parts' = replace(Append(parts, NewPart), machines, replicas)
  /\ UNCHANGED <<replicas, machines, misses, backlog>>

\* The last partition; its backlog report goes, its misses stay.
RemovePartition ==
  /\ NumPartitions > 1
  /\ Bump
  /\ parts' = replace(Front(parts), machines, replicas)
  /\ backlog' = [backlog EXCEPT ![NumPartitions - 1] = 0]
  /\ UNCHANGED <<replicas, machines, misses>>

Operator ==
  /\ AddPartition \/ RemovePartition
  /\ raced' = TRUE
  /\ UNCHANGED <<loop, since>>

---------------------------------------------------------------------------
(* Health *)

\* The health of partition id becomes h, with a new epoch if it changes.
Verdict(id, h) ==
  IF Member(id) /\ parts[id + 1].health # h
  THEN Bump /\ parts' = [parts EXCEPT ![id + 1].health = h]
  ELSE UNCHANGED <<epoch, parts>>

\* A beat, with the backlog it carries or without.
Heartbeat(id) ==
  /\ misses' = [misses EXCEPT ![id] = 0]
  /\ Verdict(id, "alive")
  /\ UNCHANGED <<replicas, machines, backlog, loop, since, raced>>

HeartbeatLoad(id, depth) ==
  /\ backlog' = [backlog EXCEPT ![id] = depth]
  /\ misses' = [misses EXCEPT ![id] = 0]
  /\ Verdict(id, "alive")
  /\ UNCHANGED <<replicas, machines, loop, since, raced>>

\* A count past the threshold says no more than the threshold, so it stops there.
MissHeartbeat(id) ==
  /\ misses' = [misses EXCEPT ![id] = IF @ < FailThreshold THEN @ + 1 ELSE @]
  /\ Verdict(id, IF misses'[id] >= FailThreshold THEN "failed" ELSE "degraded")
  /\ UNCHANGED <<replicas, machines, backlog, loop, since, raced>>

\* SetHealth bumps the epoch whether or not the health changes.
SetHealth(id, h) ==
  /\ Member(id)
  /\ Bump
  /\ parts' = [parts EXCEPT ![id + 1].health = h]
  /\ UNCHANGED <<replicas, machines, misses, backlog, loop, since, raced>>

FailMachine(m) ==
  /\ m \in machines
  /\ Bump
  /\ machines' = machines \ {m}
  /\ parts' = replace(parts, machines', replicas)
  /\ UNCHANGED <<replicas, misses, backlog, loop, since, raced>>

---------------------------------------------------------------------------
(* Elasticity.Tick *)

meanBacklog == MapThenSumSet(LAMBDA id : backlog[id], 0..(NumPartitions - 1)) \div NumPartitions

Counted == Min({since + 1, Cooldown + Breaches})

TickCooling ==
  /\ loop.pc = "idle" /\ loop.cooldown > 0
  /\ loop' = [loop EXCEPT !.cooldown = @ - 1, !.high = 0, !.low = 0]
  /\ since' = Counted
  /\ UNCHANGED <<parts, replicas, machines, epoch, misses, backlog, raced>>

TickBacklog ==
  /\ loop.pc = "idle" /\ loop.cooldown = 0
  /\ loop' = [loop EXCEPT !.pc = "count", !.load = meanBacklog]
  /\ since' = Counted
  /\ UNCHANGED <<parts, replicas, machines, epoch, misses, backlog, raced>>

\* The streaks, capped at the length the loop waits for.
Streaks(l) ==
  IF l.load > HighWater THEN [l EXCEPT !.high = Min({@ + 1, Breaches}), !.low = 0]
  ELSE IF LowWater > 0 /\ l.load < LowWater THEN [l EXCEPT !.low = Min({@ + 1, Breaches}), !.high = 0]
  ELSE [l EXCEPT !.high = 0, !.low = 0]

TickCount ==
  /\ loop.pc = "count"
  /\ loop' = Streaks([loop EXCEPT !.pc = "act", !.n = NumPartitions])
  /\ raced' = FALSE
  /\ UNCHANGED <<parts, replicas, machines, epoch, misses, backlog, since>>

ScalesUp == loop.high >= Breaches /\ loop.n < MaxPartitions
ScalesDown == ~ScalesUp /\ loop.low >= Breaches /\ loop.n > MinPartitions

\* Mutant: a resize leaves the cooldown out.
afterAction_Hot == loop' = [loop EXCEPT !.pc = "idle", !.high = 0, !.low = 0]

afterAction == loop' = [loop EXCEPT !.pc = "idle", !.high = 0, !.low = 0, !.cooldown = Cooldown]

TickResize ==
  /\ loop.pc = "act"
  /\ \/ ScalesUp /\ AddPartition
     \/ ScalesDown /\ RemovePartition
  /\ afterAction
  /\ since' = 0 /\ raced' = FALSE

\* In band, streak too short, at a limit, or nothing left to remove.
TickHold ==
  /\ loop.pc = "act"
  /\ ~ScalesUp /\ (ScalesDown => NumPartitions <= 1)
  /\ loop' = [loop EXCEPT !.pc = "idle"]
  /\ raced' = FALSE
  /\ UNCHANGED <<parts, replicas, machines, epoch, misses, backlog, since>>

Next ==
  \/ \E n \in Factors : SetReplicas(n)
  \/ \E ms \in SUBSET Machines : SetMachines(ms)
  \/ Operator
  \/ \E id \in Ids : Heartbeat(id)
  \/ \E id \in Ids, d \in Depths : HeartbeatLoad(id, d)
  \/ \E id \in Ids : MissHeartbeat(id)
  \/ \E id \in Ids, h \in {"alive", "degraded", "failed", "draining"} : SetHealth(id, h)
  \/ \E m \in Machines : FailMachine(m)
  \/ TickCooling \/ TickBacklog \/ TickCount \/ TickResize \/ TickHold

Spec == Init /\ [][Next]_vars

---------------------------------------------------------------------------
(* Properties *)

\* Losing a machine promotes the next in line and moves nothing else: where
\* the machine was primary and there is a replica, the first replica takes
\* over, under a new epoch; every other partition keeps its primary.  (A
\* fleet that mixes unset weights with weights is left out: replace ranks
\* it by weight only as long as a weighted machine is in it.)
PromotesReplica ==
  [][\A m \in machines : FailMachine(m) =>
       \A i \in DOMAIN parts :
         IF parts[i].primary # m THEN parts'[i].primary = parts[i].primary
         ELSE parts[i].replicas # <<>> =>
                parts'[i].primary = Head(parts[i].replicas) /\ epoch' > epoch]_vars

\* Through every change of machines, factor and table the placement is
\* current: each partition runs on a machine of the fleet, on as many
\* others as the factor and the fleet allow, all different, and its address
\* is its primary's; and no partition lists a replica outside the fleet.
Placed ==
  \A i \in DOMAIN parts :
    LET p == parts[i]
    IN /\ Range(p.replicas) \subseteq machines
       /\ machines # {} /\ replicas > 0 =>
            /\ p.primary \in machines \ Range(p.replicas)
            /\ Cardinality(Range(p.replicas)) = Min({replicas, Cardinality(machines) - 1})
            /\ p.primary \in Addressed => p.address = p.primary

\* The loop does not flap and does not overshoot: two resizes are at least
\* a cooldown and a full breach window apart, and a resize that no operator
\* raced grows to at most MaxPartitions or shrinks to at least MinPartitions.
ScalesPaced ==
  [][since' = 0 /\ since # 0 =>
       /\ since >= Cooldown + Breaches
       /\ ~raced => \/ Len(parts') = Len(parts) + 1 /\ Len(parts') <= MaxPartitions
                    \/ Len(parts') = Len(parts) - 1 /\ Len(parts') >= MinPartitions]_vars
=============================================================================
