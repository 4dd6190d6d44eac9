----------------------------- MODULE StoreProofs -----------------------------
(***************************************************************************)
(* The store, proved for every instance of module Store: what a write      *)
(* acknowledged is read while the store is up, and what it promised is     *)
(* read after a crash at any point, inside a write, a flush or a           *)
(* checkpoint; and what concurrent callers make resident is counted.       *)
(***************************************************************************)
EXTENDS Store, FiniteSetTheorems, TLAPS

\* What the proofs assume of the way the store is used: checkpoints are taken
\* between updates, a key has one writer and any number of readers, a crash leaves
\* no partial frame behind, and record bodies are dropped only in a store that takes
\* no checkpoint.
Usage ==
  /\ Paused /\ ~Torn
  /\ \A c, d \in Clients : c # d => MayWrite[c] \cap MayWrite[d] = {}
  /\ Budget = 0 \/ MaxGen = 0

-----------------------------------------------------------------------------
(* What a store that opens generation g reads. *)

\* The body key k has in the snapshot of generation g.
Base(g, k) == IF g = 0 THEN 0 ELSE snaps[g].recs[k]

\* The body of key k after the first n frames of log fs, b the one before them.
Mine(fs, n, k) == {i \in 1..n : fs[i].key = k}
Body(f) == IF f.kind = "del" THEN 0 ELSE f.val
Upto(b, fs, n, k) ==
  IF Mine(fs, n, k) = {} THEN b ELSE Body(fs[Max(Mine(fs, n, k))])

\* With a budget, what the entry of k leads to in the log; without one, its body.
At(k) == IF Budget > 0 THEN Located(k) ELSE Read(k)

\* The keys caller c reads or writes.
Touches(c) == MayWrite[c] \cup MayRead[c]

-----------------------------------------------------------------------------
(* The inductive invariant. *)

Frames == [kind : {"put", "del", "intern"}, key : Keys \cup {Nil}, lsn : Nat, val : Nat]
Writes == [key : Keys, kind : {"put", "del"}]
Entries == [off : Nat, lsn : Nat, rec : Nat, tomb : BOOLEAN]
Points == {"idle", "commit", "repoint", "track", "queue", "evict", "read", "install", "intern"}
Call(X) ==
  /\ DOMAIN X = {"pc", "kind", "key", "off", "lsn", "val", "floor"}
  /\ X.pc \in Points /\ X.key \in Keys \cup {Nil} /\ X.off \in Nat
  /\ X.lsn \in Nat
  /\ X.pc = "intern" => X.val \in Nat
Stages == {"idle", "urls", "strings", "cut", "snap", "super", "swap", "reclaim"}

Shape ==
  /\ gen \in 0..MaxGen /\ nextLSN \in Nat
  /\ logs \in [1..MaxGen + 1 -> Seq(Frames)]
  /\ stable \in 0..Len(Log) /\ synced \in 0..Len(Log)
  /\ issued \in Seq(Writes)
  /\ index \in [Keys -> Entries]
  /\ op = [c \in Clients |-> op[c]] /\ \A c \in Clients : Call(op[c])
  /\ acked \in [Keys -> Nat] /\ promised \in [Keys -> Nat]
  /\ super \in [0..1 -> [gen : Nat, frontier : Nat]]
  /\ evictQ \in Seq(URLKeys)

\* The strings of a snapshot and of a checkpoint have no part in the argument.
SnapShape ==
  /\ DOMAIN snaps = 1..MaxGen
  /\ \A g \in 1..MaxGen : snaps[g].recs \in [Keys -> Nat]
  /\ DOMAIN ck = {"pc", "todo", "recs", "strs", "frontier"}
  /\ ck.pc \in Stages /\ ck.todo \subseteq URLKeys /\ ck.recs \in [Keys -> Nat]
  /\ ck.frontier \in Nat

\* A frame of a key is the write its value numbers, and frames are in issue order.
Framed ==
  \A m \in 1..MaxGen + 1 : \A i \in 1..Len(logs[m]) :
    logs[m][i].key \in Keys =>
      /\ logs[m][i].val \in 1..Len(issued)
      /\ issued[logs[m][i].val].key = logs[m][i].key
      /\ issued[logs[m][i].val].kind = logs[m][i].kind
Ordered ==
  \A m \in 1..MaxGen + 1 : \A i, j \in 1..Len(logs[m]) :
    i < j /\ logs[m][i].key \in Keys /\ logs[m][j].key \in Keys =>
      logs[m][i].val < logs[m][j].val
NextLogEmpty == \A m \in 1..MaxGen + 1 : m > gen + 1 => logs[m] = <<>>

\* The slot of the generation in use, and the other one, which is older except
\* between the superblock write and the swap.
SuperAt ==
  /\ super[SlotOf(gen)].gen = gen
  /\ IF ck.pc = "swap" THEN super[SlotOf(gen + 1)].gen = gen + 1
     ELSE super[SlotOf(gen + 1)].gen <= gen

\* The snapshot in use, and the one a checkpoint has written, are complete.
SnapAt ==
  /\ gen > 0 => snaps[gen].ok
  /\ ck.pc \in {"super", "swap"} => snaps[gen + 1].ok /\ snaps[gen + 1].recs = ck.recs
  /\ ck.pc \in Stages \ {"idle", "reclaim"} => gen < MaxGen
  /\ ck.pc = "reclaim" => gen > 0 /\ Log = <<>> /\ snaps[gen].recs = ck.recs

\* What the checkpoint has copied is what the store reads.
Scanned ==
  /\ ck.pc # "idle" => \A c \in Clients : op[c].pc = "idle"
  /\ ck.pc = "urls" => \A k \in URLKeys \ ck.todo : ck.recs[k] = At(k)
  /\ ck.pc \notin {"idle", "urls"} => \A k \in Keys : ck.recs[k] = At(k)

\* A write under way is in the log, is the newest of its key, and is on the device
\* as soon as log.synced covers it.
Writing(c) == op[c].pc \in {"commit", "repoint"}
Pending ==
  \A c \in Clients : Writing(c) =>
    /\ op[c].off \in 1..Len(Log) /\ op[c].kind \in {"put", "del"}
    /\ Log[op[c].off].key = op[c].key /\ Log[op[c].off].kind = op[c].kind
    /\ Log[op[c].off].val = op[c].val
    /\ \A i \in 1..Len(Log) : Log[i].key = op[c].key => i <= op[c].off
    /\ acked[op[c].key] < op[c].val
    /\ op[c].off <= synced => op[c].off <= stable
    /\ Full /\ op[c].pc = "repoint" => op[c].off <= stable
Owned ==
  \A c \in Clients :
    /\ op[c].pc \notin {"idle", "intern"} => op[c].key \in Touches(c)
    /\ Writing(c) => op[c].key \in MayWrite[c]
    /\ op[c].pc \in {"track", "queue", "evict"} => Budget > 0 /\ op[c].key \in URLKeys

\* A spilled entry points at its frame; without a budget nothing is spilled.  The
\* body of a key that one caller alone uses is its frame's.
Entered ==
  \A k \in Keys :
    /\ index[k].tomb => index[k].rec = 0
    /\ ~index[k].tomb /\ index[k].rec = 0 => Budget > 0 /\ k \in URLKeys
    /\ ~index[k].tomb /\ Budget > 0 =>
         /\ index[k].off \in 1..Len(Log)
         /\ Log[index[k].off].kind = "put" /\ Log[index[k].off].key = k
         /\ Private(k) /\ index[k].rec # 0 => index[k].rec = Log[index[k].off].val

\* A spilled read holds the offset of a frame of its key that was current when it
\* began; it still is if the key has no other user.
Reading ==
  \A c \in Clients : op[c].pc \in {"read", "install"} =>
    /\ Budget > 0 /\ op[c].key \in URLKeys
    /\ op[c].off \in 1..Len(Log) /\ Fits(op[c].key, op[c].floor, Log[op[c].off].val)
    /\ Private(op[c].key) => ~index[op[c].key].tomb /\ index[op[c].key].off = op[c].off
    /\ op[c].pc = "install" => op[c].val = Log[op[c].off].val

\* What was acknowledged is read now, and after any crash what was promised is.
Promise ==
  /\ \A k \in Keys : promised[k] <= acked[k] /\ acked[k] <= Len(issued)
  /\ Full => promised = acked
LiveFit == \A k \in Keys : Fits(k, acked[k], At(k))
LogFit ==
  \A k \in Keys, n \in stable..Len(Log) :
    /\ Fits(k, promised[k], Upto(Base(gen, k), Log, n, k))
    /\ n = Len(Log) \/ synced = Len(Log) => Fits(k, acked[k], Upto(Base(gen, k), Log, n, k))

\* When no flush fails, a key no write is under way on reads as the log says.
Logged ==
  "sync" \notin Errors => \A k \in Keys :
    (\A c \in Clients : Writing(c) => op[c].key # k) => At(k) = Upto(Base(gen, k), Log, Len(Log), k)

StoreInv ==
  /\ Shape /\ SnapShape /\ Framed /\ Ordered /\ NextLogEmpty /\ SuperAt /\ SnapAt
  /\ Scanned /\ Pending /\ Owned /\ Entered /\ Reading /\ Promise /\ LiveFit /\ LogFit /\ Logged

-----------------------------------------------------------------------------
(* The last frame of a key. *)

\* A finite nonempty set of naturals has a greatest member: consider a smallest
\* set that has none.
LEMMA GreatestNat ==
  ASSUME NEW T \in SUBSET Nat, IsFiniteSet(T), T # {}
  PROVE  Max(T) \in T /\ \A y \in T : y <= Max(T)
<1> DEFINE Bad == {S \in FiniteSubsetsOf(Nat) : S # {} /\ ~ \E x \in S : \A y \in S : x >= y}
<1>1. Bad = {}
  <2> SUFFICES ASSUME Bad # {} PROVE FALSE
    OBVIOUS
  <2>1. Bad \subseteq FiniteSubsetsOf(Nat)
    OBVIOUS
  <2>2. PICK S \in Bad : \A R \in Bad : ~ (<<R, S>> \in StrictSubsetOrdering(Nat))
    BY <2>1, FS_StrictSubsetOrderingWellFounded, WFMin
  <2>3. S \in SUBSET Nat /\ IsFiniteSet(S) /\ S # {} /\ ~ \E x \in S : \A y \in S : x >= y
    BY DEF FiniteSubsetsOf
  <2>4. PICK x \in S : TRUE
    BY <2>3
  <2> DEFINE R == S \ {x}
  <2>5. R \in SUBSET Nat /\ IsFiniteSet(R) /\ <<R, S>> \in StrictSubsetOrdering(Nat)
    BY <2>3, <2>4, FS_RemoveElement DEF StrictSubsetOrdering
  <2>6. R = {} \/ \E m \in R : \A y \in R : m >= y
    BY <2>2, <2>5 DEF FiniteSubsetsOf
  <2>7. CASE R = {}
    BY <2>3, <2>4, <2>7
  <2>8. CASE \E m \in R : \A y \in R : m >= y
    BY <2>3, <2>4, <2>8
  <2> QED BY <2>6, <2>7, <2>8
<1>2. T \in FiniteSubsetsOf(Nat)
  BY DEF FiniteSubsetsOf
<1>3. \E x \in T : \A y \in T : x >= y
  BY <1>1, <1>2
<1>4. Max(T) \in T /\ \A y \in T : Max(T) >= y
  BY <1>3 DEF Max
<1> QED BY <1>4

LEMMA LastMine ==
  ASSUME NEW fs, NEW n \in Nat, NEW k, Mine(fs, n, k) # {}
  PROVE  /\ Max(Mine(fs, n, k)) \in 1..n
         /\ fs[Max(Mine(fs, n, k))].key = k
         /\ \A i \in 1..n : fs[i].key = k => i <= Max(Mine(fs, n, k))
<1>1. Mine(fs, n, k) \in SUBSET Nat /\ Mine(fs, n, k) \subseteq 1..n
  BY DEF Mine
<1>2. IsFiniteSet(Mine(fs, n, k))
  <2>1. IsFiniteSet(1..n)
    BY FS_Interval
  <2> QED BY <1>1, <2>1, FS_Subset
<1>3. /\ Max(Mine(fs, n, k)) \in Mine(fs, n, k)
      /\ \A y \in Mine(fs, n, k) : y <= Max(Mine(fs, n, k))
  BY <1>1, <1>2, GreatestNat
<1> QED BY <1>1, <1>3 DEF Mine

\* Frames beyond the first n do not matter.
LEMMA UptoPrefix ==
  ASSUME NEW b, NEW fs, NEW gs, NEW n \in Nat, NEW k, \A i \in 1..n : gs[i] = fs[i]
  PROVE  Upto(b, gs, n, k) = Upto(b, fs, n, k)
<1>1. Mine(gs, n, k) = Mine(fs, n, k)
  BY DEF Mine
<1>2. CASE Mine(fs, n, k) = {}
  BY <1>1, <1>2 DEF Upto
<1>3. CASE Mine(fs, n, k) # {}
  BY <1>1, <1>3, LastMine DEF Upto
<1> QED BY <1>2, <1>3

LEMMA UptoNone ==
  ASSUME NEW b, NEW fs, NEW k
  PROVE  Upto(b, fs, 0, k) = b
<1>1. Mine(fs, 0, k) = {}
  BY DEF Mine
<1> QED BY <1>1 DEF Upto

\* One frame more: of another key, or of this one.
LEMMA UptoNext ==
  ASSUME NEW b, NEW fs, NEW n \in Nat, NEW k
  PROVE  /\ fs[n + 1].key # k => Upto(b, fs, n + 1, k) = Upto(b, fs, n, k)
         /\ fs[n + 1].key = k => Upto(b, fs, n + 1, k) = Body(fs[n + 1])
<1>1. 1..(n + 1) = 1..n \cup {n + 1}
  OBVIOUS
<1>2. ASSUME fs[n + 1].key # k PROVE Upto(b, fs, n + 1, k) = Upto(b, fs, n, k)
  <2>1. Mine(fs, n + 1, k) = Mine(fs, n, k)
    BY <1>1, <1>2 DEF Mine
  <2> QED BY <2>1 DEF Upto
<1>3. ASSUME fs[n + 1].key = k PROVE Upto(b, fs, n + 1, k) = Body(fs[n + 1])
  <2>1. n + 1 \in Mine(fs, n + 1, k) /\ n + 1 \in Nat
    BY <1>3 DEF Mine
  <2>2. Max(Mine(fs, n + 1, k)) \in 1..(n + 1) /\ n + 1 <= Max(Mine(fs, n + 1, k))
    BY <1>3, <2>1, LastMine
  <2>3. Max(Mine(fs, n + 1, k)) = n + 1
    BY <2>2
  <2> QED BY <2>1, <2>3 DEF Upto
<1> QED BY <1>2, <1>3

\* What Open builds from n intact frames.
LEMMA RecoveredIs ==
  ASSUME NEW s, NEW n \in Nat, NEW fs, DOMAIN fs = 1..n, NEW k \in Keys
  PROVE  /\ Recovered(s, fs)[k].rec = Upto(Base(s.gen, k), fs, n, k)
         /\ Recovered(s, fs)[k].tomb <=>
              IF Mine(fs, n, k) = {} THEN Base(s.gen, k) = 0
              ELSE fs[Max(Mine(fs, n, k))].kind = "del"
         /\ Mine(fs, n, k) # {} => Recovered(s, fs)[k].off = Max(Mine(fs, n, k))
<1> DEFINE mine == {i \in DOMAIN fs : fs[i].key = k}
           rec == IF s.gen = 0 THEN 0 ELSE snaps[s.gen].recs[k]
           gone == fs[Max(mine)].kind = "del"
           E == IF mine # {}
                THEN [off |-> Max(mine), lsn |-> fs[Max(mine)].lsn,
                      rec |-> IF gone THEN 0 ELSE fs[Max(mine)].val, tomb |-> gone]
                ELSE IF rec # 0 THEN [off |-> 1, lsn |-> 0, rec |-> rec, tomb |-> FALSE]
                ELSE Absent
<1>1. mine = Mine(fs, n, k)
  BY DEF Mine
<1>2. rec = Base(s.gen, k)
  BY DEF Base
<1>3. Recovered(s, fs)[k] = E
  BY DEF Recovered, Winner
<1> HIDE DEF mine, rec
<1>4. CASE mine # {}
  <2>1. E = [off |-> Max(mine), lsn |-> fs[Max(mine)].lsn,
             rec |-> IF gone THEN 0 ELSE fs[Max(mine)].val, tomb |-> gone]
    BY <1>4
  <2>2. PICK t \in BOOLEAN : t = gone
    OBVIOUS
  <2>3. E = [off |-> Max(mine), lsn |-> fs[Max(mine)].lsn,
             rec |-> IF t THEN 0 ELSE fs[Max(mine)].val, tomb |-> t]
    BY <2>1, <2>2
  <2>4. Upto(Base(s.gen, k), fs, n, k) = IF t THEN 0 ELSE fs[Max(mine)].val
    BY <1>1, <1>4, <2>2 DEF Upto, Body
  <2> HIDE DEF E
  <2>5. /\ Recovered(s, fs)[k].rec = Upto(Base(s.gen, k), fs, n, k)
        /\ Recovered(s, fs)[k].off = Max(mine) /\ Recovered(s, fs)[k].tomb = t
    BY <1>3, <2>3, <2>4
  <2> QED BY <1>1, <1>4, <2>2, <2>5
<1>5. CASE mine = {}
  <2>1. E = IF rec # 0 THEN [off |-> 1, lsn |-> 0, rec |-> rec, tomb |-> FALSE] ELSE Absent
    BY <1>5
  <2> HIDE DEF E
  <2> QED BY <1>1, <1>2, <1>3, <1>5, <2>1 DEF Upto, Absent
<1> QED BY <1>4, <1>5

-----------------------------------------------------------------------------
(* Fits, Read and the superblock. *)

LEMMA FitsLess ==
  ASSUME NEW k, NEW a \in Nat, NEW b \in Nat, a <= b, NEW v, Fits(k, b, v)
  PROVE  Fits(k, a, v)
<1>1. \A w \in 1..Len(issued) : w >= b => w >= a
  OBVIOUS
<1> QED BY <1>1 DEF Fits

\* The current log, and its place among the logs.
LEMMA LogFacts ==
  ASSUME Shape
  PROVE  /\ gen \in Nat /\ MaxGen \in Nat /\ gen <= MaxGen /\ gen + 1 \in 1..MaxGen + 1
         /\ Log \in Seq(Frames) /\ Len(Log) \in Nat
         /\ stable \in Nat /\ stable <= Len(Log) /\ synced \in Nat /\ synced <= Len(Log)
<1>1. MaxGen \in Nat
  BY StoreBoundAssumption
<1>2. gen \in Nat /\ gen <= MaxGen /\ gen + 1 \in 1..MaxGen + 1
  BY <1>1 DEF Shape
<1>3. Log \in Seq(Frames)
  BY <1>2 DEF Shape, Log
<1>4. Len(Log) \in Nat
  BY <1>3
<1> QED BY <1>1, <1>2, <1>3, <1>4 DEF Shape

\* A frame of key k among the first n is fitted by what they leave.
LEMMA UptoFits ==
  ASSUME Shape, Framed, Ordered, NEW k \in Keys, NEW n \in 0..Len(Log), NEW i \in 1..n,
         Log[i].key = k, NEW b
  PROVE  Fits(k, Log[i].val, Upto(b, Log, n, k))
<1> DEFINE m == Max(Mine(Log, n, k))
<1>1. gen + 1 \in 1..MaxGen + 1 /\ Len(Log) \in Nat /\ n \in Nat /\ i \in 1..Len(Log)
  BY LogFacts
<1>2. Mine(Log, n, k) # {}
  BY DEF Mine
<1>3. m \in 1..n /\ Log[m].key = k /\ i <= m
  BY <1>1, <1>2, LastMine
<1>4. Upto(b, Log, n, k) = Body(Log[m])
  BY <1>2 DEF Upto
<1> HIDE DEF m
<1>5. m \in 1..Len(Log)
  BY <1>1, <1>3
<1>6. /\ Log[m].val \in 1..Len(issued) /\ issued[Log[m].val].key = k
      /\ issued[Log[m].val].kind = Log[m].kind
      /\ Log[i].val \in 1..Len(issued)
  BY <1>1, <1>3, <1>5 DEF Framed, Log
<1>7. Log[m].val >= Log[i].val
  <2>1. CASE i = m
    BY <1>6, <2>1
  <2>2. CASE i < m
    <3>1. Log[i].val < Log[m].val
      BY <1>1, <1>3, <1>5, <2>2 DEF Ordered, Log
    <3> QED BY <1>6, <3>1
  <2> QED BY <1>1, <1>3, <2>1, <2>2
<1>8. Log[m].kind \in {"put", "del"}
  <2>0. issued \in Seq(Writes)
    BY DEF Shape
  <2>1. PICK w \in 1..Len(issued) : w = Log[m].val
    BY <1>6
  <2>2. issued[w] \in Writes
    BY <2>0
  <2>3. issued[w].kind \in {"put", "del"}
    BY <2>2 DEF Writes
  <2> QED BY <1>6, <2>1, <2>3
<1> QED BY <1>4, <1>6, <1>7, <1>8 DEF Fits, Body

LEMMA SlotFacts ==
  ASSUME NEW g \in Nat
  PROVE  SlotOf(g) \in 0..1 /\ SlotOf(g + 1) = 1 - SlotOf(g) /\ SlotOf(g + 1) \in 0..1
         /\ SlotOf((g + 1) + 1) = SlotOf(g)
  BY DEF SlotOf

-----------------------------------------------------------------------------
(* The steps of a caller. *)

\* What the caller of a step that is no write may be doing next.
Doing(c, X) ==
  /\ X.pc \notin {"commit", "repoint"}
  /\ X.pc \notin {"idle", "intern"} => X.key \in Touches(c)
  /\ X.pc \in {"track", "queue", "evict"} => Budget > 0 /\ X.key \in URLKeys
  /\ X.pc \in {"read", "install"} =>
       /\ Budget > 0 /\ X.key \in URLKeys
       /\ X.off \in 1..Len(Log) /\ Fits(X.key, X.floor, Log[X.off].val)
       /\ Private(X.key) => ~index[X.key].tomb /\ index[X.key].off = X.off
       /\ X.pc = "install" => X.val = Log[X.off].val

\* A step that changes what a caller does, and bodies only between the index and
\* the frame they came from.
LEMMA OpStep ==
  ASSUME StoreInv, ck.pc = "idle", NEW c \in Clients, NEW X, Call(X),
         op' = [op EXCEPT ![c] = X], Doing(c, X), Writing(c) => "sync" \in Errors,
         UNCHANGED <<logs, stable, snaps, super, gen, synced, issued, acked, promised, ck>>,
         nextLSN' \in Nat, evictQ' \in Seq(URLKeys),
         index' \in [Keys -> Entries], Entered',
         \A k \in Keys : /\ At(k)' = At(k)
                         /\ index'[k].tomb = index[k].tomb /\ index'[k].off = index[k].off
  PROVE  StoreInv'
<1>0. /\ Shape /\ SnapShape /\ Framed /\ Ordered /\ NextLogEmpty /\ SuperAt /\ SnapAt
      /\ Scanned /\ Pending /\ Owned /\ Entered /\ Reading /\ Promise /\ LiveFit /\ LogFit
      /\ Logged
  BY DEF StoreInv
<1>1. Log' = Log
  BY DEF Log
<1>2. op = [d \in Clients |-> op[d]] /\ \A d \in Clients : Call(op[d])
  BY <1>0 DEF Shape
<1>3. op'[c] = X /\ \A d \in Clients : d # c => op'[d] = op[d]
  BY <1>2
<1>4. op' = [d \in Clients |-> op'[d]] /\ \A d \in Clients : Call(op[d])'
  <2>1. op' = [d \in Clients |-> op'[d]]
    BY <1>2
  <2>2. \A d \in Clients : Call(op'[d])
    BY <1>2, <1>3
  <2> QED BY <2>1, <2>2 DEF Call
<1>5. Shape' /\ SnapShape'
  BY <1>0, <1>1, <1>4 DEF Shape, SnapShape
<1>6. Framed' /\ Ordered' /\ NextLogEmpty' /\ SuperAt' /\ Promise'
  BY <1>0 DEF Framed, Ordered, NextLogEmpty, SuperAt, Promise
<1>7. SnapAt' /\ Scanned'
  BY <1>0, <1>1 DEF SnapAt, Scanned, Stages
<1>8. Pending'
  <2>1. ASSUME NEW d \in Clients, Writing(d)' PROVE d # c /\ op'[d] = op[d] /\ Writing(d)
    BY <1>3, <2>1 DEF Writing, Doing
  <2> QED BY <1>0, <1>1, <2>1 DEF Pending
<1>9. Owned'
  BY <1>0, <1>3 DEF Owned, Doing, Writing, Touches
<1>10. Reading'
  <2>1. Keys = URLKeys \cup HostKeys
    BY DEF Keys
  <2>2. ASSUME NEW d \in Clients, op'[d].pc \in {"read", "install"}
        PROVE  /\ Budget > 0 /\ op'[d].key \in URLKeys
               /\ op'[d].off \in 1..Len(Log)
               /\ Fits(op'[d].key, op'[d].floor, Log[op'[d].off].val)
               /\ Private(op'[d].key) =>
                    ~index[op'[d].key].tomb /\ index[op'[d].key].off = op'[d].off
               /\ op'[d].pc = "install" => op'[d].val = Log[op'[d].off].val
    <3>1. CASE d = c
      BY <1>3, <2>2, <3>1 DEF Doing
    <3>2. CASE d # c
      BY <1>0, <1>3, <2>2, <3>2 DEF Reading
    <3> QED BY <3>1, <3>2
  <2>3. ASSUME NEW d \in Clients, op'[d].pc \in {"read", "install"}
        PROVE  Private(op'[d].key) =>
                 ~index'[op'[d].key].tomb /\ index'[op'[d].key].off = op'[d].off
    BY <2>1, <2>2, <2>3
  <2>4. \A k, f, v : Fits(k, f, v)' <=> Fits(k, f, v)
    BY DEF Fits
  <2>5. \A k : Private(k)' <=> Private(k)
    BY DEF Private
  <2> QED BY <1>1, <2>2, <2>3, <2>4, <2>5 DEF Reading
<1>11. \A k, f, v : Fits(k, f, v)' <=> Fits(k, f, v)
  BY DEF Fits
<1>12. LiveFit' /\ LogFit'
  <2>1. \A k \in Keys : Base(gen, k)' = Base(gen, k)
    BY DEF Base
  <2>2. LiveFit'
    BY <1>0, <1>11 DEF LiveFit
  <2>3. LogFit'
    BY <1>0, <1>1, <1>11, <2>1 DEF LogFit
  <2> QED BY <2>2, <2>3
<1>13. Logged'
  <2>1. \A k \in Keys : Base(gen, k)' = Base(gen, k)
    BY DEF Base
  <2>2. ASSUME "sync" \notin Errors, NEW d \in Clients, Writing(d)
        PROVE  op'[d] = op[d] /\ Writing(d)'
    BY <1>3, <2>2 DEF Writing
  <2>3. ASSUME "sync" \notin Errors, NEW k \in Keys,
               \A d \in Clients : Writing(d)' => op'[d].key # k
        PROVE  At(k)' = Upto(Base(gen, k), Log, Len(Log), k)'
    <3>1. \A d \in Clients : Writing(d) => op[d].key # k
      BY <2>2, <2>3
    <3> QED BY <1>0, <1>1, <2>1, <2>3, <3>1 DEF Logged
  <2> QED BY <2>3 DEF Logged
<1> QED
  BY <1>5, <1>6, <1>7, <1>8, <1>9, <1>10, <1>12, <1>13 DEF StoreInv

LEMMA IdleType == Call(Idle) /\ Idle.pc = "idle"
  BY DEF Idle, Call, Points

LEMMA CallMoves ==
  ASSUME NEW X, Call(X), NEW p \in Points, p # "intern"
  PROVE  /\ Call([X EXCEPT !.pc = p])
         /\ [X EXCEPT !.pc = p].pc = p /\ [X EXCEPT !.pc = p].key = X.key
         /\ [X EXCEPT !.pc = p].off = X.off /\ [X EXCEPT !.pc = p].val = X.val
         /\ [X EXCEPT !.pc = p].kind = X.kind /\ [X EXCEPT !.pc = p].floor = X.floor
  BY DEF Call

\* A caller inside a call keeps checkpoints out, and the other way round.
LEMMA NoCheckpointNow ==
  ASSUME Usage, StoreInv, NEW c \in Clients, op[c].pc # "idle" \/ Ready(c)
  PROVE  ck.pc = "idle"
  BY DEF Usage, StoreInv, Scanned, Ready

\* The index and the log being as they were, so is every read.
LEMMA ReadSame ==
  ASSUME UNCHANGED <<index, logs, gen>>
  PROVE  \A k : At(k)' = At(k)
  BY DEF At, Located, Read, ReadAt, Log

LEMMA OpOnly ==
  ASSUME Usage, StoreInv, NEW c \in Clients, op[c].pc # "idle" \/ Ready(c), NEW X, Call(X),
         op' = [op EXCEPT ![c] = X], Doing(c, X), Writing(c) => "sync" \in Errors,
         UNCHANGED <<logs, stable, snaps, super, gen, synced, issued, acked, promised, ck,
                     index>>,
         nextLSN' \in Nat, evictQ' \in Seq(URLKeys)
  PROVE  StoreInv'
<1>1. index' \in [Keys -> Entries] /\ Entered'
  BY DEF StoreInv, Shape, Entered, Log
<1>2. \A k \in Keys : /\ At(k)' = At(k)
                      /\ index'[k].tomb = index[k].tomb /\ index'[k].off = index[k].off
  BY ReadSame
<1> QED BY <1>1, <1>2, NoCheckpointNow, OpStep

\* A call that returns.
LEMMA ReturnStep ==
  ASSUME Usage, StoreInv, NEW c \in Clients, op[c].pc # "idle",
         op' = [op EXCEPT ![c] = Idle], Writing(c) => "sync" \in Errors,
         UNCHANGED <<logs, stable, snaps, super, gen, synced, issued, acked, promised, ck,
                     index>>,
         nextLSN' \in Nat, evictQ' \in Seq(URLKeys)
  PROVE  StoreInv'
<1>1. Doing(c, Idle)
  BY IdleType DEF Doing
<1> QED BY <1>1, IdleType, OpOnly

LEMMA EasySteps ==
  ASSUME Usage, StoreInv, NEW c \in Clients,
         \/ WriteFails(c) \/ CommitFails(c) \/ Track(c) \/ Enqueue(c) \/ EvictDone(c)
         \/ Intern(c) \/ InternFails(c),
         Len(refs') \in Nat
  PROVE  StoreInv'
<1>0. /\ op = [d \in Clients |-> op[d]] /\ Call(op[c])
      /\ nextLSN \in Nat /\ evictQ \in Seq(URLKeys)
  BY DEF StoreInv, Shape
<1>1. CASE WriteFails(c)
  <2>1. UNCHANGED <<logs, stable, snaps, super, gen, synced, issued, acked, promised, ck,
                    index, evictQ, op>> /\ nextLSN' \in Nat
    BY <1>0, <1>1 DEF WriteFails, disk, pool, history
  <2>2. Log' = Log /\ \A k : At(k)' = At(k)
    BY <2>1, ReadSame DEF Log
  <2>3. \A k : Base(gen, k)' = Base(gen, k)
    BY <2>1 DEF Base
  <2>4. \A k, f, v : Fits(k, f, v)' <=> Fits(k, f, v)
    BY <2>1 DEF Fits
  <2>5. Shape' /\ SnapShape' /\ Framed' /\ Ordered' /\ NextLogEmpty' /\ SuperAt' /\ SnapAt'
    BY <2>1, <2>2 DEF StoreInv, Shape, SnapShape, Framed, Ordered, NextLogEmpty, SuperAt, SnapAt
  <2>6. Scanned' /\ Pending' /\ Owned' /\ Entered' /\ Reading' /\ Promise'
    BY <2>1, <2>2, <2>4 DEF StoreInv, Scanned, Pending, Writing, Owned, Entered, Reading, Promise, Private
  <2>7. LiveFit' /\ LogFit' /\ Logged'
    BY <2>1, <2>2, <2>3, <2>4 DEF StoreInv, LiveFit, LogFit, Logged, Writing
  <2> QED BY <2>5, <2>6, <2>7 DEF StoreInv
<1>2. CASE CommitFails(c)
  <2>1. "sync" \in Errors /\ op[c].pc # "idle" /\ op' = [op EXCEPT ![c] = Idle]
    BY <1>2 DEF CommitFails
  <2>2. UNCHANGED <<logs, stable, snaps, super, gen, synced, issued, acked, promised, ck,
                    index, nextLSN, evictQ>>
    BY <1>2 DEF CommitFails, disk, memory, pool, history
  <2> QED BY <1>0, <2>1, <2>2, ReturnStep
<1>3. CASE EvictDone(c)
  <2>1. op[c].pc = "evict" /\ op' = [op EXCEPT ![c] = Idle]
    BY <1>3 DEF EvictDone
  <2>2. UNCHANGED <<logs, stable, snaps, super, gen, synced, issued, acked, promised, ck,
                    index, nextLSN, evictQ>>
    BY <1>3 DEF EvictDone, disk, memory, pool, history
  <2> QED BY <1>0, <2>1, <2>2, ReturnStep DEF Writing
<1>4. CASE InternFails(c)
  <2>1. op[c].pc = "intern" /\ op' = [op EXCEPT ![c] = Idle] /\ nextLSN' \in Nat
    BY <1>0, <1>4 DEF InternFails
  <2>2. UNCHANGED <<logs, stable, snaps, super, gen, synced, issued, acked, promised, ck,
                    index, evictQ>>
    BY <1>4 DEF InternFails, disk, memory, pool, history
  <2> QED BY <1>0, <2>1, <2>2, ReturnStep DEF Writing
<1>5. CASE Track(c)
  <2> DEFINE X == [op[c] EXCEPT !.pc = "queue"]
  <2>1. op[c].pc = "track" /\ op' = [op EXCEPT ![c] = X]
    BY <1>0, <1>5 DEF Track
  <2>2. UNCHANGED <<logs, stable, snaps, super, gen, synced, issued, acked, promised, ck,
                    index, nextLSN, evictQ>>
    BY <1>5 DEF Track, disk, memory, history
  <2>3. Call(X) /\ X.pc = "queue" /\ X.key = op[c].key
    BY <1>0, CallMoves DEF Points
  <2> HIDE DEF X
  <2>4. Doing(c, X)
    BY <2>1, <2>3 DEF StoreInv, Owned, Doing
  <2> QED BY <1>0, <2>1, <2>2, <2>3, <2>4, OpOnly DEF Writing
<1>6. CASE Enqueue(c)
  <2> DEFINE X == [op[c] EXCEPT !.pc = "evict"]
  <2>1. op[c].pc = "queue" /\ op' = [op EXCEPT ![c] = X] /\ evictQ' = Append(evictQ, op[c].key)
    BY <1>0, <1>6 DEF Enqueue
  <2>2. UNCHANGED <<logs, stable, snaps, super, gen, synced, issued, acked, promised, ck,
                    index, nextLSN>>
    BY <1>6 DEF Enqueue, disk, memory, history
  <2>3. Call(X) /\ X.pc = "evict" /\ X.key = op[c].key
    BY <1>0, CallMoves DEF Points
  <2>4. op[c].key \in URLKeys
    BY <2>1 DEF StoreInv, Owned
  <2>5. evictQ' \in Seq(URLKeys)
    BY <1>0, <2>1, <2>4
  <2> HIDE DEF X
  <2>6. Doing(c, X)
    BY <2>1, <2>3 DEF StoreInv, Owned, Doing
  <2> QED BY <1>0, <2>1, <2>2, <2>3, <2>5, <2>6, OpOnly DEF Writing
<1>7. CASE Intern(c)
  <2> DEFINE X == [Idle EXCEPT !.pc = "intern", !.val = Len(refs')]
  <2>1. Ready(c) /\ op' = [op EXCEPT ![c] = X]
    BY <1>7 DEF Intern
  <2>2. UNCHANGED <<logs, stable, snaps, super, gen, synced, issued, acked, promised, ck,
                    index, nextLSN, evictQ>>
    BY <1>7 DEF Intern, disk, memory, pool
  <2>3. Call(X) /\ X.pc = "intern"
    <3>1. PICK v \in Nat : v = Len(refs')
      OBVIOUS
    <3>2. X = [Idle EXCEPT !.pc = "intern", !.val = v]
      BY <3>1
    <3> HIDE DEF X
    <3> QED BY <3>2 DEF Idle, Call, Points
  <2> HIDE DEF X
  <2>4. Doing(c, X)
    BY <2>3 DEF Doing
  <2> QED BY <1>0, <2>1, <2>2, <2>3, <2>4, OpOnly DEF Writing, Ready
<1> QED BY <1>1, <1>2, <1>3, <1>4, <1>5, <1>6, <1>7

\* The frame a spilled or resident entry points at.
LEMMA EntryFrame ==
  ASSUME StoreInv, Budget > 0, NEW k \in Keys, ~index[k].tomb
  PROVE  /\ ReadAt(index[k].off) = Log[index[k].off].val
         /\ At(k) = Log[index[k].off].val
         /\ Private(k) /\ index[k].rec # 0 => index[k].rec = Log[index[k].off].val
<1>1. Log \in Seq(Frames)
  BY LogFacts DEF StoreInv
<1>2. /\ index[k].off \in 1..Len(Log) /\ Log[index[k].off].kind = "put"
      /\ Private(k) /\ index[k].rec # 0 => index[k].rec = Log[index[k].off].val
  BY DEF StoreInv, Entered
<1>3. ReadAt(index[k].off) = Log[index[k].off].val
  BY <1>1, <1>2 DEF ReadAt
<1> QED BY <1>2, <1>3 DEF At, Located, Read

\* A body dropped or filled in moves no entry.
LEMMA BodyMoves ==
  ASSUME StoreInv, Budget > 0, NEW k \in URLKeys, ~index[k].tomb, NEW r \in Nat,
         Private(k) => r = 0 \/ r = Log[index[k].off].val,
         index' = [index EXCEPT ![k].rec = r], UNCHANGED <<logs, gen>>
  PROVE  /\ index' \in [Keys -> Entries] /\ Entered'
         /\ \A j \in Keys : /\ At(j)' = At(j)
                            /\ index'[j].tomb = index[j].tomb /\ index'[j].off = index[j].off
<1>0. index \in [Keys -> Entries] /\ Log' = Log /\ k \in Keys /\ Entered
  BY DEF StoreInv, Shape, Log, Keys
<1>1. /\ index'[k] \in Entries /\ index'[k].rec = r
      /\ index'[k].tomb = index[k].tomb /\ index'[k].off = index[k].off
  BY <1>0 DEF Entries
<1>2. \A j \in Keys : j # k => index'[j] = index[j]
  BY <1>0
<1>3. index' \in [Keys -> Entries]
  BY <1>0, <1>1, <1>2
<1>4. Entered'
  <2>1. ASSUME NEW j \in Keys
        PROVE  /\ index'[j].tomb => index'[j].rec = 0
               /\ ~index'[j].tomb /\ index'[j].rec = 0 => Budget > 0 /\ j \in URLKeys
               /\ ~index'[j].tomb /\ Budget > 0 =>
                    /\ index'[j].off \in 1..Len(Log)
                    /\ Log[index'[j].off].kind = "put" /\ Log[index'[j].off].key = j
                    /\ Private(j) /\ index'[j].rec # 0 =>
                         index'[j].rec = Log[index'[j].off].val
    <3>1. CASE j = k
      BY <1>0, <1>1, <3>1 DEF Entered
    <3>2. CASE j # k
      BY <1>0, <1>2, <3>2 DEF Entered
    <3> QED BY <3>1, <3>2
  <2>2. \A j : Private(j)' <=> Private(j)
    BY DEF Private
  <2> QED BY <1>0, <2>1, <2>2 DEF Entered
<1>5. ASSUME NEW j \in Keys PROVE At(j)' = At(j)
  <2>1. \A o : ReadAt(o)' = ReadAt(o)
    BY <1>0 DEF ReadAt
  <2>2. CASE j = k
    <3>1. At(k) = Log[index[k].off].val /\ ReadAt(index[k].off) = Log[index[k].off].val
      BY <1>0, EntryFrame
    <3> QED BY <1>1, <2>1, <2>2, <3>1 DEF At, Located
  <2>3. CASE j # k
    BY <1>2, <2>1, <2>3 DEF At, Located
  <2> QED BY <2>2, <2>3
<1> QED BY <1>1, <1>2, <1>3, <1>4, <1>5

LEMMA EvictStep ==
  ASSUME Usage, StoreInv, NEW c \in Clients, Evict(c)
  PROVE  StoreInv'
<1> DEFINE victim == Head(evictQ)
           drop == index[victim].rec # 0 /\ ~index[victim].tomb
<1>0. /\ op = [d \in Clients |-> op[d]] /\ Call(op[c])
      /\ nextLSN \in Nat /\ evictQ \in Seq(URLKeys) /\ evictQ # <<>> /\ op[c].pc = "evict"
  BY DEF StoreInv, Shape, Evict, OverBudget
<1>1. /\ UNCHANGED <<logs, stable, snaps, super, gen, synced, issued, acked, promised, ck, op,
                     nextLSN>>
      /\ evictQ' = Tail(evictQ)
      /\ index' = IF drop THEN [index EXCEPT ![victim].rec = 0] ELSE index
  BY DEF Evict, disk, memory, history, QueueLeft
<1>2. op' = [op EXCEPT ![c] = op[c]]
  BY <1>0, <1>1
<1>3. Doing(c, op[c]) /\ Budget > 0 /\ ~Writing(c)
  BY <1>0 DEF StoreInv, Owned, Doing, Writing
<1>4. evictQ' \in Seq(URLKeys) /\ victim \in URLKeys
  BY <1>0, <1>1
<1>5. ck.pc = "idle"
  BY <1>0, NoCheckpointNow
<1> HIDE DEF victim
<1>6. CASE drop
  <2>1. index' = [index EXCEPT ![victim].rec = 0] /\ ~index[victim].tomb
    BY <1>1, <1>6
  <2> HIDE DEF drop
  <2> QED BY <1>0, <1>1, <1>2, <1>3, <1>4, <1>5, <2>1, BodyMoves, OpStep
<1>7. CASE ~drop
  <2>1. index' = index
    BY <1>1, <1>7
  <2> QED BY <1>0, <1>1, <1>2, <1>3, <1>4, <2>1, OpOnly
<1> QED BY <1>6, <1>7

LEMMA LookupStep ==
  ASSUME Usage, StoreInv, NEW c \in Clients, NEW k \in Keys, Lookup(c, k)
  PROVE  StoreInv'
<1> DEFINE X == [Idle EXCEPT !.pc = "read", !.key = k, !.off = index[k].off, !.floor = acked[k]]
<1>0. nextLSN \in Nat /\ evictQ \in Seq(URLKeys) /\ index[k] \in Entries
  BY DEF StoreInv, Shape
<1>1. /\ Ready(c) /\ k \in MayRead[c] /\ k \in URLKeys /\ ~index[k].tomb /\ index[k].rec = 0
      /\ op' = [op EXCEPT ![c] = X]
      /\ UNCHANGED <<logs, stable, snaps, super, gen, synced, issued, acked, promised, ck,
                     index, nextLSN, evictQ>>
  BY DEF Lookup, disk, memory, pool, history
<1>2. index[k].off \in Nat
  BY <1>0 DEF Entries
<1>3. /\ Call(X) /\ X.pc = "read" /\ X.key = k /\ X.off = index[k].off /\ X.floor = acked[k]
  BY <1>2 DEF Idle, Call, Points
<1>4. Budget > 0
  BY <1>1 DEF StoreInv, Entered
<1> HIDE DEF X
<1>a. /\ index[k].off \in 1..Len(Log) /\ At(k) = Log[index[k].off].val
      /\ Fits(k, acked[k], At(k))
  <2>1. At(k) = Log[index[k].off].val
    BY <1>1, <1>4, EntryFrame
  <2> QED BY <1>1, <1>4, <2>1 DEF StoreInv, Entered, LiveFit
<1>b. Fits(X.key, X.floor, Log[X.off].val) /\ X.off \in 1..Len(Log)
  BY <1>3, <1>a
<1>5. Doing(c, X)
  BY <1>1, <1>3, <1>4, <1>b DEF Doing, Touches
<1> QED BY <1>0, <1>1, <1>3, <1>5, OpOnly DEF Writing, Ready

LEMMA SpillStep ==
  ASSUME Usage, StoreInv, NEW c \in Clients, Spill(c)
  PROVE  StoreInv'
<1> DEFINE v == ReadAt(op[c].off)
           X == [op[c] EXCEPT !.pc = "install", !.val = v]
<1>0. nextLSN \in Nat /\ evictQ \in Seq(URLKeys) /\ Call(op[c])
  BY DEF StoreInv, Shape
<1>1. /\ op[c].pc = "read"
      /\ op' = [op EXCEPT ![c] = IF v = 0 THEN Idle ELSE X]
      /\ UNCHANGED <<logs, stable, snaps, super, gen, synced, issued, acked, promised, ck,
                     index, nextLSN, evictQ>>
  BY <1>0 DEF Spill, disk, memory, pool, history, StoreInv, Shape
<1>2. CASE v = 0
  <2>1. op' = [op EXCEPT ![c] = Idle]
    BY <1>1, <1>2
  <2> QED BY <1>0, <1>1, <2>1, ReturnStep DEF Writing
<1>3. CASE v # 0
  <2>1. op' = [op EXCEPT ![c] = X]
    BY <1>1, <1>3
  <2>2. /\ Call(X) /\ X.pc = "install" /\ X.key = op[c].key /\ X.off = op[c].off
        /\ X.floor = op[c].floor /\ X.val = v
    <3> HIDE DEF v
    <3> QED BY <1>0 DEF Call, Points
  <2>3. v = Log[op[c].off].val
    BY <1>3 DEF ReadAt
  <2> HIDE DEF X, v
  <2>4. Doing(c, X)
    BY <1>1, <2>2, <2>3 DEF StoreInv, Owned, Reading, Doing
  <2> QED BY <1>0, <1>1, <2>1, <2>2, <2>4, OpOnly DEF Writing
<1> QED BY <1>2, <1>3

LEMMA InstallStep ==
  ASSUME Usage, StoreInv, NEW c \in Clients, Install(c)
  PROVE  StoreInv'
<1> DEFINE k == op[c].key
           fill == index[k].rec = 0 /\ ~index[k].tomb
           X == [op[c] EXCEPT !.pc = "track"]
<1>0. nextLSN \in Nat /\ evictQ \in Seq(URLKeys) /\ Call(op[c])
  BY DEF StoreInv, Shape
<1>1. /\ op[c].pc = "install"
      /\ index' = IF fill THEN [index EXCEPT ![k].rec = op[c].val] ELSE index
      /\ op' = [op EXCEPT ![c] = IF fill /\ Budget > 0 THEN X ELSE Idle]
      /\ UNCHANGED <<logs, stable, snaps, super, gen, synced, issued, acked, promised, ck,
                     nextLSN, evictQ>>
  BY <1>0 DEF Install, disk, memory, pool, history, StoreInv, Shape
<1>2. /\ Budget > 0 /\ k \in URLKeys /\ k \in Keys /\ k \in Touches(c)
      /\ op[c].off \in 1..Len(Log) /\ op[c].val = Log[op[c].off].val
      /\ Private(k) => index[k].off = op[c].off
  BY <1>1 DEF StoreInv, Reading, Owned, Keys
<1>3. op[c].val \in Nat
  <2>1. Log \in Seq(Frames) /\ op[c].off \in 1..Len(Log)
    BY <1>2, LogFacts DEF StoreInv
  <2>2. Log[op[c].off] \in Frames
    BY <2>1
  <2> QED BY <1>2, <2>2 DEF Frames
<1>4. CASE fill
  <2>1. /\ index' = [index EXCEPT ![k].rec = op[c].val] /\ op' = [op EXCEPT ![c] = X]
        /\ ~index[k].tomb
    BY <1>1, <1>2, <1>4
  <2>2. Call(X) /\ X.pc = "track" /\ X.key = k
    BY <1>0, CallMoves DEF Points
  <2> HIDE DEF X, fill, k
  <2>3. Doing(c, X)
    BY <1>2, <2>2 DEF Doing
  <2>4. ck.pc = "idle" /\ ~Writing(c)
    BY <1>1, NoCheckpointNow DEF Writing
  <2>5. PICK r \in Nat : r = op[c].val /\ (Private(k) => r = Log[index[k].off].val)
    BY <1>2, <1>3
  <2>6. index' = [index EXCEPT ![k].rec = r]
    BY <2>1, <2>5
  <2>7. /\ index' \in [Keys -> Entries] /\ Entered'
        /\ \A j \in Keys : /\ At(j)' = At(j)
                           /\ index'[j].tomb = index[j].tomb /\ index'[j].off = index[j].off
    BY <1>1, <1>2, <2>1, <2>5, <2>6, BodyMoves
  <2> QED BY <1>0, <1>1, <2>1, <2>2, <2>3, <2>4, <2>7, OpStep
<1>5. CASE ~fill
  <2>1. index' = index /\ op' = [op EXCEPT ![c] = Idle]
    BY <1>1, <1>5
  <2> QED BY <1>0, <1>1, <2>1, ReturnStep DEF Writing
<1> QED BY <1>4, <1>5

\* A caller is at a key it may use, and writes the ones that are its own.
LEMMA OwnKey ==
  ASSUME Owned, NEW c \in Clients, op[c].pc \notin {"idle", "intern"}
  PROVE  /\ op[c].key \in Touches(c) /\ op[c].key \in Keys
         /\ Writing(c) => op[c].key \in MayWrite[c]
  BY StoreKeyAssumption DEF Owned, Touches

LEMMA AppendFacts ==
  ASSUME NEW S, NEW q \in Seq(S), NEW e \in S
  PROVE  /\ Append(q, e) \in Seq(S) /\ Len(Append(q, e)) = Len(q) + 1
         /\ Append(q, e)[Len(q) + 1] = e /\ \A i \in 1..Len(q) : Append(q, e)[i] = q[i]
  OBVIOUS

\* One frame more in the log: the write of a key, or a string.
Appended(c, f, X) ==
  /\ logs' = [logs EXCEPT ![gen + 1] = Append(Log, f)]
  /\ op' = [op EXCEPT ![c] = X] /\ Call(X)
  /\ UNCHANGED <<stable, snaps, super, gen, synced, index, acked, promised, ck, evictQ>>
  /\ nextLSN' \in Nat
  /\ issued' \in Seq(Writes) /\ Len(issued') >= Len(issued)
  /\ \A w \in 1..Len(issued) : issued'[w] = issued[w]
  /\ f.key \in Keys =>
       /\ f.val = Len(issued') /\ f.val > Len(issued) /\ f.kind \in {"put", "del"}
       /\ issued'[f.val].key = f.key /\ issued'[f.val].kind = f.kind
  /\ \/ X.pc = "idle" /\ f.key \notin Keys
     \/ /\ X.pc = "commit" /\ X.key \in MayWrite[c] /\ X.off = Len(Log) + 1
        /\ X.key = f.key /\ X.kind = f.kind /\ X.val = f.val /\ f.key \in Keys

LEMMA AppendStep ==
  ASSUME Usage, StoreInv, ck.pc = "idle", NEW c \in Clients, ~Writing(c), NEW f \in Frames,
         NEW X, Appended(c, f, X)
  PROVE  StoreInv'
<1>a. logs' = [logs EXCEPT ![gen + 1] = Append(Log, f)]
  BY DEF Appended
<1>b. op' = [op EXCEPT ![c] = X] /\ Call(X)
  BY DEF Appended
<1>c. UNCHANGED <<stable, snaps, super, gen, synced, index, acked, promised, ck, evictQ>>
  BY DEF Appended
<1>d. /\ issued' \in Seq(Writes) /\ Len(issued') >= Len(issued) /\ nextLSN' \in Nat
      /\ \A w \in 1..Len(issued) : issued'[w] = issued[w]
  BY DEF Appended
<1>e. f.key \in Keys =>
        /\ f.val = Len(issued') /\ f.val > Len(issued) /\ f.kind \in {"put", "del"}
        /\ issued'[f.val].key = f.key /\ issued'[f.val].kind = f.kind
  BY DEF Appended
<1>f. \/ X.pc = "idle" /\ f.key \notin Keys
      \/ /\ X.pc = "commit" /\ X.key \in MayWrite[c] /\ X.off = Len(Log) + 1
         /\ X.key = f.key /\ X.kind = f.kind /\ X.val = f.val /\ f.key \in Keys
  BY DEF Appended
<1>0. /\ Shape /\ SnapShape /\ Framed /\ Ordered /\ NextLogEmpty /\ SuperAt /\ SnapAt
      /\ Scanned /\ Pending /\ Owned /\ Entered /\ Reading /\ Promise /\ LiveFit /\ LogFit
      /\ Logged
  BY DEF StoreInv
<1>1. /\ gen \in Nat /\ MaxGen \in Nat /\ gen + 1 \in 1..MaxGen + 1
      /\ Log \in Seq(Frames) /\ Len(Log) \in Nat
      /\ stable \in Nat /\ stable <= Len(Log) /\ synced \in Nat /\ synced <= Len(Log)
  BY <1>0, LogFacts
<1>2. logs \in [1..MaxGen + 1 -> Seq(Frames)] /\ Len(issued) \in Nat /\ Len(issued') \in Nat
  BY <1>d, <1>0 DEF Shape
<1>3. PICK n \in Nat : n = Len(Log)
  BY <1>1
<1>4. PICK L \in Seq(Frames) : /\ L = Append(Log, f) /\ Len(L) = n + 1 /\ L[n + 1] = f
                               /\ \A i \in 1..n : L[i] = Log[i]
  <2>1. PICK q \in Seq(Frames) : q = Log
    BY <1>1
  <2>2. /\ Append(q, f) \in Seq(Frames) /\ Len(Append(q, f)) = Len(q) + 1
        /\ Append(q, f)[Len(q) + 1] = f /\ \A i \in 1..Len(q) : Append(q, f)[i] = q[i]
    BY AppendFacts
  <2> QED BY <1>3, <2>1, <2>2
<1>5. /\ Len(L) = n + 1 /\ L[n + 1] = f /\ \A i \in 1..n : L[i] = Log[i]
  BY <1>4
<1>6. /\ logs'[gen + 1] = L /\ logs' \in [1..MaxGen + 1 -> Seq(Frames)] /\ Log' = L
      /\ \A m \in 1..MaxGen + 1 : m # gen + 1 => logs'[m] = logs[m]
  BY <1>a, <1>c, <1>1, <1>2, <1>4 DEF Log
<1>7. /\ op'[c] = X /\ \A d \in Clients : d # c => op'[d] = op[d]
      /\ op' = [d \in Clients |-> op'[d]] /\ \A d \in Clients : Call(op'[d])
  <2>1. op = [d \in Clients |-> op[d]] /\ \A d \in Clients : Call(op[d])
    BY <1>b, <1>0 DEF Shape
  <2>2. op'[c] = X /\ \A d \in Clients : d # c => op'[d] = op[d]
    BY <1>b, <2>1
  <2>3. op' = [d \in Clients |-> op'[d]]
    BY <1>b, <2>1
  <2> QED BY <1>b, <2>1, <2>2, <2>3
<1>8. Shape' /\ SnapShape'
  <2>1. \A d \in Clients : Call(op[d])'
    BY <1>c, <1>d, <1>7 DEF Call
  <2>2. stable \in 0..(n + 1) /\ synced \in 0..(n + 1)
    BY <1>c, <1>d, <1>1, <1>3
  <2>3. SnapShape'
    BY <1>c, <1>d, <1>0 DEF SnapShape
  <2> QED BY <1>c, <1>d, <1>0, <1>5, <1>6, <1>7, <2>1, <2>2, <2>3 DEF Shape
<1>9. ASSUME NEW m \in 1..MaxGen + 1, NEW i \in 1..Len(logs[m]), logs[m][i].key \in Keys
      PROVE  /\ logs[m][i].val \in 1..Len(issued) /\ logs[m][i].val \in 1..Len(issued')
             /\ issued'[logs[m][i].val].key = logs[m][i].key
             /\ issued'[logs[m][i].val].kind = logs[m][i].kind
  <2>1. PICK w \in 1..Len(issued) : w = logs[m][i].val
    BY <1>d, <1>0, <1>9 DEF Framed
  <2>2. issued[w].key = logs[m][i].key /\ issued[w].kind = logs[m][i].kind
    BY <1>d, <1>0, <1>9, <2>1 DEF Framed
  <2>3. issued'[w] = issued[w] /\ w \in 1..Len(issued')
    BY <1>d, <1>2
  <2> QED BY <1>d, <2>1, <2>2, <2>3
<1>10. ASSUME NEW i \in 1..n, Log[i].key \in Keys
       PROVE  /\ Log[i].val \in 1..Len(issued) /\ Log[i].val \in 1..Len(issued')
              /\ issued'[Log[i].val].key = Log[i].key
              /\ issued'[Log[i].val].kind = Log[i].kind
  <2>1. PICK m \in 1..MaxGen + 1 : m = gen + 1 /\ logs[m] = Log
    BY <1>1 DEF Log
  <2>2. i \in 1..Len(logs[m]) /\ logs[m][i].key \in Keys
    BY <1>3, <1>10, <2>1
  <2>3. /\ logs[m][i].val \in 1..Len(issued) /\ logs[m][i].val \in 1..Len(issued')
        /\ issued'[logs[m][i].val].key = logs[m][i].key
        /\ issued'[logs[m][i].val].kind = logs[m][i].kind
    BY <1>9, <2>2
  <2> QED BY <2>1, <2>3
<1>11. Framed'
  <2>1. ASSUME NEW m \in 1..MaxGen + 1, NEW i \in 1..Len(logs'[m]), logs'[m][i].key \in Keys
        PROVE  /\ logs'[m][i].val \in 1..Len(issued')
               /\ issued'[logs'[m][i].val].key = logs'[m][i].key
               /\ issued'[logs'[m][i].val].kind = logs'[m][i].kind
    <3>1. CASE m # gen + 1
      BY <1>6, <1>9, <2>1, <3>1
    <3>2. CASE m = gen + 1
      <4>1. i \in 1..(n + 1) /\ logs'[m][i] = L[i]
        BY <1>5, <1>6, <3>2
      <4>2. CASE i = n + 1
        <5>1. logs'[m][i] = f /\ f.key \in Keys
          BY <1>5, <2>1, <4>1, <4>2
        <5>2. f.val \in 1..Len(issued')
          BY <1>2, <1>e, <5>1
        <5> QED BY <1>e, <5>1, <5>2
      <4>3. CASE i # n + 1
        <5>1. i \in 1..n /\ logs'[m][i] = Log[i]
          BY <1>3, <1>5, <4>1, <4>3
        <5> QED BY <1>10, <2>1, <5>1
      <4> QED BY <4>2, <4>3
    <3> QED BY <3>1, <3>2
  <2> QED BY <2>1 DEF Framed
<1>12. Ordered'
  <2>1. ASSUME NEW m \in 1..MaxGen + 1, NEW i \in 1..Len(logs'[m]), NEW j \in 1..Len(logs'[m]),
               i < j, logs'[m][i].key \in Keys, logs'[m][j].key \in Keys
        PROVE  logs'[m][i].val < logs'[m][j].val
    <3>1. CASE m # gen + 1
      BY <1>0, <1>6, <2>1, <3>1 DEF Ordered
    <3>2. CASE m = gen + 1
      <4>1. i \in 1..n /\ j \in 1..(n + 1) /\ logs'[m][i] = Log[i] /\ logs'[m][j] = L[j]
        BY <1>3, <1>5, <1>6, <2>1, <3>2
      <4>2. CASE j = n + 1
        <5>1. PICK u \in 1..Len(issued) : u = logs'[m][i].val
          BY <1>10, <2>1, <4>1
        <5>2. logs'[m][j] = f /\ f.val > Len(issued) /\ f.val = Len(issued')
          BY <1>5, <1>e, <2>1, <4>1, <4>2
        <5>3. PICK w \in Nat : w = logs'[m][j].val /\ w > Len(issued)
          BY <1>2, <5>2
        <5>4. u < w
          BY <1>2, <5>3
        <5> QED BY <5>1, <5>3, <5>4
      <4>3. CASE j # n + 1
        <5>1. j \in 1..n /\ L[j] = Log[j]
          BY <1>3, <1>5, <4>1, <4>3
        <5>2. Log[i].val < Log[j].val
          BY <1>0, <1>1, <1>3, <2>1, <4>1, <5>1 DEF Ordered, Log
        <5> QED BY <4>1, <5>1, <5>2
      <4> QED BY <4>2, <4>3
    <3> QED BY <3>1, <3>2
  <2> QED BY <2>1 DEF Ordered
<1>13. NextLogEmpty' /\ SuperAt' /\ SnapAt'
  <2>1. NextLogEmpty'
    BY <1>c, <1>0, <1>1, <1>6 DEF NextLogEmpty
  <2> QED BY <1>c, <1>0, <2>1 DEF SuperAt, SnapAt, Stages
<1>14. Promise'
  <2>1. \A k \in Keys : acked[k] \in Nat
    BY <1>c, <1>d, <1>0 DEF Shape
  <2> QED BY <1>c, <1>d, <1>0, <1>2, <2>1 DEF Promise
<1>15. Entered'
  <2>1. \A i \in 1..n : i \in 1..Len(L)
    BY <1>c, <1>5
  <2> QED BY <1>c, <1>0, <1>3, <1>5, <1>6, <2>1 DEF Entered
<1>16. \A k \in Keys : At(k)' = At(k)
  <2> TAKE k \in Keys
  <2>1. CASE index[k].tomb \/ Budget = 0
    <3>1. index[k].tomb \/ index[k].rec # 0
      BY <1>0, <2>1 DEF Entered
    <3> QED BY <1>c, <2>1, <3>1 DEF At, Located, Read
  <2>2. CASE ~index[k].tomb /\ Budget > 0
    <3>1. index[k].off \in 1..n
      BY <1>c, <1>0, <1>3, <2>2 DEF Entered
    <3>2. /\ index[k].off \in DOMAIN Log /\ index[k].off \in DOMAIN L
          /\ L[index[k].off] = Log[index[k].off]
      BY <1>c, <1>1, <1>3, <1>5, <3>1
    <3> QED BY <1>c, <1>6, <2>2, <3>2 DEF At, Located, ReadAt
  <2> QED BY <2>1, <2>2, StoreBoundAssumption
<1>17. Scanned'
  BY <1>c, <1>0 DEF Scanned
<1>18. Pending'
  <2>1. ASSUME NEW d \in Clients, Writing(d)'
        PROVE  /\ op'[d].off \in 1..Len(L) /\ op'[d].kind \in {"put", "del"}
               /\ L[op'[d].off].key = op'[d].key /\ L[op'[d].off].kind = op'[d].kind
               /\ L[op'[d].off].val = op'[d].val
               /\ \A i \in 1..Len(L) : L[i].key = op'[d].key => i <= op'[d].off
               /\ acked[op'[d].key] < op'[d].val
               /\ op'[d].off <= synced => op'[d].off <= stable
               /\ Full /\ op'[d].pc = "repoint" => op'[d].off <= stable
    <3>1. CASE d = c
      <4>1. /\ op'[d] = X /\ X.pc = "commit" /\ X.off = n + 1 /\ X.key = f.key /\ X.kind = f.kind
            /\ X.val = f.val /\ f.key \in Keys
        BY <1>3, <1>7, <1>f, <2>1, <3>1 DEF Writing
      <4>2. acked[f.key] \in Nat /\ acked[f.key] <= Len(issued)
        BY <1>0, <4>1 DEF Shape, Promise
      <4>3. f.val = Len(issued') /\ f.val > Len(issued) /\ f.kind \in {"put", "del"}
        BY <1>e, <4>1
      <4>4. acked[X.key] < X.val
        <5>1. PICK a \in Nat : a = acked[f.key] /\ a <= Len(issued)
          BY <4>2
        <5> QED BY <1>2, <4>1, <4>3, <5>1
      <4>5. X.off \in 1..Len(L) /\ L[X.off] = f /\ ~(X.off <= synced)
        BY <1>1, <1>3, <1>5, <4>1
      <4>6. \A i \in 1..Len(L) : i <= X.off
        BY <1>5, <4>1
      <4> QED BY <4>1, <4>3, <4>4, <4>5, <4>6
    <3>2. CASE d # c
      <4>1. op'[d] = op[d] /\ Writing(d)
        BY <1>7, <2>1, <3>2 DEF Writing
      <4>2. op[d].off \in 1..n
        BY <1>0, <1>3, <4>1 DEF Pending
      <4>3. L[op[d].off] = Log[op[d].off] /\ op[d].off \in 1..Len(L)
        BY <1>5, <4>2
      <4>4. f.key # op[d].key
        <5>1. CASE f.key \notin Keys
          BY <1>0, <4>1, <5>1, OwnKey DEF Writing
        <5>2. CASE f.key \in Keys
          BY <1>0, <1>f, <3>2, <4>1, <5>2, OwnKey DEF Writing, Usage
        <5> QED BY <5>1, <5>2
      <4>5. ASSUME NEW i \in 1..Len(L), L[i].key = op[d].key PROVE i <= op[d].off
        <5>1. i \in 1..n /\ L[i] = Log[i]
          BY <1>5, <4>4, <4>5
        <5> QED BY <1>0, <1>3, <4>1, <4>5, <5>1 DEF Pending
      <4> QED BY <1>0, <4>1, <4>3, <4>5 DEF Pending
    <3> QED BY <3>1, <3>2
  <2> QED BY <1>6, <1>c, <2>1 DEF Pending
<1>19. Owned'
  BY <1>f, <1>0, <1>7 DEF Owned, Writing, Touches
<1>21. ASSUME NEW k, NEW a, NEW v, Fits(k, a, v) PROVE Fits(k, a, v)'
  <2>1. \A w \in 1..Len(issued) : w \in 1..Len(issued')
    BY <1>d, <1>2
  <2> QED BY <1>d, <1>21, <2>1 DEF Fits
<1>20. Reading'
  <2>1. ASSUME NEW d \in Clients, op'[d].pc \in {"read", "install"}
        PROVE  d # c /\ op'[d] = op[d]
    BY <1>7, <1>f, <2>1
  <2>2. ASSUME NEW d \in Clients, op[d].pc \in {"read", "install"}
        PROVE  L[op[d].off] = Log[op[d].off] /\ op[d].off \in 1..Len(L)
    <3>1. op[d].off \in 1..n
      BY <1>0, <1>3, <2>2 DEF Reading
    <3> QED BY <1>5, <3>1
  <2>3. ASSUME NEW d \in Clients, op'[d].pc \in {"read", "install"}
        PROVE  /\ Budget > 0 /\ op'[d].key \in URLKeys
               /\ op'[d].off \in 1..Len(L)
               /\ \E k, a, v : /\ k = op'[d].key /\ a = op'[d].floor /\ v = L[op'[d].off].val
                              /\ Fits(k, a, v)'
               /\ Private(op'[d].key) =>
                    ~index[op'[d].key].tomb /\ index[op'[d].key].off = op'[d].off
               /\ op'[d].pc = "install" => op'[d].val = L[op'[d].off].val
    <3>1. op'[d] = op[d] /\ op[d].pc \in {"read", "install"}
      BY <2>1, <2>3
    <3>2. L[op[d].off] = Log[op[d].off] /\ op[d].off \in 1..Len(L)
      BY <2>2, <3>1
    <3>3. PICK k, a, v : /\ k = op[d].key /\ a = op[d].floor /\ v = Log[op[d].off].val
                         /\ Fits(k, a, v)
      BY <1>0, <3>1 DEF Reading
    <3>4. Fits(k, a, v)'
      BY <1>21, <3>3
    <3> QED BY <1>0, <3>1, <3>2, <3>3, <3>4 DEF Reading
  <2> QED BY <1>6, <1>c, <2>3 DEF Reading, Private
<1>22. \A k \in Keys : Base(gen, k)' = Base(gen, k)
  BY <1>c DEF Base
<1>23. LiveFit'
  BY <1>c, <1>0, <1>16, <1>21 DEF LiveFit
<1>24. ASSUME NEW k \in Keys, NEW m \in 0..n, NEW b PROVE Upto(b, L, m, k) = Upto(b, Log, m, k)
  <2>1. m \in Nat /\ \A i \in 1..m : L[i] = Log[i]
    BY <1>5
  <2> QED BY <2>1, UptoPrefix
<1>25. ASSUME NEW k \in Keys, NEW b
       PROVE  /\ f.key # k => Upto(b, L, n + 1, k) = Upto(b, Log, n, k)
              /\ f.key = k => Upto(b, L, n + 1, k) = Body(f)
  <2>1. Upto(b, L, n, k) = Upto(b, Log, n, k)
    BY <1>24
  <2> QED BY <1>5, <2>1, UptoNext
<1>26. LogFit'
  <2>1. ASSUME NEW k \in Keys, NEW m \in stable..(n + 1)
        PROVE  /\ Fits(k, promised[k], Upto(Base(gen, k), L, m, k))'
               /\ m = n + 1 \/ synced = n + 1 =>
                    Fits(k, acked[k], Upto(Base(gen, k), L, m, k))'
    <3>0. PICK b : b = Base(gen, k)
      OBVIOUS
    <3>1. PICK p, a \in Nat : p = promised[k] /\ a = acked[k] /\ p <= a /\ a <= Len(issued)
                              /\ p \in Nat
      BY <1>0 DEF Shape, Promise
    <3>2. SUFFICES /\ Fits(k, p, Upto(b, L, m, k))'
                   /\ m = n + 1 \/ synced = n + 1 => Fits(k, a, Upto(b, L, m, k))'
      BY <1>22, <1>c, <3>0, <3>1
    <3>3. CASE m # n + 1
      <4>0. PICK st, sy \in Nat : st = stable /\ sy = synced /\ sy <= n /\ m \in st..(n + 1)
        BY <1>1, <1>3, <2>1
      <4>1. m \in 0..n /\ m \in stable..n /\ synced # n + 1
        BY <3>3, <4>0
      <4>2. Fits(k, p, Upto(b, Log, m, k))
        BY <1>0, <1>3, <3>0, <3>1, <4>1 DEF LogFit
      <4>3. Fits(k, p, Upto(b, L, m, k))
        BY <1>24, <4>1, <4>2
      <4>4. Fits(k, p, Upto(b, L, m, k))'
        BY <1>21, <4>3
      <4> QED BY <3>3, <4>1, <4>4
    <3>4. CASE m = n + 1 /\ f.key # k
      <4>1. n \in stable..n
        BY <1>1, <1>3
      <4>2. Fits(k, p, Upto(b, Log, n, k)) /\ Fits(k, a, Upto(b, Log, n, k))
        BY <1>0, <1>3, <3>0, <3>1, <4>1 DEF LogFit
      <4> QED BY <1>21, <1>25, <3>4, <4>2
    <3>5. CASE m = n + 1 /\ f.key = k
      <4>1. Upto(b, L, m, k) = Body(f)
        BY <1>25, <3>5
      <4>2. PICK w \in 1..Len(issued') : w = f.val /\ w > Len(issued)
        BY <1>2, <1>e, <3>5
      <4>3. issued'[w].key = k /\ issued'[w].kind = f.kind /\ f.kind \in {"put", "del"}
        BY <1>e, <3>5, <4>2
      <4>4. w >= p /\ w >= a
        BY <1>2, <3>1, <4>2
      <4>5. Fits(k, p, Body(f))' /\ Fits(k, a, Body(f))'
        BY <4>2, <4>3, <4>4 DEF Fits, Body
      <4> QED BY <4>1, <4>5
    <3> QED BY <3>3, <3>4, <3>5
  <2> QED BY <1>5, <1>6, <1>c, <2>1 DEF LogFit
<1>27. Logged'
  <2>1. ASSUME "sync" \notin Errors, NEW k \in Keys,
               \A d \in Clients : Writing(d)' => op'[d].key # k
        PROVE  At(k)' = Upto(Base(gen, k)', L, n + 1, k)
    <3>1. ASSUME NEW d \in Clients, Writing(d) PROVE op[d].key # k
      <4>1. d # c /\ op'[d] = op[d]
        BY <1>7, <3>1
      <4> QED BY <2>1, <3>1, <4>1 DEF Writing
    <3>2. f.key # k
      <4>1. CASE f.key \notin Keys
        BY <4>1
      <4>2. CASE f.key \in Keys
        <5>1. X.pc = "commit" /\ X.key = f.key
          BY <1>f, <4>2
        <5> QED BY <1>7, <2>1, <5>1 DEF Writing
      <4> QED BY <4>1, <4>2
    <3>3. At(k) = Upto(Base(gen, k), Log, n, k)
      BY <1>0, <1>3, <2>1, <3>1 DEF Logged
    <3>4. PICK b : b = Base(gen, k) /\ Base(gen, k)' = b
      BY <1>22
    <3>5. Upto(b, L, n + 1, k) = Upto(b, Log, n, k)
      BY <1>25, <3>2
    <3> QED BY <1>16, <3>3, <3>4, <3>5
  <2> QED BY <1>5, <1>6, <1>c, <2>1 DEF Logged
<1> QED
  BY <1>8, <1>11, <1>12, <1>13, <1>14, <1>15, <1>17, <1>18, <1>19, <1>20, <1>23, <1>26, <1>27
     DEF StoreInv

LEMMA WriteStep ==
  ASSUME Usage, StoreInv, NEW c \in Clients, NEW k \in Keys, NEW kind \in {"put", "del"},
         Write(c, k, kind)
  PROVE  StoreInv'
<1> DEFINE v == Len(issued')
           f == [kind |-> kind, key |-> k, lsn |-> nextLSN, val |-> v]
           X == [Idle EXCEPT !.pc = "commit", !.kind = kind, !.key = k,
                             !.off = Len(Log) + 1, !.lsn = nextLSN, !.val = v]
           W == [key |-> k, kind |-> kind]
<1>1. /\ Ready(c) /\ k \in MayWrite[c] /\ op' = [op EXCEPT ![c] = X] /\ nextLSN' = nextLSN + 1
      /\ issued' = Append(issued, W)
      /\ UNCHANGED <<stable, snaps, super, gen, synced, index, acked, promised, ck, evictQ>>
  BY DEF Write, AppendFrame, pool
<1>2. nextLSN \in Nat /\ issued \in Seq(Writes)
  BY DEF StoreInv, Shape
<1>3. Len(Log) \in Nat /\ gen + 1 \in 1..MaxGen + 1 /\ DOMAIN logs = 1..MaxGen + 1
  BY LogFacts DEF StoreInv, Shape
<1>4. W \in Writes /\ W.key = k /\ W.kind = kind
  BY DEF Writes
<1>5. /\ issued' \in Seq(Writes) /\ Len(issued') = Len(issued) + 1 /\ Len(issued) \in Nat
      /\ issued'[Len(issued) + 1] = W /\ \A w \in 1..Len(issued) : issued'[w] = issued[w]
  BY <1>1, <1>2, <1>4, AppendFacts
<1>6. v \in Nat /\ v = Len(issued) + 1
  BY <1>5
<1>7. logs' = [logs EXCEPT ![gen + 1] = Append(Log, f)]
  BY <1>3 DEF Write, AppendFrame, Log
<1> HIDE DEF v, W
<1>8. f \in Frames /\ f.kind = kind /\ f.key = k /\ f.val = v
  BY <1>2, <1>6 DEF Frames
<1>9. PICK o \in Nat : o = Len(Log) + 1
  BY <1>3
<1>10. X = [Idle EXCEPT !.pc = "commit", !.kind = kind, !.key = k,
                        !.off = o, !.lsn = nextLSN, !.val = v]
  BY <1>9
<1> HIDE DEF X, f
<1>11. /\ Call(X) /\ X.pc = "commit" /\ X.kind = kind /\ X.key = k /\ X.off = o /\ X.val = v
  BY <1>2, <1>10 DEF Idle, Call, Points
<1>12. /\ f.val = Len(issued') /\ f.val > Len(issued) /\ f.kind \in {"put", "del"}
       /\ issued'[f.val].key = f.key /\ issued'[f.val].kind = f.kind
  BY <1>4, <1>5, <1>6, <1>8 DEF v
<1>13. Len(issued') >= Len(issued) /\ nextLSN' \in Nat
  BY <1>1, <1>2, <1>5
<1>14. Appended(c, f, X)
  BY <1>1, <1>5, <1>7, <1>8, <1>9, <1>11, <1>12, <1>13 DEF Appended
<1>15. ck.pc = "idle" /\ ~Writing(c)
  BY <1>1, NoCheckpointNow DEF Writing, Ready
<1> QED BY <1>8, <1>14, <1>15, AppendStep

LEMMA InternLogStep ==
  ASSUME Usage, StoreInv, NEW c \in Clients, InternLog(c)
  PROVE  StoreInv'
<1> DEFINE f == [kind |-> "intern", key |-> Nil, lsn |-> nextLSN, val |-> op[c].val]
<1>1. /\ op[c].pc = "intern" /\ op' = [op EXCEPT ![c] = Idle] /\ nextLSN' = nextLSN + 1
      /\ UNCHANGED <<stable, snaps, super, gen, synced, index, acked, promised, ck, evictQ>>
      /\ issued' = issued
  BY DEF InternLog, AppendFrame, pool, history
<1>2. nextLSN \in Nat /\ issued \in Seq(Writes) /\ Call(op[c])
  BY DEF StoreInv, Shape
<1>3. gen + 1 \in 1..MaxGen + 1 /\ DOMAIN logs = 1..MaxGen + 1
  BY LogFacts DEF StoreInv, Shape
<1>4. logs' = [logs EXCEPT ![gen + 1] = Append(Log, f)]
  BY <1>3 DEF InternLog, AppendFrame, Log
<1>5. op[c].val \in Nat
  BY <1>1, <1>2 DEF Call
<1>6. f \in Frames /\ f.key = Nil
  BY <1>2, <1>5 DEF Frames
<1>7. Nil \notin Keys
  BY StoreKeyAssumption
<1> HIDE DEF f
<1>8. Len(issued) \in Nat /\ nextLSN' \in Nat
  BY <1>1, <1>2
<1>9. Appended(c, f, Idle)
  BY <1>1, <1>2, <1>4, <1>6, <1>7, <1>8, IdleType DEF Appended
<1>10. ck.pc = "idle" /\ ~Writing(c)
  BY <1>1, NoCheckpointNow DEF Writing
<1> QED BY <1>6, <1>9, <1>10, AppendStep

LEMMA CommitStep ==
  ASSUME Usage, StoreInv, NEW c \in Clients, Commit(c)
  PROVE  StoreInv'
<1> DEFINE X == [op[c] EXCEPT !.pc = "repoint"]
<1>0. /\ Shape /\ SnapShape /\ Framed /\ Ordered /\ NextLogEmpty /\ SuperAt /\ SnapAt
      /\ Scanned /\ Pending /\ Owned /\ Entered /\ Reading /\ Promise /\ LiveFit /\ LogFit
      /\ Logged
  BY DEF StoreInv
<1>1. /\ op[c].pc = "commit" /\ op' = [op EXCEPT ![c] = X]
      /\ UNCHANGED <<logs, snaps, super, gen, index, issued, acked, promised, ck, evictQ, nextLSN>>
      /\ IF NeedsFlush(op[c].off) THEN synced' = Len(Log) /\ stable' = Len(Log)
         ELSE synced' = synced /\ stable' = stable
  <2>1. op = [d \in Clients |-> op[d]]
    BY <1>0 DEF Shape
  <2> QED BY <2>1 DEF Commit, pool, history
<1>2. /\ Len(Log) \in Nat /\ stable \in Nat /\ stable <= Len(Log)
      /\ synced \in Nat /\ synced <= Len(Log)
  BY <1>0, LogFacts
<1>3. Log' = Log /\ (\A k : At(k)' = At(k)) /\ (\A k : Base(gen, k)' = Base(gen, k))
      /\ \A k, a, v : Fits(k, a, v)' <=> Fits(k, a, v)
  BY <1>1, ReadSame DEF Log, Base, Fits
<1>4. /\ Call(X) /\ X.pc = "repoint" /\ X.key = op[c].key /\ X.off = op[c].off
      /\ X.val = op[c].val /\ X.kind = op[c].kind
  <2>1. Call(op[c])
    BY <1>0 DEF Shape
  <2> QED BY <2>1, CallMoves DEF Points
<1> HIDE DEF X
<1>5. /\ op'[c] = X /\ \A d \in Clients : d # c => op'[d] = op[d]
      /\ op' = [d \in Clients |-> op'[d]] /\ \A d \in Clients : Call(op[d])'
  <2>1. op = [d \in Clients |-> op[d]] /\ \A d \in Clients : Call(op[d])
    BY <1>0 DEF Shape
  <2>2. op'[c] = X /\ \A d \in Clients : d # c => op'[d] = op[d]
    BY <1>1, <2>1
  <2>3. op' = [d \in Clients |-> op'[d]]
    BY <1>1, <2>1
  <2>4. \A d \in Clients : Call(op'[d])
    BY <1>4, <2>1, <2>2
  <2> QED BY <2>2, <2>3, <2>4 DEF Call
<1>6. /\ stable' \in Nat /\ stable <= stable' /\ stable' <= Len(Log)
      /\ synced' \in Nat /\ synced' <= Len(Log)
      /\ \/ synced' = Len(Log) /\ stable' = Len(Log)
         \/ synced' = synced /\ stable' = stable
  BY <1>1, <1>2
<1>7. Full => op[c].off <= stable'
  <2>0. op[c].off \in 1..Len(Log) /\ (op[c].off <= synced => op[c].off <= stable)
    BY <1>0, <1>1 DEF Pending, Writing
  <2>1. CASE NeedsFlush(op[c].off)
    BY <1>1, <1>2, <2>0, <2>1
  <2>2. CASE ~NeedsFlush(op[c].off)
    BY <1>1, <1>2, <2>0, <2>2 DEF NeedsFlush
  <2> QED BY <2>1, <2>2
<1>8. Shape' /\ SnapShape'
  <2>1. stable' \in 0..Len(Log) /\ synced' \in 0..Len(Log)
    BY <1>2, <1>6
  <2> QED BY <1>0, <1>1, <1>3, <1>5, <2>1 DEF Shape, SnapShape
<1>9. ck.pc = "idle"
  BY <1>1, NoCheckpointNow
<1>10. /\ Framed' /\ Ordered' /\ NextLogEmpty' /\ SuperAt' /\ SnapAt' /\ Scanned' /\ Entered'
       /\ Promise' /\ LiveFit'
  <2>1. Framed' /\ Ordered' /\ NextLogEmpty' /\ SuperAt'
    BY <1>0, <1>1 DEF Framed, Ordered, NextLogEmpty, SuperAt
  <2>2. SnapAt' /\ Scanned'
    BY <1>0, <1>1, <1>9 DEF SnapAt, Scanned, Stages
  <2>3. Entered' /\ Promise' /\ LiveFit'
    BY <1>0, <1>1, <1>3 DEF Entered, Promise, LiveFit
  <2> QED BY <2>1, <2>2, <2>3
<1>11. Owned' /\ Reading'
  <2>1. Owned'
    BY <1>0, <1>1, <1>4, <1>5 DEF Owned, Writing, Touches
  <2>2. ASSUME NEW d \in Clients, op'[d].pc \in {"read", "install"} PROVE op'[d] = op[d]
    BY <1>4, <1>5, <2>2
  <2> QED BY <1>0, <1>1, <1>3, <2>1, <2>2 DEF Reading
<1>12. Pending'
  <2>1. ASSUME NEW d \in Clients, Writing(d)'
        PROVE  /\ op'[d].off \in 1..Len(Log) /\ op'[d].kind \in {"put", "del"}
               /\ Log[op'[d].off].key = op'[d].key /\ Log[op'[d].off].kind = op'[d].kind
               /\ Log[op'[d].off].val = op'[d].val
               /\ \A i \in 1..Len(Log) : Log[i].key = op'[d].key => i <= op'[d].off
               /\ acked[op'[d].key] < op'[d].val
               /\ op'[d].off <= synced' => op'[d].off <= stable'
               /\ Full /\ op'[d].pc = "repoint" => op'[d].off <= stable'
    <3>1. /\ op'[d].off = op[d].off /\ op'[d].key = op[d].key /\ op'[d].kind = op[d].kind
          /\ op'[d].val = op[d].val /\ Writing(d)
          /\ d = c \/ op'[d].pc = op[d].pc
      BY <1>1, <1>4, <1>5, <2>1 DEF Writing
    <3>2. PICK o \in Nat : o = op[d].off /\ o \in 1..Len(Log)
      BY <1>0, <1>2, <3>1 DEF Pending
    <3>3. o <= synced => o <= stable
      BY <1>0, <3>1, <3>2 DEF Pending
    <3>4. o <= synced' => o <= stable'
      BY <1>2, <1>6, <3>2, <3>3
    <3>5. Full /\ op'[d].pc = "repoint" => o <= stable'
      <4>1. CASE d = c
        BY <1>7, <3>2, <4>1
      <4>2. CASE d # c
        <5>1. Full /\ op[d].pc = "repoint" => o <= stable
          BY <1>0, <3>1, <3>2 DEF Pending
        <5> QED BY <1>2, <1>6, <3>1, <3>2, <4>2, <5>1
      <4> QED BY <4>1, <4>2
    <3> QED BY <1>0, <3>1, <3>2, <3>4, <3>5 DEF Pending
  <2> QED BY <1>1, <1>3, <2>1 DEF Pending
<1>13. LogFit'
  <2>1. ASSUME NEW k \in Keys, NEW n \in stable'..Len(Log)
        PROVE  /\ Fits(k, promised[k], Upto(Base(gen, k), Log, n, k))
               /\ n = Len(Log) \/ synced' = Len(Log) =>
                    Fits(k, acked[k], Upto(Base(gen, k), Log, n, k))
    <3>1. n \in stable..Len(Log)
      BY <1>2, <1>6
    <3>2. n = Len(Log) \/ synced' = Len(Log) => n = Len(Log) \/ synced = Len(Log)
      BY <1>2, <1>6
    <3> QED BY <1>0, <3>1, <3>2 DEF LogFit
  <2> QED BY <1>1, <1>3, <2>1 DEF LogFit
<1>14. Logged'
  <2>1. \A d \in Clients : Writing(d) => Writing(d)' /\ op'[d].key = op[d].key
    BY <1>1, <1>4, <1>5 DEF Writing
  <2> QED BY <1>0, <1>1, <1>3, <2>1 DEF Logged
<1> QED BY <1>8, <1>10, <1>11, <1>12, <1>13, <1>14 DEF StoreInv

LEMMA RepointStep ==
  ASSUME Usage, StoreInv, NEW c \in Clients, Repoint(c)
  PROVE  StoreInv'
<1>0. /\ Shape /\ SnapShape /\ Framed /\ Ordered /\ NextLogEmpty /\ SuperAt /\ SnapAt
      /\ Scanned /\ Pending /\ Owned /\ Entered /\ Reading /\ Promise /\ LiveFit /\ LogFit
      /\ Logged
  BY DEF StoreInv
<1>1. op[c].pc = "repoint" /\ Writing(c)
  BY DEF Repoint, Writing
<1>2. PICK k \in Keys : k = op[c].key /\ k \in MayWrite[c]
  BY <1>0, <1>1, OwnKey
<1>3. /\ gen + 1 \in 1..MaxGen + 1 /\ Log \in Seq(Frames) /\ Len(Log) \in Nat
      /\ stable \in Nat /\ stable <= Len(Log) /\ synced \in Nat /\ synced <= Len(Log)
  BY <1>0, LogFacts
<1>4. PICK o \in 1..Len(Log) : o = op[c].off
  BY <1>0, <1>1 DEF Pending
<1>5. /\ Log[o].key = k /\ Log[o].kind = op[c].kind /\ op[c].kind \in {"put", "del"}
      /\ Log[o].val = op[c].val /\ acked[k] < op[c].val
      /\ o <= synced => o <= stable
      /\ Full => o <= stable
      /\ \A i \in 1..Len(Log) : Log[i].key = k => i <= o
  BY <1>0, <1>1, <1>2, <1>4 DEF Pending
<1>6. PICK v \in 1..Len(issued) : /\ v = op[c].val /\ issued[v].key = k
                                  /\ issued[v].kind = op[c].kind
  BY <1>0, <1>2, <1>3, <1>5 DEF Framed, Log
<1>7. PICK e \in Entries : /\ e = Pointed(op[c]) /\ e.off = o
                           /\ e.rec = IF op[c].kind = "del" THEN 0 ELSE v
                           /\ e.tomb <=> op[c].kind = "del"
  <2>1. PICK t \in BOOLEAN : t <=> op[c].kind = "del"
    OBVIOUS
  <2>2. op[c].lsn \in Nat
    BY <1>0 DEF Shape, Call
  <2>3. PICK r \in Nat : r = IF op[c].kind = "del" THEN 0 ELSE v
    OBVIOUS
  <2>4. Pointed(op[c]) = [off |-> o, lsn |-> op[c].lsn, rec |-> r, tomb |-> t]
    <3>1. t = (op[c].kind = "del")
      BY <2>1
    <3> QED BY <1>4, <1>6, <2>3, <3>1 DEF Pointed
  <2>5. PICK e : e = [off |-> o, lsn |-> op[c].lsn, rec |-> r, tomb |-> t]
    OBVIOUS
  <2>6. e \in Entries /\ e.off = o /\ e.rec = r /\ e.tomb = t
    BY <1>3, <2>2, <2>5 DEF Entries
  <2> QED BY <2>1, <2>3, <2>4, <2>5, <2>6
<1>8. PICK X : /\ Call(X) /\ X.pc \in {"idle", "track"} /\ op' = [op EXCEPT ![c] = X]
               /\ X.pc = "track" => X.key = k /\ Budget > 0 /\ k \in URLKeys
  <2>1. Call(op[c]) /\ op = [d \in Clients |-> op[d]]
    BY <1>0 DEF Shape
  <2>2. CASE NewResident(op[c])
    <3>1. /\ Call([op[c] EXCEPT !.pc = "track"]) /\ [op[c] EXCEPT !.pc = "track"].pc = "track"
          /\ [op[c] EXCEPT !.pc = "track"].key = k
      BY <1>2, <2>1, CallMoves DEF Points
    <3>2. Budget > 0 /\ k \in URLKeys
      BY <1>2, <2>2 DEF NewResident
    <3>3. op' = [op EXCEPT ![c] = [op[c] EXCEPT !.pc = "track"]]
      BY <2>1, <2>2 DEF Repoint
    <3> QED BY <3>1, <3>2, <3>3
  <2>3. CASE ~NewResident(op[c])
    <3>1. op' = [op EXCEPT ![c] = Idle]
      BY <2>3 DEF Repoint
    <3> QED BY <3>1, IdleType
  <2> QED BY <2>2, <2>3
<1>9. /\ op'[c] = X /\ \A d \in Clients : d # c => op'[d] = op[d]
      /\ op' = [d \in Clients |-> op'[d]] /\ \A d \in Clients : Call(op[d])'
  <2>1. op = [d \in Clients |-> op[d]] /\ \A d \in Clients : Call(op[d])
    BY <1>0 DEF Shape
  <2>2. op'[c] = X /\ \A d \in Clients : d # c => op'[d] = op[d]
    BY <1>8, <2>1
  <2>3. op' = [d \in Clients |-> op'[d]]
    BY <1>8, <2>1
  <2>4. \A d \in Clients : Call(op'[d])
    BY <1>8, <2>1, <2>2
  <2> QED BY <2>2, <2>3, <2>4 DEF Call
<1>10. /\ UNCHANGED <<logs, stable, snaps, super, gen, synced, issued, ck, evictQ, nextLSN>>
       /\ promised' = IF Full THEN acked' ELSE promised
  BY DEF Repoint, disk, memory, pool
<1>11. /\ index' \in [Keys -> Entries] /\ index'[k] = e
       /\ \A j \in Keys : j # k => index'[j] = index[j]
  <2>1. index' = [index EXCEPT ![k] = e] /\ index \in [Keys -> Entries]
    BY <1>0, <1>2, <1>7 DEF Repoint, Shape
  <2> QED BY <2>1
<1>12. /\ acked' \in [Keys -> Nat] /\ acked'[k] = v
       /\ \A j \in Keys : j # k => acked'[j] = acked[j]
  <2>1. acked \in [Keys -> Nat] /\ acked' = [acked EXCEPT ![k] = Max({acked[k], v})]
    BY <1>0, <1>2, <1>6 DEF Repoint, Shape
  <2>2. acked[k] \in Nat /\ v \in Nat /\ acked[k] < v
    BY <1>5, <1>6, <2>1
  <2>3. Max({acked[k], v}) = v
    BY <2>2 DEF Max
  <2> QED BY <2>1, <2>2, <2>3
<1>13. /\ promised' \in [Keys -> Nat] /\ (Full => promised' = acked')
       /\ \A j \in Keys : j # k => promised'[j] = promised[j]
       /\ ~Full => promised'[k] = promised[k]
       /\ \A j \in Keys : promised'[j] <= acked'[j] /\ acked'[j] <= Len(issued)
  <2>1. promised \in [Keys -> Nat] /\ acked \in [Keys -> Nat] /\ Len(issued) \in Nat
    BY <1>0 DEF Shape
  <2>2. \A j \in Keys : promised[j] <= acked[j] /\ acked[j] <= Len(issued)
    BY <1>0 DEF Promise
  <2>3. acked[k] < v
    BY <1>5, <1>6
  <2>4. CASE Full
    <3>1. promised' = acked' /\ promised = acked
      BY <1>0, <1>10, <2>4 DEF Promise
    <3>2. \A j \in Keys : acked'[j] \in Nat /\ acked'[j] <= Len(issued)
      BY <1>12, <2>1, <2>2
    <3> QED BY <1>12, <2>4, <3>1, <3>2
  <2>5. CASE ~Full
    <3>1. promised' = promised
      BY <1>10, <2>5
    <3>2. \A j \in Keys : promised[j] \in Nat /\ acked[j] \in Nat
      BY <2>1
    <3>3. promised[k] <= v /\ v <= Len(issued)
      BY <2>1, <2>2, <2>3, <3>2
    <3> QED BY <1>12, <2>1, <2>2, <2>5, <3>1, <3>3
  <2> QED BY <2>4, <2>5
<1>14. Log' = Log /\ (\A j : Base(gen, j)' = Base(gen, j))
       /\ \A j, a, u : Fits(j, a, u)' <=> Fits(j, a, u)
  BY <1>10 DEF Log, Base, Fits
<1>15. Shape' /\ SnapShape' /\ Promise'
  BY <1>0, <1>9, <1>10, <1>11, <1>12, <1>13, <1>14 DEF Shape, SnapShape, Promise
<1>16. ck.pc = "idle"
  BY <1>1, NoCheckpointNow
<1>17. Framed' /\ Ordered' /\ NextLogEmpty' /\ SuperAt' /\ SnapAt' /\ Scanned'
  <2>1. Framed' /\ Ordered' /\ NextLogEmpty' /\ SuperAt'
    BY <1>0, <1>10 DEF Framed, Ordered, NextLogEmpty, SuperAt
  <2>2. SnapAt' /\ Scanned'
    BY <1>0, <1>10, <1>16 DEF SnapAt, Scanned, Stages
  <2> QED BY <2>1, <2>2
<1>18. ASSUME NEW d \in Clients, d # c, op[d].pc \notin {"idle", "intern"}
       PROVE  /\ op[d].key \in Keys /\ (Writing(d) => op[d].key # k)
              /\ Private(op[d].key) => op[d].key # k
  BY <1>0, <1>2, <1>18, OwnKey DEF Usage, Private, Touches
<1>19. Pending'
  <2>1. ASSUME NEW d \in Clients, Writing(d)'
        PROVE  op'[d] = op[d] /\ Writing(d) /\ acked'[op[d].key] = acked[op[d].key]
    <3>1. d # c /\ op'[d] = op[d] /\ Writing(d)
      BY <1>8, <1>9, <2>1 DEF Writing
    <3>2. op[d].key # k /\ op[d].key \in Keys
      BY <1>18, <3>1 DEF Writing
    <3> QED BY <1>12, <3>1, <3>2
  <2> QED BY <1>0, <1>10, <1>14, <2>1 DEF Pending
<1>20. Owned'
  BY <1>0, <1>2, <1>8, <1>9 DEF Owned, Writing, Touches
<1>21. Reading'
  <2>1. ASSUME NEW d \in Clients, op'[d].pc \in {"read", "install"}
        PROVE  /\ op'[d] = op[d]
               /\ Private(op[d].key) => index'[op[d].key] = index[op[d].key]
    <3>1. d # c /\ op'[d] = op[d]
      BY <1>8, <1>9, <2>1
    <3>2. op[d].key \in Keys /\ (Private(op[d].key) => op[d].key # k)
      BY <1>18, <2>1, <3>1
    <3> QED BY <1>11, <3>1, <3>2
  <2> QED BY <1>0, <1>14, <2>1 DEF Reading, Private
<1>22. Entered'
  <2>1. ASSUME NEW j \in Keys
        PROVE  /\ index'[j].tomb => index'[j].rec = 0
               /\ ~index'[j].tomb /\ index'[j].rec = 0 => Budget > 0 /\ j \in URLKeys
               /\ ~index'[j].tomb /\ Budget > 0 =>
                    /\ index'[j].off \in 1..Len(Log)
                    /\ Log[index'[j].off].kind = "put" /\ Log[index'[j].off].key = j
                    /\ Private(j) /\ index'[j].rec # 0 =>
                         index'[j].rec = Log[index'[j].off].val
    <3>1. CASE j = k
      <4>1. v # 0
        OBVIOUS
      <4> QED BY <1>5, <1>6, <1>7, <1>11, <3>1, <4>1
    <3>2. CASE j # k
      BY <1>0, <1>11, <3>2 DEF Entered
    <3> QED BY <3>1, <3>2
  <2> QED BY <1>14, <2>1 DEF Entered, Private
<1>23. /\ At(k)' = (IF op[c].kind = "del" THEN 0 ELSE v)
       /\ \A j \in Keys : j # k => At(j)' = At(j)
  <2>1. v # 0
    OBVIOUS
  <2>2. \A i : ReadAt(i)' = ReadAt(i)
    BY <1>14 DEF ReadAt
  <2>4. op[c].kind # "del" => ReadAt(o) = v
    BY <1>3, <1>5, <1>6 DEF ReadAt
  <2>3. At(k)' = (IF op[c].kind = "del" THEN 0 ELSE v)
    BY <1>7, <1>11, <2>1, <2>2, <2>4 DEF At, Located, Read
  <2> QED BY <1>11, <2>2, <2>3 DEF At, Located, Read
<1>24. LiveFit'
  <2>1. Fits(k, v, At(k)')
    BY <1>5, <1>6, <1>23 DEF Fits
  <2>2. ASSUME NEW j \in Keys PROVE Fits(j, acked'[j], At(j)')
    <3>1. CASE j = k
      BY <1>12, <2>1, <3>1
    <3>2. CASE j # k
      BY <1>0, <1>12, <1>23, <3>2 DEF LiveFit
    <3> QED BY <3>1, <3>2
  <2> QED BY <1>14, <2>2 DEF LiveFit
<1>25. LogFit'
  <2>1. ASSUME NEW j \in Keys, NEW n \in stable..Len(Log)
        PROVE  /\ Fits(j, promised'[j], Upto(Base(gen, j), Log, n, j))
               /\ n = Len(Log) \/ synced = Len(Log) =>
                    Fits(j, acked'[j], Upto(Base(gen, j), Log, n, j))
    <3>1. CASE j # k
      BY <1>0, <1>12, <1>13, <3>1 DEF LogFit
    <3>2. CASE j = k
      <4>1. ASSUME o <= n PROVE Fits(k, v, Upto(Base(gen, k), Log, n, k))
        <5>1. n \in 0..Len(Log) /\ o \in 1..n
          BY <1>3, <4>1
        <5>2. Log[o].val = v
          BY <1>5, <1>6
        <5> QED BY <1>0, <1>5, <5>1, <5>2, UptoFits
      <4>2. n = Len(Log) \/ synced = Len(Log) \/ Full => o <= n
        BY <1>3, <1>5
      <4>3. Fits(k, promised'[k], Upto(Base(gen, k), Log, n, k))
        <5>1. CASE Full
          BY <1>12, <1>13, <4>1, <4>2, <5>1
        <5>2. CASE ~Full
          BY <1>0, <1>13, <5>2 DEF LogFit
        <5> QED BY <5>1, <5>2
      <4> QED BY <1>12, <3>2, <4>1, <4>2, <4>3
    <3> QED BY <3>1, <3>2
  <2> QED BY <1>10, <1>14, <2>1 DEF LogFit
<1>26. Logged'
  <2>1. ASSUME "sync" \notin Errors, NEW j \in Keys,
               \A d \in Clients : Writing(d)' => op'[d].key # j
        PROVE  At(j)' = Upto(Base(gen, j), Log, Len(Log), j)
    <3>1. CASE j # k
      <4>1. \A d \in Clients : Writing(d) => op[d].key # j
        BY <1>2, <1>9, <2>1, <3>1 DEF Writing
      <4> QED BY <1>0, <1>23, <2>1, <3>1, <4>1 DEF Logged
    <3>2. CASE j = k
      <4>1. Mine(Log, Len(Log), k) # {}
        BY <1>5 DEF Mine
      <4>2. /\ Max(Mine(Log, Len(Log), k)) \in 1..Len(Log)
            /\ Log[Max(Mine(Log, Len(Log), k))].key = k
            /\ o <= Max(Mine(Log, Len(Log), k))
        BY <1>3, <1>5, <4>1, LastMine
      <4>3. Max(Mine(Log, Len(Log), k)) <= o
        BY <1>5, <4>2
      <4>4. Max(Mine(Log, Len(Log), k)) = o
        BY <1>3, <4>2, <4>3
      <4>5. Upto(Base(gen, k), Log, Len(Log), k) = Body(Log[o])
        BY <4>1, <4>4 DEF Upto
      <4> QED BY <1>5, <1>6, <1>23, <3>2, <4>5 DEF Body
    <3> QED BY <3>1, <3>2
  <2> QED BY <1>14, <2>1 DEF Logged
<1> QED
  BY <1>15, <1>17, <1>19, <1>20, <1>21, <1>22, <1>24, <1>25, <1>26 DEF StoreInv

-----------------------------------------------------------------------------
(* The steps of a checkpoint. *)

LEMMA ReadNat ==
  ASSUME StoreInv, NEW k \in Keys
  PROVE  At(k) \in Nat
<1>1. index[k].rec \in Nat /\ Log \in Seq(Frames)
  BY LogFacts DEF StoreInv, Shape, Entries
<1>2. ASSUME NEW i \in DOMAIN Log PROVE Log[i].val \in Nat
  <2>1. Log[i] \in Frames
    BY <1>1, <1>2
  <2> QED BY <2>1 DEF Frames
<1> QED BY <1>1, <1>2 DEF At, Located, Read, ReadAt

\* Without a budget a read does not look at the log.
LEMMA ReadResident ==
  ASSUME StoreInv, Budget = 0, NEW k \in Keys
  PROVE  At(k) = index[k].rec
<1>1. index[k].tomb \/ index[k].rec # 0
  BY DEF StoreInv, Entered
<1> QED BY <1>1 DEF StoreInv, Entered, At, Located, Read

\* A step of the checkpoint that leaves the generation in use alone.
LEMMA StageStep ==
  ASSUME StoreInv, \A c \in Clients : op[c].pc = "idle",
         UNCHANGED <<logs, stable, gen, synced, index, issued, acked, promised, op, evictQ,
                     nextLSN>>,
         super' \in [0..1 -> [gen : Nat, frontier : Nat]],
         SnapShape', SuperAt', SnapAt', Scanned',
         \A k \in Keys : Base(gen, k)' = Base(gen, k)
  PROVE  StoreInv'
<1>0. /\ Shape /\ Framed /\ Ordered /\ NextLogEmpty /\ Entered /\ Promise /\ LiveFit
      /\ LogFit /\ Logged
  BY DEF StoreInv
<1>1. Log' = Log /\ (\A k : At(k)' = At(k)) /\ \A k, a, v : Fits(k, a, v)' <=> Fits(k, a, v)
  BY ReadSame DEF Log, Fits
<1>2. Shape'
  BY <1>0, <1>1 DEF Shape, Call
<1>3. Framed' /\ Ordered' /\ NextLogEmpty' /\ Entered' /\ Promise'
  BY <1>0, <1>1 DEF Framed, Ordered, NextLogEmpty, Entered, Promise
<1>4. Pending' /\ Owned' /\ Reading'
  BY DEF Pending, Writing, Owned, Reading
<1>5. LiveFit' /\ LogFit' /\ Logged'
  <2>1. LiveFit'
    BY <1>0, <1>1 DEF LiveFit
  <2>2. LogFit'
    BY <1>0, <1>1 DEF LogFit
  <2>3. Logged'
    BY <1>0, <1>1 DEF Logged, Writing
  <2> QED BY <2>1, <2>2, <2>3
<1> QED BY <1>2, <1>3, <1>4, <1>5 DEF StoreInv

LEMMA NoCheckpointFacts ==
  /\ DOMAIN NoCheckpoint = {"pc", "todo", "recs", "strs", "frontier"}
  /\ NoCheckpoint.pc = "idle" /\ NoCheckpoint.todo = {} /\ NoCheckpoint.recs \in [Keys -> Nat]
  /\ NoCheckpoint.frontier \in Nat
  BY DEF NoCheckpoint

\* The checkpoint gives up, or begins, or copies: nothing on the device changes.
LEMMA CopySteps ==
  ASSUME Usage, StoreInv,
         \/ Begin \/ ScanHosts \/ ScanStrings \/ SnapshotFails \/ SuperFails
         \/ \E k \in URLKeys : Scan(k)
  PROVE  StoreInv'
<1>0. /\ SnapShape /\ SuperAt /\ SnapAt /\ Scanned /\ Shape /\ Entered
  BY DEF StoreInv
<1>1. \A c \in Clients : op[c].pc = "idle"
  BY <1>0 DEF Scanned, Begin, ScanHosts, ScanStrings, SnapshotFails, SuperFails, Scan, Usage
<1>2. UNCHANGED <<logs, stable, gen, synced, index, issued, acked, promised, op, evictQ,
                  nextLSN, snaps, super>>
  BY DEF Begin, ScanHosts, ScanStrings, SnapshotFails, SuperFails, Scan, disk, memory, pool,
         history, Usage
<1>3. super' \in [0..1 -> [gen : Nat, frontier : Nat]]
  BY <1>0, <1>2 DEF Shape
<1>4. /\ (\A k \in Keys : Base(gen, k)' = Base(gen, k)) /\ (\A k : At(k)' = At(k))
      /\ Log' = Log
  BY <1>2, ReadSame DEF Base, Log
<1>5. ck.pc # "swap" /\ ck'.pc \in {"idle", "urls", "strings", "cut"}
      /\ DOMAIN ck' = DOMAIN ck /\ ck'.todo \subseteq URLKeys /\ ck'.recs \in [Keys -> Nat]
      /\ ck'.frontier \in Nat /\ (ck'.pc # "idle" => gen < MaxGen)
      /\ Scanned'
  <2>0. /\ DOMAIN ck = {"pc", "todo", "recs", "strs", "frontier"} /\ ck.todo \subseteq URLKeys
        /\ ck.recs \in [Keys -> Nat] /\ ck.frontier \in Nat
    BY <1>0 DEF SnapShape
  <2>1. CASE SnapshotFails \/ SuperFails
    <3>1. ck' = NoCheckpoint /\ ck.pc \in {"snap", "super"}
      BY <2>1 DEF SnapshotFails, SuperFails
    <3> QED BY <2>0, <3>1, NoCheckpointFacts DEF Scanned
  <2>2. CASE Begin
    <3>1. /\ ck' = [NoCheckpoint EXCEPT !.pc = "urls", !.todo = URLKeys] /\ ck.pc = "idle"
          /\ gen < MaxGen
      BY <2>2 DEF Begin
    <3>2. /\ ck'.pc = "urls" /\ ck'.todo = URLKeys /\ ck'.recs = NoCheckpoint.recs
          /\ ck'.frontier = NoCheckpoint.frontier /\ DOMAIN ck' = DOMAIN NoCheckpoint
      BY <3>1, NoCheckpointFacts
    <3>3. Scanned'
      BY <1>1, <1>2, <3>2 DEF Scanned
    <3> QED BY <2>0, <3>1, <3>2, <3>3, NoCheckpointFacts
  <2>3. CASE \E k \in URLKeys : Scan(k)
    <3>1. PICK k \in URLKeys : Scan(k)
      BY <2>3
    <3>a. Budget = 0 /\ k \in Keys
      <4>1. ck.pc = "urls"
        BY <3>1 DEF Scan
      <4>2. gen < MaxGen /\ gen \in Nat /\ MaxGen \in Nat
        <5>1. gen < MaxGen
          BY <1>0, <4>1 DEF SnapAt, Stages
        <5> QED BY <1>0, <5>1, LogFacts
      <4> QED BY <4>2, StoreBoundAssumption DEF Usage, Keys
    <3>2. PICK r \in Nat : r = At(k) /\ r = Read(k)
      BY <3>a, ReadNat DEF At
    <3>3. ck.pc = "urls" /\ ck' = [ck EXCEPT !.todo = @ \ {k}, !.recs[k] = r]
      BY <3>1, <3>2 DEF Scan
    <3>4. /\ ck'.pc = "urls" /\ ck'.todo = ck.todo \ {k} /\ ck'.recs = [ck.recs EXCEPT ![k] = r]
          /\ ck'.frontier = ck.frontier /\ DOMAIN ck' = DOMAIN ck
      BY <2>0, <3>3
    <3>5. /\ ck'.recs \in [Keys -> Nat] /\ ck'.recs[k] = r
          /\ \A j \in Keys : j # k => ck'.recs[j] = ck.recs[j]
      BY <2>0, <3>4 DEF Keys
    <3>6. \A j \in URLKeys \ ck.todo : ck.recs[j] = At(j)
      BY <1>0, <3>3 DEF Scanned
    <3>7. \A j \in URLKeys \ ck'.todo : ck'.recs[j] = At(j)
      BY <3>2, <3>4, <3>5, <3>6 DEF Keys
    <3>8. Scanned'
      BY <1>1, <1>2, <1>4, <3>4, <3>7 DEF Scanned
    <3>9. gen < MaxGen
      BY <1>0, <3>3 DEF SnapAt, Stages
    <3> QED BY <2>0, <3>3, <3>4, <3>5, <3>8, <3>9
  <2>4. CASE ScanHosts
    <3> DEFINE R == [k \in Keys |-> IF k \in HostKeys THEN index[k].rec ELSE ck.recs[k]]
    <3>1. ck.pc = "urls" /\ ck.todo = {} /\ ck' = [ck EXCEPT !.pc = "strings", !.recs = R]
      BY <2>4 DEF ScanHosts
    <3>2. /\ ck'.pc = "strings" /\ ck'.todo = ck.todo /\ ck'.recs = R
          /\ ck'.frontier = ck.frontier /\ DOMAIN ck' = DOMAIN ck
      BY <2>0, <3>1
    <3>3. \A k \in Keys : index[k].rec \in Nat
      BY <1>0 DEF Shape, Entries
    <3>4. R \in [Keys -> Nat]
      BY <2>0, <3>3
    <3>5. ASSUME NEW k \in Keys PROVE R[k] = At(k)
      <4>1. CASE k \in HostKeys
        <5>1. k \notin URLKeys
          BY <4>1, StoreKeyAssumption
        <5>2. index[k].tomb \/ index[k].rec # 0
          BY <1>0, <5>1 DEF Entered
        <5>3. Budget = 0
          BY <1>0, <3>1, StoreBoundAssumption DEF SnapAt, Stages, Usage, Shape
        <5> QED BY <1>0, <4>1, <5>2, <5>3 DEF Entered, At, Read
      <4>2. CASE k \notin HostKeys
        BY <1>0, <3>1, <4>2 DEF Scanned, Keys
      <4> QED BY <4>1, <4>2
    <3> HIDE DEF R
    <3>6. Scanned'
      BY <1>1, <1>2, <1>4, <3>2, <3>5 DEF Scanned
    <3>7. gen < MaxGen
      BY <1>0, <3>1 DEF SnapAt, Stages
    <3> QED BY <2>0, <3>1, <3>2, <3>4, <3>6, <3>7
  <2>5. CASE ScanStrings
    <3>1. ck.pc = "strings" /\ ck' = [ck EXCEPT !.pc = "cut", !.strs = arena]
      BY <2>5 DEF ScanStrings
    <3>2. /\ ck'.pc = "cut" /\ ck'.todo = ck.todo /\ ck'.recs = ck.recs
          /\ ck'.frontier = ck.frontier /\ DOMAIN ck' = DOMAIN ck
      BY <2>0, <3>1
    <3>3. Scanned'
      BY <1>0, <1>1, <1>2, <1>4, <3>1, <3>2 DEF Scanned
    <3>4. gen < MaxGen
      BY <1>0, <3>1 DEF SnapAt, Stages
    <3> QED BY <2>0, <3>1, <3>2, <3>3, <3>4
  <2> QED BY <2>1, <2>2, <2>3, <2>4, <2>5
<1>6. SnapShape'
  BY <1>0, <1>2, <1>5 DEF SnapShape, Stages
<1>7. SuperAt' /\ SnapAt'
  BY <1>0, <1>2, <1>4, <1>5 DEF SuperAt, SnapAt, Stages
<1> QED BY <1>1, <1>2, <1>3, <1>4, <1>5, <1>6, <1>7, StageStep

\* The snapshot file of the next generation is written, then the superblock slot.
LEMMA PublishSteps ==
  ASSUME Usage, StoreInv, Cut \/ WriteSnapshot \/ WriteSuper
  PROVE  StoreInv'
<1>0. /\ SnapShape /\ SuperAt /\ SnapAt /\ Scanned /\ Shape
  BY DEF StoreInv
<1>1. ck.pc \in {"cut", "snap", "super"}
  BY DEF Cut, WriteSnapshot, WriteSuper
<1>2. (\A c \in Clients : op[c].pc = "idle") /\ \A k \in Keys : ck.recs[k] = At(k)
  BY <1>0, <1>1 DEF Scanned
<1>3. UNCHANGED <<logs, stable, gen, synced, index, issued, acked, promised, op, evictQ, nextLSN>>
  BY DEF Cut, WriteSnapshot, WriteSuper, memory, pool, history
<1>4. gen \in Nat /\ MaxGen \in Nat /\ gen < MaxGen /\ gen + 1 \in 1..MaxGen
  <2>1. gen < MaxGen
    BY <1>0, <1>1 DEF SnapAt, Stages
  <2> QED BY <1>0, <2>1, LogFacts
<1>5. /\ DOMAIN ck = {"pc", "todo", "recs", "strs", "frontier"} /\ ck.todo \subseteq URLKeys
      /\ ck.recs \in [Keys -> Nat] /\ ck.frontier \in Nat
      /\ DOMAIN snaps = 1..MaxGen /\ \A g \in 1..MaxGen : snaps[g].recs \in [Keys -> Nat]
      /\ nextLSN \in Nat /\ super \in [0..1 -> [gen : Nat, frontier : Nat]]
  BY <1>0 DEF SnapShape, Shape
<1>6. (\A k : At(k)' = At(k)) /\ Log' = Log
  BY <1>3, ReadSame DEF Log
<1>7. CASE Cut
  <2>1. ck.pc = "cut" /\ ck' = [ck EXCEPT !.pc = "snap", !.frontier = nextLSN] /\ super' = super
    BY <1>7 DEF Cut
  <2>2. /\ ck'.pc = "snap" /\ ck'.todo = ck.todo /\ ck'.recs = ck.recs
        /\ ck'.frontier = nextLSN /\ DOMAIN ck' = DOMAIN ck
    BY <1>5, <2>1
  <2>3. NoSnap.recs \in [Keys -> Nat]
    BY DEF NoSnap
  <2>4. PICK e : e = NoSnap
    OBVIOUS
  <2>5. /\ DOMAIN snaps' = 1..MaxGen /\ snaps'[gen + 1] = e
        /\ \A g \in 1..MaxGen : g # gen + 1 => snaps'[g] = snaps[g]
    BY <1>4, <1>5, <1>7, <2>4 DEF Cut
  <2>6. SnapShape'
    BY <1>5, <2>2, <2>3, <2>4, <2>5 DEF SnapShape, Stages
  <2>7. gen > 0 => gen \in 1..MaxGen /\ gen # gen + 1 /\ snaps'[gen] = snaps[gen]
    BY <1>4, <2>5
  <2>8. SuperAt' /\ SnapAt'
    BY <1>0, <1>3, <1>4, <2>1, <2>2, <2>7 DEF SuperAt, SnapAt, Stages
  <2>9. Scanned'
    BY <1>2, <1>3, <1>6, <2>2 DEF Scanned
  <2>10. \A k \in Keys : Base(gen, k)' = Base(gen, k)
    BY <1>3, <1>4, <2>7 DEF Base
  <2> QED BY <1>2, <1>3, <1>5, <2>1, <2>6, <2>8, <2>9, <2>10, StageStep
<1>8. CASE WriteSnapshot
  <2>1. ck.pc = "snap" /\ ck' = [ck EXCEPT !.pc = "super"] /\ super' = super
    BY <1>8 DEF WriteSnapshot
  <2>2. /\ ck'.pc = "super" /\ ck'.todo = ck.todo /\ ck'.recs = ck.recs
        /\ ck'.frontier = ck.frontier /\ DOMAIN ck' = DOMAIN ck
    BY <1>5, <2>1
  <2>3. PICK e : e = [ok |-> TRUE, recs |-> ck.recs, strs |-> ck.strs]
    OBVIOUS
  <2>4. e.ok /\ e.recs = ck.recs
    BY <2>3
  <2>5. /\ DOMAIN snaps' = 1..MaxGen /\ snaps'[gen + 1] = e
        /\ \A g \in 1..MaxGen : g # gen + 1 => snaps'[g] = snaps[g]
    BY <1>4, <1>5, <1>8, <2>3 DEF WriteSnapshot
  <2>6. SnapShape'
    BY <1>5, <2>2, <2>4, <2>5 DEF SnapShape, Stages
  <2>7. gen > 0 => gen \in 1..MaxGen /\ gen # gen + 1 /\ snaps'[gen] = snaps[gen]
    BY <1>4, <2>5
  <2>8. SuperAt' /\ SnapAt'
    BY <1>0, <1>3, <1>4, <2>1, <2>2, <2>4, <2>5, <2>7 DEF SuperAt, SnapAt, Stages
  <2>9. Scanned'
    BY <1>2, <1>3, <1>6, <2>2 DEF Scanned
  <2>10. \A k \in Keys : Base(gen, k)' = Base(gen, k)
    BY <1>3, <1>4, <2>7 DEF Base
  <2> QED BY <1>2, <1>3, <1>5, <2>1, <2>6, <2>8, <2>9, <2>10, StageStep
<1>9. CASE WriteSuper
  <2>1. ck.pc = "super" /\ ck' = [ck EXCEPT !.pc = "swap"] /\ snaps' = snaps /\ super' = Published
    BY <1>9 DEF WriteSuper
  <2>2. /\ ck'.pc = "swap" /\ ck'.todo = ck.todo /\ ck'.recs = ck.recs
        /\ ck'.frontier = ck.frontier /\ DOMAIN ck' = DOMAIN ck
    BY <1>5, <2>1
  <2>3. SlotOf(gen) \in 0..1 /\ SlotOf(gen + 1) \in 0..1 /\ SlotOf(gen) # SlotOf(gen + 1)
    BY <1>4, SlotFacts
  <2>4. /\ super' \in [0..1 -> [gen : Nat, frontier : Nat]]
        /\ super'[SlotOf(gen + 1)].gen = gen + 1 /\ super'[SlotOf(gen)] = super[SlotOf(gen)]
    <3>1. PICK s \in [gen : Nat, frontier : Nat] :
                 s = [gen |-> gen + 1, frontier |-> ck.frontier] /\ s.gen = gen + 1
      <4>1. PICK g, t \in Nat : g = gen + 1 /\ t = ck.frontier
        BY <1>4, <1>5
      <4>2. [gen |-> g, frontier |-> t] \in [gen : Nat, frontier : Nat]
        OBVIOUS
      <4>3. [gen |-> g, frontier |-> t].gen = g
        OBVIOUS
      <4> QED BY <4>1, <4>2, <4>3
    <3>2. super' = [super EXCEPT ![SlotOf(gen + 1)] = s]
      BY <2>1, <3>1 DEF Published
    <3> QED BY <1>5, <2>3, <3>1, <3>2
  <2>5. SnapShape'
    BY <1>5, <2>1, <2>2 DEF SnapShape, Stages
  <2>6. SuperAt' /\ SnapAt'
    BY <1>0, <1>3, <1>4, <2>1, <2>2, <2>4 DEF SuperAt, SnapAt, Stages
  <2>7. Scanned'
    BY <1>2, <1>3, <1>6, <2>2 DEF Scanned
  <2>8. \A k \in Keys : Base(gen, k)' = Base(gen, k)
    BY <1>3, <2>1 DEF Base
  <2> QED BY <1>2, <1>3, <2>4, <2>5, <2>6, <2>7, <2>8, StageStep
<1> QED BY <1>7, <1>8, <1>9

LEMMA SwapStep ==
  ASSUME Usage, StoreInv, Swap
  PROVE  StoreInv'
<1>0. /\ Shape /\ SnapShape /\ Framed /\ Ordered /\ NextLogEmpty /\ SuperAt /\ SnapAt
      /\ Scanned /\ Entered /\ Promise /\ LiveFit
  BY DEF StoreInv
<1>1. /\ ck.pc = "swap" /\ gen' = gen + 1 /\ nextLSN' = ck.frontier /\ synced' = 0 /\ stable' = 0
      /\ ck' = [ck EXCEPT !.pc = "reclaim"]
      /\ UNCHANGED <<logs, snaps, super, index, issued, acked, promised, op, evictQ>>
  BY DEF Swap, SwappedSync, pool, history
<1>2. /\ DOMAIN ck = {"pc", "todo", "recs", "strs", "frontier"} /\ ck.todo \subseteq URLKeys
      /\ ck.recs \in [Keys -> Nat] /\ ck.frontier \in Nat
  BY <1>0 DEF SnapShape
<1>3. /\ ck'.pc = "reclaim" /\ ck'.todo = ck.todo /\ ck'.recs = ck.recs
      /\ ck'.frontier = ck.frontier /\ DOMAIN ck' = DOMAIN ck
  BY <1>1, <1>2
<1>4. gen \in Nat /\ MaxGen \in Nat /\ gen < MaxGen
  <2>1. gen < MaxGen
    BY <1>0, <1>1 DEF SnapAt, Stages
  <2> QED BY <1>0, <2>1, LogFacts
<1>5. PICK g \in Nat : g = gen + 1 /\ g \in 1..MaxGen /\ g + 1 \in 1..MaxGen + 1 /\ gen' = g
                       /\ g + 1 > gen + 1
  BY <1>1, <1>4
<1>6. logs[g + 1] = <<>> /\ Log' = <<>>
  BY <1>0, <1>1, <1>5 DEF NextLogEmpty, Log
<1>7. Len(<<>>) = 0 /\ Budget = 0
  BY <1>4, StoreBoundAssumption DEF Usage
<1>8. (\A c \in Clients : op[c].pc = "idle") /\ (\A k \in Keys : ck.recs[k] = At(k))
  BY <1>0, <1>1 DEF Scanned
<1>9. Entered'
  BY <1>0, <1>1, <1>7 DEF Entered
<1>10. \A k \in Keys : At(k)' = At(k)
  <2> TAKE k \in Keys
  <2>1. index[k].tomb \/ index[k].rec # 0
    BY <1>0, <1>7 DEF Entered
  <2> QED BY <1>1, <1>7, <2>1 DEF At, Located, Read
<1>11. Shape'
  <2>1. gen' \in 0..MaxGen /\ stable' \in 0..Len(Log') /\ synced' \in 0..Len(Log')
    BY <1>1, <1>4, <1>5, <1>6, <1>7
  <2>2. \A c \in Clients : Call(op[c])'
    BY <1>0, <1>1 DEF Shape, Call
  <2> QED BY <1>0, <1>1, <1>2, <2>1, <2>2 DEF Shape
<1>12. SnapShape' /\ Framed' /\ Ordered' /\ Promise'
  <2>1. SnapShape'
    BY <1>0, <1>1, <1>2, <1>3 DEF SnapShape, Stages
  <2>2. Framed' /\ Ordered'
    BY <1>0, <1>1 DEF Framed, Ordered
  <2> QED BY <1>0, <1>1, <2>1, <2>2 DEF Promise
<1>13. NextLogEmpty'
  <2>1. ASSUME NEW m \in 1..MaxGen + 1, m > g + 1 PROVE logs[m] = <<>>
    <3>1. m > gen + 1
      BY <1>4, <1>5, <2>1
    <3> QED BY <1>0, <3>1 DEF NextLogEmpty
  <2> QED BY <1>1, <1>5, <2>1 DEF NextLogEmpty
<1>14. SuperAt'
  <2>1. SlotOf(g + 1) = SlotOf(gen)
    BY <1>4, <1>5, SlotFacts
  <2>2. super[SlotOf(g)].gen = g /\ super[SlotOf(g + 1)].gen = gen
    BY <1>0, <1>1, <1>5, <2>1 DEF SuperAt
  <2>3. gen <= g
    BY <1>4, <1>5
  <2> QED BY <1>1, <1>3, <1>5, <2>2, <2>3 DEF SuperAt
<1>15. snaps[g].ok /\ snaps[g].recs = ck.recs
  BY <1>0, <1>1, <1>5 DEF SnapAt
<1>16. SnapAt' /\ Scanned'
  <2>1. SnapAt'
    BY <1>1, <1>3, <1>5, <1>6, <1>15 DEF SnapAt, Stages
  <2> QED BY <1>1, <1>3, <1>8, <1>10, <2>1 DEF Scanned
<1>17. Pending' /\ Owned' /\ Reading'
  BY <1>1, <1>8 DEF Pending, Writing, Owned, Reading
<1>18. \A k, a, v : Fits(k, a, v)' <=> Fits(k, a, v)
  BY <1>1 DEF Fits
<1>19. LiveFit'
  BY <1>0, <1>1, <1>10, <1>18 DEF LiveFit
<1>20. ASSUME NEW k \in Keys PROVE Upto(Base(gen, k)', <<>>, 0, k) = At(k)
  <2>1. Base(gen, k)' = snaps[g].recs[k]
    BY <1>1, <1>5 DEF Base
  <2>2. Base(gen, k)' = At(k)
    BY <1>8, <1>15, <2>1
  <2>3. PICK b : b = Base(gen, k)'
    OBVIOUS
  <2>4. Upto(b, <<>>, 0, k) = b
    BY UptoNone
  <2> QED BY <2>2, <2>3, <2>4
<1>21. LogFit'
  <2>1. ASSUME NEW k \in Keys, NEW n \in 0..0
        PROVE  /\ Fits(k, promised[k], Upto(Base(gen, k)', <<>>, n, k))
               /\ Fits(k, acked[k], Upto(Base(gen, k)', <<>>, n, k))
    <3>1. n = 0
      OBVIOUS
    <3>2. Fits(k, acked[k], At(k))
      BY <1>0 DEF LiveFit
    <3>3. Fits(k, promised[k], At(k))
      BY <1>0, <3>2, FitsLess DEF Promise, Shape
    <3> QED BY <1>20, <3>1, <3>2, <3>3
  <2> QED BY <1>1, <1>6, <1>7, <1>18, <2>1 DEF LogFit
<1>22. Logged'
  BY <1>6, <1>7, <1>10, <1>20 DEF Logged
<1> QED
  BY <1>9, <1>11, <1>12, <1>13, <1>14, <1>16, <1>17, <1>19, <1>21, <1>22 DEF StoreInv

LEMMA ReclaimStep ==
  ASSUME Usage, StoreInv, Reclaim
  PROVE  StoreInv'
<1>0. /\ Shape /\ SnapShape /\ Framed /\ Ordered /\ NextLogEmpty /\ SuperAt /\ SnapAt
      /\ Scanned /\ Entered /\ Promise /\ LiveFit /\ LogFit /\ Logged
  BY DEF StoreInv
<1>1. /\ ck.pc = "reclaim" /\ ck' = NoCheckpoint /\ promised' = acked
      /\ UNCHANGED <<stable, super, gen, nextLSN, synced, index, issued, acked, op, evictQ>>
  BY DEF Reclaim, memory, pool
<1>2. gen \in Nat /\ MaxGen \in Nat /\ gen <= MaxGen /\ gen > 0 /\ Log = <<>>
  BY <1>0, <1>1, LogFacts DEF SnapAt
<1>3. gen \in 1..MaxGen + 1 /\ gen # gen + 1 /\ gen + 1 \in 1..MaxGen + 1
  BY <1>2
<1>4. /\ logs' \in [1..MaxGen + 1 -> Seq(Frames)]
      /\ \A m \in 1..MaxGen + 1 : logs'[m] = logs[m] \/ logs'[m] = <<>>
      /\ logs'[gen + 1] = logs[gen + 1]
  <2>1. (gen - 1) + 1 = gen
    BY <1>2
  <2>2. logs' = [logs EXCEPT ![gen] = <<>>]
    BY <2>1 DEF Reclaim, Superseded
  <2>3. logs \in [1..MaxGen + 1 -> Seq(Frames)] /\ <<>> \in Seq(Frames)
    BY <1>0 DEF Shape
  <2> QED BY <1>3, <2>2, <2>3
<1>5. Log' = Log /\ Len(Log) = 0
  BY <1>1, <1>2, <1>4 DEF Log
<1>6. (\A c \in Clients : op[c].pc = "idle")
  BY <1>0, <1>1 DEF Scanned
<1>7. /\ DOMAIN snaps' = 1..MaxGen /\ snaps'[gen] = snaps[gen]
      /\ \A g \in 1..MaxGen : snaps'[g].recs \in [Keys -> Nat]
  <2>1. DOMAIN snaps = 1..MaxGen /\ \A g \in 1..MaxGen : snaps[g].recs \in [Keys -> Nat]
    BY <1>0 DEF SnapShape
  <2>2. NoSnap.recs \in [Keys -> Nat]
    BY DEF NoSnap
  <2>3. PICK e : e = NoSnap
    OBVIOUS
  <2>4. PICK s \in Int : s = gen - 1 /\ s # gen
    BY <1>2
  <2>5. snaps' = snaps \/ snaps' = [snaps EXCEPT ![s] = e]
    BY <2>3, <2>4 DEF Reclaim, Superseded
  <2>6. CASE snaps' = snaps
    BY <2>1, <2>6
  <2>7. CASE snaps' = [snaps EXCEPT ![s] = e]
    BY <1>2, <2>1, <2>2, <2>3, <2>4, <2>7
  <2> QED BY <2>5, <2>6, <2>7
<1>8. (\A k \in Keys : Base(gen, k)' = Base(gen, k)) /\ (\A k : At(k)' = At(k))
      /\ \A k, a, v : Fits(k, a, v)' <=> Fits(k, a, v)
  BY <1>1, <1>2, <1>5, <1>7 DEF Base, At, Located, Read, ReadAt, Fits
<1>9. Shape'
  <2>1. \A c \in Clients : Call(op[c])'
    BY <1>0, <1>1 DEF Shape, Call
  <2> QED BY <1>0, <1>1, <1>4, <1>5, <2>1 DEF Shape
<1>10. SnapShape' /\ SuperAt' /\ SnapAt' /\ Scanned'
  BY <1>0, <1>1, <1>7, NoCheckpointFacts DEF SnapShape, SuperAt, SnapAt, Scanned, Stages
<1>11. Framed' /\ Ordered' /\ NextLogEmpty'
  <2>1. Len(<<>>) = 0
    OBVIOUS
  <2>2. NextLogEmpty'
    BY <1>0, <1>1, <1>4 DEF NextLogEmpty
  <2>3. ASSUME NEW m \in 1..MaxGen + 1, NEW i \in 1..Len(logs'[m]) PROVE logs'[m] = logs[m]
    BY <1>4, <2>1, <2>3
  <2>4. Framed'
    BY <1>0, <1>1, <2>3 DEF Framed
  <2>5. Ordered'
    BY <1>0, <2>3 DEF Ordered
  <2> QED BY <2>2, <2>4, <2>5
<1>12. Pending' /\ Owned' /\ Reading' /\ Entered' /\ Promise'
  <2>1. Pending' /\ Owned' /\ Reading'
    BY <1>1, <1>6 DEF Pending, Writing, Owned, Reading
  <2>2. \A k \in Keys : acked[k] \in Nat
    BY <1>0 DEF Shape
  <2> QED BY <1>0, <1>1, <1>5, <2>1, <2>2 DEF Entered, Promise
<1>13. LiveFit' /\ Logged'
  BY <1>0, <1>1, <1>5, <1>8 DEF LiveFit, Logged, Writing
<1>14. LogFit'
  <2>1. stable = 0
    BY <1>0, <1>5 DEF Shape
  <2>2. ASSUME NEW k \in Keys, NEW n \in 0..0
        PROVE  Fits(k, acked[k], Upto(Base(gen, k), Log, n, k))
    <3>1. n = Len(Log) /\ n \in stable..Len(Log)
      BY <1>5, <2>1
    <3> QED BY <1>0, <3>1 DEF LogFit
  <2> QED BY <1>1, <1>5, <1>8, <2>1, <2>2 DEF LogFit
<1> QED BY <1>9, <1>10, <1>11, <1>12, <1>13, <1>14 DEF StoreInv

-----------------------------------------------------------------------------
(* Recovery. *)

\* What a superblock holds wherever the process stops: the generation in use is
\* picked, or the next one once its snapshot is complete.
LEMMA PickedGen ==
  ASSUME StoreInv, NEW sb \in Slots
  PROVE  /\ sb \in [0..1 -> [gen : Nat, frontier : Nat]]
         /\ Picked(sb).gen \in Nat /\ Picked(sb).frontier \in Nat
         /\ \/ /\ Picked(sb).gen = gen
               /\ sb[SlotOf(gen)].gen = gen /\ sb[SlotOf(gen + 1)].gen <= gen
            \/ /\ Picked(sb).gen = gen + 1 /\ ck.pc \in {"super", "swap"}
               /\ sb[SlotOf(gen)].gen = gen /\ sb[SlotOf(gen + 1)].gen = gen + 1
<1>0. SuperAt /\ Shape /\ SnapShape
  BY DEF StoreInv
<1>1. gen \in Nat /\ super \in [0..1 -> [gen : Nat, frontier : Nat]] /\ ck.frontier \in Nat
  BY <1>0, LogFacts DEF Shape, SnapShape
<1>2. PICK a, b \in 0..1 : /\ a = SlotOf(gen) /\ b = SlotOf(gen + 1)
                           /\ (a = 0 /\ b = 1) \/ (a = 1 /\ b = 0)
  BY <1>1, SlotFacts
<1>3. super[a].gen = gen /\ (IF ck.pc = "swap" THEN super[b].gen = gen + 1 ELSE super[b].gen <= gen)
  BY <1>0, <1>2 DEF SuperAt
<1>4. /\ sb \in [0..1 -> [gen : Nat, frontier : Nat]] /\ sb[a].gen = gen
      /\ sb[b].gen <= gen \/ (sb[b].gen = gen + 1 /\ ck.pc \in {"super", "swap"})
  <2>1. CASE sb = super
    BY <1>1, <1>3, <2>1
  <2>2. CASE ck.pc = "super" /\ sb # super
    <3>1. sb = [super EXCEPT ![b] = NoSlot] \/ sb = Published
      BY <1>2, <2>2 DEF Slots
    <3>2. PICK t \in [gen : Nat, frontier : Nat] :
            sb = [super EXCEPT ![b] = t] /\ (t.gen = 0 \/ t.gen = gen + 1)
      <4>1. CASE sb = [super EXCEPT ![b] = NoSlot]
        <5>1. NoSlot \in [gen : Nat, frontier : Nat] /\ NoSlot.gen = 0
          BY DEF NoSlot
        <5> QED BY <4>1, <5>1
      <4>2. CASE sb = Published
        <5>1. PICK g \in Nat : g = gen + 1
          BY <1>1
        <5>f. PICK f \in Nat : f = ck.frontier
          BY <1>1
        <5>2. PICK t : t = [gen |-> g, frontier |-> f]
          OBVIOUS
        <5>3. t \in [gen : Nat, frontier : Nat] /\ t.gen = g
          BY <5>2
        <5>4. sb = [super EXCEPT ![b] = t]
          BY <1>2, <4>2, <5>1, <5>f, <5>2 DEF Published
        <5> QED BY <5>1, <5>3, <5>4
      <4> QED BY <3>1, <4>1, <4>2
    <3>3. sb \in [0..1 -> [gen : Nat, frontier : Nat]] /\ sb[a] = super[a] /\ sb[b] = t
      <4>1. a # b /\ sb = [super EXCEPT ![b] = t]
        BY <1>2, <3>2
      <4> QED BY <1>1, <4>1
    <3> QED BY <1>1, <1>3, <2>2, <3>2, <3>3
  <2> QED BY <2>1, <2>2 DEF Slots
<1>5. sb[0].gen \in Nat /\ sb[1].gen \in Nat /\ sb[0].frontier \in Nat /\ sb[1].frontier \in Nat
  BY <1>4
<1>6. Picked(sb).gen \in Nat /\ Picked(sb).frontier \in Nat
  BY <1>5 DEF Picked
<1>7. CASE sb[b].gen <= gen
  <2>1. Picked(sb).gen = gen
    BY <1>1, <1>2, <1>4, <1>5, <1>7 DEF Picked
  <2> QED BY <1>2, <1>4, <1>6, <1>7, <2>1
<1>8. CASE sb[b].gen = gen + 1 /\ ck.pc \in {"super", "swap"}
  <2>1. Picked(sb).gen = gen + 1
    BY <1>1, <1>2, <1>4, <1>5, <1>8 DEF Picked
  <2> QED BY <1>2, <1>4, <1>6, <1>8, <2>1
<1> QED BY <1>4, <1>7, <1>8

\* No frame of the log is torn, so replay reads all of it.
LEMMA IntactAll ==
  ASSUME NEW fs \in Seq(Frames)
  PROVE  Intact(fs) = fs
<1>1. \A i \in DOMAIN fs : fs[i].kind # "torn"
  <2> TAKE i \in DOMAIN fs
  <2>1. fs[i] \in Frames
    OBVIOUS
  <2> QED BY <2>1 DEF Frames
<1> QED BY <1>1 DEF Intact

LEMMA ResumeNat ==
  ASSUME NEW s, s.frontier \in Nat, NEW fs \in Seq(Frames)
  PROVE  ResumeLSN(s, fs) \in Nat
<1> DEFINE T == {fs[i].lsn + 1 : i \in DOMAIN fs}
           F == [i \in DOMAIN fs |-> fs[i].lsn + 1]
<1>1. \A i \in DOMAIN fs : fs[i].lsn \in Nat
  <2> TAKE i \in DOMAIN fs
  <2>1. fs[i] \in Frames
    OBVIOUS
  <2> QED BY <2>1 DEF Frames
<1>2. F \in Surjection(DOMAIN fs, T)
  BY DEF Surjection
<1>3. IsFiniteSet(DOMAIN fs)
  <2>1. DOMAIN fs = 1..Len(fs) /\ Len(fs) \in Nat
    OBVIOUS
  <2> QED BY <2>1, FS_Interval
<1>4. T \in SUBSET Nat
  BY <1>1
<1> HIDE DEF T, F
<1>5. IsFiniteSet(T)
  BY <1>2, <1>3, FS_Surjection
<1>6. IsFiniteSet({s.frontier} \cup T)
  BY <1>5, FS_Singleton, FS_Union
<1>7. Max({s.frontier} \cup T) \in {s.frontier} \cup T
  BY <1>4, <1>6, GreatestNat
<1>8. ResumeLSN(s, fs) = Max({s.frontier} \cup T)
  BY DEF ResumeLSN, T
<1> QED BY <1>4, <1>7, <1>8

\* The entries Open builds are well formed.
LEMMA RecoveredType ==
  ASSUME NEW s, NEW fs \in Seq(Frames),
         s.gen # 0 => snaps[s.gen].recs \in [Keys -> Nat]
  PROVE  Recovered(s, fs) \in [Keys -> Entries]
<1> DEFINE mine(k) == {i \in DOMAIN fs : fs[i].key = k}
           rec(k) == IF s.gen = 0 THEN 0 ELSE snaps[s.gen].recs[k]
           E(k) == IF mine(k) # {}
                   THEN [off |-> Max(mine(k)), lsn |-> fs[Max(mine(k))].lsn,
                         rec |-> IF fs[Max(mine(k))].kind = "del" THEN 0 ELSE fs[Max(mine(k))].val,
                         tomb |-> fs[Max(mine(k))].kind = "del"]
                   ELSE IF rec(k) # 0 THEN [off |-> 1, lsn |-> 0, rec |-> rec(k), tomb |-> FALSE]
                   ELSE Absent
<1>1. ASSUME NEW k \in Keys PROVE E(k) \in Entries
  <2>1. mine(k) = Mine(fs, Len(fs), k) /\ Len(fs) \in Nat
    BY DEF Mine
  <2>2. CASE mine(k) # {}
    <3>1. PICK l \in DOMAIN fs : l = Max(mine(k))
      <4>1. Max(mine(k)) \in 1..Len(fs)
        BY <2>1, <2>2, LastMine
      <4>2. DOMAIN fs = 1..Len(fs)
        OBVIOUS
      <4> HIDE DEF mine
      <4> QED BY <4>1, <4>2
    <3>2. fs[l] \in Frames /\ l \in Nat
      OBVIOUS
    <3>3. fs[l].lsn \in Nat /\ fs[l].val \in Nat
      BY <3>2 DEF Frames
    <3>4. PICK t \in BOOLEAN : t = (fs[l].kind = "del")
      OBVIOUS
    <3>5. PICK r \in Nat : r = IF fs[l].kind = "del" THEN 0 ELSE fs[l].val
      BY <3>3
    <3>6. E(k) = [off |-> l, lsn |-> fs[l].lsn, rec |-> r, tomb |-> t]
      BY <2>2, <3>1, <3>4, <3>5
    <3> HIDE DEF E
    <3> QED BY <3>2, <3>3, <3>6 DEF Entries
  <2>3. CASE mine(k) = {}
    <3>1. rec(k) \in Nat
      OBVIOUS
    <3>2. PICK r \in Nat : r = rec(k)
      BY <3>1
    <3>3. E(k) = [off |-> 1, lsn |-> 0, rec |-> r, tomb |-> FALSE] \/ E(k) = Absent
      BY <2>3, <3>2
    <3>4. [off |-> 1, lsn |-> 0, rec |-> r, tomb |-> FALSE] \in Entries
      BY DEF Entries
    <3>5. Absent \in Entries
      BY DEF Entries, Absent
    <3> HIDE DEF E
    <3> QED BY <3>3, <3>4, <3>5
  <2> QED BY <2>2, <2>3
<1>2. Recovered(s, fs) = [k \in Keys |-> E(k)]
  BY DEF Recovered, Winner
<1> HIDE DEF E
<1> QED BY <1>1, <1>2

\* A store opened on generation g, with the first n frames of its log in file.
Opened(g, s, file) ==
  /\ g \in 0..MaxGen /\ g >= gen /\ s.gen = g /\ file \in Seq(Frames)
  /\ Len(file) <= Len(logs[g + 1]) /\ \A i \in 1..Len(file) : file[i] = logs[g + 1][i]
  /\ g > 0 => snaps[g].ok
  /\ super' \in [0..1 -> [gen : Nat, frontier : Nat]]
  /\ super'[SlotOf(g)].gen = g /\ super'[SlotOf(g + 1)].gen <= g
  /\ gen' = g /\ logs' = [logs EXCEPT ![g + 1] = file] /\ synced' = Len(file) /\ nextLSN' \in Nat
  /\ index' = Recovered(s, file) /\ evictQ' = <<>> /\ op' = [c \in Clients |-> Idle]
  /\ ck' = NoCheckpoint /\ UNCHANGED <<snaps, issued>>
  /\ stable' \in 0..Len(file) /\ acked' \in [Keys -> Nat] /\ promised' = acked'
  /\ \A k \in Keys : acked'[k] <= Len(issued)
  /\ \A k \in Keys, m \in stable'..Len(file) : Fits(k, acked'[k], Upto(Base(g, k), file, m, k))

LEMMA OpenStep ==
  ASSUME Usage, StoreInv, NEW g, NEW s, NEW file, Opened(g, s, file)
  PROVE  StoreInv'
<1>0. /\ Shape /\ SnapShape /\ Framed /\ Ordered /\ NextLogEmpty
  BY DEF StoreInv
<1>1. /\ g \in 0..MaxGen /\ g >= gen /\ s.gen = g /\ file \in Seq(Frames)
      /\ Len(file) <= Len(logs[g + 1]) /\ \A i \in 1..Len(file) : file[i] = logs[g + 1][i]
  BY DEF Opened
<1>2. PICK n \in Nat : n = Len(file) /\ DOMAIN file = 1..n
  BY <1>1
<1>3. /\ g > 0 => snaps[g].ok
      /\ super' \in [0..1 -> [gen : Nat, frontier : Nat]]
      /\ super'[SlotOf(g)].gen = g /\ super'[SlotOf(g + 1)].gen <= g
  BY DEF Opened
<1>4. /\ gen' = g /\ logs' = [logs EXCEPT ![g + 1] = file] /\ synced' = n /\ nextLSN' \in Nat
      /\ evictQ' = <<>> /\ ck' = NoCheckpoint /\ snaps' = snaps /\ issued' = issued
      /\ stable' \in 0..n /\ acked' \in [Keys -> Nat] /\ promised' = acked'
      /\ \A k \in Keys : acked'[k] <= Len(issued)
  BY <1>2 DEF Opened
<1>5. \A k \in Keys, m \in stable'..n : Fits(k, acked'[k], Upto(Base(g, k), file, m, k))
  BY <1>2 DEF Opened
<1>6. index' = Recovered(s, file) /\ op' = [c \in Clients |-> Idle]
  BY DEF Opened
<1>7. /\ g \in Nat /\ MaxGen \in Nat /\ g <= MaxGen /\ g + 1 \in 1..MaxGen + 1
      /\ logs \in [1..MaxGen + 1 -> Seq(Frames)]
      /\ gen \in Nat
  <2>1. MaxGen \in Nat /\ gen \in Nat
    BY <1>0, LogFacts
  <2>2. g \in Nat /\ g <= MaxGen /\ g + 1 \in 1..MaxGen + 1
    BY <1>1, <2>1
  <2> QED BY <1>0, <2>1, <2>2 DEF Shape
<1>8. /\ logs' \in [1..MaxGen + 1 -> Seq(Frames)] /\ logs'[g + 1] = file /\ Log' = file
      /\ \A m \in 1..MaxGen + 1 : m # g + 1 => logs'[m] = logs[m]
  BY <1>1, <1>4, <1>7 DEF Log
<1>9. \A i \in 1..n : i \in 1..Len(logs[g + 1]) /\ file[i] = logs[g + 1][i]
  <2>1. Len(logs[g + 1]) \in Nat
    BY <1>7
  <2> QED BY <1>1, <1>2, <2>1
<1>10. Framed'
  <2>1. ASSUME NEW m \in 1..MaxGen + 1, NEW i \in 1..Len(logs'[m])
        PROVE  i \in 1..Len(logs[m]) /\ logs'[m][i] = logs[m][i]
    <3>1. CASE m = g + 1
      BY <1>2, <1>8, <1>9, <3>1
    <3>2. CASE m # g + 1
      BY <1>8, <3>2
    <3> QED BY <3>1, <3>2
  <2> QED BY <1>0, <1>4, <2>1 DEF Framed
<1>11. Ordered'
  <2>1. ASSUME NEW m \in 1..MaxGen + 1, NEW i \in 1..Len(logs'[m])
        PROVE  i \in 1..Len(logs[m]) /\ logs'[m][i] = logs[m][i]
    <3>1. CASE m = g + 1
      BY <1>2, <1>8, <1>9, <3>1
    <3>2. CASE m # g + 1
      BY <1>8, <3>2
    <3> QED BY <3>1, <3>2
  <2> QED BY <1>0, <2>1 DEF Ordered
<1>12. NextLogEmpty'
  <2>1. ASSUME NEW m \in 1..MaxGen + 1, m > g + 1 PROVE logs'[m] = <<>>
    <3>1. m > gen + 1 /\ m # g + 1
      BY <1>1, <1>7, <2>1
    <3> QED BY <1>0, <1>8, <3>1 DEF NextLogEmpty
  <2> QED BY <1>4, <2>1 DEF NextLogEmpty
<1>13. index' \in [Keys -> Entries]
  <2>1. g # 0 => g \in 1..MaxGen
    BY <1>7
  <2>2. s.gen # 0 => snaps[s.gen].recs \in [Keys -> Nat]
    BY <1>0, <1>1, <2>1 DEF SnapShape
  <2> QED BY <1>1, <1>6, <2>2, RecoveredType
<1>14. op' = [c \in Clients |-> op'[c]] /\ \A c \in Clients : op'[c] = Idle
  BY <1>6
<1>15. Shape' /\ SnapShape'
  <2>1. \A c \in Clients : Call(op[c])'
    BY <1>14, IdleType DEF Call
  <2>2. gen' \in 0..MaxGen /\ stable' \in 0..Len(Log') /\ synced' \in 0..Len(Log')
    BY <1>1, <1>2, <1>4, <1>8
  <2>3. issued' \in Seq(Writes) /\ evictQ' \in Seq(URLKeys)
    BY <1>0, <1>4 DEF Shape
  <2>4. Shape'
    BY <1>3, <1>4, <1>8, <1>13, <1>14, <2>1, <2>2, <2>3 DEF Shape
  <2>5. SnapShape'
    BY <1>0, <1>4, NoCheckpointFacts DEF SnapShape, Stages
  <2> QED BY <2>4, <2>5
<1>16. SuperAt' /\ SnapAt' /\ Scanned'
  BY <1>3, <1>4, NoCheckpointFacts DEF SuperAt, SnapAt, Scanned, Stages
<1>17. Pending' /\ Owned' /\ Reading'
  BY <1>14, IdleType DEF Pending, Writing, Owned, Reading
<1>18. Promise'
  <2>1. \A k \in Keys : acked'[k] \in Nat
    BY <1>4
  <2> QED BY <1>4, <2>1 DEF Promise
<1>19. ASSUME NEW k \in Keys
       PROVE  /\ index'[k].rec = Upto(Base(g, k), file, n, k)
              /\ index'[k].tomb <=> IF Mine(file, n, k) = {} THEN Base(g, k) = 0
                                    ELSE file[Max(Mine(file, n, k))].kind = "del"
              /\ Mine(file, n, k) # {} => index'[k].off = Max(Mine(file, n, k))
  <2>1. PICK R : R = Recovered(s, file)
    OBVIOUS
  <2>2. /\ R[k].rec = Upto(Base(s.gen, k), file, n, k)
        /\ R[k].tomb <=> IF Mine(file, n, k) = {} THEN Base(s.gen, k) = 0
                         ELSE file[Max(Mine(file, n, k))].kind = "del"
        /\ Mine(file, n, k) # {} => R[k].off = Max(Mine(file, n, k))
    BY <1>2, <2>1, RecoveredIs
  <2>3. index' = R /\ s.gen = g
    BY <1>1, <1>6, <2>1
  <2> QED BY <2>2, <2>3
<1>20. ASSUME NEW k \in Keys, Mine(file, n, k) # {}
       PROVE  \E l \in 1..n : /\ l = Max(Mine(file, n, k)) /\ file[l].key = k
                              /\ file[l].kind \in {"put", "del"}
                              /\ file[l].val \in Nat \ {0}
  <2>1. PICK l \in 1..n : l = Max(Mine(file, n, k)) /\ file[l].key = k
    BY <1>20, LastMine
  <2>2. /\ file[l].val \in 1..Len(issued)
        /\ issued[file[l].val].kind = file[l].kind
    <3>1. l \in 1..Len(logs'[g + 1]) /\ logs'[g + 1][l] = file[l] /\ g + 1 \in 1..MaxGen + 1
      BY <1>2, <1>7, <1>8
    <3>2. logs'[g + 1][l].key \in Keys
      BY <2>1, <3>1
    <3>3. /\ logs'[g + 1][l].val \in 1..Len(issued')
          /\ issued'[logs'[g + 1][l].val].kind = logs'[g + 1][l].kind
      BY <1>10, <3>1, <3>2 DEF Framed
    <3> QED BY <1>4, <3>1, <3>3
  <2>3. PICK w \in 1..Len(issued) : w = file[l].val
    BY <2>2
  <2>4. issued \in Seq(Writes)
    BY <1>0 DEF Shape
  <2>5. issued[w] \in Writes /\ w \in Nat /\ w # 0
    BY <2>4
  <2>6. issued[w].kind \in {"put", "del"}
    BY <2>5 DEF Writes
  <2> QED BY <2>1, <2>2, <2>3, <2>5, <2>6
<1>21. ASSUME NEW k \in Keys
       PROVE  /\ index'[k].tomb => index'[k].rec = 0
              /\ ~index'[k].tomb => index'[k].rec # 0
              /\ ~index'[k].tomb /\ Budget > 0 =>
                   /\ index'[k].off \in 1..n
                   /\ file[index'[k].off].kind = "put" /\ file[index'[k].off].key = k
                   /\ index'[k].rec = file[index'[k].off].val
  <2>1. CASE Mine(file, n, k) = {}
    <3>1. index'[k].rec = Base(g, k) /\ (index'[k].tomb <=> Base(g, k) = 0)
      BY <1>19, <2>1 DEF Upto
    <3>2. ASSUME Budget > 0 PROVE Base(g, k) = 0
      <4>1. MaxGen = 0
        BY <3>2 DEF Usage
      <4>2. g = 0
        BY <1>7, <4>1
      <4> QED BY <4>2 DEF Base
    <3> QED BY <3>1, <3>2
  <2>2. CASE Mine(file, n, k) # {}
    <3>1. PICK l \in 1..n : /\ l = Max(Mine(file, n, k)) /\ file[l].key = k
                            /\ file[l].kind \in {"put", "del"}
                            /\ file[l].val \in Nat \ {0}
      BY <1>20, <2>2
    <3>2. /\ index'[k].rec = Body(file[l]) /\ (index'[k].tomb <=> file[l].kind = "del")
          /\ index'[k].off = l
      BY <1>19, <2>2, <3>1 DEF Upto
    <3> QED BY <3>1, <3>2 DEF Body
  <2> QED BY <2>1, <2>2
<1>22. Entered'
  BY <1>2, <1>8, <1>21 DEF Entered
<1>23. ASSUME NEW k \in Keys PROVE At(k)' = Upto(Base(g, k), file, n, k)
  <2>1. index'[k].rec = Upto(Base(g, k), file, n, k)
    BY <1>19
  <2>2. CASE Budget > 0 /\ ~index'[k].tomb
    <3>1. PICK i \in 1..n : i = index'[k].off /\ file[i].kind = "put" /\ index'[k].rec = file[i].val
      BY <1>21, <2>2
    <3>2. i \in DOMAIN file
      BY <1>2, <3>1
    <3>3. ReadAt(i)' = file[i].val
      BY <1>8, <3>1, <3>2 DEF ReadAt
    <3>4. At(k)' = ReadAt(i)'
      BY <2>2, <3>1 DEF At, Located, ReadAt
    <3> QED BY <2>1, <3>1, <3>3, <3>4
  <2>3. CASE Budget = 0 \/ index'[k].tomb
    BY <1>21, <2>1, <2>3 DEF At, Located, Read
  <2> QED BY <2>2, <2>3, StoreBoundAssumption
<1>24. \A k : Base(gen, k)' = Base(g, k)
  BY <1>4 DEF Base
<1>25. \A k, a, v : Fits(k, a, v)' <=> Fits(k, a, v)
  BY <1>4 DEF Fits
<1>26. LiveFit'
  <2>1. n \in stable'..n
    BY <1>4
  <2>2. \A k \in Keys : Fits(k, acked'[k], At(k)')
    BY <1>5, <1>23, <2>1
  <2> QED BY <1>25, <2>2 DEF LiveFit
<1>27. LogFit'
  BY <1>2, <1>4, <1>5, <1>8, <1>24, <1>25 DEF LogFit
<1>28. Logged'
  BY <1>2, <1>8, <1>23, <1>24 DEF Logged
<1> QED
  BY <1>10, <1>11, <1>12, <1>15, <1>16, <1>17, <1>18, <1>22, <1>26, <1>27, <1>28 DEF StoreInv

LEMMA PrefixFacts ==
  ASSUME NEW S, NEW q \in Seq(S), NEW n \in 0..Len(q)
  PROVE  /\ SubSeq(q, 1, n) \in Seq(S) /\ Len(SubSeq(q, 1, n)) = n
         /\ \A i \in 1..n : SubSeq(q, 1, n)[i] = q[i]
  OBVIOUS

LEMMA NoTail ==
  ASSUME NEW S, NEW q \in Seq(S)
  PROVE  q \o <<>> = q
  OBVIOUS

\* What an opening process finds: a prefix of the log in use that has all that is
\* stable, or the new snapshot with the empty log; what it reads fits the promise.
LEMMA SurvivingFacts ==
  ASSUME StoreInv, NEW sb \in Slots, NEW n \in stable..Len(Log), NEW s, s = Picked(sb),
         NEW file, file = Surviving(s, n)
  PROVE  /\ file \in Seq(Frames) /\ s.gen \in 0..MaxGen /\ s.gen >= gen
         /\ s.gen > 0 => snaps[s.gen].ok
         /\ \/ s.gen = gen /\ Len(file) = n /\ \A i \in 1..n : file[i] = Log[i]
            \/ /\ s.gen = gen + 1 /\ gen < MaxGen /\ file = <<>> /\ logs[s.gen + 1] = <<>>
               /\ ck.pc \in {"super", "swap"} /\ \A k \in Keys : Base(s.gen, k) = At(k)
         /\ \A k \in Keys : Fits(k, promised[k], Upto(Base(s.gen, k), file, Len(file), k))
<1>0. /\ Shape /\ SnapShape /\ NextLogEmpty /\ SnapAt /\ Scanned /\ Promise /\ LiveFit /\ LogFit
  BY DEF StoreInv
<1>1. /\ gen \in Nat /\ MaxGen \in Nat /\ gen <= MaxGen
      /\ Log \in Seq(Frames) /\ Len(Log) \in Nat /\ stable \in Nat /\ stable <= Len(Log)
  BY <1>0, LogFacts
<1>2. s.gen = gen \/ (s.gen = gen + 1 /\ ck.pc \in {"super", "swap"})
  BY PickedGen
<1>3. CASE s.gen = gen
  <2>1. file = SubSeq(Log, 1, n) /\ n \in 0..Len(Log)
    BY <1>1, <1>3 DEF Surviving
  <2>2. PICK q \in Seq(Frames) : q = Log
    BY <1>1
  <2>3. file = SubSeq(q, 1, n) /\ n \in 0..Len(q) /\ n \in Nat
    BY <1>1, <2>1, <2>2
  <2>4. file \in Seq(Frames) /\ Len(file) = n /\ \A i \in 1..n : file[i] = q[i]
    BY <2>3, PrefixFacts
  <2>5. ASSUME NEW k \in Keys PROVE Fits(k, promised[k], Upto(Base(gen, k), file, n, k))
    <3>1. PICK b : b = Base(gen, k)
      OBVIOUS
    <3>2. Upto(b, file, n, k) = Upto(b, Log, n, k)
      <4>0. n \in Nat /\ \A i \in 1..n : file[i] = q[i]
        BY <2>3, <2>4
      <4>1. Upto(b, file, n, k) = Upto(b, q, n, k)
        BY <4>0, UptoPrefix
      <4> QED BY <2>2, <4>1
    <3>3. Fits(k, promised[k], Upto(b, Log, n, k))
      BY <1>0, <3>1 DEF LogFit
    <3> QED BY <3>1, <3>2, <3>3
  <2>6. s.gen \in 0..MaxGen /\ s.gen >= gen /\ (s.gen > 0 => snaps[s.gen].ok)
    BY <1>0, <1>1, <1>3 DEF SnapAt
  <2> QED BY <1>3, <2>2, <2>4, <2>5, <2>6
<1>4. CASE s.gen = gen + 1 /\ ck.pc \in {"super", "swap"}
  <2>1. gen < MaxGen /\ snaps[gen + 1].ok /\ snaps[gen + 1].recs = ck.recs
    BY <1>0, <1>4 DEF SnapAt, Stages
  <2>2. PICK g \in 1..MaxGen : g = gen + 1 /\ g + 1 \in 1..MaxGen + 1 /\ g + 1 > gen + 1 /\ g # gen
                               /\ g >= gen /\ g # 0 /\ g > 0
    BY <1>1, <2>1
  <2>3. logs[g + 1] = <<>> /\ file = <<>>
    BY <1>0, <1>4, <2>2 DEF NextLogEmpty, Surviving
  <2>4. ASSUME NEW k \in Keys PROVE Base(g, k) = At(k)
    BY <1>0, <1>4, <2>1, <2>2 DEF Scanned, Base
  <2>5. ASSUME NEW k \in Keys PROVE Fits(k, promised[k], Upto(Base(g, k), <<>>, 0, k))
    <3>1. Fits(k, acked[k], At(k))
      BY <1>0 DEF LiveFit
    <3>2. Fits(k, promised[k], At(k))
      BY <1>0, <3>1, FitsLess DEF Promise, Shape
    <3>3. PICK b : b = Base(g, k)
      OBVIOUS
    <3>4. Upto(b, <<>>, 0, k) = b
      BY UptoNone
    <3> QED BY <2>4, <3>2, <3>3, <3>4
  <2>6. <<>> \in Seq(Frames) /\ Len(<<>>) = 0
    OBVIOUS
  <2>7. g \in 0..MaxGen /\ s.gen = g /\ snaps[g].ok
    BY <1>1, <1>4, <2>1, <2>2
  <2> QED BY <1>4, <2>1, <2>2, <2>3, <2>4, <2>5, <2>6, <2>7
<1> QED BY <1>2, <1>3, <1>4

LEMMA CrashStep ==
  ASSUME Usage, StoreInv, NEW sb \in Slots, NEW n \in stable..Len(Log), NEW torn \in BOOLEAN,
         Crash(sb, n, torn)
  PROVE  StoreInv'
<1>0. /\ Shape /\ SnapShape /\ Promise /\ LogFit /\ NextLogEmpty
  BY DEF StoreInv
<1>1. PICK s : s = Picked(sb)
  OBVIOUS
<1>2. PICK file : file = Surviving(s, n)
  OBVIOUS
<1>3. /\ file \in Seq(Frames) /\ s.gen \in 0..MaxGen /\ s.gen >= gen
      /\ s.gen > 0 => snaps[s.gen].ok
      /\ \/ s.gen = gen /\ Len(file) = n /\ \A i \in 1..n : file[i] = Log[i]
         \/ /\ s.gen = gen + 1 /\ gen < MaxGen /\ file = <<>> /\ logs[s.gen + 1] = <<>>
            /\ ck.pc \in {"super", "swap"} /\ \A k \in Keys : Base(s.gen, k) = At(k)
      /\ \A k \in Keys : Fits(k, promised[k], Upto(Base(s.gen, k), file, Len(file), k))
  BY <1>1, <1>2, SurvivingFacts
<1>4. ~torn
  BY DEF Crash, Usage
<1>5. file \o (IF torn THEN <<TornFrame>> ELSE <<>>) = file
  <2>1. (IF torn THEN <<TornFrame>> ELSE <<>>) = <<>>
    BY <1>4
  <2> QED BY <1>3, <2>1, NoTail
<1>6. Open(sb, file)
  BY <1>1, <1>2, <1>5 DEF Crash
<1>7. Intact(file) = file
  BY <1>3, IntactAll
<1>8. /\ super' = sb /\ gen' = s.gen /\ logs' = [logs EXCEPT ![s.gen + 1] = file]
      /\ synced' = Len(file) /\ nextLSN' = ResumeLSN(s, file) /\ index' = Recovered(s, file)
      /\ evictQ' = <<>> /\ op' = [c \in Clients |-> Idle] /\ ck' = NoCheckpoint
      /\ UNCHANGED <<snaps, issued>>
  BY <1>1, <1>6, <1>7 DEF Open
<1>9. stable' = IF s.gen # gen THEN 0 ELSE IF n < Len(Log) THEN Len(file) ELSE stable
  <2>1. stable' = IF s.gen # gen THEN 0
                  ELSE IF s.gen = gen /\ n < Len(Log) THEN Len(file) ELSE stable
    BY <1>1, <1>2, <1>5 DEF Crash
  <2> QED BY <2>1
<1>10. acked' = promised /\ promised' = promised
  BY <1>0 DEF Crash, Promise
<1>11. /\ gen \in Nat /\ MaxGen \in Nat /\ Len(Log) \in Nat
       /\ stable \in Nat /\ stable <= Len(Log) /\ n \in Nat /\ stable <= n /\ n <= Len(Log)
  BY <1>0, LogFacts
<1>12. /\ sb \in [0..1 -> [gen : Nat, frontier : Nat]] /\ s.frontier \in Nat
       /\ \/ s.gen = gen /\ sb[SlotOf(gen)].gen = gen /\ sb[SlotOf(gen + 1)].gen <= gen
          \/ /\ s.gen = gen + 1
             /\ sb[SlotOf(gen)].gen = gen /\ sb[SlotOf(gen + 1)].gen = gen + 1
  BY <1>1, PickedGen
<1>13. nextLSN' \in Nat
  BY <1>3, <1>8, <1>12, ResumeNat
<1>14. /\ acked' \in [Keys -> Nat] /\ promised' = acked' /\ \A k \in Keys : acked'[k] <= Len(issued)
  <2>1. promised \in [Keys -> Nat] /\ acked \in [Keys -> Nat] /\ Len(issued) \in Nat
    BY <1>0 DEF Shape
  <2>2. \A k \in Keys : promised[k] <= acked[k] /\ acked[k] <= Len(issued)
    BY <1>0 DEF Promise
  <2> QED BY <1>10, <2>1, <2>2
<1>15. PICK g \in 0..MaxGen : g = s.gen
  BY <1>3
<1>16. super'[SlotOf(g)].gen = g /\ super'[SlotOf(g + 1)].gen <= g
  <2>1. CASE g = gen
    BY <1>8, <1>11, <1>12, <1>15, <2>1
  <2>2. CASE g = gen + 1
    <3>1. SlotOf(g + 1) = SlotOf(gen)
      BY <1>11, <2>2, SlotFacts
    <3> QED BY <1>8, <1>11, <1>12, <1>15, <2>2, <3>1
  <2> QED BY <1>3, <1>15, <2>1, <2>2
<1>17. CASE g = gen
  <2>1. Len(file) = n /\ (\A i \in 1..n : file[i] = Log[i]) /\ logs[g + 1] = Log
    BY <1>3, <1>11, <1>15, <1>17 DEF Log
  <2>2. stable' \in 0..n /\ (stable' = n \/ stable' = stable)
    BY <1>9, <1>11, <1>15, <1>17, <2>1
  <2>3. ASSUME NEW k \in Keys, NEW m \in stable'..n
        PROVE  Fits(k, acked'[k], Upto(Base(g, k), file, m, k))
    <3>1. m \in Nat /\ m \in stable..Len(Log) /\ \A i \in 1..m : i \in 1..n
      BY <1>11, <2>2
    <3>2. PICK b : b = Base(g, k)
      OBVIOUS
    <3>3. Upto(b, file, m, k) = Upto(b, Log, m, k)
      BY <2>1, <3>1, UptoPrefix
    <3>4. Fits(k, promised[k], Upto(b, Log, m, k))
      BY <1>0, <1>17, <3>1, <3>2 DEF LogFit
    <3> QED BY <1>10, <3>2, <3>3, <3>4
  <2>4. Opened(g, s, file)
    <3>1. Len(file) <= Len(logs[g + 1]) /\ \A i \in 1..Len(file) : file[i] = logs[g + 1][i]
      BY <1>11, <2>1
    <3>2. g >= gen /\ s.gen = g /\ (g > 0 => snaps[g].ok)
      BY <1>3, <1>15
    <3> QED BY <1>3, <1>8, <1>12, <1>13, <1>14, <1>15, <1>16, <2>1, <2>2, <2>3, <3>1, <3>2
            DEF Opened
  <2> QED BY <2>4, OpenStep
<1>18. CASE g = gen + 1
  <2>1. file = <<>> /\ logs[g + 1] = <<>> /\ Len(file) = 0 /\ g # gen
    BY <1>3, <1>11, <1>15, <1>18
  <2>2. stable' = 0
    BY <1>9, <1>15, <2>1
  <2>3. ASSUME NEW k \in Keys, NEW m \in stable'..Len(file)
        PROVE  Fits(k, acked'[k], Upto(Base(g, k), file, m, k))
    <3>1. m = Len(file)
      BY <2>1, <2>2
    <3> QED BY <1>3, <1>10, <1>15, <3>1
  <2>4. Opened(g, s, file)
    <3>1. Len(file) <= Len(logs[g + 1]) /\ \A i \in 1..Len(file) : file[i] = logs[g + 1][i]
      BY <2>1
    <3>2. g >= gen /\ s.gen = g /\ (g > 0 => snaps[g].ok) /\ stable' \in 0..Len(file)
      BY <1>3, <1>15, <2>1, <2>2
    <3> QED BY <1>3, <1>8, <1>12, <1>13, <1>14, <1>15, <1>16, <2>3, <3>1, <3>2
            DEF Opened
  <2> QED BY <2>4, OpenStep
<1> QED BY <1>3, <1>15, <1>17, <1>18

LEMMA CloseOpenStep ==
  ASSUME Usage, StoreInv, CloseOpen
  PROVE  StoreInv'
<1>0. /\ Shape /\ SnapShape /\ Promise /\ LogFit /\ SnapAt
  BY DEF StoreInv
<1>1. PICK s : s = Picked(super)
  OBVIOUS
<1>2. PICK file : file = Log
  OBVIOUS
<1>3. /\ gen \in Nat /\ MaxGen \in Nat /\ gen <= MaxGen /\ file \in Seq(Frames)
      /\ Len(file) \in Nat /\ stable \in Nat /\ stable <= Len(file)
      /\ synced \in Nat /\ synced <= Len(file)
  BY <1>0, <1>2, LogFacts
<1>4. ck.pc = "idle" /\ super \in Slots
  BY DEF CloseOpen, Slots
<1>5. /\ super \in [0..1 -> [gen : Nat, frontier : Nat]] /\ s.frontier \in Nat /\ s.gen = gen
      /\ super[SlotOf(gen)].gen = gen /\ super[SlotOf(gen + 1)].gen <= gen
  BY <1>1, <1>4, PickedGen
<1>6. Intact(file) = file
  BY <1>3, IntactAll
<1>7. /\ super' = super /\ gen' = gen /\ logs' = [logs EXCEPT ![gen + 1] = file]
      /\ synced' = Len(file) /\ nextLSN' = ResumeLSN(s, file) /\ index' = Recovered(s, file)
      /\ evictQ' = <<>> /\ op' = [c \in Clients |-> Idle] /\ ck' = NoCheckpoint
      /\ UNCHANGED <<snaps, issued>>
  <2>1. Open(super, file)
    BY <1>2 DEF CloseOpen
  <2> QED BY <1>1, <1>5, <1>6, <2>1 DEF Open
<1>8. /\ stable' = IF synced < Len(file) THEN Len(file) ELSE stable
      /\ acked' = acked /\ promised' = acked
  BY <1>2 DEF CloseOpen
<1>9. nextLSN' \in Nat
  BY <1>3, <1>5, <1>7, ResumeNat
<1>10. acked' \in [Keys -> Nat] /\ promised' = acked' /\ \A k \in Keys : acked'[k] <= Len(issued)
  BY <1>0, <1>8 DEF Shape, Promise
<1>11. stable' \in 0..Len(file) /\ stable <= stable'
       /\ (stable' = Len(file) \/ synced = Len(file))
  BY <1>3, <1>8
<1>12. ASSUME NEW k \in Keys, NEW m \in stable'..Len(file)
       PROVE  Fits(k, acked'[k], Upto(Base(gen, k), file, m, k))
  <2>1. m \in stable..Len(file) /\ (m = Len(file) \/ synced = Len(file))
    BY <1>3, <1>11
  <2> QED BY <1>0, <1>2, <1>8, <2>1 DEF LogFit
<1>13. Len(file) <= Len(logs[gen + 1]) /\ \A i \in 1..Len(file) : file[i] = logs[gen + 1][i]
  BY <1>2, <1>3 DEF Log
<1>14. gen \in 0..MaxGen /\ gen >= gen /\ (gen > 0 => snaps[gen].ok)
  BY <1>0, <1>3 DEF SnapAt
<1>15. Opened(gen, s, file)
  BY <1>3, <1>5, <1>7, <1>9, <1>10, <1>11, <1>12, <1>13, <1>14 DEF Opened
<1> QED BY <1>15, OpenStep

-----------------------------------------------------------------------------
(* The invariant holds. *)

LEMMA InitStore == Init => StoreInv
<1> SUFFICES ASSUME Init PROVE StoreInv
  OBVIOUS
<1>1. MaxGen \in Nat /\ 0 + 1 \in 1..MaxGen + 1
  BY StoreBoundAssumption
<1>2. /\ logs = [n \in 1..MaxGen + 1 |-> <<>>] /\ stable = 0 /\ snaps = [g \in 1..MaxGen |-> NoSnap]
      /\ super = [t \in 0..1 |-> NoSlot] /\ gen = 0 /\ nextLSN = 1 /\ synced = 0
      /\ index = [k \in Keys |-> Absent] /\ evictQ = <<>> /\ op = [c \in Clients |-> Idle]
      /\ ck = NoCheckpoint /\ issued = <<>>
      /\ acked = [k \in Keys |-> 0] /\ promised = [k \in Keys |-> 0]
  BY DEF Init
<1>3. Log = <<>> /\ Len(<<>>) = 0
  BY <1>1, <1>2 DEF Log
<1>4. \A c \in Clients : op[c] = Idle
  BY <1>2
<1>5. Shape
  <2>1. \A S : <<>> \in Seq(S)
    OBVIOUS
  <2>2. Absent \in Entries
    BY DEF Absent, Entries
  <2>3. NoSlot \in [gen : Nat, frontier : Nat]
    BY DEF NoSlot
  <2>4. index \in [Keys -> Entries] /\ super \in [0..1 -> [gen : Nat, frontier : Nat]]
        /\ logs \in [1..MaxGen + 1 -> Seq(Frames)]
    BY <1>2, <2>1, <2>2, <2>3
  <2>5. op = [c \in Clients |-> op[c]]
    BY <1>2
  <2> QED BY <1>1, <1>2, <1>3, <1>4, <2>1, <2>4, <2>5, IdleType DEF Shape
<1>6. SnapShape
  <2>1. NoSnap.recs \in [Keys -> Nat]
    BY DEF NoSnap
  <2> QED BY <1>2, <2>1, NoCheckpointFacts DEF SnapShape, Stages
<1>7. Framed /\ Ordered /\ NextLogEmpty
  BY <1>2, <1>3 DEF Framed, Ordered, NextLogEmpty
<1>8. SuperAt /\ SnapAt /\ Scanned
  <2>1. NoSlot.gen = 0 /\ SlotOf(0) \in 0..1 /\ SlotOf(0 + 1) \in 0..1
    BY SlotFacts DEF NoSlot
  <2>2. SuperAt
    BY <1>2, <2>1, NoCheckpointFacts DEF SuperAt
  <2> QED BY <1>2, <2>2, NoCheckpointFacts DEF SnapAt, Scanned, Stages
<1>9. Pending /\ Owned /\ Reading
  BY <1>4, IdleType DEF Pending, Writing, Owned, Reading
<1>10. \A k \in Keys : index[k].tomb /\ index[k].rec = 0
  BY <1>2 DEF Absent
<1>11. Entered /\ Promise
  BY <1>2, <1>3, <1>10 DEF Entered, Promise
<1>12. \A k \in Keys : At(k) = 0 /\ acked[k] = 0 /\ promised[k] = 0 /\ Base(gen, k) = 0
  BY <1>2, <1>10 DEF At, Located, Read, Base
<1>13. \A k \in Keys : Fits(k, 0, 0)
  BY DEF Fits
<1>14. \A k \in Keys : Upto(0, <<>>, 0, k) = 0
  BY UptoNone
<1>15. LiveFit
  BY <1>12, <1>13 DEF LiveFit
<1>16. LogFit
  <2>1. ASSUME NEW k \in Keys, NEW n \in stable..Len(Log) PROVE n = 0
    BY <1>2, <1>3
  <2> QED BY <1>3, <1>12, <1>13, <1>14, <2>1 DEF LogFit
<1>17. Logged
  BY <1>3, <1>12, <1>14 DEF Logged
<1> QED BY <1>5, <1>6, <1>7, <1>8, <1>9, <1>11, <1>15, <1>16, <1>17 DEF StoreInv

\* The references are a sequence, of no matter what.
Referenced == \E S : refs \in Seq(S)

LEMMA ReferencedStep ==
  ASSUME Referenced, [Next]_vars
  PROVE  Referenced' /\ Len(refs') \in Nat
<1>1. PICK S : refs \in Seq(S)
  BY DEF Referenced
<1>2. refs' = refs \/ refs' = Append(refs, Len(arena) + 1)
  <2>1. CASE Checkpoint
    BY <2>1 DEF Checkpoint, Begin, ScanHosts, ScanStrings, Cut, WriteSnapshot, SnapshotFails,
                WriteSuper, SuperFails, Swap, Reclaim, Scan, history
  <2>2. CASE Reopen
    BY <2>2 DEF Reopen, Crash, CloseOpen, Open, history
  <2>3. ASSUME NEW c \in Clients, Client(c) PROVE refs' = refs \/ refs' = Append(refs, Len(arena) + 1)
    <3>1. CASE \E k \in Keys : Put(c, k) \/ Delete(c, k) \/ Lookup(c, k)
      BY <3>1 DEF Put, Delete, Write, Lookup, history
    <3>2. CASE WriteFails(c) \/ Commit(c) \/ CommitFails(c) \/ Repoint(c) \/ Track(c) \/ Enqueue(c)
      BY <3>2 DEF WriteFails, Commit, CommitFails, Repoint, Track, Enqueue, history
    <3>3. CASE Evict(c) \/ EvictDone(c) \/ Spill(c) \/ Install(c)
      BY <3>3 DEF Evict, EvictDone, Spill, Install, history
    <3>4. CASE Intern(c) \/ InternLog(c) \/ InternFails(c)
      BY <3>4 DEF Intern, InternLog, InternFails, history
    <3> QED BY <2>3, <3>1, <3>2, <3>3, <3>4 DEF Client
  <2>4. CASE UNCHANGED vars
    BY <2>4 DEF vars, history
  <2> QED BY <2>1, <2>2, <2>3, <2>4 DEF Next
<1>3. PICK x : x = Len(arena) + 1
  OBVIOUS
<1>4. refs \in Seq(S \cup {x})
  BY <1>1
<1>5. Append(refs, x) \in Seq(S \cup {x})
  BY <1>4
<1>6. refs' \in Seq(S \cup {x})
  BY <1>2, <1>3, <1>4, <1>5
<1> QED BY <1>6 DEF Referenced

LEMMA StoreStep ==
  ASSUME Usage, StoreInv, Referenced, [Next]_vars
  PROVE  StoreInv'
<1>1. Len(refs') \in Nat
  BY ReferencedStep
<1>2. CASE Checkpoint
  BY <1>2, CopySteps, PublishSteps, SwapStep, ReclaimStep DEF Checkpoint
<1>3. CASE Reopen
  BY <1>3, CrashStep, CloseOpenStep DEF Reopen
<1>4. ASSUME NEW c \in Clients, Client(c) PROVE StoreInv'
  <2>1. CASE \E k \in Keys : Put(c, k) \/ Delete(c, k) \/ Lookup(c, k)
    <3>1. PICK k \in Keys : Put(c, k) \/ Delete(c, k) \/ Lookup(c, k)
      BY <2>1
    <3>2. CASE Put(c, k)
      BY <3>2, WriteStep DEF Put
    <3>3. CASE Delete(c, k)
      BY <3>3, WriteStep DEF Delete
    <3>4. CASE Lookup(c, k)
      BY <3>4, LookupStep
    <3> QED BY <3>1, <3>2, <3>3, <3>4
  <2>2. CASE \/ WriteFails(c) \/ CommitFails(c) \/ Track(c) \/ Enqueue(c) \/ EvictDone(c)
             \/ Intern(c) \/ InternFails(c)
    BY <1>1, <2>2, EasySteps
  <2>3. CASE Commit(c) \/ Repoint(c) \/ Evict(c)
    BY <2>3, CommitStep, RepointStep, EvictStep
  <2>4. CASE Spill(c) \/ Install(c) \/ InternLog(c)
    BY <2>4, SpillStep, InstallStep, InternLogStep
  <2> QED BY <1>4, <2>1, <2>2, <2>3, <2>4 DEF Client
<1>5. CASE UNCHANGED vars
  <2>1. UNCHANGED <<logs, stable, snaps, super, gen, synced, issued, acked, promised, ck, index,
                    evictQ, op, nextLSN>>
    BY <1>5 DEF vars, disk, memory, pool, history
  <2>2. Log' = Log /\ (\A k : At(k)' = At(k)) /\ (\A k : Base(gen, k)' = Base(gen, k))
        /\ \A k, a, v : Fits(k, a, v)' <=> Fits(k, a, v)
    BY <2>1, ReadSame DEF Log, Base, Fits
  <2>3. Shape' /\ SnapShape' /\ Framed' /\ Ordered' /\ NextLogEmpty' /\ SuperAt' /\ SnapAt'
    BY <2>1, <2>2 DEF StoreInv, Shape, Call, SnapShape, Framed, Ordered, NextLogEmpty, SuperAt,
                      SnapAt
  <2>4. Scanned' /\ Pending' /\ Owned' /\ Entered' /\ Reading' /\ Promise'
    BY <2>1, <2>2 DEF StoreInv, Scanned, Pending, Writing, Owned, Entered, Reading, Promise
  <2>5. LiveFit' /\ LogFit' /\ Logged'
    BY <2>1, <2>2 DEF StoreInv, LiveFit, LogFit, Logged, Writing
  <2> QED BY <2>3, <2>4, <2>5 DEF StoreInv
<1> QED BY <1>2, <1>3, <1>4, <1>5 DEF Next

LEMMA StoreInvariance ==
  ASSUME Usage
  PROVE  Spec => []StoreInv
<1>1. Init => StoreInv /\ Referenced
  <2>1. Init => Referenced
    <3>1. \A S : <<>> \in Seq(S)
      OBVIOUS
    <3> QED BY <3>1 DEF Init, Referenced
  <2> QED BY <2>1, InitStore
<1>2. StoreInv /\ Referenced /\ [Next]_vars => (StoreInv /\ Referenced)'
  BY StoreStep, ReferencedStep
<1> QED BY <1>1, <1>2, PTL DEF Spec

-----------------------------------------------------------------------------
(* The theorems. *)

\* What an entry stands for: with a budget, its frame.
LEMMA HeldIs ==
  ASSUME StoreInv, NEW k \in Keys
  PROVE  Held(k) = At(k)
<1>1. CASE Budget = 0
  BY <1>1 DEF Held, At
<1>2. CASE Budget > 0 /\ ~Private(k)
  BY <1>2 DEF Held, At
<1>3. CASE Budget > 0 /\ Private(k) /\ ~index[k].tomb
  <2>1. /\ ReadAt(index[k].off) = Log[index[k].off].val
        /\ index[k].rec # 0 => index[k].rec = Log[index[k].off].val
    BY <1>3, EntryFrame
  <2> QED BY <1>3, <2>1 DEF Held, At, Read, Located
<1>4. CASE Budget > 0 /\ index[k].tomb
  BY <1>4 DEF Held, At, Read, Located
<1> QED BY <1>1, <1>2, <1>3, <1>4, StoreBoundAssumption

LEMMA StoreReadsCurrent ==
  ASSUME StoreInv
  PROVE  ReadCurrent
<1>1. \A k \in Keys : Fits(k, acked[k], Held(k))
  BY HeldIs DEF StoreInv, LiveFit
<1>2. ASSUME NEW c \in Clients, op[c].pc = "install" PROVE Fits(op[c].key, op[c].floor, op[c].val)
  BY <1>2 DEF StoreInv, Reading
<1> QED BY <1>1, <1>2 DEF ReadCurrent

LEMMA StoreKeeps ==
  ASSUME StoreInv
  PROVE  AckedKept
<1>1. ASSUME NEW sb \in Slots, NEW n \in stable..Len(Log), NEW s, s = Picked(sb),
             NEW file, file = Surviving(s, n)
      PROVE  /\ Openable(s)
             /\ \A k \in Keys : Fits(k, promised[k], Recovered(s, Intact(file))[k].rec)
  <2>1. /\ file \in Seq(Frames) /\ (s.gen > 0 => snaps[s.gen].ok)
        /\ \A k \in Keys : Fits(k, promised[k], Upto(Base(s.gen, k), file, Len(file), k))
    BY <1>1, SurvivingFacts
  <2>2. Openable(s)
    BY <2>1 DEF Openable
  <2>3. Intact(file) = file
    BY <2>1, IntactAll
  <2>4. Len(file) \in Nat /\ DOMAIN file = 1..Len(file)
    BY <2>1
  <2>5. \A k \in Keys : Recovered(s, file)[k].rec = Upto(Base(s.gen, k), file, Len(file), k)
    BY <2>4, RecoveredIs
  <2> QED BY <2>1, <2>2, <2>3, <2>5
<1> QED BY <1>1 DEF AckedKept

LEMMA StoreLogged ==
  ASSUME StoreInv, "sync" \notin Errors
  PROVE  LiveIsLogged
<1>1. ASSUME NEW sb \in Slots, NEW s, s = Picked(sb), NEW file, file = Surviving(s, Len(Log)),
             NEW k \in Keys, \A c \in Clients : op[c].key # k
      PROVE  Recovered(s, Intact(file))[k].rec = Held(k)
  <2>0. Len(Log) \in Nat /\ stable \in Nat /\ stable <= Len(Log) /\ Len(Log) \in stable..Len(Log)
    <3>1. Len(Log) \in Nat /\ stable \in Nat /\ stable <= Len(Log)
      BY LogFacts DEF StoreInv
    <3> QED BY <3>1
  <2>1. /\ file \in Seq(Frames)
        /\ \/ s.gen = gen /\ Len(file) = Len(Log) /\ \A i \in 1..Len(Log) : file[i] = Log[i]
           \/ file = <<>> /\ Base(s.gen, k) = At(k)
    BY <1>1, <2>0, SurvivingFacts
  <2>2. Intact(file) = file
    BY <2>1, IntactAll
  <2>3. Len(file) \in Nat /\ DOMAIN file = 1..Len(file)
    BY <2>1
  <2>4. Recovered(s, file)[k].rec = Upto(Base(s.gen, k), file, Len(file), k)
    BY <2>3, RecoveredIs
  <2>5. ASSUME s.gen = gen, Len(file) = Len(Log), \A i \in 1..Len(Log) : file[i] = Log[i]
        PROVE  Recovered(s, Intact(file))[k].rec = At(k)
    <3>1. PICK b : b = Base(gen, k)
      OBVIOUS
    <3>2. Upto(b, file, Len(Log), k) = Upto(b, Log, Len(Log), k)
      BY <2>0, <2>5, UptoPrefix
    <3>3. At(k) = Upto(b, Log, Len(Log), k)
      BY <1>1, <3>1 DEF StoreInv, Logged
    <3> QED BY <2>2, <2>4, <2>5, <3>1, <3>2, <3>3
  <2>6. ASSUME file = <<>>, Base(s.gen, k) = At(k)
        PROVE  Recovered(s, Intact(file))[k].rec = At(k)
    <3>1. PICK b : b = Base(s.gen, k)
      OBVIOUS
    <3>2. Upto(b, file, 0, k) = b /\ Len(file) = 0
      BY <2>6, UptoNone
    <3> QED BY <2>2, <2>4, <2>6, <3>1, <3>2
  <2>7. Recovered(s, Intact(file))[k].rec = At(k)
    BY <2>1, <2>5, <2>6
  <2> QED BY <2>7, HeldIs
<1> QED BY <1>1 DEF LiveIsLogged

\* With one writer per key and any number of readers, while the store is up each
\* entry stands for the last write of its key that returned, or a later one, through
\* every eviction, refill, checkpoint, crash and reopening; and a spilled read, which
\* reads the log with no lock held while the key is written and evicted again, hands
\* its caller a body of its own key no older than what had returned when it began.
\* (The body kept in memory for a key that a second caller reads is not covered: a
\* late reader may put an older one back.)
THEOREM ReadsCurrent ==
  ASSUME Usage
  PROVE  Spec => []ReadCurrent
<1>1. StoreInv => ReadCurrent
  BY StoreReadsCurrent
<1> QED BY <1>1, StoreInvariance, PTL

\* Wherever the process or the machine stops, inside a write, a flush or any step
\* of a checkpoint, and however many unflushed frames are lost, Open succeeds and
\* the store it builds reads every promised write, or a later one, of every key.
THEOREM PromisesKept ==
  ASSUME Usage
  PROVE  Spec => []AckedKept
<1>1. StoreInv => AckedKept
  BY StoreKeeps
<1> QED BY <1>1, StoreInvariance, PTL

\* When no flush fails and a key has one writer, whoever reads it, a process that
\* stops comes back with what the entry of each key no call is under way on stood
\* for: the index was repointed in the order of the log.
THEOREM LiveStateLogged ==
  ASSUME Usage, "sync" \notin Errors
  PROVE  Spec => []LiveIsLogged
<1>1. StoreInv => LiveIsLogged
  BY StoreLogged
<1> QED BY <1>1, StoreInvariance, PTL

-----------------------------------------------------------------------------
(* The resident count. *)

Resident == {k \in URLKeys : index[k].rec # 0}
Tracking == {c \in Clients : op[c].pc = "track"}

\* A resident body is a live one.
Bodies ==
  /\ DOMAIN index = Keys
  /\ \A k \in Keys : /\ DOMAIN index[k] = {"off", "lsn", "rec", "tomb"}
                     /\ index[k].rec # 0 => ~index[k].tomb

\* What a call under way has in hand, in a store that deletes nothing.
CallFit(X) ==
  /\ DOMAIN X = {"pc", "kind", "key", "off", "lsn", "val", "floor"}
  /\ X.pc \in Points
  /\ X.pc \in {"commit", "repoint"} => X.kind = "put" /\ X.key \in Keys /\ X.val # 0
  /\ X.pc \in {"read", "install", "track", "queue"} => X.key \in URLKeys
  /\ X.pc = "install" => X.val # 0

\* A resident record is queued for eviction, or about to be by its caller.
Listed ==
  \A k \in Resident : \/ \E i \in 1..Len(evictQ) : evictQ[i] = k
                      \/ \E c \in Clients : op[c].pc \in {"track", "queue"} /\ op[c].key = k

\* The count lags by the callers that have installed a body and not counted it.
ResidentExact ==
  /\ residentN \in Int /\ IsFiniteSet(Resident) /\ IsFiniteSet(Tracking)
  /\ residentN + Cardinality(Tracking) = Cardinality(Resident)

\* Over the budget, somebody is on the way to evict.
Watched == residentN > Budget => \E c \in Clients : op[c].pc \in {"queue", "evict"}

ResidentInv ==
  /\ Bodies /\ DOMAIN op = Clients /\ (\A c \in Clients : CallFit(op[c]))
  /\ evictQ \in Seq(URLKeys) /\ (\E S : issued \in Seq(S)) /\ crashes = 0
  /\ Listed /\ ResidentExact /\ Watched

LEMMA ResidentInit == Init => ResidentInv
<1> SUFFICES ASSUME Init PROVE ResidentInv
  OBVIOUS
<1>1. /\ index = [k \in Keys |-> Absent] /\ op = [c \in Clients |-> Idle]
      /\ residentN = 0 /\ evictQ = <<>> /\ issued = <<>> /\ crashes = 0
  BY DEF Init
<1>2. Bodies /\ Resident = {}
  BY <1>1 DEF Bodies, Absent, Resident, Keys
<1>3. /\ DOMAIN op = Clients /\ (\A c \in Clients : CallFit(op[c])) /\ Tracking = {}
  BY <1>1 DEF CallFit, Idle, Points, Tracking
<1>4. evictQ \in Seq(URLKeys) /\ (\E S : issued \in Seq(S))
  <2>1. <<>> \in Seq(URLKeys) /\ <<>> \in Seq({})
    OBVIOUS
  <2> QED BY <1>1, <2>1
<1>5. ResidentExact
  BY <1>1, <1>2, <1>3, FS_EmptySet DEF ResidentExact
<1>6. Listed /\ Watched
  BY <1>1, <1>2, StoreBoundAssumption DEF Listed, Watched
<1> QED BY <1>1, <1>2, <1>3, <1>4, <1>5, <1>6 DEF ResidentInv

\* A call's step that changes no residency and is not one of the accounting.
LEMMA ResidentOp ==
  ASSUME ResidentInv, NEW c \in Clients, NEW X, CallFit(X), X.pc # "track",
         op' = [op EXCEPT ![c] = X], op[c].pc \notin {"track", "queue", "evict"},
         Bodies', Resident' = Resident, \E S : issued' \in Seq(S),
         UNCHANGED <<residentN, evictQ, crashes>>
  PROVE  ResidentInv'
<1>1. DOMAIN op' = Clients /\ op'[c] = X /\ \A d \in Clients : d # c => op'[d] = op[d]
  BY DEF ResidentInv
<1>2. \A d \in Clients : CallFit(op'[d])
  BY <1>1 DEF ResidentInv
<1>3. Tracking' = Tracking
  BY <1>1 DEF Tracking
<1>4. \A d \in Clients : op[d].pc \in {"track", "queue", "evict"} => op'[d] = op[d]
  BY <1>1
<1>5. Listed'
  <2> SUFFICES ASSUME NEW k \in Resident
               PROVE  \/ \E i \in 1..Len(evictQ) : evictQ[i] = k
                      \/ \E d \in Clients : op'[d].pc \in {"track", "queue"} /\ op'[d].key = k
    BY DEF Listed
  <2> QED BY <1>4 DEF ResidentInv, Listed
<1>6. Watched'
  BY <1>4 DEF ResidentInv, Watched
<1>7. ResidentExact'
  BY <1>3 DEF ResidentInv, ResidentExact
<1>8. evictQ' \in Seq(URLKeys) /\ crashes' = 0
  BY DEF ResidentInv
<1> QED BY <1>1, <1>2, <1>5, <1>6, <1>7, <1>8 DEF ResidentInv

\* A body that becomes resident makes its caller track it.
LEMMA ResidentFill ==
  ASSUME ResidentInv, NEW c \in Clients, NEW X, CallFit(X), X.pc = "track",
         op' = [op EXCEPT ![c] = X], op[c].pc \notin {"track", "queue", "evict"},
         X.key \notin Resident, Bodies', Resident' = Resident \cup {X.key},
         UNCHANGED <<residentN, evictQ, crashes, issued>>
  PROVE  ResidentInv'
<1>1. DOMAIN op' = Clients /\ op'[c] = X /\ \A d \in Clients : d # c => op'[d] = op[d]
  BY DEF ResidentInv
<1>2. \A d \in Clients : CallFit(op'[d])
  BY <1>1 DEF ResidentInv
<1>3. Tracking' = Tracking \cup {c} /\ c \notin Tracking
  BY <1>1 DEF Tracking
<1>4. \A d \in Clients : op[d].pc \in {"track", "queue", "evict"} => op'[d] = op[d]
  BY <1>1
<1>5. Listed'
  <2> SUFFICES ASSUME NEW k \in Resident \cup {X.key}
               PROVE  \/ \E i \in 1..Len(evictQ) : evictQ[i] = k
                      \/ \E d \in Clients : op'[d].pc \in {"track", "queue"} /\ op'[d].key = k
    BY DEF Listed
  <2>1. CASE k \in Resident
    BY <1>4, <2>1 DEF ResidentInv, Listed
  <2>2. CASE k = X.key
    BY <1>1, <2>2
  <2> QED BY <2>1, <2>2
<1>6. Watched'
  BY <1>4 DEF ResidentInv, Watched
<1>7. ResidentExact'
  <2>1. residentN \in Int /\ IsFiniteSet(Resident) /\ IsFiniteSet(Tracking)
        /\ residentN + Cardinality(Tracking) = Cardinality(Resident)
    BY DEF ResidentInv, ResidentExact
  <2>2. IsFiniteSet(Resident') /\ Cardinality(Resident') = Cardinality(Resident) + 1
    BY <2>1, FS_AddElement
  <2>3. IsFiniteSet(Tracking') /\ Cardinality(Tracking') = Cardinality(Tracking) + 1
    BY <1>3, <2>1, FS_AddElement
  <2>4. Cardinality(Resident) \in Nat /\ Cardinality(Tracking) \in Nat
    BY <2>1, FS_CardinalityType
  <2>5. residentN' + Cardinality(Tracking') = Cardinality(Resident')
    BY <2>1, <2>2, <2>3, <2>4
  <2> QED BY <2>1, <2>2, <2>3, <2>5 DEF ResidentExact
<1>8. evictQ' \in Seq(URLKeys) /\ crashes' = 0 /\ \E S : issued' \in Seq(S)
  BY DEF ResidentInv
<1> QED BY <1>1, <1>2, <1>5, <1>6, <1>7, <1>8 DEF ResidentInv

\* Tracking, enqueueing, evicting and leaving the eviction loop.
LEMMA ResidentTrack ==
  ASSUME ResidentInv, NEW c \in Clients, Track(c)
  PROVE  ResidentInv'
<1>1. /\ op[c].pc = "track" /\ op' = [op EXCEPT ![c].pc = "queue"] /\ residentN' = residentN + 1
      /\ index' = index /\ evictQ' = evictQ /\ issued' = issued /\ crashes' = crashes
  BY DEF Track, history
<1>2. CallFit(op[c]) /\ DOMAIN op = Clients
  BY DEF ResidentInv
<1>3. /\ DOMAIN op' = Clients /\ op'[c].pc = "queue" /\ op'[c].key = op[c].key
      /\ CallFit(op'[c]) /\ \A d \in Clients : d # c => op'[d] = op[d]
  BY <1>1, <1>2 DEF CallFit, Points
<1>4. \A d \in Clients : CallFit(op'[d])
  BY <1>3 DEF ResidentInv
<1>5. Tracking' = Tracking \ {c} /\ c \in Tracking /\ Resident' = Resident
  BY <1>1, <1>3 DEF Tracking, Resident
<1>6. Listed'
  <2> SUFFICES ASSUME NEW k \in Resident
               PROVE  \/ \E i \in 1..Len(evictQ) : evictQ[i] = k
                      \/ \E d \in Clients : op'[d].pc \in {"track", "queue"} /\ op'[d].key = k
    BY <1>1, <1>5 DEF Listed
  <2> QED BY <1>3 DEF ResidentInv, Listed
<1>7. Watched'
  BY <1>3 DEF Watched
<1>8. ResidentExact'
  <2>1. residentN \in Int /\ IsFiniteSet(Resident) /\ IsFiniteSet(Tracking)
        /\ residentN + Cardinality(Tracking) = Cardinality(Resident)
    BY DEF ResidentInv, ResidentExact
  <2>2. IsFiniteSet(Tracking') /\ Cardinality(Tracking') = Cardinality(Tracking) - 1
    BY <1>5, <2>1, FS_RemoveElement
  <2>3. Cardinality(Resident) \in Nat /\ Cardinality(Tracking) \in Nat
    BY <2>1, FS_CardinalityType
  <2>4. residentN' + Cardinality(Tracking') = Cardinality(Resident')
    BY <1>1, <1>5, <2>1, <2>2, <2>3
  <2> QED BY <1>1, <1>5, <2>1, <2>2, <2>4 DEF ResidentExact
<1>9. Bodies' /\ evictQ' \in Seq(URLKeys) /\ crashes' = 0 /\ \E S : issued' \in Seq(S)
  BY <1>1 DEF ResidentInv, Bodies
<1> QED BY <1>3, <1>4, <1>6, <1>7, <1>8, <1>9 DEF ResidentInv

LEMMA ResidentEnqueue ==
  ASSUME ResidentInv, NEW c \in Clients, Enqueue(c)
  PROVE  ResidentInv'
<1>1. /\ op[c].pc = "queue" /\ op' = [op EXCEPT ![c].pc = "evict"] /\ residentN' = residentN
      /\ index' = index /\ evictQ' = Append(evictQ, op[c].key) /\ issued' = issued
      /\ crashes' = crashes
  BY DEF Enqueue, history
<1>2. CallFit(op[c]) /\ DOMAIN op = Clients /\ evictQ \in Seq(URLKeys)
  BY DEF ResidentInv
<1>3. /\ DOMAIN op' = Clients /\ op'[c].pc = "evict"
      /\ CallFit(op'[c]) /\ \A d \in Clients : d # c => op'[d] = op[d]
  BY <1>1, <1>2 DEF CallFit, Points
<1>4. \A d \in Clients : CallFit(op'[d])
  BY <1>3 DEF ResidentInv
<1>5. Tracking' = Tracking /\ Resident' = Resident
  BY <1>1, <1>3 DEF Tracking, Resident
<1>6. PICK q \in Seq(URLKeys) : q = evictQ
  BY <1>2
<1>7. PICK u \in URLKeys : u = op[c].key
  BY <1>1, <1>2 DEF CallFit
<1>8. /\ Append(q, u) \in Seq(URLKeys) /\ Len(Append(q, u)) = Len(q) + 1 /\ Len(q) \in Nat
      /\ Append(q, u)[Len(q) + 1] = u /\ \A i \in 1..Len(q) : Append(q, u)[i] = q[i]
  OBVIOUS
<1>9. evictQ' = Append(q, u)
  BY <1>1, <1>6, <1>7
<1>10. Listed'
  <2> SUFFICES ASSUME NEW k \in Resident
               PROVE  \/ \E i \in 1..Len(evictQ') : evictQ'[i] = k
                      \/ \E d \in Clients : op'[d].pc \in {"track", "queue"} /\ op'[d].key = k
    BY <1>5 DEF Listed
  <2>1. CASE \E i \in 1..Len(q) : q[i] = k
    <3>1. PICK i \in 1..Len(q) : q[i] = k
      BY <2>1
    <3>2. i \in 1..Len(Append(q, u)) /\ Append(q, u)[i] = k
      BY <1>8, <3>1
    <3> QED BY <1>9, <3>2
  <2>2. CASE k = u
    <3>1. Len(q) + 1 \in 1..Len(Append(q, u)) /\ Append(q, u)[Len(q) + 1] = k
      BY <1>8, <2>2
    <3> QED BY <1>9, <3>1
  <2>3. CASE \E d \in Clients \ {c} : op[d].pc \in {"track", "queue"} /\ op[d].key = k
    BY <1>3, <2>3
  <2> QED BY <1>6, <1>7, <2>1, <2>2, <2>3 DEF ResidentInv, Listed
<1>11. Watched'
  BY <1>3 DEF Watched
<1>12. ResidentExact'
  BY <1>1, <1>5 DEF ResidentInv, ResidentExact
<1>13. Bodies' /\ evictQ' \in Seq(URLKeys) /\ crashes' = 0 /\ \E S : issued' \in Seq(S)
  BY <1>1, <1>8, <1>9 DEF ResidentInv, Bodies
<1> QED BY <1>3, <1>4, <1>10, <1>11, <1>12, <1>13 DEF ResidentInv

LEMMA ResidentEvict ==
  ASSUME ResidentInv, NEW c \in Clients, Evict(c)
  PROVE  ResidentInv'
<1>1. PICK q \in Seq(URLKeys) : q = evictQ
  BY DEF ResidentInv
<1>2. q # <<>> /\ op[c].pc = "evict" /\ evictQ' = Tail(q)
  BY <1>1 DEF Evict, OverBudget, QueueLeft
<1>3. /\ Head(q) \in URLKeys /\ Head(q) = q[1] /\ Tail(q) \in Seq(URLKeys)
      /\ Len(q) \in Nat /\ Len(Tail(q)) = Len(q) - 1
      /\ \A i \in 1..Len(q) - 1 : Tail(q)[i] = q[i + 1]
  BY <1>2
<1>4. PICK v \in URLKeys : v = Head(q)
  BY <1>3
<1>5. /\ op' = op /\ issued' = issued /\ crashes' = crashes
      /\ index' = IF index[v].rec # 0 /\ ~index[v].tomb THEN [index EXCEPT ![v].rec = 0] ELSE index
      /\ residentN' = IF index[v].rec # 0 /\ ~index[v].tomb THEN residentN - 1 ELSE residentN
  BY <1>1, <1>4 DEF Evict, history
<1>6. v \in Keys /\ Bodies
  BY DEF Keys, ResidentInv
<1>7. /\ Bodies' /\ Resident' = Resident \ {v}
      /\ residentN' = IF v \in Resident THEN residentN - 1 ELSE residentN
  <2>1. CASE index[v].rec # 0
    <3>1. index' = [index EXCEPT ![v].rec = 0] /\ residentN' = residentN - 1 /\ v \in Resident
      BY <1>5, <1>6, <2>1 DEF Bodies, Resident
    <3>2. /\ DOMAIN index' = Keys /\ index'[v].rec = 0
          /\ DOMAIN index'[v] = {"off", "lsn", "rec", "tomb"}
          /\ \A k \in Keys : k # v => index'[k] = index[k]
      BY <1>6, <3>1 DEF Bodies
    <3>3. Bodies'
      BY <1>6, <3>2 DEF Bodies
    <3>4. Resident' = Resident \ {v}
      BY <3>2 DEF Resident, Keys
    <3> QED BY <3>1, <3>3, <3>4
  <2>2. CASE index[v].rec = 0
    <3>1. index' = index /\ residentN' = residentN /\ v \notin Resident
      BY <1>5, <2>2 DEF Resident
    <3>2. Bodies' /\ Resident' = Resident
      BY <1>6, <3>1 DEF Bodies, Resident
    <3> QED BY <3>1, <3>2
  <2> QED BY <2>1, <2>2
<1>8. Tracking' = Tracking /\ DOMAIN op' = Clients /\ \A d \in Clients : CallFit(op'[d])
  BY <1>5 DEF ResidentInv, Tracking
<1>9. Listed'
  <2> SUFFICES ASSUME NEW k \in Resident, k # v
               PROVE  \/ \E i \in 1..Len(evictQ') : evictQ'[i] = k
                      \/ \E d \in Clients : op[d].pc \in {"track", "queue"} /\ op[d].key = k
    BY <1>5, <1>7 DEF Listed
  <2>1. CASE \E i \in 1..Len(q) : q[i] = k
    <3>1. PICK i \in 1..Len(q) : q[i] = k
      BY <2>1
    <3>2. i # 1
      BY <1>3, <1>4, <3>1
    <3>3. i - 1 \in 1..Len(Tail(q)) /\ Tail(q)[i - 1] = k
      BY <1>3, <3>1, <3>2
    <3> QED BY <1>2, <3>3
  <2> QED BY <1>1, <2>1 DEF ResidentInv, Listed
<1>10. Watched'
  BY <1>2, <1>5 DEF Watched
<1>11. ResidentExact'
  <2>1. residentN \in Int /\ IsFiniteSet(Resident) /\ IsFiniteSet(Tracking)
        /\ residentN + Cardinality(Tracking) = Cardinality(Resident)
    BY DEF ResidentInv, ResidentExact
  <2>2. /\ IsFiniteSet(Resident')
        /\ Cardinality(Resident') =
             IF v \in Resident THEN Cardinality(Resident) - 1 ELSE Cardinality(Resident)
    BY <1>7, <2>1, FS_RemoveElement
  <2>3. Cardinality(Resident) \in Nat /\ Cardinality(Tracking) \in Nat
    BY <2>1, FS_CardinalityType
  <2>4. residentN' \in Int /\ residentN' + Cardinality(Tracking) = Cardinality(Resident')
    BY <1>7, <2>1, <2>2, <2>3
  <2> QED BY <1>8, <2>1, <2>2, <2>4 DEF ResidentExact
<1>12. evictQ' \in Seq(URLKeys) /\ crashes' = 0 /\ \E S : issued' \in Seq(S)
  BY <1>2, <1>3, <1>5 DEF ResidentInv
<1> QED BY <1>7, <1>8, <1>9, <1>10, <1>11, <1>12 DEF ResidentInv

\* Over the budget with an empty queue, every resident record would be one that
\* its caller is still to count or to queue.
LEMMA ResidentEvictDone ==
  ASSUME ResidentInv, NEW c \in Clients, EvictDone(c)
  PROVE  ResidentInv'
<1>1. /\ op[c].pc = "evict" /\ ~OverBudget /\ op' = [op EXCEPT ![c] = Idle]
      /\ index' = index /\ residentN' = residentN /\ evictQ' = evictQ
      /\ issued' = issued /\ crashes' = crashes
  BY DEF EvictDone, pool, history
<1>2. /\ DOMAIN op' = Clients /\ op'[c] = Idle /\ \A d \in Clients : d # c => op'[d] = op[d]
  BY <1>1 DEF ResidentInv
<1>3. CallFit(Idle)
  BY DEF CallFit, Idle, Points
<1>4. \A d \in Clients : CallFit(op'[d])
  BY <1>2, <1>3 DEF ResidentInv
<1>5. Tracking' = Tracking /\ Resident' = Resident
  BY <1>1, <1>2 DEF Tracking, Resident, Idle
<1>6. Bodies' /\ evictQ' \in Seq(URLKeys) /\ crashes' = 0 /\ \E S : issued' \in Seq(S)
  BY <1>1 DEF ResidentInv, Bodies
<1>7. ResidentExact'
  BY <1>1, <1>5 DEF ResidentInv, ResidentExact
<1>8. Listed'
  <2> SUFFICES ASSUME NEW k \in Resident
               PROVE  \/ \E i \in 1..Len(evictQ) : evictQ[i] = k
                      \/ \E d \in Clients : op'[d].pc \in {"track", "queue"} /\ op'[d].key = k
    BY <1>1, <1>5 DEF Listed
  <2> QED BY <1>1, <1>2 DEF ResidentInv, Listed
<1>9. Watched'
  <2> SUFFICES ASSUME residentN > Budget, \A d \in Clients : op[d].pc # "queue" PROVE FALSE
    BY <1>1, <1>2 DEF Watched
  <2>1. evictQ = <<>>
    BY <1>1 DEF OverBudget
  <2>2. ~ \E i \in 1..Len(evictQ) : evictQ[i] \in URLKeys
    BY <2>1
  <2>3. \A k \in Resident : \E d \in Tracking : op[d].key = k
    BY <2>1, <2>2 DEF ResidentInv, Listed, Tracking, Resident
  <2>4. residentN \in Int /\ IsFiniteSet(Resident) /\ IsFiniteSet(Tracking)
        /\ residentN + Cardinality(Tracking) = Cardinality(Resident)
    BY DEF ResidentInv, ResidentExact
  <2> DEFINE T0 == {d \in Tracking : op[d].key \in Resident}
             g == [d \in T0 |-> op[d].key]
  <2>5. g \in Surjection(T0, Resident)
    <3>1. g \in [T0 -> Resident]
      OBVIOUS
    <3>2. \A k \in Resident : \E d \in T0 : g[d] = k
      BY <2>3
    <3> QED BY <3>1, <3>2 DEF Surjection
  <2>6. IsFiniteSet(T0) /\ Cardinality(T0) <= Cardinality(Tracking)
    BY <2>4, FS_Subset
  <2>7. Cardinality(Resident) <= Cardinality(T0)
    <3> HIDE DEF T0, g
    <3> QED BY <2>5, <2>6, FS_Surjection
  <2>8. Cardinality(Resident) \in Nat /\ Cardinality(Tracking) \in Nat /\ Cardinality(T0) \in Nat
    BY <2>4, <2>6, FS_CardinalityType
  <2> HIDE DEF T0
  <2> QED BY <2>4, <2>6, <2>7, <2>8, StoreBoundAssumption
<1> QED BY <1>2, <1>4, <1>6, <1>7, <1>8, <1>9 DEF ResidentInv

LEMMA ResidentInstall ==
  ASSUME ResidentInv, Budget > 0, NEW c \in Clients, Install(c)
  PROVE  ResidentInv'
<1>1. PICK k \in URLKeys : k = op[c].key
  BY DEF ResidentInv, CallFit, Install
<1>2. /\ op[c].pc = "install" /\ UNCHANGED <<residentN, evictQ, issued, crashes>>
      /\ index' = IF index[k].rec = 0 /\ ~index[k].tomb
                  THEN [index EXCEPT ![k].rec = op[c].val] ELSE index
      /\ op' = [op EXCEPT ![c] = IF index[k].rec = 0 /\ ~index[k].tomb
                                 THEN [op[c] EXCEPT !.pc = "track"] ELSE Idle]
  BY <1>1 DEF Install, pool, history, ResidentInv
<1>3. k \in Keys /\ Bodies /\ CallFit(op[c]) /\ op[c].val # 0 /\ \E S : issued' \in Seq(S)
  BY <1>2 DEF Keys, ResidentInv, CallFit
<1>4. CASE index[k].rec = 0 /\ ~index[k].tomb
  <2>1. PICK X : X = [op[c] EXCEPT !.pc = "track"]
    OBVIOUS
  <2>2. CallFit(X) /\ X.pc = "track" /\ X.key = k
    BY <1>1, <1>3, <2>1 DEF CallFit, Points
  <2>3. /\ DOMAIN index' = Keys /\ index'[k].rec # 0 /\ ~index'[k].tomb
        /\ DOMAIN index'[k] = {"off", "lsn", "rec", "tomb"}
        /\ \A j \in Keys : j # k => index'[j] = index[j]
    BY <1>2, <1>3, <1>4 DEF Bodies
  <2>4. Bodies' /\ Resident' = Resident \cup {k} /\ k \notin Resident
    BY <1>3, <1>4, <2>3 DEF Bodies, Resident, Keys
  <2>5. op' = [op EXCEPT ![c] = X]
    BY <1>2, <1>4, <2>1
  <2> QED BY <1>2, <2>2, <2>4, <2>5, ResidentFill
<1>5. CASE ~(index[k].rec = 0 /\ ~index[k].tomb)
  <2>1. op' = [op EXCEPT ![c] = Idle] /\ index' = index
    BY <1>2, <1>5
  <2>2. CallFit(Idle) /\ Idle.pc # "track"
    BY DEF CallFit, Idle, Points
  <2>3. Bodies' /\ Resident' = Resident
    BY <1>3, <2>1 DEF Bodies, Resident
  <2> QED BY <1>2, <1>3, <2>1, <2>2, <2>3, ResidentOp
<1> QED BY <1>4, <1>5

LEMMA ResidentRepoint ==
  ASSUME ResidentInv, Budget > 0, NEW c \in Clients, Repoint(c)
  PROVE  ResidentInv'
<1>1. op[c].pc = "repoint" /\ CallFit(op[c]) /\ Bodies /\ DOMAIN op = Clients
  BY DEF Repoint, ResidentInv
<1>2. PICK k \in Keys : k = op[c].key
  BY <1>1 DEF CallFit
<1>3. PICK e : e = Pointed(op[c])
  OBVIOUS
<1>4. DOMAIN e = {"off", "lsn", "rec", "tomb"} /\ e.rec # 0 /\ ~e.tomb
  BY <1>1, <1>3 DEF CallFit, Pointed
<1>5. /\ index' = [index EXCEPT ![k] = e] /\ UNCHANGED <<residentN, evictQ, issued, crashes>>
      /\ op' = [op EXCEPT ![c] = IF k \in URLKeys /\ index[k].rec = 0
                                 THEN [op[c] EXCEPT !.pc = "track"] ELSE Idle]
  BY <1>1, <1>2, <1>3 DEF Repoint, NewResident, CallFit, pool
<1>6. /\ DOMAIN index' = Keys /\ index'[k] = e /\ \A j \in Keys : j # k => index'[j] = index[j]
  BY <1>1, <1>5 DEF Bodies
<1>7. Bodies' /\ \E S : issued' \in Seq(S)
  BY <1>1, <1>4, <1>5, <1>6 DEF Bodies, ResidentInv
<1>8. Resident' = Resident \cup ({k} \cap URLKeys)
  BY <1>4, <1>6 DEF Resident, Keys
<1>9. CASE k \in URLKeys /\ index[k].rec = 0
  <2>1. PICK X : X = [op[c] EXCEPT !.pc = "track"]
    OBVIOUS
  <2>2. CallFit(X) /\ X.pc = "track" /\ X.key = k
    BY <1>1, <1>2, <1>9, <2>1 DEF CallFit, Points
  <2>3. Resident' = Resident \cup {k} /\ k \notin Resident
    BY <1>8, <1>9 DEF Resident
  <2>4. op' = [op EXCEPT ![c] = X]
    BY <1>5, <1>9, <2>1
  <2> QED BY <1>1, <1>5, <1>7, <2>2, <2>3, <2>4, ResidentFill
<1>10. CASE ~(k \in URLKeys /\ index[k].rec = 0)
  <2>1. op' = [op EXCEPT ![c] = Idle]
    BY <1>5, <1>10
  <2>2. CallFit(Idle) /\ Idle.pc # "track"
    BY DEF CallFit, Idle, Points
  <2>3. Resident' = Resident
    BY <1>8, <1>10 DEF Resident
  <2> QED BY <1>1, <1>5, <1>7, <2>1, <2>2, <2>3, ResidentOp
<1> QED BY <1>9, <1>10

\* The steps of a call that change no index entry.
Moving(c) ==
  \/ \E k \in Keys : Put(c, k) \/ Delete(c, k) \/ Lookup(c, k)
  \/ Commit(c) \/ CommitFails(c) \/ Spill(c)
  \/ Intern(c) \/ InternLog(c) \/ InternFails(c)

LEMMA ResidentMove ==
  ASSUME ResidentInv, "delete" \notin Ops, NEW c \in Clients, Moving(c)
  PROVE  ResidentInv'
<1> DEFINE Moves(X) == /\ CallFit(X) /\ X.pc # "track" /\ op' = [op EXCEPT ![c] = X]
                       /\ op[c].pc \notin {"track", "queue", "evict"} /\ index' = index
                       /\ (\E S : issued' \in Seq(S)) /\ UNCHANGED <<residentN, evictQ, crashes>>
<1>1. ASSUME NEW X, Moves(X) PROVE ResidentInv'
  <2>1. Bodies' /\ Resident' = Resident
    BY <1>1 DEF ResidentInv, Bodies, Resident
  <2> QED BY <1>1, <2>1, ResidentOp
<1>2. CallFit(op[c]) /\ DOMAIN op = Clients /\ (\E S : issued \in Seq(S))
  BY DEF ResidentInv
<1>3. CallFit(Idle) /\ Idle.pc # "track"
  BY DEF CallFit, Idle, Points
<1>4. ASSUME NEW k \in Keys, Put(c, k) PROVE ResidentInv'
  <2>1. PICK S : issued \in Seq(S)
    BY <1>2
  <2>2. PICK w : w = [key |-> k, kind |-> "put"]
    OBVIOUS
  <2>3. issued' = Append(issued, w) /\ issued \in Seq(S \cup {w})
    BY <1>4, <2>1, <2>2 DEF Put, Write
  <2>4. Len(issued') \in Nat /\ Len(issued') # 0 /\ issued' \in Seq(S \cup {w})
    BY <2>3
  <2>5. PICK X : X = [Idle EXCEPT !.pc = "commit", !.kind = "put", !.key = k,
                                  !.off = Len(Log) + 1, !.lsn = nextLSN, !.val = Len(issued')]
    OBVIOUS
  <2>6. CallFit(X) /\ X.pc # "track"
    BY <2>4, <2>5 DEF CallFit, Idle, Points
  <2>7. /\ op' = [op EXCEPT ![c] = X] /\ op[c].pc = "idle" /\ index' = index
        /\ UNCHANGED <<residentN, evictQ, crashes>>
    BY <1>4, <2>5 DEF Put, Write, Ready, pool
  <2>8. Moves(X)
    BY <2>4, <2>6, <2>7
  <2> QED BY <1>1, <2>8
<1>5. ASSUME NEW k \in Keys, Lookup(c, k) PROVE ResidentInv'
  <2>1. PICK X : X = [Idle EXCEPT !.pc = "read", !.key = k, !.off = index[k].off, !.floor = acked[k]]
    OBVIOUS
  <2>2. CallFit(X) /\ X.pc # "track"
    BY <1>5, <2>1 DEF CallFit, Idle, Points, Lookup
  <2>3. /\ op' = [op EXCEPT ![c] = X] /\ op[c].pc = "idle" /\ index' = index
        /\ UNCHANGED <<residentN, evictQ, crashes, issued>>
    BY <1>5, <2>1 DEF Lookup, Ready, pool, history
  <2> QED BY <1>1, <1>2, <2>2, <2>3
<1>6. ASSUME Commit(c) PROVE ResidentInv'
  <2>1. PICK X : X = [op[c] EXCEPT !.pc = "repoint"]
    OBVIOUS
  <2>2. CallFit(X) /\ X.pc # "track"
    BY <1>2, <1>6, <2>1 DEF CallFit, Points, Commit
  <2>3. /\ op' = [op EXCEPT ![c] = X] /\ op[c].pc = "commit" /\ index' = index
        /\ UNCHANGED <<residentN, evictQ, crashes, issued>>
    BY <1>2, <1>6, <2>1 DEF Commit, pool, history
  <2> QED BY <1>1, <1>2, <2>2, <2>3
<1>7. ASSUME CommitFails(c) \/ InternLog(c) \/ InternFails(c) PROVE ResidentInv'
  <2>1. /\ op' = [op EXCEPT ![c] = Idle] /\ op[c].pc \in {"commit", "intern"} /\ index' = index
        /\ UNCHANGED <<residentN, evictQ, crashes, issued>>
    BY <1>7 DEF CommitFails, InternLog, InternFails, pool, history
  <2> QED BY <1>1, <1>2, <1>3, <2>1
<1>8. ASSUME Spill(c) PROVE ResidentInv'
  <2>1. PICK v : v = ReadAt(op[c].off)
    OBVIOUS
  <2>2. PICK X : X = IF v = 0 THEN Idle ELSE [op[c] EXCEPT !.pc = "install", !.val = v]
    OBVIOUS
  <2>3. CallFit(X) /\ X.pc # "track"
    BY <1>2, <1>3, <1>8, <2>2 DEF CallFit, Points, Spill
  <2>4. /\ op' = [op EXCEPT ![c] = X] /\ op[c].pc = "read" /\ index' = index
        /\ UNCHANGED <<residentN, evictQ, crashes, issued>>
    BY <1>2, <1>8, <2>1, <2>2 DEF Spill, pool, history
  <2> QED BY <1>1, <1>2, <2>3, <2>4
<1>9. ASSUME Intern(c) PROVE ResidentInv'
  <2>1. PICK X : X = [Idle EXCEPT !.pc = "intern", !.val = Len(refs')]
    OBVIOUS
  <2>2. CallFit(X) /\ X.pc # "track"
    BY <2>1 DEF CallFit, Idle, Points
  <2>3. /\ op' = [op EXCEPT ![c] = X] /\ op[c].pc = "idle" /\ index' = index
        /\ UNCHANGED <<residentN, evictQ, crashes, issued>>
    BY <1>9, <2>1 DEF Intern, Ready, pool
  <2> QED BY <1>1, <1>2, <2>2, <2>3
<1>10. ~ \E k \in Keys : Delete(c, k)
  BY DEF Delete
<1> HIDE DEF Moves
<1> QED BY <1>4, <1>5, <1>6, <1>7, <1>8, <1>9, <1>10 DEF Moving

LEMMA ResidentStep ==
  ASSUME ResidentInv, Budget > 0, "delete" \notin Ops, "close" \notin Ops, Crashes = 0,
         [Next]_vars
  PROVE  ResidentInv'
<1>1. ASSUME UNCHANGED <<index, op, residentN, evictQ, issued, crashes>> PROVE ResidentInv'
  <2>1. /\ Bodies' /\ Resident' = Resident /\ Tracking' = Tracking
        /\ \A d \in Clients : CallFit(op'[d])
    BY <1>1 DEF ResidentInv, Bodies, Resident, Tracking
  <2>2. Listed' /\ Watched' /\ ResidentExact'
    BY <1>1, <2>1 DEF ResidentInv, Listed, Watched, ResidentExact
  <2> QED BY <1>1, <2>1, <2>2 DEF ResidentInv
<1>2. CASE UNCHANGED vars
  BY <1>1, <1>2 DEF vars, pool, history
<1>3. CASE Checkpoint
  <2> DEFINE Same == UNCHANGED <<index, op, residentN, evictQ, issued, crashes>>
  <2>1. Begin \/ ScanHosts \/ ScanStrings \/ Cut \/ WriteSnapshot => Same
    BY DEF Begin, ScanHosts, ScanStrings, Cut, WriteSnapshot, pool, history
  <2>2. SnapshotFails \/ WriteSuper \/ SuperFails => Same
    BY DEF SnapshotFails, WriteSuper, SuperFails, pool, history
  <2>3. Swap \/ Reclaim => Same
    BY DEF Swap, Reclaim, pool, history
  <2>4. ASSUME NEW k \in URLKeys, Scan(k) PROVE Same
    BY <2>4 DEF Scan, pool, history
  <2>5. Same
    BY <1>3, <2>1, <2>2, <2>3, <2>4 DEF Checkpoint
  <2> QED BY <1>1, <2>5
<1>4. ~Reopen
  BY DEF Reopen, Crash, CloseOpen, ResidentInv
<1>5. ASSUME NEW c \in Clients, Client(c) PROVE ResidentInv'
  <2>1. CASE WriteFails(c)
    BY <1>1, <2>1 DEF WriteFails, pool, history
  <2>2. CASE Repoint(c) \/ Install(c)
    BY <1>5, <2>2, ResidentRepoint, ResidentInstall
  <2>3. CASE Track(c) \/ Enqueue(c) \/ Evict(c) \/ EvictDone(c)
    BY <2>3, ResidentTrack, ResidentEnqueue, ResidentEvict, ResidentEvictDone
  <2>4. CASE Moving(c)
    BY <2>4, ResidentMove
  <2> QED BY <1>5, <2>1, <2>2, <2>3, <2>4 DEF Client, Moving
<1> QED BY <1>2, <1>3, <1>4, <1>5 DEF Next

\* Callers that put and read under a resident budget, in any interleaving and with
\* checkpoints and failing file operations, never leave the count off or the store
\* over its budget once they have returned.  A delete and a reopened store are
\* excluded: DeleteURL drops a body, and recovery loads bodies, that the count is
\* not told of.
THEOREM ResidentsCounted ==
  ASSUME "delete" \notin Ops, "close" \notin Ops, Crashes = 0
  PROVE  Spec => []ResidentCounted
<1> DEFINE Kept == Budget > 0 => ResidentInv
<1>1. Init => Kept
  BY ResidentInit
<1>2. Kept /\ [Next]_vars => Kept'
  BY ResidentStep
<1>3. Kept => ResidentCounted
  <2> SUFFICES ASSUME ResidentInv, Budget > 0, \A c \in Clients : op[c].pc = "idle"
               PROVE  residentN = Cardinality(Resident) /\ residentN <= Budget
    BY DEF ResidentCounted, Resident
  <2>1. Tracking = {}
    BY DEF Tracking
  <2>2. residentN \in Int /\ IsFiniteSet(Resident)
        /\ residentN + Cardinality(Tracking) = Cardinality(Resident)
    BY DEF ResidentInv, ResidentExact
  <2>3. Cardinality(Tracking) = 0
    BY <2>1, FS_EmptySet
  <2>4. ~(residentN > Budget)
    BY DEF ResidentInv, Watched
  <2>5. residentN + 0 = Cardinality(Resident)
    BY <2>2, <2>3
  <2> QED BY <2>2, <2>4, <2>5, StoreBoundAssumption
<1> QED BY <1>1, <1>2, <1>3, PTL DEF Spec

-----------------------------------------------------------------------------
(* The string arena. *)

\* The strings before those of the log of generation g, and the place of frame i
\* among the interning ones.
Strs(g) == IF g = 0 THEN <<>> ELSE snaps[g].strs
Rank(fs, i) == Cardinality({h \in Interned(fs) : h <= i})
Interning == {c \in Clients : op[c].pc = "intern"}

\* Every string of a is at the reference its Intern call returned.
Numbered(a) ==
  a \in Seq(Nat) /\ \A i \in 1..Len(a) : a[i] \in 1..Len(refs) /\ refs[a[i]] = i

\* So is the string of every frame, once the log is replayed over the snapshot.
LogStrings ==
  \A i \in Interned(Log) :
    Log[i].val \in 1..Len(refs) /\ refs[Log[i].val] = Len(Strs(gen)) + Rank(Log, i)

\* A string whose frame is still to be written is the last of the arena.
Caught ==
  \A c \in Interning :
    op[c].val \in 1..Len(refs) /\ refs[op[c].val] = Len(arena) /\ c \in Interners
Tally ==
  Len(arena) = Len(Strs(gen)) + Cardinality(Interned(Log)) + (IF Interning = {} THEN 0 ELSE 1)

\* What the checkpoint has copied is the arena.
CopiedStrings ==
  /\ ck.pc \in {"cut", "snap", "super", "swap"} => ck.strs = arena
  /\ ck.pc \in {"super", "swap"} => snaps[gen + 1].strs = arena

ArenaInv ==
  /\ refs \in Seq(Nat) /\ Numbered(arena) /\ Numbered(Strs(gen))
  /\ LogStrings /\ Caught /\ Tally /\ CopiedStrings

\* In a finite set of naturals every rank is somebody's: consider a smallest set
\* in which one is not.
LEMMA Ranked ==
  ASSUME NEW P \in SUBSET Nat, IsFiniteSet(P), NEW j \in 1..Cardinality(P)
  PROVE  \E i \in P : Cardinality({h \in P : h <= i}) = j
<1> DEFINE Full1(S) == \A x \in 1..Cardinality(S) : \E i \in S : Cardinality({h \in S : h <= i}) = x
           Bad == {S \in FiniteSubsetsOf(Nat) : ~Full1(S)}
<1>1. Bad = {}
  <2> SUFFICES ASSUME Bad # {} PROVE FALSE
    OBVIOUS
  <2>1. Bad \subseteq FiniteSubsetsOf(Nat)
    OBVIOUS
  <2>2. PICK S \in Bad : \A R \in Bad : ~ (<<R, S>> \in StrictSubsetOrdering(Nat))
    BY <2>1, FS_StrictSubsetOrderingWellFounded, WFMin
  <2>3. S \in SUBSET Nat /\ IsFiniteSet(S) /\ ~Full1(S)
    BY DEF FiniteSubsetsOf
  <2>4. Cardinality(S) \in Nat
    BY <2>3, FS_CardinalityType
  <2>5. S # {}
    <3> SUFFICES ASSUME S = {} PROVE FALSE
      OBVIOUS
    <3>1. Cardinality(S) = 0
      BY FS_EmptySet
    <3> QED BY <2>3, <3>1
  <2>6. PICK m \in S : \A y \in S : y <= m
    <3>1. Max(S) \in S /\ \A y \in S : y <= Max(S)
      BY <2>3, <2>5, GreatestNat
    <3> QED BY <3>1
  <2>7. PICK R : R = S \ {m}
    OBVIOUS
  <2>8. /\ R \in SUBSET Nat /\ IsFiniteSet(R) /\ Cardinality(R) = Cardinality(S) - 1
        /\ <<R, S>> \in StrictSubsetOrdering(Nat)
    BY <2>3, <2>6, <2>7, FS_RemoveElement DEF StrictSubsetOrdering
  <2>9. Full1(R)
    BY <2>2, <2>8 DEF FiniteSubsetsOf
  <2>10. ASSUME NEW x \in 1..Cardinality(S)
         PROVE  \E i \in S : Cardinality({h \in S : h <= i}) = x
    <3>1. CASE x = Cardinality(S)
      <4>1. {h \in S : h <= m} = S
        BY <2>6
      <4> QED BY <3>1, <4>1
    <3>2. CASE x # Cardinality(S)
      <4>1. x \in 1..Cardinality(R)
        BY <2>4, <2>8, <2>10, <3>2
      <4>2. PICK i \in R : Cardinality({h \in R : h <= i}) = x
        BY <2>9, <4>1
      <4>3. i \in Nat /\ m \in Nat /\ i # m /\ i <= m
        BY <2>3, <2>6, <2>7, <4>2
      <4>4. {h \in S : h <= i} = {h \in R : h <= i}
        BY <2>3, <2>7, <4>3
      <4> QED BY <2>7, <4>2, <4>4
    <3> QED BY <3>1, <3>2
  <2> QED BY <2>3, <2>10
<1>2. P \in FiniteSubsetsOf(Nat)
  BY DEF FiniteSubsetsOf
<1>3. Full1(P)
  BY <1>1, <1>2
<1> QED BY <1>3

LEMMA InternedFacts ==
  ASSUME NEW fs \in Seq(Frames)
  PROVE  /\ Interned(fs) \in SUBSET Nat /\ Interned(fs) \subseteq 1..Len(fs)
         /\ IsFiniteSet(Interned(fs)) /\ Cardinality(Interned(fs)) \in Nat
         /\ \A i \in Interned(fs) : fs[i].val \in Nat
<1>1. Len(fs) \in Nat /\ DOMAIN fs = 1..Len(fs) /\ \A i \in 1..Len(fs) : fs[i] \in Frames
  OBVIOUS
<1>2. Interned(fs) \subseteq 1..Len(fs) /\ Interned(fs) \in SUBSET Nat
  BY <1>1 DEF Interned
<1>3. IsFiniteSet(1..Len(fs))
  BY <1>1, FS_Interval
<1>4. IsFiniteSet(Interned(fs))
  BY <1>2, <1>3, FS_Subset
<1>5. Cardinality(Interned(fs)) \in Nat
  BY <1>4, FS_CardinalityType
<1>6. \A i \in Interned(fs) : fs[i].val \in Nat
  BY <1>1, <1>2 DEF Frames
<1> QED BY <1>2, <1>4, <1>5, <1>6

LEMMA ConcatFacts ==
  ASSUME NEW p \in Seq(Nat), NEW q \in Seq(Nat)
  PROVE  /\ p \o q \in Seq(Nat) /\ Len(p \o q) = Len(p) + Len(q)
         /\ \A i \in 1..Len(p) : (p \o q)[i] = p[i]
         /\ \A j \in 1..Len(q) : (p \o q)[Len(p) + j] = q[j]
  OBVIOUS

\* The arena that recovery builds of base b and log fs.
LEMMA RecoveredNumbered ==
  ASSUME refs \in Seq(Nat), NEW fs \in Seq(Frames), NEW b, Numbered(b),
         \A i \in Interned(fs) :
           fs[i].val \in 1..Len(refs) /\ refs[fs[i].val] = Len(b) + Rank(fs, i),
         NEW a, a = b \o [j \in 1..Cardinality(Interned(fs)) |-> fs[Nth(fs, j)].val]
  PROVE  Numbered(a) /\ Len(a) = Len(b) + Cardinality(Interned(fs))
<1>1. PICK n \in Nat : n = Cardinality(Interned(fs))
  BY InternedFacts
<1>2. PICK t : t = [j \in 1..n |-> fs[Nth(fs, j)].val]
  OBVIOUS
<1>3. ASSUME NEW j \in 1..n
      PROVE  t[j] \in 1..Len(refs) /\ refs[t[j]] = Len(b) + j /\ t[j] \in Nat
  <2>1. \E i \in Interned(fs) : Cardinality({h \in Interned(fs) : h <= i}) = j
    BY <1>1, <1>3, InternedFacts, Ranked
  <2>2. Nth(fs, j) \in Interned(fs) /\ Rank(fs, Nth(fs, j)) = j
    BY <2>1 DEF Nth, Rank
  <2> QED BY <1>2, <2>2, InternedFacts
<1>4. t \in Seq(Nat) /\ Len(t) = n
  BY <1>2, <1>3
<1>5. PICK l \in Nat : b \in Seq(Nat) /\ l = Len(b)
  BY DEF Numbered
<1>6. a = b \o t
  BY <1>1, <1>2
<1>7. /\ a \in Seq(Nat) /\ Len(a) = l + n
      /\ \A i \in 1..l : a[i] = b[i]
      /\ \A j \in 1..n : a[l + j] = t[j]
  <2>1. /\ b \o t \in Seq(Nat) /\ Len(b \o t) = Len(b) + Len(t)
        /\ \A i \in 1..Len(b) : (b \o t)[i] = b[i]
        /\ \A j \in 1..Len(t) : (b \o t)[Len(b) + j] = t[j]
    BY <1>4, <1>5, ConcatFacts
  <2> QED BY <1>4, <1>5, <1>6, <2>1
<1>8. ASSUME NEW i \in 1..l + n PROVE a[i] \in 1..Len(refs) /\ refs[a[i]] = i
  <2>1. CASE i <= l
    <3>1. i \in 1..Len(b) /\ a[i] = b[i]
      BY <1>5, <1>7, <1>8, <2>1
    <3> QED BY <3>1 DEF Numbered
  <2>2. CASE i > l
    <3>1. PICK j \in 1..n : i = l + j
      <4>1. i - l \in 1..n /\ i = l + (i - l)
        BY <1>1, <1>5, <1>8, <2>2
      <4> QED BY <4>1
    <3>2. a[i] = t[j]
      BY <1>7, <3>1
    <3> QED BY <1>3, <1>5, <3>1, <3>2
  <2>3. i <= l \/ i > l
    BY <1>1, <1>5, <1>8
  <2> QED BY <2>1, <2>2, <2>3
<1>9. Numbered(a)
  BY <1>7, <1>8 DEF Numbered
<1> QED BY <1>1, <1>5, <1>7, <1>9

\* One frame more, and fewer frames.
Lengthened(q, f, r) ==
  /\ r \in Seq(Frames)
  /\ f.kind # "intern" =>
       Interned(r) = Interned(q) /\ Cardinality(Interned(r)) = Cardinality(Interned(q))
  /\ f.kind = "intern" =>
       /\ Interned(r) = Interned(q) \cup {Len(q) + 1}
       /\ Cardinality(Interned(r)) = Cardinality(Interned(q)) + 1
       /\ Rank(r, Len(q) + 1) = Cardinality(Interned(q)) + 1
  /\ r[Len(q) + 1] = f
  /\ \A i \in Interned(q) : r[i] = q[i] /\ Rank(r, i) = Rank(q, i)

LEMMA AppendInterned ==
  ASSUME NEW q \in Seq(Frames), NEW f \in Frames, NEW r, r = Append(q, f)
  PROVE  Lengthened(q, f, r)
<1>1. PICK l \in Nat : l = Len(q)
  OBVIOUS
<1>2. /\ r \in Seq(Frames) /\ Len(r) = l + 1 /\ r[l + 1] = f /\ \A i \in 1..l : r[i] = q[i]
  BY <1>1, AppendFacts
<1>3. DOMAIN q = 1..l /\ DOMAIN r = 1..l + 1
  BY <1>1, <1>2
<1>4. Interned(q) \subseteq 1..l /\ IsFiniteSet(Interned(q)) /\ l + 1 \notin Interned(q)
  <2>1. Interned(q) \subseteq 1..l /\ IsFiniteSet(Interned(q))
    BY <1>1, InternedFacts
  <2>2. l + 1 \notin 1..l
    BY <1>1
  <2> QED BY <2>1, <2>2
<1>5. \A i : i \in 1..l + 1 <=> i \in 1..l \/ i = l + 1
  BY <1>1
<1>6. \A i \in 1..l : i \in Interned(r) <=> i \in Interned(q)
  BY <1>2, <1>3, <1>5 DEF Interned
<1>7. f.kind # "intern" => Interned(r) = Interned(q)
  <2> SUFFICES ASSUME f.kind # "intern" PROVE Interned(r) = Interned(q)
    OBVIOUS
  <2>1. l + 1 \notin Interned(r) /\ Interned(r) \subseteq 1..l + 1
    BY <1>2, <1>3 DEF Interned
  <2> QED BY <1>4, <1>5, <1>6, <2>1
<1>8. f.kind = "intern" => Interned(r) = Interned(q) \cup {l + 1}
  <2> SUFFICES ASSUME f.kind = "intern" PROVE Interned(r) = Interned(q) \cup {l + 1}
    OBVIOUS
  <2>1. l + 1 \in Interned(r) /\ Interned(r) \subseteq 1..l + 1
    BY <1>2, <1>3, <1>5 DEF Interned
  <2> QED BY <1>4, <1>5, <1>6, <2>1
<1>9. ASSUME NEW i \in Interned(q) PROVE r[i] = q[i] /\ Rank(r, i) = Rank(q, i)
  <2>1. i \in 1..l
    BY <1>4
  <2>2. \A h : h \in Interned(r) /\ h <= i <=> h \in Interned(q) /\ h <= i
    <3>1. Interned(r) \subseteq 1..l + 1
      BY <1>3 DEF Interned
    <3>2. \A h \in 1..l + 1 : h <= i => h \in 1..l
      BY <1>1, <2>1
    <3> QED BY <1>4, <1>6, <3>1, <3>2
  <2>3. {h \in Interned(r) : h <= i} = {h \in Interned(q) : h <= i}
    BY <2>2
  <2> QED BY <1>2, <2>1, <2>3 DEF Rank
<1>10. ASSUME f.kind = "intern"
       PROVE  /\ Cardinality(Interned(r)) = Cardinality(Interned(q)) + 1
              /\ Rank(r, l + 1) = Cardinality(Interned(q)) + 1
  <2>1. Cardinality(Interned(q) \cup {l + 1}) = Cardinality(Interned(q)) + 1
    BY <1>4, FS_AddElement
  <2>2. {h \in Interned(r) : h <= l + 1} = Interned(r)
    <3>1. \A h \in 1..l + 1 : h <= l + 1
      OBVIOUS
    <3> QED BY <1>3, <3>1 DEF Interned
  <2> QED BY <1>8, <1>10, <2>1, <2>2 DEF Rank
<1> QED BY <1>1, <1>2, <1>7, <1>8, <1>9, <1>10 DEF Lengthened

LEMMA PrefixInterned ==
  ASSUME NEW q \in Seq(Frames), NEW n \in 0..Len(q), NEW r \in Seq(Frames), Len(r) = n,
         \A i \in 1..n : r[i] = q[i]
  PROVE  \A i \in Interned(r) : i \in Interned(q) /\ r[i] = q[i] /\ Rank(r, i) = Rank(q, i)
<1>1. DOMAIN q = 1..Len(q) /\ DOMAIN r = 1..n /\ Len(q) \in Nat /\ n \in Nat /\ n <= Len(q)
  OBVIOUS
<1>2. \A i \in 1..n : i \in 1..Len(q)
  BY <1>1
<1>3. \A i \in 1..n : i \in Interned(r) <=> i \in Interned(q)
  BY <1>1, <1>2 DEF Interned
<1>4. Interned(r) \subseteq 1..n /\ Interned(q) \subseteq 1..Len(q)
  BY <1>1 DEF Interned
<1>5. ASSUME NEW i \in Interned(r) PROVE Rank(r, i) = Rank(q, i)
  <2>1. \A h \in 1..Len(q) : h <= i => h \in 1..n
    BY <1>1, <1>4
  <2>2. {h \in Interned(r) : h <= i} = {h \in Interned(q) : h <= i}
    BY <1>2, <1>3, <1>4, <2>1
  <2> QED BY <2>2 DEF Rank
<1> QED BY <1>3, <1>4, <1>5

LEMMA NothingInterned == Interned(<<>>) = {} /\ Cardinality(Interned(<<>>)) = 0
<1>1. Interned(<<>>) = {}
  BY DEF Interned
<1> QED BY <1>1, FS_EmptySet

LEMMA ArenaInit == Init => ArenaInv
<1> SUFFICES ASSUME Init PROVE ArenaInv
  OBVIOUS
<1>1. /\ refs = <<>> /\ arena = <<>> /\ gen = 0 /\ ck = NoCheckpoint
      /\ op = [c \in Clients |-> Idle] /\ logs = [n \in 1..MaxGen + 1 |-> <<>>]
  BY DEF Init
<1>2. Log = <<>>
  BY <1>1, StoreBoundAssumption DEF Log
<1>3. Strs(gen) = <<>>
  BY <1>1 DEF Strs
<1>4. <<>> \in Seq(Nat) /\ Len(<<>>) = 0
  OBVIOUS
<1>5. Numbered(<<>>)
  BY <1>4 DEF Numbered
<1>6. Interning = {}
  BY <1>1, IdleType DEF Interning
<1>7. LogStrings /\ Caught /\ CopiedStrings
  BY <1>1, <1>2, <1>6, NothingInterned, NoCheckpointFacts DEF LogStrings, Caught, CopiedStrings
<1>8. Tally
  BY <1>1, <1>2, <1>3, <1>4, <1>6, NothingInterned DEF Tally
<1> QED BY <1>1, <1>3, <1>4, <1>5, <1>7, <1>8 DEF ArenaInv

\* A step that leaves the strings, their frames and those who write them alone.
LEMMA ArenaSame ==
  ASSUME ArenaInv, UNCHANGED <<refs, arena, gen>>, Log' = Log, Strs(gen)' = Strs(gen),
         Interning' = Interning, \A c \in Interning : op'[c] = op[c], CopiedStrings'
  PROVE  ArenaInv'
<1>1. refs' \in Seq(Nat) /\ Numbered(arena)' /\ Numbered(Strs(gen))'
  BY DEF ArenaInv, Numbered
<1>2. LogStrings'
  BY DEF ArenaInv, LogStrings
<1>3. Caught' /\ Tally'
  BY DEF ArenaInv, Caught, Tally
<1> QED BY <1>1, <1>2, <1>3 DEF ArenaInv

LEMMA InterningSame ==
  ASSUME Shape, NEW c \in Clients, op[c].pc # "intern", NEW X, X.pc # "intern",
         op' = [op EXCEPT ![c] = X]
  PROVE  Interning' = Interning /\ \A d \in Interning : op'[d] = op[d]
<1>1. op'[c] = X /\ \A d \in Clients : d # c => op'[d] = op[d]
  BY DEF Shape
<1> QED BY <1>1 DEF Interning

\* A step of a call that interns nothing.
LEMMA ArenaCall ==
  ASSUME StoreInv, ArenaInv, NEW c \in Clients, op[c].pc # "intern", NEW X, X.pc # "intern",
         op' = [op EXCEPT ![c] = X], UNCHANGED <<refs, arena, gen, logs, snaps, ck>>
  PROVE  ArenaInv'
<1>1. Interning' = Interning /\ \A d \in Interning : op'[d] = op[d]
  BY InterningSame DEF StoreInv
<1>2. Log' = Log /\ Strs(gen)' = Strs(gen)
  BY DEF Log, Strs
<1>3. CopiedStrings'
  BY DEF ArenaInv, CopiedStrings
<1> QED BY <1>1, <1>2, <1>3, ArenaSame

\* A call moved on to a point that is not "intern".
LEMMA PointsOn ==
  ASSUME StoreInv, NEW c \in Clients
  PROVE  /\ Idle.pc # "intern"
         /\ \A p : [op[c] EXCEPT !.pc = p].pc = p
         /\ \A p, v : [op[c] EXCEPT !.pc = p, !.val = v].pc = p
  BY IdleType DEF StoreInv, Shape, Call

\* The steps of a caller that neither write a frame nor intern.
Passing(c) ==
  \/ Commit(c) \/ CommitFails(c) \/ Repoint(c) \/ Track(c) \/ Enqueue(c) \/ EvictDone(c)
  \/ Spill(c) \/ Install(c) \/ \E k \in Keys : Lookup(c, k)

LEMMA ArenaPassing ==
  ASSUME StoreInv, ArenaInv, NEW c \in Clients, Passing(c)
  PROVE  ArenaInv'
<1> DEFINE Passes(X) == /\ op[c].pc # "intern" /\ X.pc # "intern" /\ op' = [op EXCEPT ![c] = X]
                        /\ UNCHANGED <<refs, arena, gen, logs, snaps, ck>>
<1>0. /\ DOMAIN op = Clients /\ Idle.pc # "intern"
      /\ \A p : [op[c] EXCEPT !.pc = p].pc = p
      /\ \A p, v : [op[c] EXCEPT !.pc = p, !.val = v].pc = p
  BY PointsOn DEF StoreInv, Shape
<1>1. ASSUME NEW X, Passes(X) PROVE ArenaInv'
  BY <1>1, ArenaCall
<1>2. CASE CommitFails(c) \/ EvictDone(c)
  <2>1. Passes(Idle)
    BY <1>0, <1>2 DEF CommitFails, EvictDone, disk, memory, history
  <2> QED BY <1>1, <2>1
<1>3. CASE Commit(c)
  <2>1. PICK X : X = [op[c] EXCEPT !.pc = "repoint"]
    OBVIOUS
  <2>2. Passes(X)
    BY <1>0, <1>3, <2>1 DEF Commit, history
  <2> QED BY <1>1, <2>2
<1>4. CASE Track(c)
  <2>1. PICK X : X = [op[c] EXCEPT !.pc = "queue"]
    OBVIOUS
  <2>2. Passes(X)
    BY <1>0, <1>4, <2>1 DEF Track, history, disk, memory
  <2> QED BY <1>1, <2>2
<1>5. CASE Enqueue(c)
  <2>1. PICK X : X = [op[c] EXCEPT !.pc = "evict"]
    OBVIOUS
  <2>2. Passes(X)
    BY <1>0, <1>5, <2>1 DEF Enqueue, history, disk, memory
  <2> QED BY <1>1, <2>2
<1>6. CASE Repoint(c)
  <2>1. PICK X : X = IF NewResident(op[c]) THEN [op[c] EXCEPT !.pc = "track"] ELSE Idle
    OBVIOUS
  <2>2. Passes(X)
    BY <1>0, <1>6, <2>1 DEF Repoint, disk, memory
  <2> QED BY <1>1, <2>2
<1>7. CASE Spill(c)
  <2>1. PICK v : v = ReadAt(op[c].off)
    OBVIOUS
  <2>2. PICK X : X = IF v = 0 THEN Idle ELSE [op[c] EXCEPT !.pc = "install", !.val = v]
    OBVIOUS
  <2>3. X.pc # "intern"
    BY <1>0, <2>2
  <2>4. Passes(X)
    BY <1>0, <1>7, <2>1, <2>2, <2>3 DEF Spill, disk, memory, history
  <2> QED BY <1>1, <2>4
<1>8. CASE Install(c)
  <2>1. PICK X : X \in {[op[c] EXCEPT !.pc = "track"], Idle} /\ op' = [op EXCEPT ![c] = X]
    BY <1>0, <1>8 DEF Install
  <2>2. Passes(X)
    BY <1>0, <1>8, <2>1 DEF Install, disk, memory, history
  <2> QED BY <1>1, <2>2
<1>9. ASSUME NEW k \in Keys, Lookup(c, k) PROVE ArenaInv'
  <2>1. PICK X : X = [Idle EXCEPT !.pc = "read", !.key = k, !.off = index[k].off, !.floor = acked[k]]
    OBVIOUS
  <2>2. X.pc = "read"
    BY <2>1 DEF Idle
  <2>3. Passes(X)
    BY <1>9, <2>1, <2>2 DEF Lookup, Ready, disk, memory, history
  <2> QED BY <1>1, <2>3
<1> HIDE DEF Passes
<1> QED BY <1>2, <1>3, <1>4, <1>5, <1>6, <1>7, <1>8, <1>9 DEF Passing

\* Nothing but counters, entries and the superblock changes.
LEMMA ArenaStill ==
  ASSUME ArenaInv, UNCHANGED <<refs, arena, gen, logs, snaps, op, ck>>
  PROVE  ArenaInv'
<1>1. Log' = Log /\ Strs(gen)' = Strs(gen) /\ Interning' = Interning
  BY DEF Log, Strs, Interning
<1>2. CopiedStrings'
  BY DEF ArenaInv, CopiedStrings
<1> QED BY <1>1, <1>2, ArenaSame

\* A frame that interns nothing.
LEMMA ArenaWrite ==
  ASSUME StoreInv, ArenaInv, NEW c \in Clients, NEW k \in Keys, NEW kind \in {"put", "del"},
         Len(issued') \in Nat, Write(c, k, kind)
  PROVE  ArenaInv'
<1> DEFINE f == [kind |-> kind, key |-> k, lsn |-> nextLSN, val |-> Len(issued')]
<1>0. /\ refs \in Seq(Nat) /\ Numbered(arena) /\ Numbered(Strs(gen))
      /\ LogStrings /\ Caught /\ Tally /\ CopiedStrings
  BY DEF ArenaInv
<1>1. Shape /\ nextLSN \in Nat
  BY DEF StoreInv, Shape
<1>2. /\ Log \in Seq(Frames) /\ gen + 1 \in 1..MaxGen + 1 /\ DOMAIN logs = 1..MaxGen + 1
  BY <1>1, LogFacts DEF Shape
<1>3. logs' = [logs EXCEPT ![gen + 1] = Append(Log, f)] /\ gen' = gen
  BY <1>2 DEF Write, AppendFrame, Log
<1>4. f \in Frames /\ f.kind # "intern"
  BY <1>1 DEF Frames
<1> HIDE DEF f
<1>5. Log' = Append(Log, f)
  BY <1>2, <1>3 DEF Log
<1>6. /\ Interned(Log') = Interned(Log) /\ Cardinality(Interned(Log')) = Cardinality(Interned(Log))
      /\ \A i \in Interned(Log) : Log'[i] = Log[i] /\ Rank(Log', i) = Rank(Log, i)
  <2>1. PICK q \in Seq(Frames) : q = Log
    BY <1>2
  <2>2. PICK g : g = f
    OBVIOUS
  <2>3. PICK r : r = Append(q, g)
    OBVIOUS
  <2>4. g \in Frames /\ g.kind # "intern" /\ Log' = r
    BY <1>4, <1>5, <2>1, <2>2, <2>3
  <2>5. /\ Interned(r) = Interned(q) /\ Cardinality(Interned(r)) = Cardinality(Interned(q))
        /\ \A i \in Interned(q) : r[i] = q[i] /\ Rank(r, i) = Rank(q, i)
    <3>1. Lengthened(q, g, r)
      BY <2>3, <2>4, AppendInterned
    <3> QED BY <2>4, <3>1 DEF Lengthened
  <2> QED BY <2>1, <2>4, <2>5
<1>7. UNCHANGED <<refs, arena, gen, snaps, ck>>
  BY DEF Write
<1>8. PICK X : X = [Idle EXCEPT !.pc = "commit", !.kind = kind, !.key = k,
                    !.off = Len(Log) + 1, !.lsn = nextLSN, !.val = Len(issued')]
  OBVIOUS
<1>9. X.pc # "intern" /\ op[c].pc # "intern" /\ op' = [op EXCEPT ![c] = X]
  BY <1>8 DEF Write, Ready, Idle
<1>10. Interning' = Interning /\ \A d \in Interning : op'[d] = op[d]
  BY <1>1, <1>9, InterningSame
<1>11. Strs(gen)' = Strs(gen)
  BY <1>7 DEF Strs
<1>12. refs' \in Seq(Nat) /\ Numbered(arena)' /\ Numbered(Strs(gen))'
  BY <1>0, <1>7, <1>11 DEF Numbered
<1>13. LogStrings'
  BY <1>0, <1>6, <1>7, <1>11 DEF LogStrings
<1>14. Caught' /\ Tally' /\ CopiedStrings'
  BY <1>0, <1>6, <1>7, <1>10, <1>11 DEF Caught, Tally, CopiedStrings
<1> QED BY <1>12, <1>13, <1>14 DEF ArenaInv

\* The arena grows by the string whose reference is returned.
LEMMA ArenaIntern ==
  ASSUME Usage, StoreInv, ArenaInv, \A c, d \in Interners : c = d, NEW c \in Clients, Intern(c)
  PROVE  ArenaInv'
<1>0. /\ refs \in Seq(Nat) /\ Numbered(arena) /\ Numbered(Strs(gen))
      /\ LogStrings /\ Caught /\ Tally /\ CopiedStrings
  BY DEF ArenaInv
<1>1. /\ Ready(c) /\ c \in Interners /\ refs' = Append(refs, Len(arena) + 1)
      /\ arena' = Append(arena, Len(refs'))
      /\ op' = [op EXCEPT ![c] = [Idle EXCEPT !.pc = "intern", !.val = Len(refs')]]
      /\ UNCHANGED <<gen, logs, snaps, ck>>
  BY DEF Intern, disk, memory
<1>2. PICK n \in Nat : n = Len(refs)
  BY <1>0
<1>3. PICK l \in Nat : l = Len(arena) /\ arena \in Seq(Nat)
  BY <1>0 DEF Numbered
<1>4. /\ refs' \in Seq(Nat) /\ Len(refs') = n + 1 /\ refs'[n + 1] = l + 1
      /\ \A i \in 1..n : refs'[i] = refs[i]
  BY <1>0, <1>1, <1>2, <1>3
<1>5. /\ arena' \in Seq(Nat) /\ Len(arena') = l + 1 /\ arena'[l + 1] = n + 1
      /\ \A i \in 1..l : arena'[i] = arena[i]
  BY <1>1, <1>2, <1>3, <1>4
<1>6. \A i \in 1..n : i \in 1..n + 1
  BY <1>2
<1>7. Numbered(arena)'
  <2>1. ASSUME NEW i \in 1..l + 1 PROVE arena'[i] \in 1..n + 1 /\ refs'[arena'[i]] = i
    <3>1. CASE i = l + 1
      BY <1>2, <1>4, <1>5, <3>1
    <3>2. CASE i # l + 1
      <4>1. i \in 1..l
        BY <1>3, <2>1, <3>2
      <4>2. arena[i] \in 1..n /\ refs[arena[i]] = i
        BY <1>0, <1>2, <1>3, <4>1 DEF Numbered
      <4> QED BY <1>4, <1>5, <1>6, <4>1, <4>2
    <3> QED BY <3>1, <3>2
  <2> QED BY <1>4, <1>5, <2>1 DEF Numbered
<1>8. Strs(gen)' = Strs(gen) /\ Log' = Log
  BY <1>1 DEF Strs, Log
<1>9. Numbered(Strs(gen))'
  <2>1. \A i \in 1..Len(Strs(gen)) : Strs(gen)[i] \in 1..n /\ refs[Strs(gen)[i]] = i
    BY <1>0, <1>2 DEF Numbered
  <2>2. Strs(gen) \in Seq(Nat)
    BY <1>0 DEF Numbered
  <2>3. Numbered(Strs(gen))' <=> (Strs(gen)' \in Seq(Nat) /\ \A i \in 1..Len(Strs(gen)') :
                                   Strs(gen)'[i] \in 1..Len(refs') /\ refs'[Strs(gen)'[i]] = i)
    BY DEF Numbered
  <2> QED BY <1>4, <1>6, <1>8, <2>1, <2>2, <2>3
<1>10. LogStrings'
  BY <1>0, <1>2, <1>4, <1>6, <1>8 DEF LogStrings
<1>11. op'[c].pc = "intern" /\ op'[c].val = n + 1 /\ \A d \in Clients : d # c => op'[d] = op[d]
  BY <1>1, <1>4 DEF StoreInv, Shape, Idle
<1>12. Interning = {}
  BY <1>0, <1>1 DEF Interning, Caught, Ready
<1>13. Interning' = {c}
  BY <1>11, <1>12 DEF Interning
<1>14. Caught'
  <2>1. n + 1 \in 1..n + 1
    BY <1>2
  <2> QED BY <1>1, <1>4, <1>5, <1>11, <1>13, <2>1 DEF Caught
<1>15. Tally'
  <2>1. l = Len(Strs(gen)) + Cardinality(Interned(Log)) + 0
    BY <1>0, <1>3, <1>12 DEF Tally
  <2>2. Len(Strs(gen)) \in Nat /\ Cardinality(Interned(Log)) \in Nat
    BY <1>0, InternedFacts, LogFacts DEF StoreInv, Numbered
  <2>3. l + 1 = Len(Strs(gen)) + Cardinality(Interned(Log)) + 1
    BY <1>3, <2>1, <2>2
  <2> QED BY <1>5, <1>8, <1>13, <2>3 DEF Tally
<1>16. CopiedStrings'
  <2>1. ck.pc = "idle"
    BY <1>1, NoCheckpointNow
  <2> QED BY <1>1, <2>1 DEF CopiedStrings
<1> QED BY <1>4, <1>7, <1>9, <1>10, <1>14, <1>15, <1>16 DEF ArenaInv

\* The frame of a string takes the place in the log that the string has in the arena.
LEMMA ArenaInternLog ==
  ASSUME Usage, StoreInv, ArenaInv, \A c, d \in Interners : c = d, NEW c \in Clients, InternLog(c)
  PROVE  ArenaInv'
<1> DEFINE f == [kind |-> "intern", key |-> Nil, lsn |-> nextLSN, val |-> op[c].val]
<1>0. /\ refs \in Seq(Nat) /\ Numbered(arena) /\ Numbered(Strs(gen))
      /\ LogStrings /\ Caught /\ Tally /\ CopiedStrings
  BY DEF ArenaInv
<1>1. /\ op[c].pc = "intern" /\ op' = [op EXCEPT ![c] = Idle]
      /\ UNCHANGED <<refs, arena, gen, snaps, ck>>
  BY DEF InternLog, history
<1>2. Shape /\ nextLSN \in Nat /\ Call(op[c]) /\ Log \in Seq(Frames)
      /\ gen + 1 \in 1..MaxGen + 1 /\ DOMAIN logs = 1..MaxGen + 1
  BY LogFacts DEF StoreInv, Shape
<1>3. logs' = [logs EXCEPT ![gen + 1] = Append(Log, f)]
  BY <1>2 DEF InternLog, AppendFrame, Log
<1>4. f \in Frames /\ f.kind = "intern" /\ f.val = op[c].val
  BY <1>1, <1>2 DEF Frames, Call
<1> HIDE DEF f
<1>5. Log' = Append(Log, f)
  BY <1>1, <1>2, <1>3 DEF Log
<1>6. PICK m, n \in Nat : m = Len(Log) + 1 /\ n = Cardinality(Interned(Log))
  BY <1>2, InternedFacts
<1>7. /\ Interned(Log') = Interned(Log) \cup {m} /\ Cardinality(Interned(Log')) = n + 1
      /\ Rank(Log', m) = n + 1 /\ Log'[m] = f
      /\ \A i \in Interned(Log) : Log'[i] = Log[i] /\ Rank(Log', i) = Rank(Log, i)
  <2>1. PICK q \in Seq(Frames) : q = Log
    BY <1>2
  <2>2. PICK g : g = f
    OBVIOUS
  <2>3. PICK r : r = Append(q, g)
    OBVIOUS
  <2>4. g \in Frames /\ g.kind = "intern" /\ Log' = r
    BY <1>4, <1>5, <2>1, <2>2, <2>3
  <2>5. m = Len(q) + 1 /\ n = Cardinality(Interned(q))
    BY <1>6, <2>1
  <2>6. /\ Interned(r) = Interned(q) \cup {m} /\ Cardinality(Interned(r)) = n + 1
        /\ Rank(r, m) = n + 1 /\ r[m] = g
        /\ \A i \in Interned(q) : r[i] = q[i] /\ Rank(r, i) = Rank(q, i)
    <3>1. Lengthened(q, g, r)
      BY <2>3, <2>4, AppendInterned
    <3> QED BY <2>4, <2>5, <3>1 DEF Lengthened
  <2> QED BY <2>1, <2>2, <2>4, <2>6
<1>8. Strs(gen)' = Strs(gen)
  BY <1>1 DEF Strs
<1>9. c \in Interning /\ c \in Interners /\ Interning = {c}
  <2>1. c \in Interning
    BY <1>1 DEF Interning
  <2>2. \A d \in Interning : d \in Interners
    BY <1>0 DEF Caught
  <2> QED BY <2>1, <2>2
<1>10. Interning' = {}
  <2>1. op'[c] = Idle /\ \A d \in Clients : d # c => op'[d] = op[d]
    BY <1>1, <1>2 DEF Shape
  <2> QED BY <1>9, <2>1, IdleType DEF Interning
<1>11. PICK b \in Nat : b = Len(Strs(gen))
  BY <1>0 DEF Numbered
<1>12. Len(arena) = b + n + 1
  BY <1>0, <1>6, <1>9, <1>11 DEF Tally
<1>13. op[c].val \in 1..Len(refs) /\ refs[op[c].val] = b + (n + 1)
  <2>1. op[c].val \in 1..Len(refs) /\ refs[op[c].val] = Len(arena)
    BY <1>0, <1>9 DEF Caught
  <2>2. b + n + 1 = b + (n + 1)
    BY <1>6, <1>11
  <2> QED BY <1>12, <2>1, <2>2
<1>14. refs' \in Seq(Nat) /\ Numbered(arena)' /\ Numbered(Strs(gen))'
  BY <1>0, <1>1, <1>8 DEF Numbered
<1>15. LogStrings'
  <2>1. ASSUME NEW i \in Interned(Log)'
        PROVE  /\ Log'[i].val \in 1..Len(refs)
               /\ refs[Log'[i].val] = b + Rank(Log', i)
    <3>1. CASE i = m
      BY <1>4, <1>7, <1>13, <3>1
    <3>2. CASE i # m
      <4>1. i \in Interned(Log)
        BY <1>7, <2>1, <3>2
      <4> QED BY <1>0, <1>7, <1>11, <4>1 DEF LogStrings
    <3> QED BY <3>1, <3>2
  <2> QED BY <1>1, <1>8, <1>11, <2>1 DEF LogStrings
<1>16. Caught' /\ CopiedStrings'
  BY <1>0, <1>1, <1>10 DEF Caught, CopiedStrings
<1>17. Tally'
  <2>1. Len(arena') = b + (n + 1) + 0
    BY <1>1, <1>6, <1>11, <1>12
  <2> QED BY <1>7, <1>8, <1>10, <1>11, <2>1 DEF Tally
<1> QED BY <1>14, <1>15, <1>16, <1>17 DEF ArenaInv

\* A checkpoint step that keeps the log and the snapshot in use.
LEMMA ArenaStage ==
  ASSUME StoreInv, ArenaInv, UNCHANGED <<refs, arena, gen, op>>, Log' = Log,
         gen > 0 => snaps'[gen] = snaps[gen], CopiedStrings'
  PROVE  ArenaInv'
<1>1. Interning' = Interning
  BY DEF Interning
<1>2. gen \in Nat
  BY LogFacts DEF StoreInv
<1>3. Strs(gen)' = Strs(gen)
  BY <1>2 DEF Strs
<1> QED BY <1>1, <1>3, ArenaSame

LEMMA ArenaCopySteps ==
  ASSUME StoreInv, ArenaInv,
         Begin \/ ScanHosts \/ ScanStrings \/ SnapshotFails \/ WriteSuper \/ SuperFails
         \/ \E k \in URLKeys : Scan(k)
  PROVE  ArenaInv'
<1>0. DOMAIN ck = {"pc", "todo", "recs", "strs", "frontier"} /\ CopiedStrings
  BY DEF StoreInv, SnapShape, ArenaInv
<1>1. UNCHANGED <<refs, arena, gen, op, logs, snaps>>
  <2>1. Begin \/ ScanHosts \/ ScanStrings \/ SnapshotFails => UNCHANGED <<refs, arena, gen, op, logs, snaps>>
    BY DEF Begin, ScanHosts, ScanStrings, SnapshotFails, history, memory, disk
  <2>2. WriteSuper \/ SuperFails => UNCHANGED <<refs, arena, gen, op, logs, snaps>>
    BY DEF WriteSuper, SuperFails, history, memory
  <2>3. (\E k \in URLKeys : Scan(k)) => UNCHANGED <<refs, arena, gen, op, logs, snaps>>
    BY DEF Scan, history, memory, disk
  <2> QED BY <2>1, <2>2, <2>3
<1>2. Log' = Log
  BY <1>1 DEF Log
<1>3. CASE Begin \/ SnapshotFails \/ SuperFails
  <2>1. ck'.pc \in {"urls", "idle"}
    <3>1. PICK U : U = URLKeys
      OBVIOUS
    <3>2. ck' = [NoCheckpoint EXCEPT !.pc = "urls", !.todo = U] \/ ck' = NoCheckpoint
      BY <1>3, <3>1 DEF Begin, SnapshotFails, SuperFails
    <3>3. NoCheckpoint.pc = "idle" /\ [NoCheckpoint EXCEPT !.pc = "urls", !.todo = U].pc = "urls"
      BY DEF NoCheckpoint
    <3> QED BY <3>2, <3>3
  <2>2. CopiedStrings'
    BY <2>1 DEF CopiedStrings
  <2> QED BY <1>1, <1>2, <2>2, ArenaStage
<1>4. CASE \E k \in URLKeys : Scan(k)
  <2>1. ck'.pc = "urls"
    BY <1>0, <1>4 DEF Scan
  <2>2. CopiedStrings'
    BY <2>1 DEF CopiedStrings
  <2> QED BY <1>1, <1>2, <2>2, ArenaStage
<1>5. CASE ScanHosts
  <2>1. ck'.pc = "strings"
    BY <1>0, <1>5 DEF ScanHosts
  <2>2. CopiedStrings'
    BY <2>1 DEF CopiedStrings
  <2> QED BY <1>1, <1>2, <2>2, ArenaStage
<1>6. CASE ScanStrings
  <2>1. ck'.pc = "cut" /\ ck'.strs = arena
    BY <1>0, <1>6 DEF ScanStrings
  <2>2. CopiedStrings'
    BY <1>1, <2>1 DEF CopiedStrings
  <2> QED BY <1>1, <1>2, <2>2, ArenaStage
<1>7. CASE WriteSuper
  <2>1. ck.pc = "super" /\ ck'.pc = "swap" /\ ck'.strs = ck.strs
    BY <1>0, <1>7 DEF WriteSuper
  <2>2. CopiedStrings'
    BY <1>0, <1>1, <2>1 DEF CopiedStrings
  <2> QED BY <1>1, <1>2, <2>2, ArenaStage
<1> QED BY <1>3, <1>4, <1>5, <1>6, <1>7

LEMMA ArenaSnapSteps ==
  ASSUME StoreInv, ArenaInv, Cut \/ WriteSnapshot \/ Reclaim
  PROVE  ArenaInv'
<1>0. /\ DOMAIN ck = {"pc", "todo", "recs", "strs", "frontier"} /\ CopiedStrings
      /\ DOMAIN snaps = 1..MaxGen /\ DOMAIN logs = 1..MaxGen + 1
  BY DEF StoreInv, SnapShape, ArenaInv, Shape
<1>1. UNCHANGED <<refs, arena, gen, op>>
  BY DEF Cut, WriteSnapshot, Reclaim, history, memory
<1>2. gen \in Nat /\ MaxGen \in Nat /\ gen <= MaxGen
  BY LogFacts DEF StoreInv
<1>3. CASE Cut
  <2>1. PICK e : e = NoSnap
    OBVIOUS
  <2>2. /\ ck.pc = "cut" /\ ck'.pc = "snap" /\ ck'.strs = ck.strs /\ logs' = logs
        /\ snaps' = [snaps EXCEPT ![gen + 1] = e]
    BY <1>0, <1>3, <2>1 DEF Cut
  <2>3. CopiedStrings'
    BY <1>0, <1>1, <2>2 DEF CopiedStrings
  <2>4. Log' = Log /\ (gen > 0 => snaps'[gen] = snaps[gen])
    BY <1>0, <1>1, <1>2, <2>2 DEF Log
  <2> QED BY <1>1, <2>3, <2>4, ArenaStage
<1>4. CASE WriteSnapshot
  <2>1. PICK e : e = [ok |-> TRUE, recs |-> ck.recs, strs |-> ck.strs]
    OBVIOUS
  <2>2. /\ ck.pc = "snap" /\ ck'.pc = "super" /\ ck'.strs = ck.strs /\ logs' = logs
        /\ snaps' = [snaps EXCEPT ![gen + 1] = e] /\ e.strs = ck.strs
    BY <1>0, <1>4, <2>1 DEF WriteSnapshot
  <2>3. gen < MaxGen
    BY <2>2 DEF StoreInv, SnapAt, Stages
  <2>4. snaps'[gen + 1] = e
    BY <1>0, <1>2, <2>2, <2>3
  <2>5. CopiedStrings'
    BY <1>0, <1>1, <2>2, <2>4 DEF CopiedStrings
  <2>6. Log' = Log /\ (gen > 0 => snaps'[gen] = snaps[gen])
    BY <1>0, <1>1, <1>2, <2>2 DEF Log
  <2> QED BY <1>1, <2>5, <2>6, ArenaStage
<1>5. CASE Reclaim
  <2>1. ck'.pc = "idle" /\ ck.pc = "reclaim"
    BY <1>5 DEF Reclaim, NoCheckpoint
  <2>2. CopiedStrings'
    BY <2>1 DEF CopiedStrings
  <2>3. gen > 0
    BY <2>1 DEF StoreInv, SnapAt
  <2>4. PICK m \in Int : m = gen - 1 /\ m + 1 = gen /\ m # gen /\ m + 1 # gen + 1
    BY <1>2, <2>3
  <2>5. PICK e : e = NoSnap
    OBVIOUS
  <2>6. /\ logs' = [logs EXCEPT ![m + 1] = <<>>]
        /\ snaps' = snaps \/ snaps' = [snaps EXCEPT ![m] = e]
    BY <1>5, <2>4, <2>5 DEF Reclaim, Superseded
  <2>7. Log' = Log
    BY <1>0, <1>1, <1>2, <2>4, <2>6 DEF Log
  <2>8. snaps'[gen] = snaps[gen]
    BY <1>0, <1>2, <2>3, <2>4, <2>6
  <2> QED BY <1>1, <2>2, <2>7, <2>8, ArenaStage
<1> QED BY <1>3, <1>4, <1>5

\* The log starts again, with all strings in the snapshot.
LEMMA ArenaFresh ==
  ASSUME ArenaInv, NEW g \in Nat, g # 0, snaps[g].strs = arena,
         UNCHANGED <<refs, arena, snaps>>, gen' = g, Log' = <<>>, Interning' = {}, CopiedStrings'
  PROVE  ArenaInv'
<1>1. Strs(gen)' = arena
  BY DEF Strs
<1>2. refs' \in Seq(Nat) /\ Numbered(arena)' /\ Numbered(Strs(gen))'
  BY <1>1 DEF ArenaInv, Numbered
<1>3. LogStrings' /\ Caught'
  BY NothingInterned DEF LogStrings, Caught
<1>4. Tally'
  <2>1. Len(arena) \in Nat
    BY DEF ArenaInv, Numbered
  <2> QED BY <1>1, <2>1, NothingInterned DEF Tally
<1> QED BY <1>2, <1>3, <1>4 DEF ArenaInv

LEMMA ArenaSwap ==
  ASSUME StoreInv, ArenaInv, Swap
  PROVE  ArenaInv'
<1>1. /\ ck.pc = "swap" /\ gen' = gen + 1 /\ ck' = [ck EXCEPT !.pc = "reclaim"]
      /\ UNCHANGED <<refs, arena, snaps, logs, op>>
  BY DEF Swap, history
<1>2. gen \in Nat /\ MaxGen \in Nat /\ gen < MaxGen
  BY <1>1, LogFacts DEF StoreInv, SnapAt, Stages
<1>3. PICK g \in Nat : g = gen + 1 /\ g # 0 /\ g + 1 \in 1..MaxGen + 1 /\ g + 1 > gen + 1
  BY <1>2
<1>4. Log' = <<>> /\ gen' = g
  BY <1>1, <1>3 DEF StoreInv, NextLogEmpty, Log
<1>5. snaps[g].strs = arena
  BY <1>1, <1>3 DEF ArenaInv, CopiedStrings
<1>6. Interning' = {}
  BY <1>1 DEF StoreInv, Scanned, Interning
<1>7. ck'.pc = "reclaim"
  BY <1>1 DEF StoreInv, SnapShape
<1>8. CopiedStrings'
  BY <1>7 DEF CopiedStrings
<1> QED BY <1>1, <1>3, <1>4, <1>5, <1>6, <1>8, ArenaFresh

-----------------------------------------------------------------------------
(* Recovery of the arena. *)

\* The strings before a log and its interning frames are all at their references.
Referring(b, fs) ==
  /\ fs \in Seq(Frames) /\ Numbered(b)
  /\ \A i \in Interned(fs) :
       fs[i].val \in 1..Len(refs) /\ refs[fs[i].val] = Len(b) + Rank(fs, i)

LEMMA SurvivingRefers ==
  ASSUME StoreInv, ArenaInv, NEW sb \in Slots, NEW n \in stable..Len(Log), NEW s, s = Picked(sb),
         NEW file, file = Surviving(s, n)
  PROVE  Referring(Strs(s.gen), file)
<1>0. /\ refs \in Seq(Nat) /\ Numbered(arena) /\ Numbered(Strs(gen)) /\ LogStrings /\ CopiedStrings
  BY DEF ArenaInv
<1>1. /\ file \in Seq(Frames)
      /\ \/ s.gen = gen /\ Len(file) = n /\ \A i \in 1..n : file[i] = Log[i]
         \/ s.gen = gen + 1 /\ file = <<>> /\ ck.pc \in {"super", "swap"}
  BY SurvivingFacts
<1>2. /\ gen \in Nat /\ Log \in Seq(Frames) /\ Len(Log) \in Nat /\ stable \in Nat
  BY LogFacts DEF StoreInv
<1>3. CASE s.gen = gen /\ Len(file) = n /\ \A i \in 1..n : file[i] = Log[i]
  <2>1. PICK q \in Seq(Frames) : q = Log
    BY <1>2
  <2>2. n \in 0..Len(q) /\ \A i \in 1..n : file[i] = q[i]
    BY <1>2, <1>3, <2>1
  <2>3. \A i \in Interned(file) : i \in Interned(q) /\ file[i] = q[i] /\ Rank(file, i) = Rank(q, i)
    BY <1>1, <1>3, <2>2, PrefixInterned
  <2> QED BY <1>0, <1>1, <1>3, <2>1, <2>3 DEF Referring, LogStrings
<1>4. CASE s.gen = gen + 1 /\ file = <<>> /\ ck.pc \in {"super", "swap"}
  <2>1. Strs(s.gen) = arena
    BY <1>0, <1>2, <1>4 DEF Strs, CopiedStrings
  <2> QED BY <1>0, <1>1, <1>4, <2>1, NothingInterned DEF Referring
<1> QED BY <1>1, <1>3, <1>4

LEMMA RecoveredRefers ==
  ASSUME refs \in Seq(Nat), NEW s, NEW fs, Referring(Strs(s.gen), fs)
  PROVE  /\ Numbered(RecoveredArena(s, fs))
         /\ Len(RecoveredArena(s, fs)) = Len(Strs(s.gen)) + Cardinality(Interned(fs))
<1>1. PICK b : b = Strs(s.gen)
  OBVIOUS
<1>2. /\ fs \in Seq(Frames) /\ Numbered(b)
      /\ \A i \in Interned(fs) :
           fs[i].val \in 1..Len(refs) /\ refs[fs[i].val] = Len(b) + Rank(fs, i)
  BY <1>1 DEF Referring
<1>3. PICK a : a = b \o [j \in 1..Cardinality(Interned(fs)) |-> fs[Nth(fs, j)].val]
  OBVIOUS
<1>4. RecoveredArena(s, fs) = a
  BY <1>1, <1>3 DEF RecoveredArena, BaseStrings, Strs
<1>5. Numbered(a) /\ Len(a) = Len(b) + Cardinality(Interned(fs))
  BY <1>2, <1>3, RecoveredNumbered
<1> QED BY <1>1, <1>4, <1>5

\* A process opens slot s and finds the log file.
LEMMA ArenaOpen ==
  ASSUME ArenaInv, NEW s, NEW file, Referring(Strs(s.gen), file), UNCHANGED <<refs, snaps>>,
         gen' = s.gen, Log' = file, arena' = RecoveredArena(s, file),
         op' = [c \in Clients |-> Idle], ck' = NoCheckpoint
  PROVE  ArenaInv'
<1>1. PICK b : b = Strs(s.gen)
  OBVIOUS
<1>2. Strs(gen)' = b
  BY <1>1 DEF Strs
<1>3. refs \in Seq(Nat)
  BY DEF ArenaInv
<1>4. Numbered(arena') /\ Len(arena') = Len(b) + Cardinality(Interned(file))
  BY <1>1, <1>3, RecoveredRefers
<1>5. Numbered(arena)' /\ Numbered(Strs(gen))'
  BY <1>1, <1>2, <1>4 DEF Numbered, Referring
<1>6. LogStrings'
  BY <1>1, <1>2 DEF LogStrings, Referring
<1>7. Interning' = {}
  BY IdleType DEF Interning
<1>8. Caught' /\ CopiedStrings'
  BY <1>7, NoCheckpointFacts DEF Caught, CopiedStrings
<1>9. Tally'
  <2>1. file \in Seq(Frames) /\ Len(b) \in Nat
    BY <1>1 DEF Referring, Numbered
  <2>2. Cardinality(Interned(file)) \in Nat
    BY <2>1, InternedFacts
  <2>3. Len(arena') = Len(b) + Cardinality(Interned(file)) + 0
    BY <1>4, <2>1, <2>2
  <2> QED BY <1>2, <1>7, <2>3 DEF Tally
<1> QED BY <1>3, <1>5, <1>6, <1>8, <1>9 DEF ArenaInv

LEMMA ArenaCrash ==
  ASSUME Usage, StoreInv, ArenaInv, NEW sb \in Slots, NEW n \in stable..Len(Log),
         NEW torn \in BOOLEAN, Crash(sb, n, torn)
  PROVE  ArenaInv'
<1>1. PICK s : s = Picked(sb)
  OBVIOUS
<1>2. PICK file : file = Surviving(s, n)
  OBVIOUS
<1>3. Referring(Strs(s.gen), file)
  BY <1>1, <1>2, SurvivingRefers
<1>4. file \in Seq(Frames) /\ s.gen \in 0..MaxGen
  BY <1>1, <1>2, SurvivingFacts
<1>5. file \o (IF torn THEN <<TornFrame>> ELSE <<>>) = file
  <2>1. (IF torn THEN <<TornFrame>> ELSE <<>>) = <<>>
    BY DEF Crash, Usage
  <2> QED BY <1>4, <2>1, NoTail
<1>6. Open(sb, file)
  BY <1>1, <1>2, <1>5 DEF Crash
<1>7. Intact(file) = file
  BY <1>4, IntactAll
<1>8. /\ gen' = s.gen /\ logs' = [logs EXCEPT ![s.gen + 1] = file]
      /\ arena' = RecoveredArena(s, file)
      /\ op' = [c \in Clients |-> Idle] /\ ck' = NoCheckpoint /\ UNCHANGED <<snaps, refs>>
  BY <1>1, <1>6, <1>7 DEF Open
<1>9. s.gen + 1 \in 1..MaxGen + 1 /\ DOMAIN logs = 1..MaxGen + 1
  <2>1. MaxGen \in Nat
    BY StoreBoundAssumption
  <2>2. DOMAIN logs = 1..MaxGen + 1
    BY DEF StoreInv, Shape
  <2> QED BY <1>4, <2>1, <2>2
<1>10. Log' = file
  BY <1>8, <1>9 DEF Log
<1> QED BY <1>3, <1>8, <1>10, ArenaOpen

LEMMA ArenaCloseOpen ==
  ASSUME StoreInv, ArenaInv, CloseOpen
  PROVE  ArenaInv'
<1>1. PICK s : s = Picked(super)
  OBVIOUS
<1>2. PICK file : file = Log
  OBVIOUS
<1>3. /\ gen \in Nat /\ MaxGen \in Nat /\ gen <= MaxGen /\ file \in Seq(Frames)
  BY <1>2, LogFacts DEF StoreInv
<1>4. super \in Slots /\ ck.pc = "idle"
  BY DEF CloseOpen, Slots
<1>5. s.gen = gen
  BY <1>1, <1>4, PickedGen
<1>6. Intact(file) = file
  BY <1>3, IntactAll
<1>7. Open(super, file)
  BY <1>2 DEF CloseOpen
<1>8. /\ gen' = s.gen /\ logs' = [logs EXCEPT ![s.gen + 1] = file]
      /\ arena' = RecoveredArena(s, file)
      /\ op' = [c \in Clients |-> Idle] /\ ck' = NoCheckpoint /\ UNCHANGED <<snaps, refs>>
  BY <1>1, <1>6, <1>7 DEF Open
<1>9. s.gen + 1 \in 1..MaxGen + 1 /\ DOMAIN logs = 1..MaxGen + 1
  BY <1>3, <1>5 DEF StoreInv, Shape
<1>10. Log' = file
  BY <1>8, <1>9 DEF Log
<1>11. Referring(Strs(s.gen), file)
  BY <1>2, <1>3, <1>5 DEF Referring, ArenaInv, LogStrings
<1> QED BY <1>8, <1>10, <1>11, ArenaOpen

LEMMA ArenaStep ==
  ASSUME Usage, "append" \notin Errors, \A c, d \in Interners : c = d,
         StoreInv, StoreInv', ArenaInv, [Next]_vars
  PROVE  ArenaInv'
<1>1. CASE UNCHANGED vars
  BY <1>1, ArenaStill DEF vars, disk, memory, history
<1>2. CASE Checkpoint
  BY <1>2, ArenaCopySteps, ArenaSnapSteps, ArenaSwap DEF Checkpoint
<1>3. CASE Reopen
  BY <1>3, ArenaCrash, ArenaCloseOpen DEF Reopen
<1>4. ASSUME NEW c \in Clients, Client(c) PROVE ArenaInv'
  <2>0. Len(issued') \in Nat
    BY DEF StoreInv, Shape
  <2>1. ASSUME NEW k \in Keys, Put(c, k) \/ Delete(c, k) PROVE ArenaInv'
    BY <2>0, <2>1, ArenaWrite DEF Put, Delete
  <2>2. CASE WriteFails(c) \/ Evict(c)
    BY <2>2, ArenaStill DEF WriteFails, Evict, disk, memory, history
  <2>3. CASE Passing(c)
    BY <2>3, ArenaPassing
  <2>4. CASE Intern(c) \/ InternLog(c)
    BY <2>4, ArenaIntern, ArenaInternLog
  <2>5. ~InternFails(c)
    BY DEF InternFails
  <2> QED BY <1>4, <2>1, <2>2, <2>3, <2>4, <2>5 DEF Client, Passing
<1> QED BY <1>1, <1>2, <1>3, <1>4 DEF Next

LEMMA NumberedHolds ==
  ASSUME NEW a, Numbered(a)
  PROVE  \A i \in DOMAIN a : refs[a[i]] = i
  BY DEF Numbered

LEMMA ArenaHolds ==
  ASSUME StoreInv, ArenaInv
  PROVE  ArenaStable
<1>1. \A i \in DOMAIN arena : refs[arena[i]] = i
  BY NumberedHolds DEF ArenaInv
<1>2. ASSUME NEW sb \in Slots, NEW n \in stable..Len(Log), NEW s, s = Picked(sb),
             NEW file, file = Surviving(s, n), NEW a, a = RecoveredArena(s, Intact(file))
      PROVE  \A i \in DOMAIN a : refs[a[i]] = i
  <2>1. Referring(Strs(s.gen), file)
    BY <1>2, SurvivingRefers
  <2>2. Intact(file) = file
    BY <2>1, IntactAll DEF Referring
  <2>3. refs \in Seq(Nat)
    BY DEF ArenaInv
  <2>4. Numbered(a)
    BY <1>2, <2>1, <2>2, <2>3, RecoveredRefers
  <2> QED BY <2>4, NumberedHolds
<1> QED BY <1>1, <1>2 DEF ArenaStable

\* A reference Intern returned names its string in the arena and in the arena that
\* recovery builds wherever the process stops, when one caller interns and no append
\* fails: two callers may log their strings in the other order than they took them,
\* and a failed append leaves a string in the arena that the log does not have.
THEOREM ArenaKept ==
  ASSUME Usage, "append" \notin Errors, \A c, d \in Interners : c = d
  PROVE  Spec => []ArenaStable
<1>1. Init => ArenaInv
  BY ArenaInit
<1>2. StoreInv /\ StoreInv' /\ ArenaInv /\ [Next]_vars => ArenaInv'
  BY ArenaStep
<1>3. StoreInv /\ ArenaInv => ArenaStable
  BY ArenaHolds
<1>4. Spec => []StoreInv
  BY StoreInvariance
<1> QED BY <1>1, <1>2, <1>3, <1>4, PTL DEF Spec
=============================================================================
