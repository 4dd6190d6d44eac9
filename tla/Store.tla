------------------------------- MODULE Store -------------------------------
(***************************************************************************)
(* src/store: the durable live state of a partition.  A write is one frame *)
(* appended to the current log, flushed if the dial says so, and then one  *)
(* repoint of the in-memory index; the log is the recovery journal.  A     *)
(* checkpoint writes the index as a snapshot, publishes it in a two-slot   *)
(* superblock, and moves the store to a fresh log.  A resident budget      *)
(* drops record bodies that can be read back at their log offset.          *)
(*                                                                         *)
(* Every point between two locks, two file operations or a lock and a file *)
(* operation is a state of its own, and the process may stop in any of     *)
(* them.  A record's payload is the number of the write that made it, a    *)
(* string the number of the Intern call, an offset the position of a frame *)
(* in its log.  Generation g logs to file log-(g+1).                       *)
(***************************************************************************)
EXTENDS Integers, Sequences, FiniteSetsExt

CONSTANTS
  URLKeys, HostKeys, \* keys of the URL index and of the host table
  Nil,               \* no key
  Clients,           \* callers
  MayWrite, MayRead, \* the keys each caller writes, and those it reads
  Interners,         \* the callers that intern strings
  Ops,               \* optional operations: "delete", "get", "close"
  Full,              \* the dial: DurabilityFull, or DurabilityNormal
  Budget,            \* residentBudget, 0 for unbounded
  Paused,            \* checkpoints are taken between updates (no op under way)
  Errors,            \* file operations that may fail: "append","sync","snap","super"
  Torn,              \* a crash may leave a partial frame in the log, and a failed
                     \* superblock write some or all of the slot
  MaxGen,            \* bound: checkpoints taken
  MaxWrites,         \* bound: puts and deletes issued
  MaxStrings,        \* bound: strings interned
  MaxLSN,            \* bound: log sequence numbers
  Crashes            \* bound: crashes

Keys == URLKeys \cup HostKeys

ASSUME StoreKeyAssumption ==
  URLKeys \cap HostKeys = {} /\ Nil \notin Keys
  /\ MayWrite \in [Clients -> SUBSET Keys] /\ MayRead \in [Clients -> SUBSET Keys]
  /\ Interners \subseteq Clients
ASSUME StoreBoundAssumption ==
  {Budget, MaxGen, MaxWrites, MaxStrings, MaxLSN, Crashes} \subseteq Nat
ASSUME StoreOptionAssumption == {Full, Paused, Torn} \subseteq BOOLEAN

VARIABLES
  logs,       \* log file of each number: the frames written to it
  stable,     \* frames of the current log that are on the device
  snaps,      \* snapshot file of each generation
  super,      \* the two superblock slots
  gen, nextLSN, synced,  \* Store.gen; log.nextLSN; log.synced, in frames
  index,      \* where the current record of each key is, and its body
  arena,      \* the string arena
  residentN, evictQ,     \* resident count and eviction queue
  op,         \* what each caller is doing
  ck,         \* what the checkpoint is doing
  issued,     \* history: the writes in append order
  refs,       \* history: the reference each Intern call returned
  acked,      \* history: the last write of each key that returned
  promised,   \* history: the last write of each key that is to survive a crash
  crashes     \* crashes so far

disk == <<logs, stable, snaps, super>>
memory == <<gen, nextLSN, synced>>
pool == <<residentN, evictQ>>
history == <<issued, refs, acked, promised, crashes>>
vars == <<disk, memory, pool, history, index, arena, op, ck>>

-----------------------------------------------------------------------------
(* Files and index entries. *)

Log == logs[gen + 1]

TornFrame == [kind |-> "torn", key |-> Nil, lsn |-> 0, val |-> 0]

\* An absent key and a tombstoned one are treated alike everywhere.
Absent == [off |-> 0, lsn |-> 0, rec |-> 0, tomb |-> TRUE]

\* An invalid slot counts as generation 0: no snapshot, log-1, frontier 1.
NoSlot == [gen |-> 0, frontier |-> 1]
NoSnap == [ok |-> FALSE, recs |-> [k \in Keys |-> 0], strs |-> <<>>]

Idle == [pc |-> "idle", kind |-> "get", key |-> Nil, off |-> 0, lsn |-> 0, val |-> 0,
         floor |-> 0]
NoCheckpoint == [pc |-> "idle", todo |-> {}, recs |-> [k \in Keys |-> 0], strs |-> <<>>,
                 frontier |-> 0]

\* readSuperblock: the valid slot of the higher generation.
Picked(sb) == IF sb[0].gen >= sb[1].gen THEN sb[0] ELSE sb[1]

\* writeSuperblock alternates: even generations in slot 0, odd ones in slot 1.
SlotOf(g) == g % 2

\* readAt: the payload at an offset of the current log; 0 is a failed read.
ReadAt(off) == IF off \in DOMAIN Log /\ Log[off].kind = "put" THEN Log[off].val ELSE 0

\* What a read of k returns now: a payload, or 0 for absent.
Read(k) ==
  IF index[k].tomb THEN 0 ELSE IF index[k].rec # 0 THEN index[k].rec ELSE ReadAt(index[k].off)

\* What the entry of k leads to in the log, whatever body it has.
Located(k) == IF index[k].tomb THEN 0 ELSE ReadAt(index[k].off)

Init ==
  /\ logs = [n \in 1 .. MaxGen + 1 |-> <<>>] /\ stable = 0
  /\ snaps = [g \in 1 .. MaxGen |-> NoSnap]
  /\ super = [s \in 0 .. 1 |-> NoSlot]
  /\ gen = 0 /\ nextLSN = 1 /\ synced = 0
  /\ index = [k \in Keys |-> Absent] /\ arena = <<>>
  /\ residentN = 0 /\ evictQ = <<>>
  /\ op = [c \in Clients |-> Idle] /\ ck = NoCheckpoint
  /\ issued = <<>> /\ refs = <<>>
  /\ acked = [k \in Keys |-> 0] /\ promised = [k \in Keys |-> 0]
  /\ crashes = 0

-----------------------------------------------------------------------------
(* Writes: PutURL, PutHost, DeleteURL. *)

Ready(c) == op[c].pc = "idle" /\ (Paused => ck.pc = "idle")

\* log.append: the offset and the LSN are assigned under one lock.
AppendFrame(kind, k, v) ==
  /\ nextLSN < MaxLSN
  /\ logs' = [logs EXCEPT ![gen + 1] =
                Append(@, [kind |-> kind, key |-> k, lsn |-> nextLSN, val |-> v])]
  /\ nextLSN' = nextLSN + 1

\* The first half of a write: the frame is in the log.
Write(c, k, kind) ==
  /\ Ready(c) /\ k \in MayWrite[c] /\ Len(issued) < MaxWrites
  /\ issued' = Append(issued, [key |-> k, kind |-> kind])
  /\ AppendFrame(kind, k, Len(issued'))
  /\ op' = [op EXCEPT ![c] = [Idle EXCEPT !.pc = "commit", !.kind = kind, !.key = k,
                               !.off = Len(Log) + 1, !.lsn = nextLSN, !.val = Len(issued')]]
  /\ UNCHANGED <<stable, snaps, super, gen, synced, index, arena, pool, refs, acked,
                 promised, crashes, ck>>

Put(c, k) == Write(c, k, "put")
Delete(c, k) == "delete" \in Ops /\ k \in URLKeys /\ Write(c, k, "del")

\* A failed append returns the error; its LSN is spent.
WriteFails(c) ==
  /\ Ready(c) /\ "append" \in Errors /\ nextLSN < MaxLSN
  /\ nextLSN' = nextLSN + 1
  /\ UNCHANGED <<disk, gen, synced, pool, history, index, arena, op, ck>>

\* Mutant: a flush of anything counts as a flush of this frame.
NeedsFlush_Once(off) == Full /\ synced = 0 /\ off > 0

\* log.commit: with the dial at Full, flush unless a concurrent caller already has.
NeedsFlush(off) == Full /\ synced < off

Commit(c) ==
  /\ op[c].pc = "commit"
  /\ op' = [op EXCEPT ![c].pc = "repoint"]
  /\ IF NeedsFlush(op[c].off) THEN synced' = Len(Log) /\ stable' = Len(Log)
     ELSE UNCHANGED <<synced, stable>>
  /\ UNCHANGED <<logs, snaps, super, gen, nextLSN, pool, history, index, arena, ck>>

\* A failed flush returns the error and leaves the frame in the log.
CommitFails(c) ==
  /\ op[c].pc = "commit" /\ "sync" \in Errors /\ NeedsFlush(op[c].off)
  /\ op' = [op EXCEPT ![c] = Idle]
  /\ UNCHANGED <<disk, memory, pool, history, index, arena, ck>>

\* Mutant: an entry that exists keeps its offset.
Pointed_OldOffset(o) ==
  [off |-> IF index[o.key].off # 0 THEN index[o.key].off ELSE o.off, lsn |-> o.lsn,
   rec |-> IF o.kind = "del" THEN 0 ELSE o.val, tomb |-> o.kind = "del"]

\* The entry of a written frame.
Pointed(o) ==
  [off |-> o.off, lsn |-> o.lsn,
   rec |-> IF o.kind = "del" THEN 0 ELSE o.val, tomb |-> o.kind = "del"]

\* Mutant: every put counts as newly resident.
NewResident_Always(o) == o.kind = "put" /\ o.key \in URLKeys /\ Budget > 0

\* A put of a URL with no resident body is tracked.
NewResident(o) ==
  o.kind = "put" /\ o.key \in URLKeys /\ Budget > 0 /\ index[o.key].rec = 0

\* The second half: the index points at the frame, whatever it pointed at.
Repoint(c) ==
  LET o == op[c] IN
  /\ o.pc = "repoint"
  /\ index' = [index EXCEPT ![o.key] = Pointed(o)]
  /\ acked' = [acked EXCEPT ![o.key] = Max({@, o.val})]
  /\ promised' = IF Full THEN acked' ELSE promised
  /\ op' = [op EXCEPT ![c] = IF NewResident(o) THEN [@ EXCEPT !.pc = "track"] ELSE Idle]
  /\ UNCHANGED <<disk, memory, pool, issued, refs, crashes, arena, ck>>

-----------------------------------------------------------------------------
(* Residency: trackResident and the spilled read of GetURL. *)

Track(c) ==
  /\ op[c].pc = "track"
  /\ residentN' = residentN + 1
  /\ op' = [op EXCEPT ![c].pc = "queue"]
  /\ UNCHANGED <<disk, memory, evictQ, history, index, arena, ck>>

\* evictMu is held from here to the end of the eviction loop.
Enqueue(c) ==
  /\ op[c].pc = "queue" /\ \A d \in Clients : op[d].pc # "evict"
  /\ evictQ' = Append(evictQ, op[c].key)
  /\ op' = [op EXCEPT ![c].pc = "evict"]
  /\ UNCHANGED <<disk, memory, residentN, history, index, arena, ck>>

OverBudget == residentN > Budget /\ evictQ # <<>>

\* Mutant: the victim is peeked at, not popped.
QueueLeft_Peek == evictQ

\* The queue once its oldest entry is taken.
QueueLeft == Tail(evictQ)

\* One turn of the loop: the oldest entry's body is dropped, its offset kept.
Evict(c) ==
  LET victim == Head(evictQ)
      drop == index[victim].rec # 0 /\ ~index[victim].tomb
  IN
  /\ op[c].pc = "evict" /\ OverBudget
  /\ evictQ' = QueueLeft
  /\ index' = IF drop THEN [index EXCEPT ![victim].rec = 0] ELSE index
  /\ residentN' = IF drop THEN residentN - 1 ELSE residentN
  /\ UNCHANGED <<disk, memory, history, arena, op, ck>>

EvictDone(c) ==
  /\ op[c].pc = "evict" /\ ~OverBudget
  /\ op' = [op EXCEPT ![c] = Idle]
  /\ UNCHANGED <<disk, memory, pool, history, index, arena, ck>>

\* GetURL of a spilled record; any other read returns under one lock and changes
\* nothing.
Lookup(c, k) ==
  /\ Ready(c) /\ "get" \in Ops /\ k \in MayRead[c] \cap URLKeys
  /\ ~index[k].tomb /\ index[k].rec = 0
  /\ op' = [op EXCEPT ![c] = [Idle EXCEPT !.pc = "read", !.key = k, !.off = index[k].off,
                                          !.floor = acked[k]]]
  /\ UNCHANGED <<disk, memory, pool, history, index, arena, ck>>

\* The frame at the offset is read without a lock; its key is not compared.
Spill(c) ==
  LET v == ReadAt(op[c].off) IN
  /\ op[c].pc = "read"
  /\ op' = [op EXCEPT ![c] = IF v = 0 THEN Idle ELSE [@ EXCEPT !.pc = "install", !.val = v]]
  /\ UNCHANGED <<disk, memory, pool, history, index, arena, ck>>

\* The body is installed if the entry still has none, and returned either way.
Install(c) ==
  LET k == op[c].key
      fill == index[k].rec = 0 /\ ~index[k].tomb
  IN
  /\ op[c].pc = "install"
  /\ index' = IF fill THEN [index EXCEPT ![k].rec = op[c].val] ELSE index
  /\ op' = [op EXCEPT ![c] = IF fill /\ Budget > 0 THEN [@ EXCEPT !.pc = "track"] ELSE Idle]
  /\ UNCHANGED <<disk, memory, pool, history, arena, ck>>
-----------------------------------------------------------------------------
(* Strings: Intern and InternRobots. *)

\* The arena grows under its own lock; the frame is appended after the unlock.
Intern(c) ==
  /\ Ready(c) /\ c \in Interners /\ Len(refs) < MaxStrings
  /\ refs' = Append(refs, Len(arena) + 1)
  /\ arena' = Append(arena, Len(refs'))
  /\ op' = [op EXCEPT ![c] = [Idle EXCEPT !.pc = "intern", !.val = Len(refs')]]
  /\ UNCHANGED <<disk, memory, pool, issued, acked, promised, crashes, index, ck>>

InternLog(c) ==
  /\ op[c].pc = "intern"
  /\ AppendFrame("intern", Nil, op[c].val)
  /\ op' = [op EXCEPT ![c] = Idle]
  /\ UNCHANGED <<stable, snaps, super, gen, synced, pool, history, index, arena, ck>>

\* A failed append returns the error; the arena keeps the string.
InternFails(c) ==
  /\ op[c].pc = "intern" /\ "append" \in Errors /\ nextLSN < MaxLSN
  /\ nextLSN' = nextLSN + 1
  /\ op' = [op EXCEPT ![c] = Idle]
  /\ UNCHANGED <<disk, gen, synced, pool, history, index, arena, ck>>

-----------------------------------------------------------------------------
(* Checkpoint: snapshotPartition, then commit. *)

Begin ==
  /\ ck.pc = "idle" /\ gen < MaxGen
  /\ Paused => \A c \in Clients : op[c].pc = "idle"
  /\ ck' = [NoCheckpoint EXCEPT !.pc = "urls", !.todo = URLKeys]
  /\ UNCHANGED <<disk, memory, pool, history, index, arena, op>>

\* One live URL record, resident or read back; an unreadable one is left out.
Scan(k) ==
  /\ ck.pc = "urls" /\ k \in ck.todo
  /\ ck' = [ck EXCEPT !.todo = @ \ {k}, !.recs[k] = Read(k)]
  /\ UNCHANGED <<disk, memory, pool, history, index, arena, op>>

ScanHosts ==
  /\ ck.pc = "urls" /\ ck.todo = {}
  /\ ck' = [ck EXCEPT !.pc = "strings",
                      !.recs = [k \in Keys |-> IF k \in HostKeys THEN index[k].rec ELSE @[k]]]
  /\ UNCHANGED <<disk, memory, pool, history, index, arena, op>>

ScanStrings ==
  /\ ck.pc = "strings"
  /\ ck' = [ck EXCEPT !.pc = "cut", !.strs = arena]
  /\ UNCHANGED <<disk, memory, pool, history, index, arena, op>>

\* The frontier LSN is read, and the snapshot file created or truncated.
Cut ==
  /\ ck.pc = "cut"
  /\ ck' = [ck EXCEPT !.pc = "snap", !.frontier = nextLSN]
  /\ snaps' = [snaps EXCEPT ![gen + 1] = NoSnap]
  /\ UNCHANGED <<logs, stable, super, memory, pool, history, index, arena, op>>

\* The snapshot is complete and flushed, and the next log opened.
WriteSnapshot ==
  /\ ck.pc = "snap"
  /\ snaps' = [snaps EXCEPT ![gen + 1] = [ok |-> TRUE, recs |-> ck.recs, strs |-> ck.strs]]
  /\ ck' = [ck EXCEPT !.pc = "super"]
  /\ UNCHANGED <<logs, stable, super, memory, pool, history, index, arena, op>>

SnapshotFails ==
  /\ ck.pc = "snap" /\ "snap" \in Errors
  /\ ck' = NoCheckpoint
  /\ UNCHANGED <<disk, memory, pool, history, index, arena, op>>

\* The superblock with the new generation in its slot.
Published == [super EXCEPT ![SlotOf(gen + 1)] = [gen |-> gen + 1, frontier |-> ck.frontier]]

WriteSuper ==
  /\ ck.pc = "super"
  /\ super' = Published
  /\ ck' = [ck EXCEPT !.pc = "swap"]
  /\ UNCHANGED <<logs, stable, snaps, memory, pool, history, index, arena, op>>

\* What the superblock may hold when its write is cut short: the old slot, an
\* invalid one, or the new one.
Slots ==
  IF ck.pc # "super" THEN {super}
  ELSE {super, [super EXCEPT ![SlotOf(gen + 1)] = NoSlot], Published}

\* A failed open, write or flush of the superblock returns the error; the store
\* stays on the old log whatever reached the file.
SuperFails ==
  /\ ck.pc = "super" /\ "super" \in Errors
  /\ super' \in IF Torn THEN Slots ELSE {super}
  /\ ck' = NoCheckpoint
  /\ UNCHANGED <<logs, stable, snaps, memory, pool, history, index, arena, op>>

\* openLog: the flush mark of the new, empty log.
SwappedSync == 0

\* The store moves to the new log; the index keeps its offsets into the old one.
Swap ==
  /\ ck.pc = "swap"
  /\ gen' = gen + 1 /\ nextLSN' = ck.frontier /\ synced' = SwappedSync /\ stable' = 0
  /\ ck' = [ck EXCEPT !.pc = "reclaim"]
  /\ UNCHANGED <<logs, snaps, super, pool, history, index, arena, op>>

\* The superseded log and snapshot are removed, and the checkpoint returns.
Superseded == gen - 1

Reclaim ==
  /\ ck.pc = "reclaim"
  /\ logs' = [logs EXCEPT ![Superseded + 1] = <<>>]
  /\ snaps' = IF Superseded = 0 THEN snaps ELSE [snaps EXCEPT ![Superseded] = NoSnap]
  /\ promised' = acked
  /\ ck' = NoCheckpoint
  /\ UNCHANGED <<stable, super, memory, pool, issued, refs, acked, crashes, index, arena, op>>

-----------------------------------------------------------------------------
(* Recovery: Open, recover and replay. *)

\* replay stops at the first torn frame.
Intact(fs) ==
  LET bad == {i \in DOMAIN fs : fs[i].kind = "torn"} IN
  IF bad = {} THEN fs ELSE SubSeq(fs, 1, Min(bad) - 1)

\* The frames a process opening slot s finds, n frames of the current log having
\* survived.
Surviving(s, n) == IF s.gen = gen THEN SubSeq(Log, 1, n) ELSE logs[s.gen + 1]

\* Mutant: the first frame of a key wins.
Winner_First(mine) == Min(mine)

\* Of the frames of one key, the one replay leaves in force: the last in the file.
Winner(mine) == Max(mine)

\* The index: the snapshot's rows, resident and at offset 0 (the first frame),
\* overlaid by the frames in file order.
Recovered(s, fs) ==
  [k \in Keys |->
     LET mine == {i \in DOMAIN fs : fs[i].key = k}
         last == Winner(mine)
         rec == IF s.gen = 0 THEN 0 ELSE snaps[s.gen].recs[k]
     IN IF mine # {}
        THEN LET gone == fs[last].kind = "del" IN
             [off |-> last, lsn |-> fs[last].lsn,
              rec |-> IF gone THEN 0 ELSE fs[last].val, tomb |-> gone]
        ELSE IF rec # 0 THEN [off |-> 1, lsn |-> 0, rec |-> rec, tomb |-> FALSE]
        ELSE Absent]

\* Mutant: the arena starts empty although there is a snapshot.
BaseStrings_None(s) == SubSeq(<<>>, 1, 0 * s.gen)

\* The strings of the snapshot, if the slot names one.
BaseStrings(s) == IF s.gen = 0 THEN <<>> ELSE snaps[s.gen].strs

\* The frames of a log that intern a string, and the j-th of them.
Interned(fs) == {i \in DOMAIN fs : fs[i].kind = "intern"}
Nth(fs, j) == CHOOSE i \in Interned(fs) : Cardinality({h \in Interned(fs) : h <= i}) = j

\* The arena: the snapshot's strings, then the interned ones in file order.
RecoveredArena(s, fs) ==
  BaseStrings(s) \o [j \in 1..Cardinality(Interned(fs)) |-> fs[Nth(fs, j)].val]

\* The next LSN: past the frontier and past every replayed frame.
ResumeLSN(s, fs) == Max({s.frontier} \cup {fs[i].lsn + 1 : i \in DOMAIN fs})

Openable(s) == s.gen > 0 => snaps[s.gen].ok

\* A process opens superblock sb and a log of the frames file.
Open(sb, file) ==
  LET s == Picked(sb)
      fs == Intact(file)
  IN
  /\ Openable(s)
  /\ super' = sb /\ gen' = s.gen
  /\ logs' = [logs EXCEPT ![s.gen + 1] = file]
  /\ synced' = Len(file)
  /\ nextLSN' = ResumeLSN(s, fs)
  /\ index' = Recovered(s, fs) /\ arena' = RecoveredArena(s, fs)
  /\ residentN' = 0 /\ evictQ' = <<>>
  /\ op' = [c \in Clients |-> Idle] /\ ck' = NoCheckpoint
  /\ UNCHANGED <<snaps, issued, refs>>

\* The process or the machine stops, with n frames of the log surviving, and is
\* started again.  When the whole file survives it may still be unflushed.
Crash(sb, n, torn) ==
  LET s == Picked(sb)
      lost == s.gen = gen /\ n < Len(Log)
      file == Surviving(s, n) \o (IF torn THEN <<TornFrame>> ELSE <<>>)
  IN
  /\ crashes < Crashes /\ crashes' = crashes + 1
  /\ torn => Torn /\ lost
  /\ Open(sb, file)
  /\ stable' = IF s.gen # gen THEN 0 ELSE IF lost THEN Len(file) ELSE stable
  /\ acked' = IF Full THEN acked ELSE promised
  /\ UNCHANGED promised

\* Close flushes what log.synced does not cover; the store is opened again.
CloseOpen ==
  /\ "close" \in Ops /\ ck.pc = "idle" /\ \A c \in Clients : op[c].pc = "idle"
  /\ Open(super, Log)
  /\ stable' = IF synced < Len(Log) THEN Len(Log) ELSE stable
  /\ promised' = acked
  /\ UNCHANGED <<acked, crashes>>

Client(c) ==
  \/ \E k \in Keys : Put(c, k) \/ Delete(c, k) \/ Lookup(c, k)
  \/ WriteFails(c) \/ Commit(c) \/ CommitFails(c) \/ Repoint(c)
  \/ Track(c) \/ Enqueue(c) \/ Evict(c) \/ EvictDone(c)
  \/ Spill(c) \/ Install(c) \/ Intern(c) \/ InternLog(c) \/ InternFails(c)

Checkpoint ==
  \/ Begin \/ ScanHosts \/ ScanStrings \/ Cut \/ WriteSnapshot \/ SnapshotFails
  \/ WriteSuper \/ SuperFails \/ Swap \/ Reclaim
  \/ \E k \in URLKeys : Scan(k)

Reopen ==
  \/ \E sb \in Slots, n \in stable .. Len(Log), torn \in BOOLEAN : Crash(sb, n, torn)
  \/ CloseOpen

Next == Checkpoint \/ Reopen \/ \E c \in Clients : Client(c)

Spec == Init /\ [][Next]_vars

\* A call that has begun goes on: its goroutine is scheduled, and a Go mutex
\* admits every waiter in the end (its starvation mode), hence strong fairness of
\* the step that takes evictMu.
Continues(c) ==
  Commit(c) \/ Repoint(c) \/ Track(c) \/ Evict(c) \/ EvictDone(c) \/ Spill(c) \/ Install(c)

FairSpec ==
  Spec /\ \A c \in Clients : WF_vars(Continues(c)) /\ SF_vars(Enqueue(c))

-----------------------------------------------------------------------------
(* Properties. *)

\* Every file, entry and counter is of its kind.
TypeOK ==
  /\ gen \in 0 .. MaxGen /\ nextLSN \in 1 .. MaxLSN
  /\ stable \in 0 .. Len(Log) /\ synced \in 0 .. Len(Log)
  /\ \A s \in 0 .. 1 : super[s].gen \in 0 .. MaxGen /\ super[s].frontier \in 1 .. MaxLSN
  /\ \A k \in Keys : index[k].rec \in 0 .. Len(issued) /\ index[k].off \in Nat
  /\ residentN \in Int /\ evictQ \in Seq(URLKeys)

\* v is what key k may read as when the write numbered floor is to be seen: the
\* outcome of that write or of one issued later.
Fits(k, floor, v) ==
  \/ floor = 0 /\ v = 0
  \/ \E w \in 1 .. Len(issued) :
       /\ w >= floor /\ issued[w].key = k
       /\ v = IF issued[w].kind = "put" THEN w ELSE 0

\* The keys one caller alone reads and writes.
Private(k) == \A c, d \in Clients :
  k \in MayWrite[c] \cup MayRead[c] /\ k \in MayWrite[d] \cup MayRead[d] => c = d

\* What key k's entry stands for: the body a read returns; but where a second
\* caller reads the key, the frame at the entry's offset, since a spilled read that
\* began before a write may put the body it found back behind it (Install compares
\* neither offset nor LSN), and reads return that body until it is evicted.
Held(k) == IF Budget = 0 \/ Private(k) THEN Read(k) ELSE Located(k)

\* While the store is up, each entry stands for the last write of its key that
\* returned, or a later one: through evictions, refills, checkpoints and recovery no
\* update disappears or goes back (GetURL, GetHost); and a spilled read, which gives
\* the lock up while it reads the log and while others write and evict its key,
\* hands its caller a payload of its own key, no older than the last write that had
\* returned when the read began.
ReadCurrent ==
  /\ \A k \in Keys : Fits(k, acked[k], Held(k))
  /\ \A c \in Clients : op[c].pc = "install" => Fits(op[c].key, op[c].floor, op[c].val)

\* Wherever the process or the machine stops now, inside a write, a flush or a
\* checkpoint, the slot that is picked next names a complete snapshot, so Open
\* does not fail, and the store that is opened reads every promised write, or a
\* later one, of every key.  Full promises a write when it returns, Normal when a
\* checkpoint returns.
AckedKept ==
  \A sb \in Slots, n \in stable .. Len(Log) :
    LET s == Picked(sb)
        then == Recovered(s, Intact(Surviving(s, n)))
    IN /\ Openable(s)
       /\ \A k \in Keys : Fits(k, promised[k], then[k].rec)

\* A process that stops with no call under way on a key comes back with what the
\* key's entry stood for: the order in which the index was repointed is the order of
\* the log, whoever read the key and refilled its body meanwhile.
LiveIsLogged ==
  \A sb \in Slots :
    LET s == Picked(sb)
        then == Recovered(s, Intact(Surviving(s, Len(Log))))
    IN \A k \in Keys : (\A c \in Clients : op[c].key # k) => then[k].rec = Held(k)

\* A reference returned by Intern names its string for the life of the store:
\* in the arena now, and in the one that recovery builds from whatever survives.
ArenaStable ==
  LET Holds(a) == \A i \in DOMAIN a : refs[a[i]] = i IN
  /\ Holds(arena)
  /\ \A sb \in Slots, n \in stable .. Len(Log) :
       LET s == Picked(sb) IN Holds(RecoveredArena(s, Intact(Surviving(s, n))))

\* Between calls the resident count is the number of resident records and within
\* the budget: the evictions of concurrent callers neither miss nor double count.
ResidentCounted ==
  Budget > 0 /\ (\A c \in Clients : op[c].pc = "idle") =>
    LET resident == {k \in URLKeys : index[k].rec # 0} IN
    residentN = Cardinality(resident) /\ residentN <= Budget

\* Every read and write returns: the eviction loop ends while other callers keep
\* adding to the count, and the lock it holds is given up.
CallsReturn ==
  \A c \in Clients : op[c].pc \notin {"idle", "intern"} ~> op[c].pc = "idle"
=============================================================================
