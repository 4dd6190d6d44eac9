------------------------------- MODULE SeenSet ------------------------------
(***************************************************************************)
(* The seen-set, src/dedup/seenset.go: a blocked Bloom filter (filter.go)  *)
(* in front of an exact set of sorted buckets (drum.go), checked and filled *)
(* one key at a time or by a batch that is merged bucket by bucket, and    *)
(* frozen into a ribbon filter (ribbon.go) when its partition goes cold.   *)
(*                                                                         *)
(* A key is <<host, path>>; BlockBits stands for the code's 512, and Mix   *)
(* for hashKey, whose values only spread keys over blocks and bits.  The   *)
(* hash of a ribbon seed is an arbitrary choice of a band and a fingerprint *)
(* per key; rows of bits are sets of positions, and XOR is symmetric       *)
(* difference.  A sort is not stable: its results are a set.               *)
(***************************************************************************)
EXTENDS Integers, Sequences, FiniteSets, SequencesExt

CONSTANTS
  Given,         \* the keys callers may give
  Buckets,       \* the number of buckets
  Span,          \* host keys per bucket, the code's 2^shift
  Blocks, BlockBits, K,  \* filter blocks, bits of a block, bits set per key
  MaxBatch,      \* the longest batch
  RibbonSlots, BandWidth,  \* slots of the ribbon, width of a band
  FpBits,        \* the bits of a ribbon fingerprint, a set
  Cold           \* bound: the set is frozen only while it holds keys of Cold

VARIABLES
  seen,    \* [filter, buckets, size]
  ribbon,  \* the last ribbon built: {[derive, z]}, or {}
  held,    \* ghost: the keys given so far
  verdict  \* ghost: the last classifying call, [out, before, given]

seenVars == <<seen, ribbon, held, verdict>>

Less(a, b) == a[1] < b[1] \/ (a[1] = b[1] /\ a[2] < b[2])

---------------------------------------------------------------------------
(* The resident filter *)

Mix(k) == 3 * k[1] + 5 * k[2]

\* The block of a key and the K bits it has there, by double hashing.
locate(k) == [block |-> Mix(k) % Blocks,
              bits  |-> {(Mix(k) + i * (2 * (k[2] \div 2) + 1)) % BlockBits : i \in 0..(K - 1)}]

filterAdd(f, k) == [f EXCEPT ![locate(k).block] = @ \cup locate(k).bits]
maybeSeen(f, k) == locate(k).bits \subseteq f[locate(k).block]

---------------------------------------------------------------------------
(* The exact set *)

bucketOf(k) == k[1] \div Span

ASSUME SeenAssumption ==
  /\ \A k \in Given : k \in Nat \X Nat /\ bucketOf(k) \in 0..(Buckets - 1)
  /\ IsFiniteSet(Given)
  /\ Buckets \in Nat /\ Blocks \in Nat \ {0} /\ MaxBatch \in Nat
  /\ RibbonSlots \in Nat /\ BandWidth \in Nat \ {0}

NewSeenSet == [filter  |-> [b \in 0..(Blocks - 1) |-> {}],
               buckets |-> [b \in 0..(Buckets - 1) |-> <<>>],
               size    |-> 0]

\* sort.Search: the first place whose key is not below k.
Place(run, k) == Min({i \in DOMAIN run : ~Less(run[i], k)} \cup {Len(run) + 1})

contains(s, k) == LET run == s.buckets[bucketOf(k)]
                  IN Place(run, k) <= Len(run) /\ run[Place(run, k)] = k

exactAdd(s, k) ==
  LET run == s.buckets[bucketOf(k)]
  IN IF contains(s, k) THEN s
     ELSE [s EXCEPT !.buckets[bucketOf(k)] = InsertAt(run, Place(run, k), k), !.size = @ + 1]

\* Both tiers learn k.
Learn(s, k) == [exactAdd(s, k) EXCEPT !.filter = filterAdd(@, k)]

SeenContains(s, k) == maybeSeen(s.filter, k) /\ contains(s, k)

---------------------------------------------------------------------------
(* The batched merge *)

\* Mutant: a key repeated in the batch is compared with the disk only.
DupInBatch_Never(st, k) == FALSE

DupInBatch(st, k) == st.new # <<>> /\ Last(st.new) = k

\* One key of a sorted run against the bucket, from the pointer st.di on.
OnKey(st, k, disk) ==
  LET di == Min({i \in st.di..Len(disk) : ~Less(disk[i], k)} \cup {Len(disk) + 1})
      known == (di <= Len(disk) /\ disk[di] = k) \/ DupInBatch(st, k)
  IN [di  |-> di,
      out |-> Append(st.out, <<k, ~known>>),
      new |-> IF known THEN st.new ELSE Append(st.new, k)]

\* The keys of q at the places P, in an order sort.Slice may leave them in.
Sorts(q, P) ==
  {s \in {[i \in DOMAIN p |-> q[p[i]]] : p \in Bijection(1..Cardinality(P), P)} :
     \A i \in 2..Len(s) : ~Less(s[i], s[i - 1])}

\* The bucket's merge after every key of the sorted run s.
Swept(disk, s) ==
  LET st[i \in 0..Len(s)] ==
        IF i = 0 THEN [di |-> 1, out |-> <<>>, new |-> <<>>] ELSE OnKey(st[i - 1], s[i], disk)
  IN st[Len(s)]

\* The smaller of the two heads is next; once a run is out, the other's.
TakeHead(st, a, b) ==
  IF st.i <= Len(a) /\ (st.j > Len(b) \/ Less(a[st.i], b[st.j]))
  THEN [i |-> st.i + 1, j |-> st.j, out |-> Append(st.out, a[st.i])]
  ELSE [i |-> st.i, j |-> st.j + 1, out |-> Append(st.out, b[st.j])]

mergeSortedRuns(a, b) ==
  LET st[k \in 0..(Len(a) + Len(b))] ==
        IF k = 0 THEN [i |-> 1, j |-> 1, out |-> <<>>] ELSE TakeHead(st[k - 1], a, b)
  IN st[Len(a) + Len(b)].out

\* Bucket b's part of the batch, classified and folded in.
mergeBucket(disk, batch, b) ==
  {[out |-> st.out, new |-> st.new, run |-> mergeSortedRuns(disk, st.new)] :
     st \in {Swept(disk, s) : s \in Sorts(batch, {i \in DOMAIN batch : bucketOf(batch[i]) = b})}}

\* Each bucket's run, classified.  The buckets come in map order, so the
\* verdicts are kept bucket by bucket.
exactMerge(s, batch) ==
  LET may == [b \in DOMAIN s.buckets |-> mergeBucket(s.buckets[b], batch, b)]
  IN {got \in [DOMAIN may -> UNION Range(may)] : \A b \in DOMAIN may : got[b] \in may[b]}

Added(got) ==
  LET sum[n \in 0..Buckets] == IF n = 0 THEN 0 ELSE sum[n - 1] + Len(got[n - 1].new) IN sum[Buckets]

OfAll(runs) ==
  LET all[n \in 0..Buckets] == IF n = 0 THEN <<>> ELSE all[n - 1] \o runs[n - 1] IN all[Buckets]

---------------------------------------------------------------------------
(* The ribbon snapshot *)

Slots == 0..(RibbonSlots - 1)
NoRows == [i \in Slots |-> {}]

Xor(a, b) == (a \ b) \cup (b \ a)

\* The slots of S of f, XORed.
XorOver(f, S) ==
  LET acc[n \in 0..RibbonSlots] ==
        IF n = 0 THEN {} ELSE IF n - 1 \in S THEN Xor(acc[n - 1], f[n - 1]) ELSE acc[n - 1]
  IN acc[RibbonSlots]

\* What a seed may make of a key: the band's slots, its start among them,
\* and a fingerprint.
Bands == {[row |-> {start} \cup rest, fp |-> fp] :
            start \in {0}, rest \in SUBSET (1..(BandWidth - 1)), fp \in SUBSET FpBits}
Shifted(band, start) == [band EXCEPT !.row = {start + i : i \in @}]
Derivations == {Shifted(b, start) : b \in Bands, start \in 0..(RibbonSlots - BandWidth)}

\* Slot i in the elimination of one equation: when the row has it, the row is
\* stored as the slot's pivot row, or the row stored there is XORed into it.
Pivot(st, i) ==
  IF st.done \/ i \notin st.row THEN st
  ELSE IF st.rows[i] = {} THEN [st EXCEPT !.rows[i] = st.row, !.rhs[i] = st.fp, !.done = TRUE]
  ELSE [st EXCEPT !.row = Xor(@, st.rows[i]), !.fp = Xor(@, st.rhs[i])]

\* One key's equation, from slot to slot.  An equation that cancels out is
\* redundant, or inconsistent when its fingerprint does not cancel.
Eliminate(st, band) ==
  LET slot[n \in 0..RibbonSlots] ==
        IF n = 0 THEN [rows |-> st.rows, rhs |-> st.rhs, row |-> band.row, fp |-> band.fp, done |-> FALSE]
        ELSE Pivot(slot[n - 1], n - 1)
      end == slot[RibbonSlots]
  IN [rows |-> end.rows, rhs |-> end.rhs, ok |-> st.ok /\ (end.done \/ end.fp = {})]

\* A slot is its pivot's fingerprint XOR the later slots the row refers to,
\* from the last slot down.
BackSubstitute(rows, rhs) ==
  LET z[n \in 0..RibbonSlots] ==
        IF n = 0 THEN NoRows
        ELSE LET i == RibbonSlots - n
             IN IF rows[i] = {} THEN z[n - 1]
                ELSE [z[n - 1] EXCEPT ![i] = Xor(rhs[i], XorOver(z[n - 1], rows[i] \ {i}))]
  IN z[RibbonSlots]

\* {} when the system has no solution: the caller tries another seed.
solveRibbon(bands) ==
  LET st[n \in 0..Len(bands)] ==
        IF n = 0 THEN [rows |-> NoRows, rhs |-> NoRows, ok |-> TRUE] ELSE Eliminate(st[n - 1], bands[n])
      end == st[Len(bands)]
  IN IF end.ok THEN {BackSubstitute(end.rows, end.rhs)} ELSE {}

ribbonQuery(r, k) == XorOver(r.z, r.derive[k].row) = r.derive[k].fp

---------------------------------------------------------------------------
(* Calls *)

SeenInit == seen = NewSeenSet /\ ribbon = {} /\ held = {} /\ verdict = {}

\* Seen: a filter miss or a false positive is a new key.
SeenKey(k) ==
  /\ verdict' = {[out |-> [b \in {bucketOf(k)} |-> <<<<k, ~SeenContains(seen, k)>>>>],
                   before |-> held, given |-> <<k>>]}
  /\ seen' = IF SeenContains(seen, k) THEN seen ELSE Learn(seen, k)
  /\ held' = held \cup {k}
  /\ UNCHANGED ribbon

\* Insert: a recovery's fold of a key column, without a verdict.
InsertKey(k) ==
  /\ seen' = IF SeenContains(seen, k) THEN seen ELSE Learn(seen, k)
  /\ held' = held \cup {k} /\ verdict' = {}
  /\ UNCHANGED ribbon

\* Merge: the filter learns every unique key.
MergeBatch(batch) ==
  /\ \E got \in exactMerge(seen, batch) :
       LET Unique(x) == {c[1] : c \in {c \in UNION {Range(got[b].out) : b \in DOMAIN got} :
                                         c[2] /\ locate(c[1]).block = x}}
       IN /\ seen' = [filter  |-> [x \in DOMAIN seen.filter |->
                                     seen.filter[x] \cup UNION {locate(k).bits : k \in Unique(x)}],
                      buckets |-> [b \in DOMAIN seen.buckets |-> got[b].run],
                      size    |-> seen.size + Added(got)]
          /\ verdict' = {[out |-> [b \in DOMAIN got |-> got[b].out], before |-> held, given |-> batch]}
  /\ held' = held \cup Range(batch)
  /\ UNCHANGED ribbon

\* MarshalRibbon under a seed that solves.
MarshalRibbon ==
  /\ held \subseteq Cold
  /\ LET keys == OfAll(seen.buckets)
     IN \E d \in [Range(keys) -> Derivations] :
          \E z \in solveRibbon([i \in DOMAIN keys |-> d[keys[i]]]) :
            ribbon' = {[derive |-> d, z |-> z]}
  /\ verdict' = {}
  /\ UNCHANGED <<seen, held>>

SeenNext ==
  \/ \E k \in Given : ribbon = {} /\ (SeenKey(k) \/ InsertKey(k))
  \/ ribbon = {} /\ \E n \in 0..MaxBatch : \E batch \in [1..n -> Given] : MergeBatch(batch)
  \/ ribbon = {} /\ held # {} /\ verdict = {} /\ MarshalRibbon

SeenSpec == SeenInit /\ [][SeenNext]_seenVars

---------------------------------------------------------------------------
(* Property *)

\* A key is taken for new exactly once, whichever mix of Seen, Merge and
\* Insert delivers it and however often: the verdicts of a call are one per
\* key given, new just once and only for a key not held before; the buckets
\* stay sorted runs of exactly the keys held, the size counts them, no
\* filter false positive drops a key and no false negative re-admits one;
\* and a ribbon frozen from the set answers yes for every key it was built
\* over, whatever bands its hash gave them.
SeenOnce ==
  /\ \A b \in DOMAIN seen.buckets :
       LET run == seen.buckets[b] IN
       /\ \A i \in 2..Len(run) : Less(run[i - 1], run[i])
       /\ Range(run) = {k \in held : bucketOf(k) = b}
  /\ seen.size = Cardinality(held)
  /\ \A k \in Given : SeenContains(seen, k) <=> k \in held
  /\ \A v \in verdict :
       LET places == UNION {{b} \X DOMAIN v.out[b] : b \in DOMAIN v.out}
           Key(x) == v.out[x[1]][x[2]][1]
           unique == {x \in places : v.out[x[1]][x[2]][2]} IN
       /\ \A k \in Given : Cardinality({x \in places : Key(x) = k})
                           = Cardinality({i \in DOMAIN v.given : v.given[i] = k})
       /\ \A x, y \in unique : Key(x) = Key(y) => x = y
       /\ {Key(x) : x \in unique} = Range(v.given) \ v.before
  /\ \A r \in ribbon : \A k \in held : ribbonQuery(r, k)
=============================================================================
