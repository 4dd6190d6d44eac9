---------------------------- MODULE PartitionFile ---------------------------
(***************************************************************************)
(* One .meguri file, src/format: what Encode writes for a partition, what  *)
(* Decode rebuilds, and the reads a Reader answers from the footer, the    *)
(* pages and the schedule wheel without decoding the rest.                 *)
(*                                                                         *)
(* Data abstractions.                                                      *)
(*  - A URL row keeps the columns the reads and the maintenance operations *)
(*    look at and one of each encoding: its key (host, path), status,      *)
(*    next_due, crawl count and one string reference; a host row its key   *)
(*    and one reference.                                                   *)
(*  - The string arena is the sequence of its spans; a reference is a      *)
(*    position in it and 0 is the none sentinel.                           *)
(*  - Offsets, lengths and checksums are left out: a file is read as it    *)
(*    was written, and each part is found where the directory says.        *)
(*  - The block codec is external.  Which pages are smaller encoded than   *)
(*    raw depends on it; Wins is the set of encodings that are.            *)
(* A read's result is a set: {v} for the answer v, {} for an error.        *)
(***************************************************************************)
EXTENDS Encoding

CONSTANTS
  MaxKey,        \* host keys are 0..MaxKey, the code's 2^64 - 1
  NearBuckets,   \* one-hour buckets of the schedule wheel
  MidBuckets, MidWidth,
  FarBuckets, FarWidth

ASSUME FormatAssumption ==
  /\ MaxKey \in Nat
  /\ {NearBuckets, MidBuckets, MidWidth, FarBuckets, FarWidth} \subseteq Nat \ {0}

StatusScheduled == 1
StatusCrawled   == 4
StatusGone      == 6

\* The columns by their name in the row record: nominal encoding and width.
URLColumns ==
  [host   |-> [enc |-> "rle",      width |-> WordBits],
   path   |-> [enc |-> "deltafor", width |-> WordBits],
   status |-> [enc |-> "dict",     width |-> 3],
   due    |-> [enc |-> "delta",    width |-> WordBits - 1],
   count  |-> [enc |-> "for",      width |-> WordBits - 1],
   ref    |-> [enc |-> "delta",    width |-> WordBits]]

HostColumns ==
  [host |-> [enc |-> "deltafor", width |-> WordBits],
   ref  |-> [enc |-> "delta",    width |-> WordBits]]

KeyOf(r) == <<r.host, r.path>>

KeyLess(a, b) == a[1] < b[1] \/ (a[1] = b[1] /\ a[2] < b[2])

sortedURLs(recs) == \A i \in 2..Len(recs) : ~KeyLess(KeyOf(recs[i]), KeyOf(recs[i - 1]))
sortedHosts(recs) == \A i \in 2..Len(recs) : recs[i].host >= recs[i - 1].host

---------------------------------------------------------------------------
(* Pages and columns *)

\* The least and greatest value of a page; {} for an empty one.
zoneMap(vals) == IF vals = <<>> THEN {} ELSE {<<Min(Range(vals)), Max(Range(vals))>>}

\* The page of values vals whose first is row `first`: the nominal encoding
\* when its page is the smaller one, else raw, with the page's zone.
buildColumnPage(c, vals, first, Wins) ==
  LET enc == IF c.enc \in Wins THEN c.enc ELSE "raw"
      e   == encodeValues(enc, vals)
  IN [enc |-> enc, n |-> Len(vals), first |-> first, base |-> e.base, payload |-> e.payload,
      zone |-> zoneMap(vals)]

\* Cut points of n values into pages of at most maxRows (0: one page).
splitColumn(n, maxRows) ==
  IF maxRows = 0 \/ n <= maxRows THEN <<<<1, n>>>>
  ELSE [p \in 1..((n + maxRows - 1) \div maxRows) |->
          <<(p - 1) * maxRows + 1, Min({p * maxRows, n})>>]

encodeColumn(c, vals, maxRows, Wins) ==
  LET cuts == splitColumn(Len(vals), maxRows)
  IN [p \in DOMAIN cuts |->
        buildColumnPage(c, SubSeq(vals, cuts[p][1], cuts[p][2]), cuts[p][1] - 1, Wins)]

\* By column name, the pages of the column.
encodeColumnRegion(cols, recs, maxRows, Wins) ==
  [name \in DOMAIN cols |->
     encodeColumn(cols[name], [i \in DOMAIN recs |-> recs[i][name]], maxRows, Wins)]

decodePagePayload(page, width) ==
  {IF page.enc = "raw" THEN v ELSE writeValues(v, width) :
     v \in decodeValues(page.enc, page.payload, page.n, page.base)}

\* What was read so far with one more page.
Glued(sofar, page, width) == {u \o v : u \in sofar, v \in decodePagePayload(page, width)}

\* A whole column, page after page.
decodeColumnRegion(pages, width) ==
  LET got[p \in 0..Len(pages)] == IF p = 0 THEN {<<>>} ELSE Glued(got[p - 1], pages[p], width)
  IN got[Len(pages)]

RowsFromColumns(cols, region, n) ==
  LET got == [c \in DOMAIN cols |-> decodeColumnRegion(region[c], cols[c].width)]
  IN IF \E c \in DOMAIN cols : got[c] = {} THEN {}
     ELSE {[i \in 1..n |-> [c \in DOMAIN cols |-> (CHOOSE v \in got[c] : TRUE)[i]]]}

---------------------------------------------------------------------------
(* The schedule wheel *)

MidOff == NearBuckets
FarOff == NearBuckets + MidBuckets * MidWidth
OverflowOff == FarOff + FarBuckets * FarWidth
OverflowBucket == NearBuckets + MidBuckets + FarBuckets

schedBucketOf(off) ==
  IF off < MidOff THEN off
  ELSE IF off < FarOff THEN NearBuckets + (off - MidOff) \div MidWidth
  ELSE IF off < OverflowOff THEN NearBuckets + MidBuckets + (off - FarOff) \div FarWidth
  ELSE OverflowBucket

\* Mutant: the far tier's window is measured from its bucket index.
schedBucketStart_IndexBase(b) ==
  IF b < NearBuckets THEN b
  ELSE IF b < NearBuckets + MidBuckets THEN MidOff + (b - NearBuckets) * MidWidth
  ELSE IF b < OverflowBucket THEN FarOff + b * FarWidth
  ELSE OverflowOff

schedBucketStart(b) ==
  IF b < NearBuckets THEN b
  ELSE IF b < NearBuckets + MidBuckets THEN MidOff + (b - NearBuckets) * MidWidth
  ELSE IF b < OverflowBucket THEN FarOff + (b - NearBuckets - MidBuckets) * FarWidth
  ELSE OverflowOff

Scheduled(recs) == {i \in DOMAIN recs : recs[i].due # 0}

\* The least and the greatest nonzero next_due, zeros when there is none.
dueRange(recs) ==
  LET dues == {recs[i].due : i \in Scheduled(recs)}
  IN IF dues = {} THEN <<0, 0>> ELSE <<Min(dues), Max(dues)>>

\* {} when no row is scheduled: the region is omitted.
buildScheduleIndex(recs) ==
  LET base == dueRange(recs)[1]
      In(b) == {i \in Scheduled(recs) : schedBucketOf(recs[i].due - base) = b}
  IN IF base = 0 THEN {}
     ELSE {[base |-> base, buckets |-> [b \in 0..OverflowBucket |-> SetToSortSeq(In(b), <)]]}

\* The region: the row numbers of each bucket as steps from the one before.
encodeScheduleRegion(recs) ==
  {[base |-> idx.base, covered |-> Len(recs),
    steps |-> [b \in DOMAIN idx.buckets |->
                 LET ids == idx.buckets[b]
                 IN [j \in DOMAIN ids |-> ids[j] - (IF j = 1 THEN 0 ELSE ids[j - 1])]]] :
     idx \in buildScheduleIndex(recs)}

decodeScheduleRegion(region) ==
  [base |-> region.base, covered |-> region.covered,
   buckets |-> [b \in DOMAIN region.steps |->
                  LET steps == region.steps[b]
                  IN [j \in DOMAIN steps |-> FoldLeft(+, 0, SubSeq(steps, 1, j))]]]

\* The rows of every bucket whose window has opened at now; the walk stops
\* at the first that has not.
DueBuckets(idx, now) ==
  LET shut == {b \in 0..OverflowBucket : schedBucketStart(b) > now - idx.base}
      open == IF shut = {} THEN OverflowBucket ELSE Min(shut) - 1
  IN IF now < idx.base THEN <<>>
     ELSE FlattenSeq([k \in 1..(open + 1) |-> idx.buckets[k - 1]])

---------------------------------------------------------------------------
(* Files *)

\* {} is ErrNotSorted.
Encode(p, Wins) ==
  IF ~sortedURLs(p.urls) \/ ~sortedHosts(p.hosts) THEN {}
  ELSE {[id |-> p.id, lo |-> p.lo, hi |-> p.hi,
         nURL |-> Len(p.urls), nHost |-> Len(p.hosts),
         urlDir  |-> encodeColumnRegion(URLColumns, p.urls, p.maxRows, Wins),
         hostDir |-> encodeColumnRegion(HostColumns, p.hosts, p.maxRows, Wins),
         sched   |-> IF p.sched THEN encodeScheduleRegion(p.urls) ELSE {},
         blob    |-> p.strings,
         due     |-> dueRange(p.urls)]}

\* The page cap is the writer's and is not read back; a wheel that is in the
\* file is asked for again.
Decode(f) ==
  {p \in {[id |-> f.id, lo |-> f.lo, hi |-> f.hi, urls |-> us, hosts |-> hs,
           strings |-> f.blob, sched |-> f.sched # {}, maxRows |-> 0] :
             us \in RowsFromColumns(URLColumns, f.urlDir, f.nURL),
             hs \in RowsFromColumns(HostColumns, f.hostDir, f.nHost)} :
     sortedURLs(p.urls)}

projectURL(f, name) == decodeColumnRegion(f.urlDir[name], URLColumns[name].width)

\* URLKeys: the two key columns joined row by row.
URLKeys(f) ==
  {[i \in 1..f.nURL |-> <<hk[i], pk[i]>>] :
     hk \in projectURL(f, "host"), pk \in projectURL(f, "path")}

MaybeDueAt(f, now) == f.due[1] # 0 /\ f.due[1] <= now

DueRow(nd, i, now) == nd[i] # 0 /\ nd[i] <= now

\* The keys of rows, a sequence of positions, that next_due confirms.
Confirmed(keys, nd, rows, now) ==
  LET kept == SelectSeq(rows, LAMBDA i : DueRow(nd, i, now))
  IN [k \in DOMAIN kept |-> keys[kept[k]]]

DueKeys(f, now) ==
  IF ~MaybeDueAt(f, now) THEN {<<>>}
  ELSE {Confirmed(keys, nd, [i \in 1..f.nURL |-> i], now) :
          keys \in URLKeys(f), nd \in projectURL(f, "due")}

\* With no wheel in the file, the column scan.
DueByWheel(f, now) ==
  IF f.sched = {} THEN DueKeys(f, now)
  ELSE UNION {{Confirmed(keys, nd, DueBuckets(decodeScheduleRegion(region), now), now) :
                 keys \in URLKeys(f), nd \in projectURL(f, "due")} : region \in f.sched}

\* The skip list's verdict on a page of host keys.
PageOverlaps(page, lo, hi) == \A z \in page.zone : z[2] >= lo /\ z[1] <= hi

\* The rows of one page whose host is in lo..hi.  The path column is cut at
\* the same rows, so the same page index has their other halves.
PageKeys(f, p, lo, hi) ==
  LET Got(name) == CHOOSE v \in decodePagePayload(f.urlDir[name][p], URLColumns[name].width) : TRUE
      keys == [i \in 1..f.urlDir["host"][p].n |-> <<Got("host")[i], Got("path")[i]>>]
  IN SelectSeq(keys, LAMBDA k : lo <= k[1] /\ k[1] <= hi)

HostRangeURLKeys(f, lo, hi) ==
  LET pages == f.urlDir["host"]
      hit   == SelectSeq([p \in DOMAIN pages |-> p], LAMBDA p : PageOverlaps(pages[p], lo, hi))
  IN IF lo > hi \/ hi < f.lo \/ lo > f.hi THEN {<<>>}
     ELSE IF Len(pages) = 1
       THEN {SelectSeq(keys, LAMBDA k : lo <= k[1] /\ k[1] <= hi) : keys \in URLKeys(f)}
     ELSE {FlattenSeq([k \in DOMAIN hit |-> PageKeys(f, hit[k], lo, hi)])}
=============================================================================
