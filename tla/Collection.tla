----------------------------- MODULE Collection -----------------------------
(***************************************************************************)
(* A collection of .meguri files and the operations that rewrite them:     *)
(* split, merge, compact and extract (src/format/ops.go, extract.go), the  *)
(* frontier's checkpoint (src/frontier/frontier.go), and the manifest over *)
(* them (src/format/manifest.go, src/engine/collection.go).                *)
(*                                                                         *)
(* Every operation decodes its inputs from the files, works on the         *)
(* in-memory partition and encodes the result, as the commands and the     *)
(* rebalance do.  live is a ghost: the rows the collection should hold,    *)
(* each with its string instead of a reference.                            *)
(***************************************************************************)
EXTENDS PartitionFile

CONSTANTS
  Starts,     \* the sets of rows a first file may hold, strings resolved
  Verdicts,   \* <<status, next_due>> a crawl may leave on a row
  Strings,    \* the strings a crawl may record
  Finds,      \* rows a frontier may discover
  Caps,       \* page caps the first file's writer may ask for (0: none)
  WinSets,    \* which encodings shrink their pages, for the data at hand
  Epochs,     \* partition-map generations an entry may be tagged with
  MaxFiles, MaxOps

VARIABLES
  files,      \* the collection's files, a sequence
  live,
  Wins,       \* the encodings that shrink their pages
  ops         \* operations so far

vars == <<files, live, Wins, ops>>

Keys == 0..MaxKey
FullName(h) == -1 - h          \* the span that holds host h's name

\* A URL's row with its string in place of the reference.
IsRow(r) ==
  /\ r = [host |-> r.host, path |-> r.path, status |-> r.status, due |-> r.due,
          count |-> r.count, span |-> r.span]
  /\ r.host \in Keys /\ r.path \in 0..(Word - 1) /\ r.status \in 0..7
  /\ {r.due, r.count} \subseteq 0..(2^(WordBits - 1) - 1)
  /\ \E s \in r.span : s \in Int /\ r.span = {s}

\* Keys, due times and references to the strings of every row fit their
\* columns.
ASSUME CollectionAssumption ==
  /\ MaxKey < Word /\ MaxOps \in Nat /\ Caps \subseteq Nat /\ Strings \subseteq Int
  /\ \A S \in Starts :
       /\ IsFiniteSet(S) /\ 2 * (Cardinality(S) + MaxOps) < Word
       /\ \A r \in S : IsRow(r)
       /\ \A r, q \in S : KeyOf(r) = KeyOf(q) => r = q
  /\ \A r \in Finds : IsRow(r)
  /\ Verdicts \subseteq (0..7) \X (0..(2^(WordBits - 1) - 1))

---------------------------------------------------------------------------
(* The string arena *)

arenaRead(arena, ref) == IF ref \in DOMAIN arena THEN {arena[ref]} ELSE {}

\* The elements of s that are in T, in order.
Pick(s, T) ==
  LET kept[i \in 0..Len(s)] == IF i = 0 THEN <<>>
                               ELSE IF s[i] \in T THEN Append(kept[i - 1], s[i]) ELSE kept[i - 1]
  IN kept[Len(s)]

\* The spans recs refer to in src, row by row.
Referenced(recs, src) ==
  LET hit == Pick([i \in DOMAIN recs |-> recs[i].ref], DOMAIN src)
  IN [i \in DOMAIN hit |-> src[hit[i]]]

\* arenaDict: each distinct span once, in order of appearance.
Dict(spans) == Distinct(spans)

Copied(recs, src, arena) ==
  [i \in DOMAIN recs |->
     [recs[i] EXCEPT !.ref = IF arenaRead(src, @) = {} THEN 0
                             ELSE CHOOSE k \in DOMAIN arena : arena[k] = src[@]]]

rebaseArena(p) ==
  LET arena == Dict(Referenced(p.urls, p.strings) \o Referenced(p.hosts, p.strings))
  IN [p EXCEPT !.urls = Copied(@, p.strings, arena),
               !.hosts = Copied(@, p.strings, arena),
               !.strings = arena]

---------------------------------------------------------------------------
(* Operations on partitions *)

\* A partition as the operations build one: no wheel and no page cap.
Plain(id, lo, hi, urls, hosts, strings) ==
  [id |-> id, lo |-> lo, hi |-> hi, urls |-> urls, hosts |-> hosts,
   strings |-> strings, sched |-> FALSE, maxRows |-> 0]

Compact(p) ==
  rebaseArena(Plain(p.id, p.lo, p.hi, Pick(p.urls, {r \in Range(p.urls) : r.status # StatusGone}),
                    p.hosts, p.strings))

\* The rows of the hosts H, in order.
OfHosts(recs, H) == Pick(recs, {r \in Range(recs) : r.host \in H})

\* The tables are sorted, so the cut by sort.Search is a selection.
Split(p, at) ==
  LET below == {h \in Keys : h < at}
  IN <<rebaseArena(Plain(p.id, p.lo, IF at = 0 THEN 0 ELSE at - 1,
                         OfHosts(p.urls, below), OfHosts(p.hosts, below), p.strings)),
       rebaseArena(Plain(p.id, at, p.hi,
                         OfHosts(p.urls, Keys \ below), OfHosts(p.hosts, Keys \ below), p.strings))>>

\* Mutant: one offset cache for both sources, so b's references read a's arena.
Merge_OneCache(p, q) ==
  LET a == IF q.lo < p.lo THEN q ELSE p
      b == IF q.lo < p.lo THEN p ELSE q
      arena == Dict(Referenced(a.urls, a.strings) \o Referenced(b.urls, a.strings)
                    \o Referenced(a.hosts, a.strings) \o Referenced(b.hosts, a.strings))
  IN IF ~sortedURLs(a.urls \o b.urls) \/ ~sortedHosts(a.hosts \o b.hosts) THEN {}
     ELSE {Plain(a.id, a.lo, Max({a.hi, b.hi}),
                 Copied(a.urls, a.strings, arena) \o Copied(b.urls, a.strings, arena),
                 Copied(a.hosts, a.strings, arena) \o Copied(b.hosts, a.strings, arena), arena)}

\* {} is ErrNotSorted.
Merge(p, q) ==
  LET a == IF q.lo < p.lo THEN q ELSE p
      b == IF q.lo < p.lo THEN p ELSE q
      arena == Dict(Referenced(a.urls, a.strings) \o Referenced(b.urls, b.strings)
                    \o Referenced(a.hosts, a.strings) \o Referenced(b.hosts, b.strings))
  IN IF ~sortedURLs(a.urls \o b.urls) \/ ~sortedHosts(a.hosts \o b.hosts) THEN {}
     ELSE {Plain(a.id, a.lo, Max({a.hi, b.hi}),
                 Copied(a.urls, a.strings, arena) \o Copied(b.urls, b.strings, arena),
                 Copied(a.hosts, a.strings, arena) \o Copied(b.hosts, b.strings, arena), arena)}

\* An empty partition keeps the zero range.
hostRange(p) ==
  IF p.hosts = <<>> THEN p
  ELSE [p EXCEPT !.lo = p.hosts[1].host, !.hi = p.hosts[Len(p.hosts)].host]

Extract(p, moving) ==
  LET Side(S) == rebaseArena(hostRange(Plain(p.id, 0, 0, OfHosts(p.urls, S), OfHosts(p.hosts, S), p.strings)))
  IN <<Side(moving), Side(Keys \ moving)>>

\* The lists of S with x put in anywhere.
Inserted(S, x) == UNION {{InsertAt(s, k, x) : k \in 1..(Len(s) + 1)} : s \in S}

\* recs as sort.Slice leaves them: each goes where the list stays sorted.
SliceSort(recs, Sorted(_)) ==
  LET done[i \in 0..Len(recs)] ==
        IF i = 0 THEN {<<>>} ELSE {t \in Inserted(done[i - 1], recs[i]) : Sorted(t)}
  IN done[Len(recs)]

\* What the frontier that holds the rows checkpoints: the tables sorted, the
\* range of its hosts, or the whole space when it has none.  Its arena
\* holds every span interned so far.
Checkpoint(id, urls, hosts, strings, wheelOn, cap) ==
  {hostRange([id |-> id, lo |-> 0, hi |-> MaxKey, urls |-> us, hosts |-> hs,
              strings |-> strings, sched |-> wheelOn, maxRows |-> cap]) :
     us \in SliceSort(urls, sortedURLs), hs \in SliceSort(hosts, sortedHosts)}

---------------------------------------------------------------------------
(* The manifest *)

ManifestEntryFor(i, epoch) ==
  [file |-> i, id |-> files[i].id, lo |-> files[i].lo, hi |-> files[i].hi,
   dueMin |-> files[i].due[1], epoch |-> epoch]

\* An entry for each file, tagged with the epoch of tags.
Entries(tags) == [i \in DOMAIN files |-> ManifestEntryFor(i, tags[i])]

\* sort.Slice is not stable: entries that tie on range start and id may
\* come in either order.
BuildManifest(tags) ==
  {m \in SetToSeqs(Range(Entries(tags))) :
     \A k \in 2..Len(m) : \/ m[k - 1].lo < m[k].lo
                          \/ m[k - 1].lo = m[k].lo /\ m[k - 1].id <= m[k].id}

\* The last entry that starts at or below hk, of whatever epoch, if it
\* contains hk.
Route(m, hk) ==
  LET below == {k \in DOMAIN m : m[k].lo <= hk}
  IN IF below = {} THEN {} ELSE {e \in {m[Max(below)]} : hk <= e.hi}

DueParts(m, now) == {e \in Range(m) : e.dueMin # 0 /\ e.dueMin <= now}

\* The host key the next entry should start at; past the last key it wraps.
Next1(e) == (e.hi + 1) % (MaxKey + 1)

\* The entries of one epoch, and where the walk over them expects entry k to
\* start.
OfEpoch(m, epoch) == {k \in DOMAIN m : m[k].epoch = epoch}
Wanted(m, epoch, k) ==
  LET before == {j \in OfEpoch(m, epoch) : j < k}
  IN IF before = {} THEN 0 ELSE Next1(m[Max(before)])

\* Mutant: an entry that starts below the end of the one before is let pass.
CoverageGap_GapsOnly(m, epoch) ==
  LET own == OfEpoch(m, epoch)
      bad == {k \in own : m[k].lo > Wanted(m, epoch, k)}
      k0  == Min(bad)
  IN IF own = {} THEN {<<0, MaxKey>>}
     ELSE IF bad # {} THEN {<<Wanted(m, epoch, k0), m[k0].lo - 1>>}
     ELSE IF Next1(m[Max(own)]) # 0 THEN {<<Next1(m[Max(own)]), MaxKey>>}
     ELSE {}

\* {} is ok = false: the ranges of that epoch tile the key space.
CoverageGap(m, epoch) ==
  LET own == OfEpoch(m, epoch)
      bad == {k \in own : m[k].lo # Wanted(m, epoch, k)}
      k0  == Min(bad)
      w0  == Wanted(m, epoch, k0)
  IN IF own = {} THEN {<<0, MaxKey>>}
     ELSE IF bad # {} THEN {IF m[k0].lo > w0 THEN <<w0, m[k0].lo - 1>> ELSE <<m[k0].lo, w0 - 1>>}
     ELSE IF Next1(m[Max(own)]) # 0 THEN {<<Next1(m[Max(own)]), MaxKey>>}
     ELSE {}

---------------------------------------------------------------------------
(* The collection *)

\* Rows with their strings in place of references.
ResolvedURLs(p) ==
  {[host |-> r.host, path |-> r.path, status |-> r.status, due |-> r.due, count |-> r.count,
    span |-> arenaRead(p.strings, r.ref)] : r \in Range(p.urls)}
ResolvedHosts(p) == {[host |-> r.host, span |-> arenaRead(p.strings, r.ref)] : r \in Range(p.hosts)}

\* The file a writer makes of partition p.
Written(p) == Encode(p, Wins)

\* The first file: a frontier's checkpoint of the rows S.
FirstFile(S, cap, wheelOn) ==
  LET rows  == SetToSeq(S)
      hosts == SetToSeq({r.host : r \in S})
      urls  == [i \in DOMAIN rows |->
                  [host |-> rows[i].host, path |-> rows[i].path, status |-> rows[i].status,
                   due |-> rows[i].due, count |-> rows[i].count, ref |-> i]]
      hrecs == [i \in DOMAIN hosts |-> [host |-> hosts[i], ref |-> Len(rows) + i]]
      spans == [i \in DOMAIN rows |-> CHOOSE s \in rows[i].span : TRUE]
               \o [i \in DOMAIN hosts |-> FullName(hosts[i])]
  IN Checkpoint(1, urls, hrecs, spans, wheelOn, cap)

Init ==
  /\ Wins \in WinSets
  /\ \E S \in Starts, cap \in Caps, wheelOn \in BOOLEAN :
       \E p \in FirstFile(S, cap, wheelOn) :
         live = S /\ \E f \in Written(p) : files = <<f>>
  /\ ops = 0

Step == ops < MaxOps /\ ops' = ops + 1 /\ UNCHANGED Wins
Others(S) == LET ids == Pick([k \in DOMAIN files |-> k], DOMAIN files \ S)
             IN [j \in DOMAIN ids |-> files[ids[j]]]

\* File i is replaced by the encodings of p, and of q.
Rewrite(S, p) == \E f \in Written(p) : files' = Others(S) \o <<f>>
RewriteBoth(i, p, q) == \E f \in Written(p), g \in Written(q) : files' = Others({i}) \o <<f, g>>

SplitFile(i, at) ==
  /\ Step /\ Len(files) < MaxFiles
  /\ \E p \in Decode(files[i]) : \E halves \in {Split(p, at)} : RewriteBoth(i, halves[1], halves[2])
  /\ UNCHANGED live

\* compact with several inputs and no --gc.  On ErrNotSorted nothing is
\* written.
MergeFiles(i, j) ==
  /\ Step /\ i # j
  /\ \E p \in Decode(files[i]), q \in Decode(files[j]) : \E m \in Merge(p, q) : Rewrite({i, j}, m)
  /\ UNCHANGED live

\* compact --gc on one file.
CompactFile(i) ==
  /\ Step
  /\ \E p \in Decode(files[i]) : \E c \in {Compact(p)} :
       /\ Rewrite({i}, c)
       /\ live' = {r \in live : r.status # StatusGone \/ r \notin ResolvedURLs(p)}

\* A rebalance: the moving hosts' slice and what the source keeps.
ExtractFile(i, moving) ==
  /\ Step /\ Len(files) < MaxFiles
  /\ \E p \in Decode(files[i]) : \E sides \in {Extract(p, moving)} : RewriteBoth(i, sides[1], sides[2])
  /\ UNCHANGED live

\* The frontier opened on p, after a crawl of its row k: a new status, due
\* time and string.
Recrawled(p, k, v, s) ==
  [p EXCEPT !.strings = Append(@, s),
            !.urls[k] = [@ EXCEPT !.status = v[1], !.due = v[2], !.ref = Len(p.strings) + 1]]

\* The frontier opened on p, after the discovery of row r.
Grown(p, r) ==
  LET n == Len(p.strings)
      known == \E h \in Range(p.hosts) : h.host = r.host
  IN [p EXCEPT !.strings = @ \o <<CHOOSE s \in r.span : TRUE, FullName(r.host)>>,
               !.urls = Append(@, [host |-> r.host, path |-> r.path, status |-> r.status,
                                   due |-> r.due, count |-> r.count, ref |-> n + 1]),
               !.hosts = IF known THEN @ ELSE Append(@, [host |-> r.host, ref |-> n + 2])]

\* The frontier that holds p checkpoints into file i.
Save(i, p) ==
  \E wheelOn \in BOOLEAN :
    \E c \in Checkpoint(p.id, p.urls, p.hosts, p.strings, wheelOn, 0) : Rewrite({i}, c)

Recrawl(i, k, v, s) ==
  /\ Step
  /\ \E p \in Decode(files[i]) : \E g \in {Recrawled(p, k, v, s)} :
       /\ Save(i, g)
       /\ live' = {r \in live : KeyOf(r) # KeyOf(g.urls[k])}
                  \cup ResolvedURLs([g EXCEPT !.urls = <<g.urls[k]>>])

\* r is a URL no file has, of a host no other file has.
Discover(i, r) ==
  /\ Step
  /\ \A q \in live : KeyOf(q) # KeyOf(r)
  /\ \A j \in DOMAIN files \ {i} : \A p \in Decode(files[j]) : \A h \in Range(p.hosts) : h.host # r.host
  /\ \E p \in Decode(files[i]) : \E g \in {Grown(p, r)} : Save(i, g)
  /\ live' = live \cup {r}

Next ==
  \/ \E i \in DOMAIN files, at \in Keys : SplitFile(i, at)
  \/ \E i, j \in DOMAIN files : MergeFiles(i, j)
  \/ \E i \in DOMAIN files : CompactFile(i)
  \/ \E i \in DOMAIN files, moving \in SUBSET Keys : ExtractFile(i, moving)
  \/ \E i \in DOMAIN files : \E k \in 1..files[i].nURL, v \in Verdicts, s \in Strings : Recrawl(i, k, v, s)
  \/ \E i \in DOMAIN files, r \in Finds : Discover(i, r)

Spec == Init /\ [][Next]_vars

---------------------------------------------------------------------------
(* Properties *)

\* No operation loses, duplicates, changes or mixes up a row: through any
\* sequence of split, merge, compact, extract and checkpoint, in whatever
\* encodings and pages they were written, the files decode to exactly the
\* rows the collection should hold, each with its own string, each row in
\* one file, beside its host's record.
RowsKept ==
  /\ \A i \in DOMAIN files : Cardinality(Decode(files[i])) = 1
  /\ live = UNION {UNION {ResolvedURLs(p) : p \in Decode(files[i])} : i \in DOMAIN files}
  /\ \A i, j \in DOMAIN files : \A p \in Decode(files[i]), q \in Decode(files[j]) :
       \A k \in DOMAIN p.urls, l \in DOMAIN q.urls :
         <<i, k>> # <<j, l>> => KeyOf(p.urls[k]) # KeyOf(q.urls[l])
  /\ \A i \in DOMAIN files : \A p \in Decode(files[i]) : \A r \in Range(p.urls) :
       [host |-> r.host, span |-> {FullName(r.host)}] \in ResolvedHosts(p)
  /\ \A i, j \in DOMAIN files : i < j =>
       \A p \in Decode(files[i]), q \in Decode(files[j]) :
         {r.host : r \in Range(p.hosts)} \cap {r.host : r \in Range(q.hosts)} = {}

\* Every pruned read agrees with the whole table: the keys due at now by the
\* schedule wheel, by the column scan and in the decoded rows are the same;
\* so are the keys of a host range by the page skip list; and DueParts
\* leaves out no file with due work.
ReadsAgree ==
  \A i \in DOMAIN files : \A p \in Decode(files[i]) :
    LET KeysIf(P(_)) == {KeyOf(r) : r \in {q \in Range(p.urls) : P(q)}}
        One(S) == Range(CHOOSE s \in S : TRUE)
    IN /\ \A now \in 0..(2^(WordBits - 1) - 1) :
            \A due \in {KeysIf(LAMBDA r : r.due # 0 /\ r.due <= now)} :
              /\ One(DueByWheel(files[i], now)) = due
              /\ One(DueKeys(files[i], now)) = due
              /\ \A e \in Epochs : \A ent \in {Entries([j \in DOMAIN files |-> e])} :
                   due # {} <=> ent[i] \in DueParts(ent, now)
       /\ \A hi \in Keys : \A lo \in 0..hi :
            One(HostRangeURLKeys(files[i], lo, hi)) = KeysIf(LAMBDA r : lo <= r.host /\ r.host <= hi)

\* A manifest CoverageGap passes for an epoch gives each host key to one
\* entry of that epoch; and when the manifest lists that epoch alone, Route
\* leads to the file that holds the host's rows.
\* Route itself looks at entries of every epoch, so a manifest of two may pass
\* the check and route a key to the other's file.  Two entries that both end
\* at the last key are left out: CoverageGap's counter wraps there and takes
\* the second for the start of the space.
CleanRoutes ==
  \A tags \in [DOMAIN files -> Epochs] : \A m \in BuildManifest(tags), epoch \in Epochs :
    \A own \in {OfEpoch(m, epoch)} :
      /\ CoverageGap(m, epoch) = {}
      /\ Cardinality({k \in own : m[k].hi = MaxKey}) = 1
      => /\ \A hk \in Keys : Cardinality({k \in own : m[k].lo <= hk /\ hk <= m[k].hi}) = 1
         /\ own = DOMAIN m =>
              \A i \in DOMAIN files : \A p \in Decode(files[i]) : \A h \in Range(p.hosts) :
                i \in {e.file : e \in Route(m, h.host)}
=============================================================================
