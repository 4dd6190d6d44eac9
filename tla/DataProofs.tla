----------------------------- MODULE DataProofs -----------------------------
(***************************************************************************)
(* The data components, proved for every instance of their modules: the    *)
(* replica, the calendar and the trap detector, the seen-set, and the      *)
(* robots rules.                                                           *)
(***************************************************************************)
EXTENDS FormatProofs, SeenSet, Replica, Trap

-----------------------------------------------------------------------------
(* The primary's tables as a function of its log. *)

Entry == [lsn : Nat, key : Cells, value : Values]

\* TableAt(n) of log l.
At(l, n) ==
  [k \in Cells |-> LET mine == {i \in 1..n : l[i].key = k}
                   IN IF mine = {} THEN Absent ELSE l[Max(mine)].value]

\* One more write changes the one key it names.
LEMMA TableNext ==
  ASSUME NEW l \in Seq(Entry), NEW n \in Nat, n < Len(l)
  PROVE  At(l, n + 1) = [At(l, n) EXCEPT ![l[n + 1].key] = l[n + 1].value]
<1> DEFINE Mine(k, m) == {i \in 1..m : l[i].key = k}
           e == l[n + 1]
           Value(k, m) == IF Mine(k, m) = {} THEN Absent ELSE l[Max(Mine(k, m))].value
<1>1. e \in Entry /\ e.key \in Cells
  <2>1. n + 1 \in 1..Len(l) /\ l \in [1..Len(l) -> Entry]
    OBVIOUS
  <2>2. e \in Entry
    BY <2>1
  <2> HIDE DEF e
  <2> QED BY <2>2 DEF Entry
<1>2. ASSUME NEW k \in Cells, k # e.key PROVE Value(k, n + 1) = Value(k, n)
  <2>1. Mine(k, n + 1) = Mine(k, n)
    BY <1>2
  <2> QED BY <2>1
<1>3. Value(e.key, n + 1) = e.value
  <2>1. n + 1 \in Mine(e.key, n + 1) /\ Mine(e.key, n + 1) \in SUBSET (1..(n + 1)) /\ n + 1 \in Nat
    BY <1>1
  <2>2. Max(Mine(e.key, n + 1)) \in Mine(e.key, n + 1) /\ \A y \in Mine(e.key, n + 1) : y <= Max(Mine(e.key, n + 1))
    <3> HIDE DEF Mine, e
    <3> QED BY <2>1, GreatestUpto
  <2>3. Max(Mine(e.key, n + 1)) = n + 1
    <3> DEFINE x == Max(Mine(e.key, n + 1))
    <3>1. x \in 1..(n + 1) /\ n + 1 <= x
      BY <2>1, <2>2
    <3> HIDE DEF x
    <3>2. x = n + 1
      BY <3>1
    <3> QED BY <3>2 DEF x
  <2> QED BY <2>1, <2>3
<1>4. At(l, n + 1) = [k \in Cells |-> Value(k, n + 1)] /\ At(l, n) = [k \in Cells |-> Value(k, n)]
  BY DEF At
<1> HIDE DEF Value, e
<1> QED BY <1>1, <1>2, <1>3, <1>4 DEF e

\* A longer log has the same tables up to the old end.
LEMMA TablePrefix ==
  ASSUME NEW l \in Seq(Entry), NEW e \in Entry, NEW n \in 0..Len(l)
  PROVE  At(Append(l, e), n) = At(l, n)
<1> DEFINE a == Append(l, e)
<1>1. \A i \in 1..n : a[i] = l[i]
  OBVIOUS
<1> HIDE DEF a
<1>2. ASSUME NEW k \in Cells
      PROVE  /\ {i \in 1..n : a[i].key = k} = {i \in 1..n : l[i].key = k}
             /\ {i \in 1..n : l[i].key = k} # {} =>
                  a[Max({i \in 1..n : l[i].key = k})] = l[Max({i \in 1..n : l[i].key = k})]
  <2> DEFINE M == {i \in 1..n : l[i].key = k}
  <2>1. {i \in 1..n : a[i].key = k} = M
    BY <1>1
  <2>2. n \in Nat /\ M \in SUBSET (1..n)
    OBVIOUS
  <2>3. ASSUME M # {} PROVE a[Max(M)] = l[Max(M)]
    <3> HIDE DEF M
    <3>1. Max(M) \in M
      BY <2>2, <2>3, GreatestUpto
    <3> QED BY <1>1, <2>2, <3>1
  <2> QED BY <2>1, <2>3
<1> QED BY <1>2 DEF At, a

-----------------------------------------------------------------------------
(* What replaying a batch leaves. *)

\* The recursive function of Replayed, written out.
Replaying(st, r, s) ==
  /\ st = [i \in 0..Len(s) |-> IF i = 0 THEN r ELSE Apply(st[i - 1], s[i])]

LEMMA ReplayExists ==
  ASSUME NEW r, NEW s, Len(s) \in Nat
  PROVE  \E st : Replaying(st, r, s)
<1> DEFINE n == Len(s)
           Part(m, f) == f = [i \in 0..m |-> IF i = 0 THEN r ELSE Apply(f[i - 1], s[i])]
           G == {m \in 0..n : \E f : Part(m, f)}
<1>1. 0 \in G
  <2> DEFINE f == [i \in 0..0 |-> r]
  <2>1. Part(0, f)
    <3>1. \A i \in 0..0 : i = 0
      OBVIOUS
    <3> QED BY <3>1
  <2> HIDE DEF Part, f
  <2> QED BY <2>1
<1>2. \A m \in 0..n : m \in G /\ m < n => m + 1 \in G
  <2> SUFFICES ASSUME NEW m \in 0..n, m \in G, m < n PROVE m + 1 \in G
    OBVIOUS
  <2>1. PICK f : Part(m, f)
    OBVIOUS
  <2> DEFINE g == [i \in 0..(m + 1) |-> IF i <= m THEN f[i] ELSE Apply(f[m], s[m + 1])]
  <2>2. ASSUME NEW i \in 0..(m + 1)
        PROVE  g[i] = IF i = 0 THEN r ELSE Apply(g[i - 1], s[i])
    <3>1. CASE i = 0
      <4>1. g[i] = f[i] /\ f[i] = r
        BY <3>1, <2>1
      <4> QED BY <3>1, <4>1
    <3>2. CASE i # 0 /\ i <= m
      <4>1. i - 1 \in 0..(m + 1) /\ i - 1 <= m /\ i \in 0..m
        BY <3>2
      <4>2. g[i] = f[i] /\ g[i - 1] = f[i - 1]
        BY <3>2, <4>1
      <4> HIDE DEF g
      <4>3. f[i] = Apply(f[i - 1], s[i])
        BY <3>2, <4>1, <2>1
      <4> QED BY <3>2, <4>2, <4>3
    <3>3. CASE i = m + 1
      <4>1. i - 1 = m /\ i - 1 \in 0..(m + 1) /\ ~(i <= m) /\ i # 0
        BY <3>3
      <4>2. g[i] = Apply(f[m], s[m + 1]) /\ g[i - 1] = f[m]
        BY <3>3, <4>1
      <4> HIDE DEF g
      <4> QED BY <3>3, <4>1, <4>2
    <3> QED BY <3>1, <3>2, <3>3
  <2>3. Part(m + 1, g)
    <3> HIDE DEF Part
    <3>1. g = [i \in 0..(m + 1) |-> g[i]]
      OBVIOUS
    <3> HIDE DEF g
    <3>2. [i \in 0..(m + 1) |-> g[i]] = [i \in 0..(m + 1) |-> IF i = 0 THEN r ELSE Apply(g[i - 1], s[i])]
      BY <2>2
    <3> QED BY <3>1, <3>2 DEF Part
  <2> HIDE DEF Part, g
  <2> QED BY <2>3
<1>3. n \in G
  <2> HIDE DEF G
  <2>1. \A i \in 0..n : i \in G
    BY <1>1, <1>2, Climb
  <2> QED BY <2>1
<1> QED BY <1>3 DEF Replaying

LEMMA ReplayedIs ==
  ASSUME NEW r, NEW s, Len(s) \in Nat
  PROVE  \E st : Replaying(st, r, s) /\ Replayed(r, s) = st[Len(s)]
<1> DEFINE st == CHOOSE f : f = [i \in 0..Len(s) |-> IF i = 0 THEN r ELSE Apply(f[i - 1], s[i])]
<1>1. Replayed(r, s) = st[Len(s)]
  BY DEF Replayed
<1>2. Replaying(st, r, s)
  BY ReplayExists DEF Replaying
<1> QED BY <1>1, <1>2

\* The primary's log: LSNs count from one.
Numbered(l) == l \in Seq(Entry) /\ \A i \in 1..Len(l) : l[i].lsn = i

\* An entry at most one past what is applied keeps the replica on the log.
LEMMA ApplyNext ==
  ASSUME NEW l, Numbered(l), NEW a \in 0..Len(l), NEW j \in 1..Len(l), j <= a + 1
  PROVE  Apply(NewReplica(At(l, a), a), l[j]) = NewReplica(At(l, IF j <= a THEN a ELSE j), IF j <= a THEN a ELSE j)
<1>1. l \in Seq(Entry) /\ l[j].lsn = j /\ Len(l) \in Nat
  BY DEF Numbered
<1> DEFINE r == NewReplica(At(l, a), a)
<1>2. r.table = At(l, a) /\ r.applied = a
  BY DEF NewReplica
<1>3. CASE j <= a
  <2> HIDE DEF r
  <2>1. Apply(r, l[j]) = r
    BY <1>1, <1>2, <1>3 DEF Apply
  <2> QED BY <1>3, <2>1 DEF r
<1>4. CASE ~(j <= a)
  <2>1. j = a + 1 /\ a \in Nat /\ a < Len(l)
    BY <1>1, <1>4
  <2>2. At(l, j) = [At(l, a) EXCEPT ![l[j].key] = l[j].value]
    BY <1>1, <2>1, TableNext
  <2> HIDE DEF r
  <2>3. Apply(r, l[j]) = NewReplica(At(l, j), j)
    BY <1>1, <1>2, <1>4, <2>2 DEF Apply, NewReplica
  <2> QED BY <1>4, <2>3 DEF r
<1> QED BY <1>3, <1>4

\* s carries the entries from..to of l, each at least once, by LSN.
Batch(l, s, from, to) ==
  /\ Len(s) \in Nat
  /\ \A i \in 1..Len(s) : \E j \in from..to : s[i] = l[j]
  /\ \A j \in from..to : \E i \in 1..Len(s) : s[i] = l[j]
  /\ \A i \in 2..Len(s) : s[i - 1].lsn <= s[i].lsn

Follows(l, r) == \E a \in 0..Len(l) : r = NewReplica(At(l, a), a)

\* A batch that starts no later than the next entry wanted keeps the replica on
\* the log.
LEMMA ReplayFollows ==
  ASSUME NEW l, Numbered(l), NEW to \in 1..Len(l), NEW from \in 1..to, NEW a \in 0..Len(l),
         from <= a + 1, NEW s, Batch(l, s, from, to)
  PROVE  Follows(l, Replayed(NewReplica(At(l, a), a), s))
<1> DEFINE n == Len(s)
           r == NewReplica(At(l, a), a)
           v == [i \in 1..n |-> s[i].lsn]
<1>1. /\ l \in Seq(Entry) /\ Len(l) \in Nat /\ n \in Nat
      /\ \A i \in 1..Len(l) : l[i].lsn = i
  BY DEF Numbered, Batch
<1>2. \A i \in 1..n : \E j \in from..to : s[i] = l[j] /\ v[i] = j /\ j \in 1..Len(l)
  <2>1. ASSUME NEW i \in 1..n, NEW j \in from..to, s[i] = l[j] PROVE v[i] = j /\ j \in 1..Len(l)
    BY <1>1, <2>1
  <2> QED BY <2>1 DEF Batch
<1>3. \A j \in from..to : \E i \in 1..n : v[i] = j
  <2>1. ASSUME NEW i \in 1..n, NEW j \in from..to, s[i] = l[j] PROVE v[i] = j
    BY <1>1, <2>1
  <2> QED BY <2>1 DEF Batch
<1>4. \A i \in 1..n : \A p \in i..n : v[i] <= v[p]
  <2>1. \A i \in 1..n : v[i] \in Nat
    BY <1>2
  <2>2. \A i \in 2..n : v[i - 1] <= v[i]
    BY <1>1 DEF Batch
  <2> HIDE DEF v
  <2> QED BY <1>1, <2>1, <2>2, Ascends
<1>5. PICK st : Replaying(st, r, s) /\ Replayed(r, s) = st[n]
  BY <1>1, ReplayedIs
<1>6. /\ st[0] = r
      /\ \A i \in 0..n : i < n => st[i + 1] = Apply(st[i], s[i + 1])
  <2>1. \A i \in 0..n : st[i] = IF i = 0 THEN r ELSE Apply(st[i - 1], s[i])
    BY <1>5 DEF Replaying
  <2>2. ASSUME NEW i \in 0..n, i < n PROVE st[i + 1] = Apply(st[i], s[i + 1])
    <3>1. i + 1 \in 0..n /\ i + 1 # 0 /\ (i + 1) - 1 = i
      BY <1>1, <2>2
    <3> QED BY <2>1, <3>1
  <2> QED BY <1>1, <2>1, <2>2
<1> HIDE DEF v, r
<1> DEFINE G == {i \in 0..n : \E b \in a..Len(l) : st[i] = NewReplica(At(l, b), b) /\ \A p \in 1..i : v[p] <= b}
<1>7. 0 \in G
  <2>1. a \in a..Len(l) /\ 0 \in 0..n /\ \A p \in 1..0 : v[p] <= a
    BY <1>1
  <2> QED BY <1>6, <2>1 DEF r
<1>8. \A i \in 0..n : i \in G /\ i < n => i + 1 \in G
  <2> SUFFICES ASSUME NEW i \in 0..n, i \in G, i < n PROVE i + 1 \in G
    OBVIOUS
  <2>1. PICK b \in a..Len(l) : st[i] = NewReplica(At(l, b), b) /\ \A p \in 1..i : v[p] <= b
    OBVIOUS
  <2>2. i + 1 \in 1..n
    BY <1>1
  <2>3. PICK j \in from..to : s[i + 1] = l[j] /\ v[i + 1] = j /\ j \in 1..Len(l)
    BY <1>2, <2>2
  <2>4. j <= b + 1
    <3> SUFFICES ASSUME b + 1 < j PROVE FALSE
      BY <1>1
    <3>1. b + 1 \in from..to
      BY <1>1
    <3>2. PICK p \in 1..n : v[p] = b + 1
      BY <1>3, <3>1
    <3>3. ~(p \in 1..i)
      BY <1>1, <2>1, <3>2
    <3>4. i + 1 \in 1..n /\ p \in (i + 1)..n
      BY <1>1, <2>2, <3>3
    <3>5. v[i + 1] <= v[p]
      BY <1>4, <3>4
    <3> QED BY <1>1, <2>3, <3>2, <3>5
  <2> DEFINE c == IF j <= b THEN b ELSE j
  <2>5. c \in b..Len(l) /\ b \in 0..Len(l) /\ j <= c
    BY <1>1, <2>3, <2>4
  <2>6. st[i + 1] = NewReplica(At(l, c), c)
    <3>1. st[i + 1] = Apply(NewReplica(At(l, b), b), l[j])
      BY <1>6, <2>1, <2>3
    <3> QED BY <2>3, <2>4, <2>5, <3>1, ApplyNext
  <2> HIDE DEF c
  <2>7. c \in a..Len(l) /\ i + 1 \in 0..n
    BY <1>1, <2>5
  <2>8. \A p \in 1..(i + 1) : v[p] <= c
    <3> SUFFICES ASSUME NEW p \in 1..(i + 1) PROVE v[p] <= c
      OBVIOUS
    <3>1. CASE p = i + 1
      BY <2>3, <2>5, <3>1
    <3>2. CASE p \in 1..i
      <4>1. v[p] <= b /\ p \in 1..n
        BY <1>1, <2>1, <3>2
      <4>2. v[p] \in Nat
        BY <1>2, <4>1
      <4> QED BY <1>1, <2>5, <4>1, <4>2
    <3> QED BY <3>1, <3>2
  <2> QED BY <2>6, <2>7, <2>8
<1>9. n \in G
  <2> HIDE DEF G
  <2>1. \A i \in 0..n : i \in G
    BY <1>1, <1>7, <1>8, Climb
  <2> QED BY <1>1, <2>1
<1>10. PICK b \in a..Len(l) : st[n] = NewReplica(At(l, b), b)
  BY <1>9
<1>11. b \in 0..Len(l)
  BY <1>1
<1> QED BY <1>5, <1>10, <1>11 DEF Follows, r

\* The sort keeps what a batch carries, whatever order it leaves equal LSNs in.
LEMMA Sorted ==
  ASSUME NEW l, NEW from, NEW to, NEW es \in Seq(Entry),
         \A i \in 1..Len(es) : \E j \in from..to : es[i] = l[j],
         \A j \in from..to : \E i \in 1..Len(es) : es[i] = l[j]
  PROVE  \A s \in ByLSN(es) : Batch(l, s, from, to)
<1> SUFFICES ASSUME NEW s, s \in ByLSN(es) PROVE Batch(l, s, from, to)
  OBVIOUS
<1> DEFINE n == Len(es)
<1>1. n \in Nat /\ DOMAIN es = 1..n /\ \A i \in 1..n : es[i] \in Entry
  OBVIOUS
<1>2. PICK p \in Bijection(DOMAIN es, DOMAIN es) : s = [i \in DOMAIN es |-> es[p[i]]]
  BY DEF ByLSN
<1>3. \A i \in 2..Len(s) : s[i - 1].lsn <= s[i].lsn
  BY DEF ByLSN
<1> HIDE DEF n
<1>4. /\ \A i \in 1..n : p[i] \in 1..n
      /\ \A k \in 1..n : \E i \in 1..n : p[i] = k
  BY <1>1 DEF Bijection, Injection, Surjection
<1>5. s \in [1..n -> Entry] /\ \A i \in 1..n : s[i] = es[p[i]]
  BY <1>1, <1>2, <1>4
<1>6. Len(s) = n
  BY <1>1, <1>5
<1>7. ASSUME NEW i \in 1..n PROVE \E j \in from..to : s[i] = l[j]
  <2>1. s[i] = es[p[i]] /\ p[i] \in 1..n
    BY <1>4, <1>5
  <2> QED BY <2>1 DEF n
<1>8. ASSUME NEW j \in from..to PROVE \E i \in 1..n : s[i] = l[j]
  <2>1. PICK k \in 1..n : es[k] = l[j]
    BY DEF n
  <2>2. PICK i \in 1..n : p[i] = k
    BY <1>4
  <2>3. s[i] = l[j]
    BY <1>5, <2>1, <2>2
  <2> QED BY <2>3
<1> QED BY <1>1, <1>3, <1>6, <1>7, <1>8 DEF Batch

\* What Deliver hands to Stream is a batch.
LEMMA Delivered ==
  ASSUME NEW l, Numbered(l), NEW to \in 1..Len(l), NEW from \in 1..to, NEW again \in from..to,
         NEW order \in Bijection(1..(to - from + 1), from..to)
  PROVE  \A s \in ByLSN([i \in DOMAIN order |-> l[order[i]]] \o <<l[again]>>) : Batch(l, s, from, to)
<1> DEFINE m == to - from + 1
           E == [i \in DOMAIN order |-> l[order[i]]]
           es == E \o <<l[again]>>
<1>1. l \in Seq(Entry) /\ Len(l) \in Nat /\ m \in Nat /\ m + 1 \in Nat
  BY DEF Numbered
<1>2. /\ DOMAIN order = 1..m
      /\ \A i \in 1..m : order[i] \in from..to
      /\ \A j \in from..to : \E i \in 1..m : order[i] = j
  BY DEF Bijection, Injection, Surjection
<1>3. \A j \in from..to : l[j] \in Entry
  <2>1. \A j \in 1..Len(l) : l[j] \in Entry
    BY <1>1
  <2>2. from..to \subseteq 1..Len(l)
    BY <1>1
  <2> QED BY <2>1, <2>2
<1>4. E \in [1..m -> Entry] /\ \A i \in 1..m : E[i] = l[order[i]]
  BY <1>2, <1>3
<1>5. E \in Seq(Entry) /\ Len(E) = m
  <2> HIDE DEF E, m
  <2> QED BY <1>1, <1>4
<1>6. /\ es \in Seq(Entry) /\ Len(es) = m + 1
      /\ \A i \in 1..m : es[i] = E[i]
      /\ es[m + 1] = l[again]
  <2> HIDE DEF E, m
  <2>1. <<l[again]>> \in Seq(Entry) /\ Len(<<l[again]>>) = 1
    BY <1>3
  <2> QED BY <1>1, <1>5, <2>1
<1>7. \A i \in 1..(m + 1) : \E j \in from..to : es[i] = l[j]
  <2> SUFFICES ASSUME NEW i \in 1..(m + 1) PROVE \E j \in from..to : es[i] = l[j]
    OBVIOUS
  <2>1. CASE i = m + 1
    BY <2>1, <1>6
  <2>2. CASE i \in 1..m
    BY <2>2, <1>2, <1>4, <1>6
  <2>3. i = m + 1 \/ i \in 1..m
    BY <1>1
  <2> QED BY <2>1, <2>2, <2>3
<1> HIDE DEF es, E
<1>8. ASSUME NEW j \in from..to PROVE \E i \in 1..(m + 1) : es[i] = l[j]
  <2>1. PICK i \in 1..m : order[i] = j
    BY <1>2
  <2>2. i \in 1..(m + 1)
    BY <1>1
  <2>3. es[i] = l[j]
    <3> HIDE DEF m
    <3> QED BY <1>4, <1>6, <2>1
  <2> QED BY <2>2, <2>3
<1>9. \A s \in ByLSN(es) : Batch(l, s, from, to)
  <2> HIDE DEF m
  <2> QED BY <1>6, <1>7, <1>8, Sorted
<1> QED BY <1>9 DEF es, E

-----------------------------------------------------------------------------
(* What Promote returns. *)

\* A sorted table lists each of its keys once.
LEMMA TableLists ==
  ASSUME NEW S \in SUBSET Cells, NEW t \in Table(S)
  PROVE  /\ Len(t) \in Nat
         /\ t \in [1..Len(t) -> S]
         /\ Range(t) = S
         /\ \A i \in 2..Len(t) : KeyBefore(t[i - 1], t[i])
<1> DEFINE n == Cardinality(S)
<1>1. n \in Nat
  BY ReplicaAssumption, FS_Subset, FS_CardinalityType
<1>2. t \in [1..n -> S] /\ (\A k \in S : \E i \in 1..n : t[i] = k) /\ \A i \in 2..n : KeyBefore(t[i - 1], t[i])
  BY DEF Table, Bijection, Injection, Surjection
<1> HIDE DEF n
<1>3. Len(t) = n
  BY <1>1, <1>2
<1>4. Range(t) = S
  BY <1>2 DEF Range
<1> QED BY <1>1, <1>2, <1>3, <1>4

LEMMA HostsInRange ==
  ASSUME NEW S \in SUBSET Cells, \A k \in S : Len(k) = 1, NEW t \in Table(S)
  PROVE  \A k \in S : t # <<>> /\ t[1][1] <= k[1] /\ k[1] <= t[Len(t)][1]
<1> DEFINE n == Len(t)
           v == [i \in 1..n |-> t[i][1]]
<1>1. /\ n \in Nat /\ t \in [1..n -> S] /\ Range(t) = S
      /\ \A i \in 2..n : KeyBefore(t[i - 1], t[i])
  BY TableLists
<1>2. \A k \in S : k \in Seq(Nat) /\ Len(k) = 1 /\ k[1] \in Nat
  BY ReplicaAssumption
<1>3. \A i \in 1..n : v[i] \in Nat
  BY <1>1, <1>2
<1>4. \A i \in 2..n : v[i - 1] <= v[i]
  <2> SUFFICES ASSUME NEW i \in 2..n PROVE v[i - 1] <= v[i]
    OBVIOUS
  <2>1. i \in 1..n /\ i - 1 \in 1..n
    BY <1>1
  <2>2. Len(t[i - 1]) = 1 /\ KeyBefore(t[i - 1], t[i])
    BY <1>1, <1>2, <2>1
  <2>3. t[i - 1][1] < t[i][1] \/ t[i - 1][1] = t[i][1]
    BY <2>2 DEF KeyBefore
  <2>4. v[i - 1] = t[i - 1][1] /\ v[i] = t[i][1] /\ v[i] \in Nat /\ v[i - 1] \in Nat
    BY <2>1, <1>3
  <2> HIDE DEF v
  <2> QED BY <2>3, <2>4
<1>5. \A i \in 1..n : \A p \in i..n : v[i] <= v[p]
  <2> HIDE DEF v
  <2> QED BY <1>1, <1>3, <1>4, Ascends
<1> SUFFICES ASSUME NEW k \in S PROVE t # <<>> /\ t[1][1] <= k[1] /\ k[1] <= t[n][1]
  OBVIOUS
<1>6. PICK i \in 1..n : t[i] = k
  BY <1>1 DEF Range
<1>7. 1 \in 1..n /\ i \in 1..n /\ n \in i..n /\ n \in 1..n
  BY <1>1
<1>8. v[1] <= v[i] /\ v[i] <= v[n]
  BY <1>5, <1>7
<1>9. t # <<>>
  BY <1>1, <1>7
<1>10. v[1] = t[1][1] /\ v[i] = k[1] /\ v[n] = t[n][1]
  BY <1>6, <1>7
<1> HIDE DEF v
<1> QED BY <1>8, <1>9, <1>10

\* The promoted partition has the rows of the table it was made of.
PromotedRows(p, t) ==
  /\ Range(p.urls) \cup Range(p.hosts) = {k \in Cells : t[k] # Absent}
  /\ \A i \in 2..Len(p.urls) : KeyBefore(p.urls[i - 1], p.urls[i])
  /\ \A k \in Range(p.urls) :
       p.hosts = <<>> \/ <<k[1]>> \in Range(p.hosts) => p.lo <= k[1] /\ k[1] <= p.hi
  /\ \A k \in Range(p.urls) : p.table[k] # "inflight" /\ (t[k] # "inflight" => p.table[k] = t[k])

LEMMA PromotedWhole ==
  ASSUME NEW t, NEW q \in Partition(t)
  PROVE  PromotedRows(RecoverInFlight(q), t)
<1>1. PICK us \in Table(Have(t, 2)), hs \in Table(Have(t, 1)) :
        q = [urls |-> us, hosts |-> hs, table |-> t,
             lo |-> IF hs = <<>> THEN 0 ELSE hs[1][1],
             hi |-> IF hs = <<>> THEN MaxTop ELSE hs[Len(hs)][1]]
  <2> DEFINE Made(us, hs) == [urls |-> us, hosts |-> hs, table |-> t,
                              lo |-> IF hs = <<>> THEN 0 ELSE hs[1][1],
                              hi |-> IF hs = <<>> THEN MaxTop ELSE hs[Len(hs)][1]]
  <2>1. q \in {Made(us, hs) : us \in Table(Have(t, 2)), hs \in Table(Have(t, 1))}
    BY DEF Partition
  <2> HIDE DEF Made
  <2>2. \E us \in Table(Have(t, 2)), hs \in Table(Have(t, 1)) : q = Made(us, hs)
    BY <2>1
  <2> QED BY <2>2 DEF Made
<1> DEFINE p == RecoverInFlight(q)
           new == [k \in Cells |-> IF Len(k) = 2 /\ t[k] = "inflight" THEN "scheduled" ELSE t[k]]
<1>2. /\ p.urls = us /\ p.hosts = hs /\ p.table = new
      /\ p.lo = (IF hs = <<>> THEN 0 ELSE hs[1][1])
      /\ p.hi = (IF hs = <<>> THEN MaxTop ELSE hs[Len(hs)][1])
  BY <1>1 DEF RecoverInFlight
<1> HIDE DEF p
<1>3. Have(t, 1) \in SUBSET Cells /\ Have(t, 2) \in SUBSET Cells
  BY DEF Have
<1>4. Range(us) = Have(t, 2) /\ Range(hs) = Have(t, 1)
  BY <1>3, TableLists
<1>5. Range(p.urls) \cup Range(p.hosts) = {k \in Cells : t[k] # Absent}
  <2>1. \A k \in Cells : Len(k) = 1 \/ Len(k) = 2
    BY ReplicaAssumption
  <2> QED BY <1>2, <1>4, <2>1 DEF Have
<1>6. \A i \in 2..Len(p.urls) : KeyBefore(p.urls[i - 1], p.urls[i])
  BY <1>2, <1>3, TableLists
<1>7. ASSUME NEW k \in Range(p.urls), p.hosts = <<>> \/ <<k[1]>> \in Range(p.hosts)
      PROVE  p.lo <= k[1] /\ k[1] <= p.hi
  <2>1. \A h \in Have(t, 1) : Len(h) = 1
    BY DEF Have
  <2>2. \A h \in Have(t, 1) : hs # <<>> /\ hs[1][1] <= h[1] /\ h[1] <= hs[Len(hs)][1]
    BY <1>3, <2>1, HostsInRange
  <2>3. PICK c \in Nat : c = k[1] /\ c <= MaxTop
    <3>1. k \in Cells
      BY <1>2, <1>3, <1>4
    <3>2. k \in Seq(Nat) /\ Len(k) \in {1, 2} /\ k[1] <= MaxTop
      BY <3>1, ReplicaAssumption
    <3>3. k[1] \in Nat
      BY <3>2
    <3> QED BY <3>2, <3>3
  <2>4. CASE hs = <<>>
    BY <1>2, <2>3, <2>4
  <2>5. CASE hs # <<>> /\ <<c>> \in Have(t, 1)
    <3>1. <<c>>[1] = c
      OBVIOUS
    <3>2. hs[1][1] <= c /\ c <= hs[Len(hs)][1]
      BY <2>2, <2>5, <3>1
    <3> QED BY <1>2, <2>3, <2>5, <3>2
  <2> QED BY <1>2, <1>4, <1>7, <2>3, <2>4, <2>5
<1>8. \A k \in Range(p.urls) : p.table[k] # "inflight" /\ (t[k] # "inflight" => p.table[k] = t[k])
  <2>1. \A k \in Have(t, 2) : k \in Cells /\ Len(k) = 2
    BY DEF Have
  <2> QED BY <1>2, <1>4, <2>1
<1> QED BY <1>5, <1>6, <1>7, <1>8 DEF PromotedRows, p

-----------------------------------------------------------------------------
(* The replica of every behaviour. *)

\* The inductive invariant: the log counts from one, the one replica is the
\* log's table at some LSN of it, and a promoted partition was made of it.
ReplicaInv ==
  /\ Numbered(log)
  /\ \A r \in replica : Follows(log, r)
  /\ \A r \in replica, q \in replica : r = q
  /\ \A p \in promoted, r \in replica : \E q \in Partition(r.table) : p = RecoverInFlight(q)

LEMMA FollowsLonger ==
  ASSUME NEW l, Numbered(l), NEW k \in Cells, NEW v \in Values, NEW r, Follows(l, r)
  PROVE  LET a == Append(l, [lsn |-> Len(l) + 1, key |-> k, value |-> v])
         IN  Numbered(a) /\ Follows(a, r)
<1> DEFINE e == [lsn |-> Len(l) + 1, key |-> k, value |-> v]
           a == Append(l, e)
<1>1. l \in Seq(Entry) /\ Len(l) \in Nat /\ \A i \in 1..Len(l) : l[i].lsn = i
  BY DEF Numbered
<1>2. e \in Entry /\ e.lsn = Len(l) + 1
  BY <1>1 DEF Entry
<1>3. PICK n \in 0..Len(l) : r = NewReplica(At(l, n), n)
  BY DEF Follows
<1> HIDE DEF e
<1>4. At(a, n) = At(l, n)
  BY <1>1, <1>2, TablePrefix
<1>5. a \in Seq(Entry) /\ Len(a) = Len(l) + 1 /\ (\A i \in 1..Len(l) : a[i] = l[i]) /\ a[Len(l) + 1] = e
  BY <1>1, <1>2
<1> HIDE DEF a
<1>6. \A i \in 1..Len(a) : a[i].lsn = i
  <2> SUFFICES ASSUME NEW i \in 1..Len(a) PROVE a[i].lsn = i
    OBVIOUS
  <2>1. i \in 1..Len(l) \/ i = Len(l) + 1
    BY <1>1, <1>5
  <2> QED BY <1>1, <1>2, <1>5, <2>1
<1>7. n \in 0..Len(a)
  BY <1>1, <1>5
<1>8. Numbered(a)
  BY <1>5, <1>6 DEF Numbered
<1>9. Follows(a, r)
  BY <1>3, <1>4, <1>7 DEF Follows
<1> QED BY <1>8, <1>9 DEF a, e

LEMMA TablesOfLog == \A n : TableAt(n) = At(log, n)
BY DEF TableAt, At

LEMMA ReplicaInvInit == ReplicaInit => ReplicaInv
<1> SUFFICES ASSUME ReplicaInit PROVE ReplicaInv
  OBVIOUS
<1>1. log = <<>> /\ replica = {} /\ promoted = {}
  BY DEF ReplicaInit
<1>2. <<>> \in Seq(Entry) /\ Len(<<>>) = 0
  OBVIOUS
<1>3. Numbered(log)
  BY <1>1, <1>2 DEF Numbered
<1> QED BY <1>1, <1>3 DEF ReplicaInv

LEMMA WriteKeeps ==
  ASSUME ReplicaInv, NEW k \in Cells, NEW v \in Values, Write(k, v), promoted = {}
  PROVE  ReplicaInv'
<1> DEFINE e == [lsn |-> Len(log) + 1, key |-> k, value |-> v]
<1>1. log' = Append(log, e) /\ replica' = replica /\ promoted' = promoted
  BY DEF Write
<1>2. PICK l : l = log
  OBVIOUS
<1>3. Numbered(l) /\ \A r \in replica : Follows(l, r)
  BY <1>2 DEF ReplicaInv
<1>4. Follows(l, NewReplica(At(l, 0), 0))
  <2>1. 0 \in 0..Len(l)
    BY <1>3 DEF Numbered
  <2> QED BY <2>1 DEF Follows
<1>5. \A r : Follows(l, r) => Numbered(log') /\ Follows(log', r)
  <2>1. ASSUME NEW r, Follows(l, r)
        PROVE  LET a == Append(l, [lsn |-> Len(l) + 1, key |-> k, value |-> v])
               IN  Numbered(a) /\ Follows(a, r)
    BY <1>3, <2>1, FollowsLonger
  <2> QED BY <1>1, <1>2, <2>1
<1>6. Numbered(log') /\ \A r \in replica' : Follows(log', r)
  BY <1>1, <1>3, <1>4, <1>5
<1>7. \A r \in replica', q \in replica' : r = q
  BY <1>1 DEF ReplicaInv
<1> QED BY <1>1, <1>6, <1>7 DEF ReplicaInv

LEMMA ShipKeeps ==
  ASSUME ReplicaInv, Ship, promoted = {}
  PROVE  ReplicaInv'
<1>1. PICK n \in 0..Len(log) : replica' = {NewReplica(TableAt(n), n)}
  BY DEF Ship
<1>2. log' = log /\ promoted' = promoted
  BY DEF Ship
<1>3. TableAt(n) = At(log, n)
  BY TablesOfLog
<1>4. \A r \in replica' : Follows(log', r)
  BY <1>1, <1>2, <1>3 DEF Follows
<1> QED BY <1>1, <1>2, <1>4 DEF ReplicaInv

LEMMA DeliverKeeps ==
  ASSUME ReplicaInv, NEW to \in DOMAIN log, NEW from \in 1..to, NEW again \in from..to,
         Deliver(from, to, again), promoted = {}
  PROVE  ReplicaInv'
<1>1. PICK l : l = log
  OBVIOUS
<1>2. Numbered(l) /\ DOMAIN log = 1..Len(l)
  BY <1>1 DEF ReplicaInv, Numbered
<1>3. PICK r \in replica : 
        /\ from <= r.applied + 1
        /\ \E order \in Bijection(1..(to - from + 1), from..to) :
             \E q \in Stream(r, [i \in DOMAIN order |-> log[order[i]]] \o <<log[again]>>) : replica' = {q}
  BY DEF Deliver
<1>4. PICK order \in Bijection(1..(to - from + 1), from..to) :
        \E q \in Stream(r, [i \in DOMAIN order |-> l[order[i]]] \o <<l[again]>>) : replica' = {q}
  BY <1>1, <1>3
<1> DEFINE es == [i \in DOMAIN order |-> l[order[i]]] \o <<l[again]>>
<1>5. PICK s \in ByLSN(es) : replica' = {Replayed(r, s)}
  <2> HIDE DEF es
  <2> QED BY <1>4 DEF Stream, es
<1>6. PICK a \in 0..Len(l) : r = NewReplica(At(l, a), a)
  BY <1>1 DEF ReplicaInv, Follows
<1>7. r.applied = a
  BY <1>6 DEF NewReplica
<1>8. to \in 1..Len(l) /\ from <= a + 1
  BY <1>2, <1>3, <1>7
<1>9. Batch(l, s, from, to)
  <2>1. \A t \in ByLSN(es) : Batch(l, t, from, to)
    BY <1>2, <1>8, Delivered
  <2> HIDE DEF es
  <2> QED BY <2>1
<1> HIDE DEF es
<1>10. Follows(l, Replayed(NewReplica(At(l, a), a), s))
  BY <1>2, <1>8, <1>9, ReplayFollows
<1>11. log' = log /\ promoted' = promoted
  BY DEF Deliver
<1>12. \A q \in replica' : Follows(log', q)
  BY <1>1, <1>5, <1>6, <1>10, <1>11
<1>13. Numbered(log')
  BY <1>1, <1>2, <1>11
<1> QED BY <1>5, <1>11, <1>12, <1>13 DEF ReplicaInv

LEMMA PromoteKeeps ==
  ASSUME ReplicaInv, Promote
  PROVE  ReplicaInv'
<1>1. PICK r \in replica : \E p \in Partition(r.table) : promoted' = {RecoverInFlight(p)}
  BY DEF Promote
<1>2. PICK p \in Partition(r.table) : promoted' = {RecoverInFlight(p)}
  BY <1>1
<1>3. log' = log /\ replica' = replica
  BY DEF Promote
<1>4. \A q \in replica' : q = r
  BY <1>3 DEF ReplicaInv
<1>5. \A x \in promoted', q \in replica' : \E y \in Partition(q.table) : x = RecoverInFlight(y)
  BY <1>2, <1>4
<1>6. Numbered(log') /\ (\A q \in replica' : Follows(log', q)) /\ \A x \in replica', y \in replica' : x = y
  BY <1>3 DEF ReplicaInv
<1> QED BY <1>5, <1>6 DEF ReplicaInv

LEMMA ReplicaInvNext == ReplicaInv /\ [ReplicaNext]_replicaVars => ReplicaInv'
<1> SUFFICES ASSUME ReplicaInv, [ReplicaNext]_replicaVars PROVE ReplicaInv'
  OBVIOUS
<1>1. CASE ReplicaNext
  <2>1. promoted = {}
    BY <1>1 DEF ReplicaNext
  <2>2. ASSUME NEW k \in Cells, NEW v \in Values, Write(k, v) PROVE ReplicaInv'
    BY <2>1, <2>2, WriteKeeps
  <2>3. CASE Ship
    BY <2>1, <2>3, ShipKeeps
  <2>4. ASSUME NEW to \in DOMAIN log, NEW from \in 1..to, NEW again \in from..to, Deliver(from, to, again)
        PROVE  ReplicaInv'
    BY <2>1, <2>4, DeliverKeeps
  <2>5. CASE Promote
    BY <2>5, PromoteKeeps
  <2> QED BY <1>1, <2>2, <2>3, <2>4, <2>5 DEF ReplicaNext
<1>2. CASE UNCHANGED replicaVars
  BY <1>2 DEF replicaVars, ReplicaInv
<1> QED BY <1>1, <1>2

LEMMA ReplicaInvFollows == ReplicaInv => ReplicaFollows
<1> SUFFICES ASSUME ReplicaInv PROVE ReplicaFollows
  OBVIOUS
<1>1. PICK l : l = log
  OBVIOUS
<1>2. l \in Seq(Entry) /\ Len(l) \in Nat /\ DOMAIN l = 1..Len(l)
  BY <1>1 DEF ReplicaInv, Numbered
<1>3. ASSUME NEW r \in replica
      PROVE  /\ r.applied \in 0..Len(l)
             /\ r.table = At(l, r.applied)
  <2>1. PICK a \in 0..Len(l) : r = NewReplica(At(l, a), a)
    BY <1>1 DEF ReplicaInv, Follows
  <2> QED BY <2>1 DEF NewReplica
<1>4. ASSUME NEW r \in replica
      PROVE  Lag(r, Len(l)) = Cardinality({i \in DOMAIN l : i > r.applied})
  <2>1. PICK a : a = r.applied
    OBVIOUS
  <2>2. a \in Nat /\ a <= Len(l)
    BY <1>2, <1>3, <2>1
  <2>3. {i \in DOMAIN l : i > a} = (a + 1)..Len(l)
    BY <1>2, <2>2
  <2>4. Cardinality((a + 1)..Len(l)) = IF a + 1 > Len(l) THEN 0 ELSE Len(l) - (a + 1) + 1
    <3>1. PICK b, c : b = a + 1 /\ c = Len(l)
      OBVIOUS
    <3>2. b \in Int /\ c \in Int
      BY <1>2, <2>2, <3>1
    <3>3. Cardinality(b..c) = IF b > c THEN 0 ELSE c - b + 1
      BY <3>2, FS_Interval
    <3> QED BY <3>1, <3>3
  <2>5. (IF a + 1 > Len(l) THEN 0 ELSE Len(l) - (a + 1) + 1) = IF Len(l) <= a THEN 0 ELSE Len(l) - a
    BY <1>2, <2>2
  <2> QED BY <2>1, <2>3, <2>4, <2>5 DEF Lag
<1>5. ASSUME NEW p \in promoted, NEW r \in replica PROVE PromotedRows(p, TableAt(r.applied))
  <2>1. PICK q \in Partition(r.table) : p = RecoverInFlight(q)
    BY DEF ReplicaInv
  <2>2. r.table = TableAt(r.applied)
    BY <1>1, <1>3, TablesOfLog
  <2> QED BY <2>1, <2>2, PromotedWhole
<1>6. \A r \in replica : /\ r.applied <= Len(log)
                         /\ r.table = TableAt(r.applied)
                         /\ Lag(r, Len(log)) = Cardinality({i \in DOMAIN log : i > r.applied})
  BY <1>1, <1>2, <1>3, <1>4, TablesOfLog
<1> QED BY <1>5, <1>6 DEF ReplicaFollows, PromotedRows

\* A replica is always the primary as of the LSN it has applied, whatever
\* batches were shuffled, repeated or sent again after later ones, its Lag is
\* the number of writes it misses, and what Promote makes of it has exactly
\* those rows, in order, none in flight, every URL whose host has a row in
\* range: for any number of writes, keys, values and batches.
THEOREM ReplicaTracks == ReplicaSpec => []ReplicaFollows
<1>1. ReplicaSpec => []ReplicaInv
  BY ReplicaInvInit, ReplicaInvNext, PTL DEF ReplicaSpec
<1> QED BY <1>1, ReplicaInvFollows, PTL

-----------------------------------------------------------------------------
(* The calendar. *)

\* The leap years up to and with year y.
LeapsTo(y) == y \div 4 - y \div 100 + y \div 400

LEMMA LeapAdds ==
  ASSUME NEW y \in Nat
  PROVE  LeapsTo(y + 1) = LeapsTo(y) + IF LeapYear(y + 1) THEN 1 ELSE 0
<1>1. /\ (y + 1) \div 4 = y \div 4 + IF (y + 1) % 4 = 0 THEN 1 ELSE 0
      /\ (y + 1) \div 100 = y \div 100 + IF (y + 1) % 100 = 0 THEN 1 ELSE 0
      /\ (y + 1) \div 400 = y \div 400 + IF (y + 1) % 400 = 0 THEN 1 ELSE 0
  OBVIOUS
<1>2. /\ (y + 1) % 400 = 0 => (y + 1) % 100 = 0
      /\ (y + 1) % 100 = 0 => (y + 1) % 4 = 0
  OBVIOUS
<1>3. /\ y \div 4 \in Int /\ y \div 100 \in Int /\ y \div 400 \in Int
  OBVIOUS
<1> QED BY <1>1, <1>2, <1>3 DEF LeapsTo, LeapYear

LEMMA LeapsCounted ==
  ASSUME NEW y \in Nat, y >= 1970
  PROVE  /\ Cardinality({x \in 1970..(y - 1) : LeapYear(x)}) = LeapsTo(y - 1) - 477
         /\ LeapsTo(y - 1) \in Int
<1> DEFINE L(n) == {x \in 1970..(1969 + n) : LeapYear(x)}
           G == {n \in Nat : IsFiniteSet(L(n)) /\ Cardinality(L(n)) = LeapsTo(1969 + n) - 477}
<1>1. 0 \in G
  <2>1. L(0) = {}
    OBVIOUS
  <2>2. LeapsTo(1969) = 477
    BY DEF LeapsTo
  <2> QED BY <2>1, <2>2, FS_EmptySet
<1>2. ASSUME NEW n \in Nat, n \in G PROVE n + 1 \in G
  <2>1. L(n + 1) = IF LeapYear(1970 + n) THEN L(n) \cup {1970 + n} ELSE L(n)
    OBVIOUS
  <2>2. 1970 + n \notin L(n) /\ IsFiniteSet(L(n))
    BY <1>2
  <2>3. LeapsTo(1969 + (n + 1)) = LeapsTo(1969 + n) + IF LeapYear(1970 + n) THEN 1 ELSE 0
    <3>1. 1969 + n \in Nat /\ (1969 + n) + 1 = 1970 + n /\ 1969 + (n + 1) = 1970 + n
      OBVIOUS
    <3> HIDE DEF L, G
    <3> QED BY <3>1, LeapAdds
  <2>4. LeapsTo(1969 + n) \in Int
    BY DEF LeapsTo
  <2> HIDE DEF L
  <2>5. /\ IsFiniteSet(L(n + 1))
        /\ Cardinality(L(n + 1)) = Cardinality(L(n)) + IF LeapYear(1970 + n) THEN 1 ELSE 0
    BY <2>1, <2>2, FS_AddElement, FS_CardinalityType
  <2> QED BY <1>2, <2>3, <2>4, <2>5, FS_CardinalityType
<1> HIDE DEF G
<1>3. \A i \in 0..(y - 1970) : i \in G
  <2>1. y - 1970 \in Nat /\ \A i \in 0..(y - 1970) : i \in G /\ i < y - 1970 => i + 1 \in G
    BY <1>2
  <2> QED BY <1>1, <2>1, Climb
<1>4. y - 1970 \in G /\ 1969 + (y - 1970) = y - 1
  BY <1>3
<1>5. Cardinality(L(y - 1970)) = LeapsTo(y - 1) - 477
  BY <1>4 DEF G
<1>6. L(y - 1970) = {x \in 1970..(y - 1) : LeapYear(x)}
  BY <1>4
<1>7. LeapsTo(y - 1) \in Int
  BY DEF LeapsTo
<1> QED BY <1>5, <1>6, <1>7

\* The day month p of the year that begins in March of year y begins on.
March(y, p) == 365 * y + LeapsTo(y) + (153 * p + 2) \div 5 - 719468

LEMMA MonthStartMarch ==
  ASSUME NEW y \in Nat, y >= 1970, NEW m \in 1..12
  PROVE  MonthStart(y, m) = IF m >= 3 THEN March(y, m - 3) ELSE March(y - 1, m + 9)
<1>1. /\ Cardinality({x \in 1970..(y - 1) : LeapYear(x)}) = LeapsTo(y - 1) - 477
      /\ LeapsTo(y - 1) \in Int
  BY LeapsCounted
<1>2. LeapsTo(y) = LeapsTo(y - 1) + IF LeapYear(y) THEN 1 ELSE 0
  <2>1. y - 1 \in Nat /\ (y - 1) + 1 = y
    OBVIOUS
  <2> QED BY <2>1, LeapAdds
<1>3. IF m >= 3 THEN DaysBefore[m] = 59 + (153 * (m - 3) + 2) \div 5
      ELSE DaysBefore[m] = (153 * (m + 9) + 2) \div 5 - 306
  <2>1. m \in {1, 2, 3, 4, 5, 6, 7, 8, 9, 10, 11, 12}
    OBVIOUS
  <2> QED BY <2>1 DEF DaysBefore
<1>4. (153 * (m - 3) + 2) \div 5 \in Int /\ (153 * (m + 9) + 2) \div 5 \in Int
  OBVIOUS
<1> DEFINE c == Cardinality({x \in 1970..(y - 1) : LeapYear(x)})
<1>5. MonthStart(y, m) = 365 * (y - 1970) + c + DaysBefore[m] + (IF m > 2 /\ LeapYear(y) THEN 1 ELSE 0)
  BY DEF MonthStart
<1>6. c = LeapsTo(y - 1) - 477
  BY <1>1
<1> HIDE DEF c
<1> QED BY <1>1, <1>2, <1>3, <1>4, <1>5, <1>6 DEF March

\* A day of a four-century era as century, olympiad, year and day, from March.
EraDay(doe, c, q, r, s) ==
  /\ c \in 0..3 /\ q \in 0..24 /\ r \in 0..3 /\ s \in Nat /\ s <= 365
  /\ doe = 36524 * c + 1461 * q + 365 * r + s
  /\ s = 365 => r = 3 /\ (q < 24 \/ c = 3)

LEMMA EraDayIs ==
  ASSUME NEW doe \in Nat, doe <= 146096
  PROVE  \E c, q, r, s : EraDay(doe, c, q, r, s)
<1>1. \E c \in 0..3 : /\ 36524 * c <= doe /\ doe <= 36524 * (c + 1)
                      /\ c < 3 => doe < 36524 * (c + 1)
  <2>1. CASE doe < 36524
    <3> WITNESS 0 \in 0..3
    <3> QED BY <2>1
  <2>2. CASE 36524 <= doe /\ doe < 73048
    <3> WITNESS 1 \in 0..3
    <3> QED BY <2>2
  <2>3. CASE 73048 <= doe /\ doe < 109572
    <3> WITNESS 2 \in 0..3
    <3> QED BY <2>3
  <2>4. CASE 109572 <= doe
    <3> WITNESS 3 \in 0..3
    <3> QED BY <2>4
  <2> QED BY <2>1, <2>2, <2>3, <2>4
<1>2. PICK c \in 0..3 : /\ 36524 * c <= doe /\ doe <= 36524 * (c + 1)
                        /\ c < 3 => doe < 36524 * (c + 1)
  BY <1>1
<1> DEFINE d == doe - 36524 * c
           q == d \div 1461
           f == d - 1461 * q
<1>3. d \in Nat /\ d <= 36524 /\ (c < 3 => d < 36524)
  BY <1>2
<1>4. q \in 0..24 /\ f \in Nat /\ f <= 1460 /\ d = 1461 * q + f
  <2> HIDE DEF d
  <2> QED BY <1>3
<1>5. q = 24 /\ c < 3 => f < 1460
  <2> HIDE DEF d, q, f
  <2> QED BY <1>3, <1>4
<1>6. doe = 36524 * c + d
  OBVIOUS
<1> HIDE DEF d, q, f
<1>7. \E r \in 0..3 : 365 * r <= f /\ f <= 365 * (r + 1) /\ (r < 3 => f < 365 * (r + 1))
  <2>1. CASE f < 365
    <3> WITNESS 0 \in 0..3
    <3> QED BY <1>4, <2>1
  <2>2. CASE 365 <= f /\ f < 730
    <3> WITNESS 1 \in 0..3
    <3> QED BY <1>4, <2>2
  <2>3. CASE 730 <= f /\ f < 1095
    <3> WITNESS 2 \in 0..3
    <3> QED BY <1>4, <2>3
  <2>4. CASE 1095 <= f
    <3> WITNESS 3 \in 0..3
    <3> QED BY <1>4, <2>4
  <2> QED BY <1>4, <2>1, <2>2, <2>3, <2>4
<1>8. PICK r \in 0..3 : 365 * r <= f /\ f <= 365 * (r + 1) /\ (r < 3 => f < 365 * (r + 1))
  BY <1>7
<1>9. EraDay(doe, c, q, r, f - 365 * r)
  BY <1>4, <1>5, <1>6, <1>8 DEF EraDay
<1> QED BY <1>9

\* The year of an era a day of it falls in, counted from March.
LEMMA YearOfEra ==
  ASSUME NEW doe \in Nat, doe <= 146096, NEW c, NEW q, NEW r, NEW s, EraDay(doe, c, q, r, s)
  PROVE  (doe - doe \div 1460 + doe \div 36524 - doe \div 146096) \div 365 = 100 * c + 4 * q + r
<1>1. /\ c \in 0..3 /\ q \in 0..24 /\ r \in 0..3 /\ s \in Nat /\ s <= 365
      /\ doe = 36524 * c + 1461 * q + 365 * r + s
      /\ s = 365 => r = 3 /\ (q < 24 \/ c = 3)
  BY DEF EraDay
<1> DEFINE over == IF 24 * c + q + 365 * r + s >= 1460 THEN 1 ELSE 0
           last == IF doe = 146096 THEN 1 ELSE 0
<1>2. doe \div 1460 = 25 * c + q + over
  <2>1. 1460 * (25 * c + q + over) <= doe /\ doe < 1460 * (25 * c + q + over + 1)
    BY <1>1
  <2>2. 25 * c + q + over \in Int
    BY <1>1
  <2> HIDE DEF over
  <2> QED BY <2>1, <2>2
<1>3. doe \div 36524 = c + last
  <2>1. 36524 * (c + last) <= doe /\ doe < 36524 * (c + last + 1)
    <3>1. 1461 * q + 365 * r + s <= 36524 /\ (1461 * q + 365 * r + s = 36524 => c = 3)
      BY <1>1
    <3> QED BY <1>1, <3>1
  <2>2. c + last \in Int
    BY <1>1
  <2> QED BY <2>1, <2>2
<1>4. doe \div 146096 = last
  OBVIOUS
<1>5. s - over \in Nat /\ s - over <= 364
  BY <1>1
<1> DEFINE a == doe - doe \div 1460 + doe \div 36524 - doe \div 146096
<1>6. a = 365 * (100 * c + 4 * q + r) + (s - over)
  <2> HIDE DEF over, last
  <2>1. over \in Int /\ last \in Int
    BY DEF over, last
  <2> QED BY <1>1, <1>2, <1>3, <1>4, <2>1
<1>7. 100 * c + 4 * q + r \in Int
  BY <1>1
<1> HIDE DEF a, over
<1>8. a \div 365 = 100 * c + 4 * q + r
  BY <1>5, <1>6, <1>7
<1> QED BY <1>8 DEF a

\* The month of such a year a day of it falls in.
LEMMA MonthOfYear ==
  ASSUME NEW doy \in Nat, doy <= 365
  PROVE  LET mp == (5 * doy + 2) \div 153
         IN /\ mp \in 0..11
            /\ (153 * mp + 2) \div 5 <= doy
            /\ doy < (153 * (mp + 1) + 2) \div 5
<1> DEFINE mp == (5 * doy + 2) \div 153
<1>1. mp \in Nat /\ mp <= 11 /\ 153 * mp <= 5 * doy + 2 /\ 5 * doy + 2 < 153 * (mp + 1)
  OBVIOUS
<1> HIDE DEF mp
<1>2. mp \in 0..11
  BY <1>1
<1>3. (153 * mp + 2) \div 5 <= doy
  BY <1>1, <1>2
<1>4. doy < (153 * (mp + 1) + 2) \div 5
  BY <1>1, <1>2
<1> QED BY <1>2, <1>3, <1>4 DEF mp

LEMMA LeapsGrow ==
  ASSUME NEW y \in Nat, NEW k \in Nat, y <= k
  PROVE  LeapsTo(y) <= LeapsTo(k)
<1>1. LeapsTo(y) \in Int /\ LeapsTo(k) \in Int
  BY DEF LeapsTo
<1>2. y \div 100 - y \div 400 <= k \div 100 - k \div 400
  OBVIOUS
<1> QED BY <1>1 DEF LeapsTo

\* What a day of an era makes of the formulas of civilFromDays.
LEMMA DayOfYear ==
  ASSUME NEW doe \in Nat, doe <= 146096, NEW c, NEW q, NEW r, NEW s, EraDay(doe, c, q, r, s),
         NEW yoe, yoe = 100 * c + 4 * q + r
  PROVE  /\ yoe \in Nat /\ yoe < 400
         /\ doe - (365 * yoe + yoe \div 4 - yoe \div 100) = s
         /\ s \in Nat /\ s <= 365
         /\ s = 365 => LeapYear(yoe + 1)
<1>1. /\ c \in 0..3 /\ q \in 0..24 /\ r \in 0..3 /\ s \in Nat /\ s <= 365
      /\ doe = 36524 * c + 1461 * q + 365 * r + s
      /\ s = 365 => r = 3 /\ (q < 24 \/ c = 3)
  BY DEF EraDay
<1>2. yoe \in Nat /\ yoe < 400
  BY <1>1
<1>3. yoe \div 4 = 25 * c + q
  BY <1>1
<1>4. yoe \div 100 = c
  BY <1>1
<1>5. doe - (365 * yoe + yoe \div 4 - yoe \div 100) = s
  BY <1>1, <1>2, <1>3, <1>4
<1>6. ASSUME s = 365 PROVE LeapYear(yoe + 1)
  <2>1. yoe + 1 = 100 * c + 4 * (q + 1)
    BY <1>1, <1>6
  <2>2. (yoe + 1) % 4 = 0
    BY <1>1, <2>1
  <2>3. CASE q < 24
    <3>1. (yoe + 1) % 100 # 0
      BY <1>1, <2>1, <2>3
    <3> QED BY <2>2, <3>1 DEF LeapYear
  <2>4. CASE q = 24 /\ c = 3
    <3>1. yoe + 1 = 400
      BY <2>1, <2>4
    <3>2. 400 % 400 = 0
      OBVIOUS
    <3> QED BY <2>2, <3>1, <3>2 DEF LeapYear
  <2> QED BY <1>1, <1>6, <2>3, <2>4
<1> QED BY <1>1, <1>2, <1>5, <1>6

\* Every four centuries the calendar repeats.
LEMMA EraRepeats ==
  ASSUME NEW e \in Nat, NEW yoe \in Nat, yoe < 400
  PROVE  /\ LeapsTo(yoe + e * 400) = yoe \div 4 - yoe \div 100 + 97 * e
         /\ LeapYear(yoe + 1 + e * 400) <=> LeapYear(yoe + 1)
<1>1. (yoe + e * 400) \div 4 = yoe \div 4 + 100 * e
  OBVIOUS
<1>2. (yoe + e * 400) \div 100 = yoe \div 100 + 4 * e
  OBVIOUS
<1>3. (yoe + e * 400) \div 400 = e
  OBVIOUS
<1>4. /\ (yoe + 1 + e * 400) % 4 = (yoe + 1) % 4
      /\ (yoe + 1 + e * 400) % 100 = (yoe + 1) % 100
      /\ (yoe + 1 + e * 400) % 400 = (yoe + 1) % 400
  OBVIOUS
<1>5. yoe \div 4 \in Int /\ yoe \div 100 \in Int
  OBVIOUS
<1>6. LeapsTo(yoe + e * 400) = yoe \div 4 - yoe \div 100 + 97 * e
  BY <1>1, <1>2, <1>3, <1>5 DEF LeapsTo
<1>7. LeapYear(yoe + 1 + e * 400) <=> LeapYear(yoe + 1)
  BY <1>4 DEF LeapYear
<1> QED BY <1>6, <1>7

\* The first day of the month after month p of year y.
AfterMarch(y, p) == IF p = 11 THEN March(y + 1, 0) ELSE March(y, p + 1)

\* civilFromDays names the month the day falls in.
LEMMA CivilMonth ==
  ASSUME NEW days \in Nat
  PROVE  \E y \in Nat, p \in 0..11 :
           /\ civilFromDays(days) = <<IF p >= 10 THEN y + 1 ELSE y, IF p >= 10 THEN p - 9 ELSE p + 3>>
           /\ March(y, p) <= days /\ days < AfterMarch(y, p)
           /\ March(y, p) \in Int /\ AfterMarch(y, p) \in Int
<1> DEFINE z == days + 719468
           era == z \div 146097
           doe == z - era * 146097
           yoe == (doe - doe \div 1460 + doe \div 36524 - doe \div 146096) \div 365
           doy == doe - (365 * yoe + yoe \div 4 - yoe \div 100)
           mp  == (5 * doy + 2) \div 153
           y == yoe + era * 400
<1>1. civilFromDays(days) = LET month == IF mp >= 10 THEN mp - 9 ELSE mp + 3
                            IN <<y + (IF month <= 2 THEN 1 ELSE 0), month>>
  BY DEF civilFromDays
<1>2. z \in Nat /\ era \in Nat /\ doe \in Nat /\ doe <= 146096 /\ z = doe + era * 146097
  OBVIOUS
<1> HIDE DEF era, doe, z
<1>3. PICK c, q, r, s : EraDay(doe, c, q, r, s)
  BY <1>2, EraDayIs
<1>4. yoe = 100 * c + 4 * q + r
  BY <1>2, <1>3, YearOfEra
<1> HIDE DEF yoe
<1>5. /\ yoe \in Nat /\ yoe < 400 /\ doy = s /\ s \in Nat /\ s <= 365
      /\ s = 365 => LeapYear(yoe + 1)
  BY <1>2, <1>3, <1>4, DayOfYear
<1> HIDE DEF doy
<1>6. mp \in 0..11 /\ (153 * mp + 2) \div 5 <= doy /\ doy < (153 * (mp + 1) + 2) \div 5
  BY <1>5, MonthOfYear
<1> HIDE DEF mp
<1>7. y \in Nat /\ y + 1 = yoe + 1 + era * 400
  BY <1>2, <1>5
<1>8. LeapsTo(y) = yoe \div 4 - yoe \div 100 + 97 * era
  BY <1>2, <1>5, EraRepeats
<1>9. 365 * y + LeapsTo(y) - 719468 = days - doy
  <2>1. doy = doe - (365 * yoe + yoe \div 4 - yoe \div 100)
    BY DEF doy
  <2>2. yoe \div 4 \in Int /\ yoe \div 100 \in Int
    BY <1>5
  <2>3. z = days + 719468
    BY DEF z
  <2> QED BY <1>2, <1>5, <1>8, <2>1, <2>2, <2>3
<1> HIDE DEF y
<1>10. (153 * mp + 2) \div 5 \in Int /\ (153 * (mp + 1) + 2) \div 5 \in Int /\ LeapsTo(y) \in Int
  BY <1>6, <1>7 DEF LeapsTo
<1>11. March(y, mp) <= days /\ March(y, mp) \in Int
  BY <1>5, <1>6, <1>7, <1>9, <1>10 DEF March
<1>12. days < AfterMarch(y, mp) /\ AfterMarch(y, mp) \in Int
  <2>1. CASE mp # 11
    BY <1>5, <1>6, <1>7, <1>9, <1>10, <2>1 DEF March, AfterMarch
  <2>2. CASE mp = 11
    <3>1. LeapsTo(y + 1) = LeapsTo(y) + IF LeapYear(y + 1) THEN 1 ELSE 0
      BY <1>7, LeapAdds
    <3>2. LeapYear(y + 1) <=> LeapYear(yoe + 1)
      <4>1. LeapYear(yoe + 1 + era * 400) <=> LeapYear(yoe + 1)
        BY <1>2, <1>5, EraRepeats
      <4> QED BY <1>7, <4>1
    <3>3. (153 * 0 + 2) \div 5 = 0
      OBVIOUS
    <3>4. March(y + 1, 0) = days - doy + 365 + IF LeapYear(y + 1) THEN 1 ELSE 0
      BY <1>5, <1>7, <1>9, <1>10, <3>1, <3>3 DEF March
    <3> QED BY <1>5, <2>2, <3>2, <3>4 DEF AfterMarch
  <2> QED BY <2>1, <2>2
<1>13. civilFromDays(days) = <<IF mp >= 10 THEN y + 1 ELSE y, IF mp >= 10 THEN mp - 9 ELSE mp + 3>>
  BY <1>1, <1>6, <1>7
<1> QED BY <1>6, <1>7, <1>11, <1>12, <1>13

\* The first day of month j, counting months from March of year 0.
MarchAt(j) == March(j \div 12, j % 12)

LEMMA MarchGrows ==
  ASSUME NEW j \in Nat, NEW k \in Nat, j <= k
  PROVE  MarchAt(j) <= MarchAt(k) /\ MarchAt(j) \in Int /\ MarchAt(k) \in Int
<1> DEFINE y == j \div 12
           p == j % 12
           x == k \div 12
           o == k % 12
<1>1. /\ y \in Nat /\ p \in 0..11 /\ x \in Nat /\ o \in 0..11
      /\ y < x \/ (y = x /\ p <= o)
  OBVIOUS
<1> HIDE DEF y, p, x, o
<1>2. LeapsTo(y) <= LeapsTo(x) /\ LeapsTo(y) \in Int /\ LeapsTo(x) \in Int
  <2>1. y <= x
    BY <1>1
  <2>2. LeapsTo(y) <= LeapsTo(x)
    BY <1>1, <2>1, LeapsGrow
  <2>3. LeapsTo(y) \in Int /\ LeapsTo(x) \in Int
    BY <1>1 DEF LeapsTo
  <2> QED BY <2>2, <2>3
<1> DEFINE a == (153 * p + 2) \div 5
           b == (153 * o + 2) \div 5
<1>3. /\ a \in Nat /\ b \in Nat /\ a <= 337
      /\ p <= o => a <= b
  BY <1>1
<1> HIDE DEF a, b
<1>4. 365 * y + LeapsTo(y) + a <= 365 * x + LeapsTo(x) + b
  BY <1>1, <1>2, <1>3
<1> QED BY <1>1, <1>2, <1>3, <1>4 DEF MarchAt, March, y, p, x, o, a, b

LEMMA StartAt ==
  ASSUME NEW mo \in Nat, mo >= 23640
  PROVE  MonthStart(mo \div 12, 1 + (mo % 12)) = MarchAt(mo - 2)
<1> DEFINE y == mo \div 12
           m == 1 + (mo % 12)
<1>1. /\ y \in Nat /\ y >= 1970 /\ m \in 1..12
      /\ m >= 3 => (mo - 2) \div 12 = y /\ (mo - 2) % 12 = m - 3
      /\ m < 3 => (mo - 2) \div 12 = y - 1 /\ (mo - 2) % 12 = m + 9
  OBVIOUS
<1> HIDE DEF y, m
<1>2. MonthStart(y, m) = IF m >= 3 THEN March(y, m - 3) ELSE March(y - 1, m + 9)
  BY <1>1, MonthStartMarch
<1>3. MonthStart(y, m) = MarchAt(mo - 2)
  BY <1>1, <1>2 DEF MarchAt
<1> QED BY <1>3 DEF y, m

\* The months nowMonths counts begin and end where the calendar's do.
LEMMA NowMonths ==
  ASSUME NEW hours \in Nat
  PROVE  /\ nowMonths(hours) \in Nat /\ nowMonths(hours) >= 23640
         /\ MarchAt(nowMonths(hours) - 2) <= hours \div 24
         /\ hours \div 24 < MarchAt(nowMonths(hours) - 1)
<1> DEFINE d == (hours * 3600) \div 86400
           cur == nowMonths(hours)
<1>1. d \in Nat /\ d = hours \div 24
  OBVIOUS
<1>2. PICK y \in Nat, p \in 0..11 :
           /\ civilFromDays(d) = <<IF p >= 10 THEN y + 1 ELSE y, IF p >= 10 THEN p - 9 ELSE p + 3>>
           /\ March(y, p) <= d /\ d < AfterMarch(y, p)
           /\ March(y, p) \in Int /\ AfterMarch(y, p) \in Int
  <2> HIDE DEF d
  <2> QED BY <1>1, CivilMonth
<1>3. cur = MonthsOf(civilFromDays(d)[1], civilFromDays(d)[2])
  BY DEF nowMonths
<1> HIDE DEF d, cur
<1>4. cur = 12 * y + p + 2
  BY <1>2, <1>3 DEF MonthsOf
<1>5. /\ (cur - 2) \div 12 = y /\ (cur - 2) % 12 = p
      /\ p = 11 => (cur - 1) \div 12 = y + 1 /\ (cur - 1) % 12 = 0
      /\ p # 11 => (cur - 1) \div 12 = y /\ (cur - 1) % 12 = p + 1
  BY <1>4
<1>6. MarchAt(cur - 2) <= d /\ d < MarchAt(cur - 1)
  BY <1>2, <1>5 DEF MarchAt, AfterMarch
<1>7. cur >= 23640
  <2> SUFFICES ASSUME cur < 23640 PROVE FALSE
    BY <1>4
  <2>1. cur - 1 \in Nat /\ 23638 \in Nat /\ cur - 1 <= 23638
    BY <1>4
  <2>2. MarchAt(cur - 1) <= MarchAt(23638) /\ MarchAt(cur - 1) \in Int
    BY <2>1, MarchGrows
  <2>3. MarchAt(23638) = 0
    <3>1. 23638 \div 12 = 1969 /\ 23638 % 12 = 10
      OBVIOUS
    <3>2. LeapsTo(1969) = 477
      BY DEF LeapsTo
    <3>3. (153 * 10 + 2) \div 5 = 306
      OBVIOUS
    <3> QED BY <3>1, <3>2, <3>3 DEF MarchAt, March
  <2> QED BY <1>1, <1>6, <2>2, <2>3
<1>8. cur \in Nat
  BY <1>4
<1> QED BY <1>1, <1>6, <1>7, <1>8 DEF cur

\* A month begins after the hour exactly when it is later than nowMonths.
LEMMA MonthsAgree ==
  ASSUME NEW hours \in Nat, NEW mo \in Int
  PROVE  mo > nowMonths(hours) <=> hours < 24 * MonthStart(mo \div 12, 1 + (mo % 12))
<1> DEFINE cur == nowMonths(hours)
           d == hours \div 24
           start == MonthStart(mo \div 12, 1 + (mo % 12))
<1>1. /\ cur \in Nat /\ cur >= 23640 /\ MarchAt(cur - 2) <= d /\ d < MarchAt(cur - 1)
  BY NowMonths
<1>2. d \in Nat /\ 24 * d <= hours /\ hours < 24 * (d + 1)
  OBVIOUS
<1>3. CASE mo >= 23640
  <2>1. start = MarchAt(mo - 2)
    BY <1>3, StartAt
  <2> HIDE DEF cur, d, start
  <2>2. mo - 2 \in Nat /\ cur - 1 \in Nat /\ cur - 2 \in Nat
    BY <1>1, <1>3
  <2>3. MarchAt(mo - 2) \in Int
    BY <2>2, MarchGrows
  <2>4. mo > cur => d < MarchAt(mo - 2)
    <3>1. mo > cur => cur - 1 <= mo - 2
      BY <1>1
    <3>2. MarchAt(cur - 1) \in Int
      BY <2>2, MarchGrows
    <3>3. mo > cur => MarchAt(cur - 1) <= MarchAt(mo - 2)
      BY <2>2, <3>1, MarchGrows
    <3> QED BY <1>1, <1>2, <2>3, <3>2, <3>3
  <2>5. ~(mo > cur) => MarchAt(mo - 2) <= d
    <3>1. ~(mo > cur) => mo - 2 <= cur - 2
      BY <1>1
    <3>2. MarchAt(cur - 2) \in Int
      BY <2>2, MarchGrows
    <3>3. ~(mo > cur) => MarchAt(mo - 2) <= MarchAt(cur - 2)
      BY <2>2, <3>1, MarchGrows
    <3> QED BY <1>1, <1>2, <2>3, <3>2, <3>3
  <2>6. d < start <=> hours < 24 * start
    BY <1>2, <2>1, <2>3
  <2>7. mo > cur <=> hours < 24 * start
    BY <1>2, <2>1, <2>3, <2>4, <2>5, <2>6
  <2> QED BY <2>7 DEF cur, start
<1>4. CASE mo < 23640
  <2> DEFINE y == mo \div 12
             m == 1 + (mo % 12)
  <2>1. y \in Int /\ y <= 1969 /\ m \in 1..12
    BY <1>4
  <2> HIDE DEF y, m
  <2>2. {x \in 1970..(y - 1) : LeapYear(x)} = {}
    BY <2>1
  <2>3. Cardinality({x \in 1970..(y - 1) : LeapYear(x)}) = 0
    BY <2>2, FS_EmptySet
  <2>4. DaysBefore[m] \in Int /\ DaysBefore[m] <= 334
    <3>1. m \in {1, 2, 3, 4, 5, 6, 7, 8, 9, 10, 11, 12}
      BY <2>1
    <3> QED BY <3>1 DEF DaysBefore
  <2> DEFINE none == Cardinality({x \in 1970..(y - 1) : LeapYear(x)})
  <2>5. start = 365 * (y - 1970) + none + DaysBefore[m] + (IF m > 2 /\ LeapYear(y) THEN 1 ELSE 0)
    BY DEF MonthStart, y, m
  <2>6. none = 0
    BY <2>3
  <2> HIDE DEF none
  <2>7. start \in Int /\ start < 0
    BY <2>1, <2>4, <2>5, <2>6
  <2> HIDE DEF cur, start
  <2>8. ~(mo > cur) /\ ~(hours < 24 * start)
    BY <1>1, <1>4, <2>7
  <2> QED BY <2>8 DEF cur, start
<1> QED BY <1>3, <1>4

\* civilFromDays is exact over the whole range, as its comment says: for every
\* day since the epoch, the month it names has begun and the next one has not,
\* by the Gregorian rule.
THEOREM CivilExact ==
  ASSUME NEW days \in Nat
  PROVE  LET ym   == civilFromDays(days)
             next == MonthsOf(ym[1], ym[2]) + 1
         IN /\ MonthStart(ym[1], ym[2]) <= days
            /\ days < MonthStart(next \div 12, 1 + (next % 12))
<1> DEFINE ym == civilFromDays(days)
           cur == MonthsOf(ym[1], ym[2])
           hours == 24 * days
<1>1. hours \in Nat /\ hours \div 24 = days /\ (hours * 3600) \div 86400 = days
  OBVIOUS
<1>2. nowMonths(hours) = cur
  <2> HIDE DEF hours
  <2> QED BY <1>1 DEF nowMonths
<1> HIDE DEF hours
<1>3. cur \in Nat /\ cur >= 23640 /\ MarchAt(cur - 2) <= days /\ days < MarchAt(cur - 1)
  <2> HIDE DEF cur
  <2> QED BY <1>1, <1>2, NowMonths
<1>4. ym[1] \in Nat /\ ym[2] \in 1..12
  <2>1. PICK y \in Nat, p \in 0..11 :
          ym = <<IF p >= 10 THEN y + 1 ELSE y, IF p >= 10 THEN p - 9 ELSE p + 3>>
    BY CivilMonth
  <2> QED BY <2>1
<1>5. cur = ym[1] * 12 + (ym[2] - 1)
  BY DEF MonthsOf
<1> HIDE DEF ym, cur
<1>6. cur \div 12 = ym[1] /\ 1 + (cur % 12) = ym[2]
  BY <1>4, <1>5
<1>7. MonthStart(ym[1], ym[2]) = MarchAt(cur - 2)
  BY <1>3, <1>6, StartAt
<1>8. MonthStart((cur + 1) \div 12, 1 + ((cur + 1) % 12)) = MarchAt(cur - 1)
  <2>1. cur + 1 \in Nat /\ cur + 1 >= 23640 /\ (cur + 1) - 2 = cur - 1
    BY <1>3
  <2> QED BY <2>1, StartAt
<1> QED BY <1>3, <1>7, <1>8 DEF ym, cur

\* No link shows two dates: with more than one, which is read is up to map order.
OneDate == \A u \in DOMAIN Links : \A a, b \in urlMonths(Links[u]) : a = b

LEMMA MonthsTyped ==
  ASSUME NEW u \in DOMAIN Links
  PROVE  urlMonths(Links[u]) \subseteq Int
<1> DEFINE l == Links[u]
<1>1. l.path \in Seq(Int) /\ l.year \in Int /\ l.month \in Int /\ l.dates \subseteq Seq(Int)
  BY TrapAssumption
<1> HIDE DEF l
<1>2. pathYearMonth(l.path) \subseteq Int
  <2>1. \A i \in 1..(Len(l.path) - 1) : l.path[i] \in Int /\ l.path[i + 1] \in Int
    BY <1>1
  <2> QED BY <2>1 DEF pathYearMonth, MonthsOf
<1>3. queryYearMonth(l) \subseteq Int
  <2>1. \A v \in l.dates : AsDate(v) => v[1] \in Int /\ v[2] \in Int
    BY <1>1 DEF AsDate
  <2> QED BY <1>1, <2>1 DEF queryYearMonth, MonthsOf
<1>4. urlMonths(l) \subseteq Int
  BY <1>2, <1>3 DEF urlMonths
<1> QED BY <1>4 DEF l

\* The calendar rule reads a link's date as the calendar on the wall does.
LEMMA Dated ==
  ASSUME OneDate, NEW u \in DOMAIN Links, NEW i \in DOMAIN Hours
  PROVE  calendarViolation(Links[u], Hours[i]) = {PastHorizon(Links[u], Hours[i])}
<1> DEFINE l == Links[u]
           hours == Hours[i]
           ms == urlMonths(l)
<1>1. hours \in Nat /\ HorizonMonths \in Int
  BY TrapAssumption
<1>2. ms \subseteq Int /\ \A a, b \in ms : a = b
  BY MonthsTyped DEF OneDate
<1>3. nowMonths(hours) \in Nat
  BY <1>1, NowMonths
<1>4. calendarViolation(l, hours) = IF ms = {} THEN {FALSE} ELSE {m > nowMonths(hours) + HorizonMonths : m \in ms}
  BY DEF calendarViolation
<1>5. PastHorizon(l, hours) <=>
        /\ Cardinality(ms) = 1
        /\ \A m \in ms : hours < 24 * MonthStart((m - HorizonMonths) \div 12, 1 + ((m - HorizonMonths) % 12))
  BY DEF PastHorizon
<1> HIDE DEF l, hours, ms
<1>6. CASE ms = {}
  <2>1. ~PastHorizon(l, hours)
    BY <1>5, <1>6, FS_EmptySet
  <2>2. PastHorizon(l, hours) \in BOOLEAN
    BY DEF PastHorizon
  <2>3. PastHorizon(l, hours) = FALSE
    BY <2>1, <2>2
  <2>4. calendarViolation(l, hours) = {PastHorizon(l, hours)}
    BY <1>4, <1>6, <2>3
  <2> QED BY <2>4 DEF l, hours
<1>7. CASE ms # {}
  <2>1. PICK m : ms = {m} /\ m \in Int
    BY <1>2, <1>7
  <2>2. Cardinality(ms) = 1
    BY <2>1, FS_Singleton
  <2> DEFINE mo == m - HorizonMonths
             late == hours < 24 * MonthStart(mo \div 12, 1 + (mo % 12))
  <2>3. PastHorizon(l, hours) <=> late
    BY <1>5, <2>1, <2>2
  <2>4. mo > nowMonths(hours) <=> late
    <3>1. mo \in Int
      BY <1>1, <2>1
    <3> HIDE DEF mo
    <3> QED BY <1>1, <3>1, MonthsAgree
  <2> HIDE DEF late
  <2>5. (m > nowMonths(hours) + HorizonMonths) <=> mo > nowMonths(hours)
    BY <1>1, <1>3, <2>1
  <2> DEFINE past == m > nowMonths(hours) + HorizonMonths
  <2>6. past = PastHorizon(l, hours)
    <3>1. past <=> PastHorizon(l, hours)
      BY <2>3, <2>4, <2>5
    <3>2. past \in BOOLEAN
      OBVIOUS
    <3>3. PastHorizon(l, hours) \in BOOLEAN
      BY DEF PastHorizon
    <3> HIDE DEF past
    <3>4. CASE past
      <4>1. past = TRUE /\ PastHorizon(l, hours) = TRUE
        BY <3>1, <3>2, <3>3, <3>4
      <4> QED BY <4>1
    <3>5. CASE ~past
      <4>1. past = FALSE /\ PastHorizon(l, hours) = FALSE
        BY <3>1, <3>2, <3>3, <3>5
      <4> QED BY <4>1
    <3> QED BY <3>4, <3>5
  <2>7. calendarViolation(l, hours) = {past}
    BY <1>4, <1>7, <2>1
  <2>8. calendarViolation(l, hours) = {PastHorizon(l, hours)}
    BY <2>6, <2>7
  <2> QED BY <2>8 DEF l, hours
<1> QED BY <1>6, <1>7

-----------------------------------------------------------------------------
(* The trap detector. *)

HostTrap == [cal : Nat, fac : Nat, session : [Paths -> Nat], flagged : SUBSET Kinds, seen : SUBSET DOMAIN Links]

Met == [url : DOMAIN Links, hours : Nat, status : {"Scheduled", "Trapped"}, flagged : BOOLEAN, count : Nat]

\* The first n discoveries of q on host h that count for kind, on page b if
\* they are sessions.
Tally(q, h, kind, b, n) ==
  {j \in 1..n : /\ Links[q[j].url].host = h /\ Counts(q[j], kind)
                /\ kind = "session" => Links[q[j].url].path = b}

\* Those of them that were scheduled.
Leaked(q, h, kind, b, n) == {j \in Tally(q, h, kind, b, n) : q[j].status = "Scheduled"}

\* The second part of TrapsParked, of the i-th discovery of q.
Judged(q, i) ==
  LET e == q[i]
      l == Links[e.url]
      Earlier(kind) == {j \in 1..(i - 1) : Links[q[j].url].host = l.host /\ Counts(q[j], kind)}
  IN /\ \A kind \in {"calendar", "faceted"} :
          Bears(e, kind) /\ Cardinality(Earlier(kind)) >= FlagThreshold => e.status = "Trapped"
     /\ e.flagged /\ (\A kind \in Kinds : Cardinality(Earlier(kind)) + 1 < FlagThreshold)
        /\ (\E kind \in Kinds : Bears(e, kind)) => e.status = "Trapped"
     /\ e.status = "Trapped" =>
          \/ \E kind \in Kinds : Bears(e, kind)
          \/ URLBudget > 0 /\ e.count >= URLBudget
          \/ DepthCap > 0 /\ l.depth > DepthCap

\* The detector's counters of a host are what this life has met on it, and a
\* kind is flagged once a counter of it is at the threshold.
Counted(ht, q, h) ==
  /\ ht.cal = Cardinality(Tally(q, h, "calendar", <<>>, Len(q)))
  /\ ht.fac = Cardinality(Tally(q, h, "faceted", <<>>, Len(q)))
  /\ \A b \in Paths : ht.session[b] = Cardinality(Tally(q, h, "session", b, Len(q)))

Flagged(ht) ==
  /\ "calendar" \in ht.flagged <=> ht.cal >= FlagThreshold
  /\ "faceted" \in ht.flagged <=> ht.fac >= FlagThreshold
  /\ "session" \in ht.flagged <=> \E b \in Paths : ht.session[b] >= FlagThreshold

TrapInv ==
  /\ clock \in DOMAIN Hours
  /\ met \in Seq(Met)
  /\ traps \in [TrapHosts -> HostTrap]
  /\ rows \in [DOMAIN Links -> {"none", "Scheduled", "Trapped"}]
  /\ \A h \in TrapHosts :
       /\ \A u \in traps[h].seen : rows[u] # "none"
       /\ Counted(traps[h], met, h) /\ Flagged(traps[h])
       /\ traps[h].flagged # {} => h \in suspect
       /\ \A kind \in Kinds, b \in Paths : Cardinality(Leaked(met, h, kind, b, Len(met))) < FlagThreshold
  /\ \A i \in DOMAIN met : Judged(met, i)

-----------------------------------------------------------------------------
(* The soft-404 detector. *)

\* The crawls of s on host h served with fp, their pages, and the ones kept.
With(s, h, fp) == {c \in s : PageHost[c[1]] = h /\ c[2] = fp}
PagesOf(S) == {c[1] : c \in S}
Kept(S) == {c \in S : c[3] = "Crawled"}

\* Below the threshold a fingerprint's pages are counted and all kept; a
\* template's were enough.
FarmWeighed(d, s, h, fp) ==
  /\ Cardinality(PagesOf(Kept(With(s, h, fp)))) < SoftThreshold
  /\ fp \notin d.template[h] => Kept(With(s, h, fp)) = With(s, h, fp) /\ d.seen[h][fp] = PagesOf(With(s, h, fp))
  /\ fp \in d.template[h] => Cardinality(PagesOf(With(s, h, fp))) >= SoftThreshold

SoftInv ==
  /\ soft \in [seen : [Range(PageHost) -> [Prints -> SUBSET DOMAIN PageHost]],
               template : [Range(PageHost) -> SUBSET (Prints \ {0})]]
  /\ served \in SUBSET ((DOMAIN PageHost) \X Prints \X {"Crawled", "Gone"})
  /\ \A h \in Range(PageHost), fp \in Prints \ {0} : FarmWeighed(soft, served, h, fp)
  /\ \A c \in served : c[2] = 0 => c[3] = "Crawled"

-----------------------------------------------------------------------------
(* Counting a discovery. *)

Fits(e, h, kind, b) ==
  /\ Links[e.url].host = h /\ Counts(e, kind)
  /\ kind = "session" => Links[e.url].path = b

LEMMA TallyFinite ==
  ASSUME NEW q, NEW h, NEW kind, NEW b, NEW n \in Nat
  PROVE  /\ Tally(q, h, kind, b, n) \in SUBSET (1..n)
         /\ IsFiniteSet(Tally(q, h, kind, b, n))
         /\ Cardinality(Tally(q, h, kind, b, n)) \in Nat
         /\ Leaked(q, h, kind, b, n) \in SUBSET Tally(q, h, kind, b, n)
         /\ IsFiniteSet(Leaked(q, h, kind, b, n))
         /\ Cardinality(Leaked(q, h, kind, b, n)) \in Nat
         /\ Cardinality(Leaked(q, h, kind, b, n)) <= Cardinality(Tally(q, h, kind, b, n))
<1> DEFINE T == Tally(q, h, kind, b, n)
           L == Leaked(q, h, kind, b, n)
<1>1. T \in SUBSET (1..n) /\ L \in SUBSET T
  BY DEF Tally, Leaked
<1>2. IsFiniteSet(1..n)
  BY FS_Interval
<1> HIDE DEF T, L
<1>3. IsFiniteSet(T)
  BY <1>1, <1>2, FS_Subset
<1>4. IsFiniteSet(L) /\ Cardinality(L) <= Cardinality(T)
  BY <1>1, <1>3, FS_Subset
<1> QED BY <1>1, <1>3, <1>4, FS_CardinalityType DEF T, L

\* A discovery joins the tallies it fits and no others.
LEMMA TallyNext ==
  ASSUME NEW q \in Seq(Met), NEW e \in Met, NEW h, NEW kind, NEW b
  PROVE  LET a == Append(q, e)
             n == Len(q)
         IN  /\ Cardinality(Tally(a, h, kind, b, Len(a)))
                  = Cardinality(Tally(q, h, kind, b, n)) + IF Fits(e, h, kind, b) THEN 1 ELSE 0
             /\ Cardinality(Leaked(a, h, kind, b, Len(a)))
                  = Cardinality(Leaked(q, h, kind, b, n))
                    + IF Fits(e, h, kind, b) /\ e.status = "Scheduled" THEN 1 ELSE 0
<1> DEFINE a == Append(q, e)
           n == Len(q)
<1>1. n \in Nat /\ Len(a) = n + 1 /\ (\A j \in 1..n : a[j] = q[j]) /\ a[n + 1] = e
  OBVIOUS
<1> HIDE DEF a, n
<1> DEFINE T == Tally(q, h, kind, b, n)
           L == Leaked(q, h, kind, b, n)
           T1 == Tally(a, h, kind, b, n + 1)
           L1 == Leaked(a, h, kind, b, n + 1)
<1>2. T \in SUBSET (1..n) /\ IsFiniteSet(T) /\ L \in SUBSET T /\ IsFiniteSet(L)
      /\ Cardinality(T) \in Nat /\ Cardinality(L) \in Nat
  BY <1>1, TallyFinite
<1>3. n + 1 \notin T /\ n + 1 \notin L
  <2>1. n + 1 \notin 1..n
    BY <1>1
  <2> HIDE DEF T, L
  <2> QED BY <1>2, <2>1
<1>4. 1..(n + 1) = (1..n) \cup {n + 1}
  BY <1>1
<1>5. \A j \in 1..n : (j \in T1 <=> j \in T) /\ (j \in L1 <=> j \in L)
  <2>1. \A j \in 1..n : j \in 1..(n + 1) /\ a[j] = q[j]
    BY <1>1, <1>4
  <2> QED BY <2>1 DEF Tally, Leaked
<1>6. (n + 1 \in T1 <=> Fits(e, h, kind, b)) /\ (n + 1 \in L1 <=> Fits(e, h, kind, b) /\ e.status = "Scheduled")
  BY <1>1, <1>4 DEF Tally, Leaked, Fits
<1>7. T1 \in SUBSET (1..(n + 1)) /\ L1 \in SUBSET (1..(n + 1))
  BY DEF Tally, Leaked
<1> HIDE DEF T, L, T1, L1
<1>8. /\ T1 = IF Fits(e, h, kind, b) THEN T \cup {n + 1} ELSE T
      /\ L1 = IF Fits(e, h, kind, b) /\ e.status = "Scheduled" THEN L \cup {n + 1} ELSE L
  <2>1. T1 \ {n + 1} = T /\ L1 \ {n + 1} = L
    <3>1. T \in SUBSET (1..n) /\ L \in SUBSET (1..n)
      BY <1>2
    <3>2. T1 \ {n + 1} \in SUBSET (1..n) /\ L1 \ {n + 1} \in SUBSET (1..n)
      BY <1>4, <1>7, Zenon
    <3>3. \A j \in 1..n : j # n + 1
      BY <1>1
    <3> QED BY <1>5, <3>1, <3>2, <3>3, Zenon
  <2> QED BY <1>6, <2>1, <1>3
<1>9. Cardinality(T \cup {n + 1}) = Cardinality(T) + 1 /\ Cardinality(L \cup {n + 1}) = Cardinality(L) + 1
  BY <1>2, <1>3, FS_AddElement
<1>10. Cardinality(T1) = Cardinality(T) + IF Fits(e, h, kind, b) THEN 1 ELSE 0
  BY <1>2, <1>8, <1>9
<1>11. Cardinality(L1) = Cardinality(L) + IF Fits(e, h, kind, b) /\ e.status = "Scheduled" THEN 1 ELSE 0
  BY <1>2, <1>8, <1>9
<1> QED BY <1>1, <1>10, <1>11 DEF a, n, T, L, T1, L1

LEMMA BearsIs ==
  ASSUME NEW e
  PROVE  /\ Bears(e, "calendar") <=> PastHorizon(Links[e.url], e.hours)
         /\ Bears(e, "session") <=> sessionViolation(Links[e.url])
         /\ Bears(e, "faceted") <=> facetViolation(Links[e.url])
BY DEF Bears

\* Violation names the pattern the discovery counts for.
LEMMA FirstKind ==
  ASSUME OneDate, NEW e, e.url \in DOMAIN Links, NEW i \in DOMAIN Hours, e.hours = Hours[i],
         NEW kind \in Violation(Links[e.url], e.hours)
  PROVE  /\ kind \in Kinds \cup {"none"}
         /\ \A k \in Kinds : Counts(e, k) <=> kind = k
         /\ kind = "none" <=> \A k \in Kinds : ~Bears(e, k)
<1> DEFINE l == Links[e.url]
<1>1. calendarViolation(l, e.hours) = {PastHorizon(l, e.hours)}
  BY Dated
<1> HIDE DEF l
<1>2. kind = IF PastHorizon(l, e.hours) THEN "calendar" ELSE IF sessionViolation(l) THEN "session"
             ELSE IF facetViolation(l) THEN "faceted" ELSE "none"
  BY <1>1 DEF Violation, l
<1>3. /\ Bears(e, "calendar") <=> PastHorizon(l, e.hours)
      /\ Bears(e, "session") <=> sessionViolation(l)
      /\ Bears(e, "faceted") <=> facetViolation(l)
  BY BearsIs DEF l
<1>4. kind = IF Bears(e, "calendar") THEN "calendar" ELSE IF Bears(e, "session") THEN "session"
             ELSE IF Bears(e, "faceted") THEN "faceted" ELSE "none"
  BY <1>2, <1>3
<1>5. /\ Counts(e, "calendar") <=> Bears(e, "calendar")
      /\ Counts(e, "session") <=> Bears(e, "session") /\ ~Bears(e, "calendar")
      /\ Counts(e, "faceted") <=> Bears(e, "faceted") /\ ~Bears(e, "calendar") /\ ~Bears(e, "session")
  BY DEF Counts
<1> QED BY <1>4, <1>5 DEF Kinds

\* Passes refuses what bears a flagged pattern.
LEMMA PassesIs ==
  ASSUME OneDate, NEW e, e.url \in DOMAIN Links, NEW i \in DOMAIN Hours, e.hours = Hours[i],
         NEW ht, ht.flagged \in SUBSET Kinds, NEW passes \in Passes(ht, Links[e.url], e.hours)
  PROVE  passes <=> \A k \in ht.flagged : ~Bears(e, k)
<1> DEFINE l == Links[e.url]
<1>1. calendarViolation(l, e.hours) = {PastHorizon(l, e.hours)}
  BY Dated
<1> HIDE DEF l
<1>2. passes <=> /\ "calendar" \in ht.flagged => ~PastHorizon(l, e.hours)
                 /\ "session" \in ht.flagged => ~sessionViolation(l)
                 /\ "faceted" \in ht.flagged => ~facetViolation(l)
  BY <1>1 DEF Passes, l
<1>3. /\ Bears(e, "calendar") <=> PastHorizon(l, e.hours)
      /\ Bears(e, "session") <=> sessionViolation(l)
      /\ Bears(e, "faceted") <=> facetViolation(l)
  BY BearsIs DEF l
<1> QED BY <1>2, <1>3 DEF Kinds

\* What Observe leaves of a host's counters.
Observed(ht, o, u, kind) ==
  /\ o \in HostTrap
  /\ o.cal = ht.cal + IF kind = "calendar" THEN 1 ELSE 0
  /\ o.fac = ht.fac + IF kind = "faceted" THEN 1 ELSE 0
  /\ \A b \in Paths : o.session[b] = ht.session[b] + IF kind = "session" /\ Links[u].path = b THEN 1 ELSE 0
  /\ o.seen \subseteq ht.seen \cup {u}
  /\ \A k \in Kinds : k \in o.flagged <=>
       \/ k \in ht.flagged
       \/ k = kind /\ (CASE kind = "calendar" -> o.cal
                         [] kind = "faceted"  -> o.fac
                         [] kind = "session"  -> o.session[Links[u].path]) >= FlagThreshold

LEMMA ObserveIs ==
  ASSUME NEW ht \in HostTrap, NEW u \in DOMAIN Links, u \notin ht.seen, NEW kind \in Kinds \cup {"none"}
  PROVE  Observed(ht, Observe(ht, u, kind), u, kind)
<1> DEFINE base == Links[u].path
           o == Observe(ht, u, kind)
           new == [ht EXCEPT !.cal = IF kind = "calendar" THEN @ + 1 ELSE @,
                             !.fac = IF kind = "faceted" THEN @ + 1 ELSE @,
                             !.session[base] = IF kind = "session" THEN @ + 1 ELSE @,
                             !.seen = @ \cup {u}]
           count == CASE kind = "calendar" -> new.cal
                      [] kind = "faceted"  -> new.fac
                      [] kind = "session"  -> new.session[base]
<1>1. /\ ht.cal \in Nat /\ ht.fac \in Nat /\ ht.session \in [Paths -> Nat]
      /\ ht.flagged \in SUBSET Kinds /\ ht.seen \in SUBSET DOMAIN Links
      /\ ht = [cal |-> ht.cal, fac |-> ht.fac, session |-> ht.session, flagged |-> ht.flagged, seen |-> ht.seen]
  BY DEF HostTrap
<1>2. base \in Paths
  BY DEF Paths
<1> HIDE DEF base
<1>3. CASE kind = "none"
  <2>1. o = ht
    BY <1>3 DEF Observe
  <2> HIDE DEF o
  <2>2. kind \notin Kinds /\ kind # "calendar" /\ kind # "faceted" /\ kind # "session"
    BY <1>3 DEF Kinds
  <2>3. \A b \in Paths : ht.session[b] \in Nat
    BY <1>1
  <2>4. \A k \in Kinds : k # kind
    BY <2>2
  <2>5. \A k \in Kinds : k \in o.flagged <=>
          \/ k \in ht.flagged
          \/ k = kind /\ (CASE kind = "calendar" -> o.cal
                            [] kind = "faceted"  -> o.fac
                            [] kind = "session"  -> o.session[Links[u].path]) >= FlagThreshold
    BY <2>1, <2>4
  <2>6. /\ o.cal = ht.cal + IF kind = "calendar" THEN 1 ELSE 0
        /\ o.fac = ht.fac + IF kind = "faceted" THEN 1 ELSE 0
        /\ \A b \in Paths : o.session[b] = ht.session[b] + IF kind = "session" /\ Links[u].path = b THEN 1 ELSE 0
    BY <1>1, <2>1, <2>2, <2>3
  <2> QED BY <2>1, <2>5, <2>6 DEF Observed, o
<1>4. CASE kind \in Kinds
  <2>1. /\ new.cal = ht.cal + IF kind = "calendar" THEN 1 ELSE 0
        /\ new.fac = ht.fac + IF kind = "faceted" THEN 1 ELSE 0
        /\ new.session = [b \in Paths |-> ht.session[b] + IF kind = "session" /\ base = b THEN 1 ELSE 0]
        /\ new.seen = ht.seen \cup {u}
        /\ new.flagged = ht.flagged
        /\ new = [cal |-> new.cal, fac |-> new.fac, session |-> new.session,
                  flagged |-> new.flagged, seen |-> new.seen]
    <3>1. \A b \in Paths : ht.session[b] \in Nat
      BY <1>1
    <3>2. new.session = [ht.session EXCEPT ![base] = IF kind = "session" THEN @ + 1 ELSE @]
      BY <1>1
    <3>3. [ht.session EXCEPT ![base] = IF kind = "session" THEN @ + 1 ELSE @]
            = [b \in Paths |-> ht.session[b] + IF kind = "session" /\ base = b THEN 1 ELSE 0]
      BY <1>1, <1>2, <3>1
    <3>4. /\ DOMAIN new = {"cal", "fac", "session", "flagged", "seen"}
          /\ new.seen = ht.seen \cup {u} /\ new.flagged = ht.flagged
          /\ new.cal = IF kind = "calendar" THEN ht.cal + 1 ELSE ht.cal
          /\ new.fac = IF kind = "faceted" THEN ht.fac + 1 ELSE ht.fac
          /\ new = [x \in DOMAIN new |-> new[x]]
      BY <1>1
    <3> HIDE DEF new
    <3>5. new = [cal |-> new.cal, fac |-> new.fac, session |-> new.session,
                 flagged |-> new.flagged, seen |-> new.seen]
      BY <3>4
    <3>6. /\ new.cal = ht.cal + IF kind = "calendar" THEN 1 ELSE 0
          /\ new.fac = ht.fac + IF kind = "faceted" THEN 1 ELSE 0
      BY <1>1, <3>4
    <3> QED BY <3>2, <3>3, <3>4, <3>5, <3>6
  <2>2. kind # "none"
    BY <1>4 DEF Kinds
  <2>3. o = [new EXCEPT !.flagged = IF Crosses(count) THEN @ \cup {kind} ELSE @]
    BY <2>2 DEF Observe, base
  <2> HIDE DEF o, new
  <2>4. /\ o.cal = new.cal /\ o.fac = new.fac /\ o.session = new.session /\ o.seen = new.seen
        /\ o.flagged = IF Crosses(count) THEN ht.flagged \cup {kind} ELSE ht.flagged
        /\ o = [cal |-> o.cal, fac |-> o.fac, session |-> o.session, flagged |-> o.flagged, seen |-> o.seen]
    BY <2>1, <2>3
  <2>5. o \in HostTrap
    <3>1. o.cal \in Nat /\ o.fac \in Nat
      BY <1>1, <2>1, <2>4
    <3>2. o.session \in [Paths -> Nat]
      <4>1. \A b \in Paths : ht.session[b] + (IF kind = "session" /\ base = b THEN 1 ELSE 0) \in Nat
        BY <1>1
      <4> QED BY <2>1, <2>4, <4>1
    <3>3. o.flagged \in SUBSET Kinds /\ o.seen \in SUBSET DOMAIN Links
      BY <1>1, <1>4, <2>1, <2>4
    <3> QED BY <2>4, <3>1, <3>2, <3>3 DEF HostTrap
  <2>6. \A b \in Paths : o.session[b] = ht.session[b] + IF kind = "session" /\ base = b THEN 1 ELSE 0
    BY <2>1, <2>4
  <2>7. count = CASE kind = "calendar" -> o.cal
                  [] kind = "faceted"  -> o.fac
                  [] kind = "session"  -> o.session[base]
    BY <2>4
  <2> HIDE DEF count
  <2>8. \A k \in Kinds : k \in o.flagged <=> k \in ht.flagged \/ (k = kind /\ count >= FlagThreshold)
    BY <2>4 DEF Crosses
  <2>9. \A k \in Kinds : k \in o.flagged <=>
          \/ k \in ht.flagged
          \/ k = kind /\ (CASE kind = "calendar" -> o.cal
                            [] kind = "faceted"  -> o.fac
                            [] kind = "session"  -> o.session[base]) >= FlagThreshold
    BY <2>7, <2>8
  <2> QED BY <2>1, <2>4, <2>5, <2>6, <2>9 DEF Observed, o, base
<1> QED BY <1>3, <1>4

\* The counters stay true to what was met, and the flags to the counters.
LEMMA ObserveCounts ==
  ASSUME NEW q \in Seq(Met), NEW e \in Met, NEW ht \in HostTrap, NEW kind \in Kinds \cup {"none"}, NEW o,
         \A k \in Kinds : Counts(e, k) <=> kind = k,
         Observed(ht, o, e.url, kind), Counted(ht, q, Links[e.url].host), Flagged(ht)
  PROVE  Counted(o, Append(q, e), Links[e.url].host) /\ Flagged(o)
<1> DEFINE a == Append(q, e)
           h == Links[e.url].host
           Card(k, b) == Cardinality(Tally(q, h, k, b, Len(q)))
           Card1(k, b) == Cardinality(Tally(a, h, k, b, Len(a)))
           Fit(k, b) == Fits(e, h, k, b)
<1>1. \A k, b : Card1(k, b) = Card(k, b) + IF Fit(k, b) THEN 1 ELSE 0
  BY TallyNext
<1>2. \A k \in Kinds : \A b : Fit(k, b) <=> kind = k /\ (k = "session" => Links[e.url].path = b)
  BY DEF Fits
<1>3. /\ Fit("calendar", <<>>) <=> kind = "calendar"
      /\ Fit("faceted", <<>>) <=> kind = "faceted"
      /\ \A b : Fit("session", b) <=> kind = "session" /\ Links[e.url].path = b
  BY <1>2 DEF Kinds
<1>4. /\ ht.cal = Card("calendar", <<>>) /\ ht.fac = Card("faceted", <<>>)
      /\ \A b \in Paths : ht.session[b] = Card("session", b)
  BY DEF Counted
<1> HIDE DEF Card, Card1, Fit
<1>5. /\ o.cal = Card1("calendar", <<>>) /\ o.fac = Card1("faceted", <<>>)
      /\ \A b \in Paths : o.session[b] = Card1("session", b)
  BY <1>1, <1>3, <1>4 DEF Observed
<1>6. Counted(o, a, h)
  BY <1>5 DEF Counted, Card1
<1> HIDE DEF a, h
<1>7. /\ ht.cal \in Nat /\ ht.fac \in Nat /\ FlagThreshold \in Nat
      /\ \A b \in Paths : ht.session[b] \in Nat
  BY TrapAssumption DEF HostTrap
<1>8. "calendar" \in o.flagged <=> o.cal >= FlagThreshold
  <2>1. "calendar" \in o.flagged <=> "calendar" \in ht.flagged \/ (kind = "calendar" /\ o.cal >= FlagThreshold)
    BY DEF Observed, Kinds
  <2>2. o.cal = ht.cal + IF kind = "calendar" THEN 1 ELSE 0
    BY DEF Observed
  <2>3. "calendar" \in ht.flagged <=> ht.cal >= FlagThreshold
    BY DEF Flagged
  <2> QED BY <1>7, <2>1, <2>2, <2>3
<1>9. "faceted" \in o.flagged <=> o.fac >= FlagThreshold
  <2>1. "faceted" \in o.flagged <=> "faceted" \in ht.flagged \/ (kind = "faceted" /\ o.fac >= FlagThreshold)
    BY DEF Observed, Kinds
  <2>2. o.fac = ht.fac + IF kind = "faceted" THEN 1 ELSE 0
    BY DEF Observed
  <2>3. "faceted" \in ht.flagged <=> ht.fac >= FlagThreshold
    BY DEF Flagged
  <2> QED BY <1>7, <2>1, <2>2, <2>3
<1>10. "session" \in o.flagged <=> \E b \in Paths : o.session[b] >= FlagThreshold
  <2> DEFINE base == Links[e.url].path
  <2>1. "session" \in o.flagged <=> "session" \in ht.flagged \/ (kind = "session" /\ o.session[base] >= FlagThreshold)
    BY DEF Observed, Kinds
  <2>2. \A b \in Paths : o.session[b] = ht.session[b] + IF kind = "session" /\ base = b THEN 1 ELSE 0
    BY DEF Observed
  <2>3. "session" \in ht.flagged <=> \E b \in Paths : ht.session[b] >= FlagThreshold
    BY DEF Flagged
  <2>4. base \in Paths
    BY DEF Paths, Met
  <2> HIDE DEF base
  <2>5. \A b \in Paths : ht.session[b] >= FlagThreshold => o.session[b] >= FlagThreshold
    BY <1>7, <2>2
  <2>6. \A b \in Paths : o.session[b] >= FlagThreshold =>
          ht.session[b] >= FlagThreshold \/ (kind = "session" /\ base = b)
    BY <1>7, <2>2
  <2> QED BY <2>1, <2>3, <2>4, <2>5, <2>6
<1> QED BY <1>6, <1>8, <1>9, <1>10 DEF Flagged, a, h

LEMMA OtherCounts ==
  ASSUME NEW q \in Seq(Met), NEW e \in Met, NEW ht, NEW h, h # Links[e.url].host, Counted(ht, q, h)
  PROVE  Counted(ht, Append(q, e), h)
<1> DEFINE a == Append(q, e)
<1>1. \A k, b : Cardinality(Tally(a, h, k, b, Len(a))) = Cardinality(Tally(q, h, k, b, Len(q))) + 0
  <2>1. \A k, b : ~Fits(e, h, k, b)
    BY DEF Fits
  <2> QED BY <2>1, TallyNext
<1>2. \A k, b : Cardinality(Tally(q, h, k, b, Len(q))) \in Nat
  BY TallyFinite
<1>3. \A k, b : Cardinality(Tally(a, h, k, b, Len(a))) = Cardinality(Tally(q, h, k, b, Len(q)))
  BY <1>1, <1>2
<1> QED BY <1>3 DEF Counted

-----------------------------------------------------------------------------
(* The verdict on a discovery. *)

\* The verdict as Discover reaches it: t and o are the host's counters before
\* and after, kind the pattern named.
Ruled(e, t, o, kind) ==
  \E passes \in PatternPass(o, Links[e.url], (t.flagged = {} /\ o.flagged # {}) \/ e.flagged, e.hours) :
    e.status = Admit(Links[e.url].depth, e.count, (t.flagged = {} /\ o.flagged # {}) \/ e.flagged, passes)

LEMMA Verdict ==
  ASSUME OneDate, NEW e \in Met, NEW i \in DOMAIN Hours, e.hours = Hours[i],
         NEW t, NEW o \in HostTrap, t.flagged # {} => e.flagged,
         NEW kind \in Violation(Links[e.url], e.hours), Ruled(e, t, o, kind)
  PROVE  /\ \A k \in o.flagged : Bears(e, k) => e.status = "Trapped"
         /\ o.flagged = {} /\ e.flagged /\ (\E k \in Kinds : Bears(e, k)) => e.status = "Trapped"
         /\ e.status = "Trapped" =>
              \/ \E k \in Kinds : Bears(e, k)
              \/ URLBudget > 0 /\ e.count >= URLBudget
              \/ DepthCap > 0 /\ Links[e.url].depth > DepthCap
<1> DEFINE l == Links[e.url]
           fl == (t.flagged = {} /\ o.flagged # {}) \/ e.flagged
           none == \A k \in Kinds : ~Bears(e, k)
           clean == \A k \in o.flagged : ~Bears(e, k)
<1>1. e.url \in DOMAIN Links /\ o.flagged \in SUBSET Kinds
  BY DEF Met, HostTrap
<1>2. PICK passes \in PatternPass(o, l, fl, e.hours) : e.status = Admit(l.depth, e.count, fl, passes)
  BY DEF Ruled
<1>3. o.flagged # {} => fl
  OBVIOUS
<1> HIDE DEF l, fl
<1>4. \A x \in Violation(Links[e.url], e.hours) : x = "none" <=> none
  BY <1>1, FirstKind
<1>5. CASE fl /\ o.flagged = {}
  <2>1. passes \in {x = "none" : x \in Violation(l, e.hours)}
    BY <1>2, <1>5 DEF PatternPass
  <2>2. passes <=> none
    BY <1>4, <2>1 DEF l
  <2>3. e.status = "Trapped" <=>
          (DepthCap > 0 /\ l.depth > DepthCap) \/ (URLBudget > 0 /\ e.count >= URLBudget) \/ ~passes
    BY <1>2, <1>5 DEF Admit
  <2> QED BY <1>5, <2>2, <2>3 DEF l
<1>6. CASE ~(fl /\ o.flagged = {})
  <2>1. passes \in Passes(o, Links[e.url], e.hours)
    BY <1>2, <1>6 DEF PatternPass, l
  <2>2. passes <=> clean
    BY <1>1, <2>1, PassesIs
  <2>3. e.status = "Trapped" <=>
          (DepthCap > 0 /\ l.depth > DepthCap) \/ (URLBudget > 0 /\ e.count >= URLBudget) \/ (fl /\ ~passes)
    BY <1>2 DEF Admit
  <2>4. o.flagged = {} => ~e.flagged
    BY <1>6 DEF fl
  <2> QED BY <1>1, <1>3, <2>2, <2>3, <2>4 DEF l
<1> QED BY <1>5, <1>6

\* What was judged before stays judged.
LEMMA JudgedBefore ==
  ASSUME NEW q \in Seq(Met), NEW e \in Met, NEW i \in 1..Len(q), Judged(q, i)
  PROVE  Judged(Append(q, e), i)
<1> DEFINE a == Append(q, e)
<1>1. Len(q) \in Nat /\ \A j \in 1..Len(q) : a[j] = q[j]
  OBVIOUS
<1> HIDE DEF a
<1>2. \A j \in 1..(i - 1) : a[j] = q[j]
  BY <1>1
<1>3. a[i] = q[i]
  BY <1>1
<1>4. \A kind : {j \in 1..(i - 1) : Links[a[j].url].host = Links[a[i].url].host /\ Counts(a[j], kind)}
                = {j \in 1..(i - 1) : Links[q[j].url].host = Links[q[i].url].host /\ Counts(q[j], kind)}
  BY <1>2, <1>3
<1>5. Judged(a, i) <=> Judged(q, i)
  BY <1>3, <1>4 DEF Judged
<1> QED BY <1>5 DEF a

LEMMA JudgedNow ==
  ASSUME OneDate, NEW q \in Seq(Met), NEW e \in Met, NEW i \in DOMAIN Hours, e.hours = Hours[i],
         NEW t \in HostTrap, NEW kind \in Violation(Links[e.url], e.hours), NEW o,
         t.flagged # {} => e.flagged, Observed(t, o, e.url, kind), Ruled(e, t, o, kind),
         Counted(t, q, Links[e.url].host), Flagged(t), Flagged(o)
  PROVE  Judged(Append(q, e), Len(q) + 1)
<1> DEFINE a == Append(q, e)
           n == Len(q)
           h == Links[e.url].host
           Before(k) == {j \in 1..n : Links[q[j].url].host = h /\ Counts(q[j], k)}
<1>1. n \in Nat /\ (\A j \in 1..n : a[j] = q[j]) /\ a[n + 1] = e /\ (n + 1) - 1 = n
  OBVIOUS
<1>2. \A k : {j \in 1..n : Links[a[j].url].host = h /\ Counts(a[j], k)} = Before(k)
  <2> HIDE DEF a, n
  <2> QED BY <1>1
<1>3. o \in HostTrap /\ o.flagged \in SUBSET Kinds
  BY DEF Observed, HostTrap
<1>4. /\ \A k \in o.flagged : Bears(e, k) => e.status = "Trapped"
      /\ o.flagged = {} /\ e.flagged /\ (\E k \in Kinds : Bears(e, k)) => e.status = "Trapped"
      /\ e.status = "Trapped" =>
           \/ \E k \in Kinds : Bears(e, k)
           \/ URLBudget > 0 /\ e.count >= URLBudget
           \/ DepthCap > 0 /\ Links[e.url].depth > DepthCap
  BY <1>3, Verdict
<1> HIDE DEF a, n, h
<1>5. t.flagged \subseteq o.flagged
  <2>1. t.flagged \subseteq Kinds
    BY DEF HostTrap
  <2> QED BY <2>1 DEF Observed
<1>6. \A k \in {"calendar", "faceted"} : Before(k) = Tally(q, h, k, <<>>, n)
  BY DEF Tally
<1>7. t.cal = Cardinality(Before("calendar")) /\ t.fac = Cardinality(Before("faceted"))
  <2>1. t.cal = Cardinality(Tally(q, h, "calendar", <<>>, n)) /\ t.fac = Cardinality(Tally(q, h, "faceted", <<>>, n))
    BY DEF Counted, n, h
  <2> QED BY <1>6, <2>1
<1>8. \A k \in {"calendar", "faceted"} : Cardinality(Before(k)) >= FlagThreshold => k \in o.flagged
  BY <1>5, <1>7 DEF Flagged
<1>9. \A b \in Paths : t.session[b] \in Nat /\ t.session[b] <= Cardinality(Before("session"))
                       /\ Cardinality(Before("session")) \in Nat
  <2> SUFFICES ASSUME NEW b \in Paths
               PROVE  t.session[b] \in Nat /\ t.session[b] <= Cardinality(Before("session"))
                      /\ Cardinality(Before("session")) \in Nat
    OBVIOUS
  <2>1. t.session[b] = Cardinality(Tally(q, h, "session", b, n))
    BY DEF Counted, n, h
  <2>2. Before("session") \in SUBSET (1..n) /\ Tally(q, h, "session", b, n) \in SUBSET Before("session")
    BY DEF Tally
  <2>3. IsFiniteSet(1..n)
    BY <1>1, FS_Interval
  <2> HIDE DEF Before
  <2>4. IsFiniteSet(Before("session"))
    BY <2>2, <2>3, FS_Subset
  <2>5. /\ IsFiniteSet(Tally(q, h, "session", b, n))
        /\ Cardinality(Tally(q, h, "session", b, n)) <= Cardinality(Before("session"))
    BY <2>2, <2>4, FS_Subset
  <2>6. Cardinality(Tally(q, h, "session", b, n)) \in Nat /\ Cardinality(Before("session")) \in Nat
    BY <2>4, <2>5, FS_CardinalityType
  <2> QED BY <2>1, <2>5, <2>6
<1> HIDE DEF Before
<1>10. (\A k \in Kinds : Cardinality(Before(k)) + 1 < FlagThreshold) => o.flagged = {}
  <2> SUFFICES ASSUME \A k \in Kinds : Cardinality(Before(k)) + 1 < FlagThreshold
               PROVE  o.flagged = {}
    OBVIOUS
  <2>1. FlagThreshold \in Nat /\ t.cal \in Nat /\ t.fac \in Nat
    BY TrapAssumption DEF HostTrap
  <2>2. /\ Cardinality(Before("calendar")) + 1 < FlagThreshold
        /\ Cardinality(Before("faceted")) + 1 < FlagThreshold
        /\ Cardinality(Before("session")) + 1 < FlagThreshold
    BY DEF Kinds
  <2>3. o.cal < FlagThreshold /\ o.cal \in Nat
    <3>1. o.cal = t.cal + IF kind = "calendar" THEN 1 ELSE 0
      BY DEF Observed
    <3> QED BY <1>7, <2>1, <2>2, <3>1
  <2>4. o.fac < FlagThreshold /\ o.fac \in Nat
    <3>1. o.fac = t.fac + IF kind = "faceted" THEN 1 ELSE 0
      BY DEF Observed
    <3> QED BY <1>7, <2>1, <2>2, <3>1
  <2>5. \A b \in Paths : o.session[b] < FlagThreshold /\ o.session[b] \in Nat
    <3> SUFFICES ASSUME NEW b \in Paths PROVE o.session[b] < FlagThreshold /\ o.session[b] \in Nat
      OBVIOUS
    <3>1. o.session[b] = t.session[b] + IF kind = "session" /\ Links[e.url].path = b THEN 1 ELSE 0
      BY DEF Observed
    <3>2. o.session[b] = t.session[b] \/ o.session[b] = t.session[b] + 1
      BY <1>9, <3>1
    <3> QED BY <1>9, <2>1, <2>2, <3>2
  <2>6. ~(o.cal >= FlagThreshold) /\ ~(o.fac >= FlagThreshold) /\ \A b \in Paths : ~(o.session[b] >= FlagThreshold)
    BY <2>1, <2>3, <2>4, <2>5
  <2>7. "calendar" \notin o.flagged /\ "faceted" \notin o.flagged /\ "session" \notin o.flagged
    BY <2>6 DEF Flagged
  <2> QED BY <1>3, <2>7 DEF Kinds
<1>11. \A k : {j \in 1..((n + 1) - 1) : Links[a[j].url].host = Links[a[n + 1].url].host /\ Counts(a[j], k)} = Before(k)
  BY <1>1, <1>2 DEF h
<1>12. Judged(a, n + 1)
  <2>1. \A k \in {"calendar", "faceted"} :
          Bears(e, k) /\ Cardinality(Before(k)) >= FlagThreshold => e.status = "Trapped"
    BY <1>4, <1>8
  <2>2. e.flagged /\ (\A k \in Kinds : Cardinality(Before(k)) + 1 < FlagThreshold)
        /\ (\E k \in Kinds : Bears(e, k)) => e.status = "Trapped"
    BY <1>4, <1>10
  <2> QED BY <1>1, <1>4, <1>11, <2>1, <2>2 DEF Judged
<1> QED BY <1>12 DEF a, n

\* Fewer than the threshold leak.
LEMMA LeakBounded ==
  ASSUME OneDate, NEW q \in Seq(Met), NEW e \in Met, NEW i \in DOMAIN Hours, e.hours = Hours[i],
         NEW t \in HostTrap, NEW kind \in Violation(Links[e.url], e.hours), NEW o,
         t.flagged # {} => e.flagged, Observed(t, o, e.url, kind), Ruled(e, t, o, kind),
         Counted(o, Append(q, e), Links[e.url].host), Flagged(o),
         NEW h, NEW k \in Kinds, NEW b \in Paths,
         Cardinality(Leaked(q, h, k, b, Len(q))) < FlagThreshold
  PROVE  Cardinality(Leaked(Append(q, e), h, k, b, Len(Append(q, e)))) < FlagThreshold
<1> DEFINE a == Append(q, e)
           old == Cardinality(Leaked(q, h, k, b, Len(q)))
           now == Cardinality(Leaked(a, h, k, b, Len(a)))
           all == Cardinality(Tally(a, h, k, b, Len(a)))
<1>1. now = old + IF Fits(e, h, k, b) /\ e.status = "Scheduled" THEN 1 ELSE 0
  BY TallyNext
<1>2. Len(q) \in Nat /\ Len(a) \in Nat
  OBVIOUS
<1>3. old \in Nat /\ now \in Nat /\ all \in Nat /\ now <= all /\ FlagThreshold \in Nat
  BY <1>2, TallyFinite, TrapAssumption
<1> SUFFICES ASSUME ~(now < FlagThreshold) PROVE FALSE
  OBVIOUS
<1>4. Fits(e, h, k, b) /\ e.status = "Scheduled"
  <2> HIDE DEF now, old, all
  <2> QED BY <1>1, <1>3 DEF old
<1>5. all >= FlagThreshold
  <2> HIDE DEF now, old, all
  <2> QED BY <1>3
<1>6. h = Links[e.url].host /\ Counts(e, k) /\ (k = "session" => Links[e.url].path = b)
  BY <1>4 DEF Fits
<1>7. k \in o.flagged
  <2>1. CASE k = "calendar"
    <3>1. all = o.cal
      <4>1. Tally(a, h, k, b, Len(a)) = Tally(a, h, k, <<>>, Len(a))
        BY <2>1 DEF Tally
      <4> QED BY <1>6, <2>1, <4>1 DEF Counted
    <3> HIDE DEF all
    <3> QED BY <1>5, <2>1, <3>1 DEF Flagged
  <2>2. CASE k = "faceted"
    <3>1. all = o.fac
      <4>1. Tally(a, h, k, b, Len(a)) = Tally(a, h, k, <<>>, Len(a))
        BY <2>2 DEF Tally
      <4> QED BY <1>6, <2>2, <4>1 DEF Counted
    <3> HIDE DEF all
    <3> QED BY <1>5, <2>2, <3>1 DEF Flagged
  <2>3. CASE k = "session"
    <3>1. all = o.session[b]
      BY <1>6, <2>3 DEF Counted
    <3> HIDE DEF all
    <3> QED BY <1>5, <2>3, <3>1 DEF Flagged
  <2> QED BY <2>1, <2>2, <2>3 DEF Kinds
<1>8. Bears(e, k)
  BY <1>6 DEF Counts
<1>9. o \in HostTrap
  BY DEF Observed
<1>10. e.status = "Trapped"
  BY <1>7, <1>8, <1>9, Verdict
<1> QED BY <1>4, <1>10

-----------------------------------------------------------------------------
(* The detector of every behaviour. *)

LEMMA DiscoverKeeps ==
  ASSUME OneDate, TrapInv, NEW u \in DOMAIN Links, TrapDiscover(u)
  PROVE  TrapInv'
<1> DEFINE l == Links[u]
           h == l.host
           hours == Hours[clock]
<1>1. /\ clock \in DOMAIN Hours /\ met \in Seq(Met) /\ traps \in [TrapHosts -> HostTrap]
      /\ rows \in [DOMAIN Links -> {"none", "Scheduled", "Trapped"}]
      /\ h \in TrapHosts /\ traps[h] \in HostTrap /\ hours \in Nat
  <2>1. hours \in Nat
    BY TrapAssumption DEF TrapInv
  <2> QED BY <2>1 DEF TrapInv, TrapHosts
<1>2. PICK q : q = met
  OBVIOUS
<1>3. PICK t : t = traps[h]
  OBVIOUS
<1>4. PICK kind \in Violation(l, hours) :
        LET ht == Observe(traps[h], u, kind)
            newly == traps[h].flagged = {} /\ ht.flagged # {}
            flagged == newly \/ h \in suspect
        IN \E passes \in PatternPass(ht, l, flagged, hours) :
             LET status == Admit(l.depth, URLCount(h), flagged, passes)
             IN /\ traps' = [traps EXCEPT ![h] = ht]
                /\ suspect' = IF newly THEN suspect \cup {h} ELSE suspect
                /\ rows' = [rows EXCEPT ![u] = status]
                /\ met' = Append(met, [url |-> u, hours |-> hours, status |-> status,
                                       flagged |-> h \in suspect, count |-> URLCount(h)])
  BY DEF TrapDiscover
<1>5. PICK o : o = Observe(t, u, kind)
  OBVIOUS
<1> DEFINE newly == t.flagged = {} /\ o.flagged # {}
           fl == newly \/ h \in suspect
<1>6. PICK passes \in PatternPass(o, l, fl, hours) :
        LET status == Admit(l.depth, URLCount(h), fl, passes)
        IN /\ traps' = [traps EXCEPT ![h] = o]
           /\ suspect' = IF newly THEN suspect \cup {h} ELSE suspect
           /\ rows' = [rows EXCEPT ![u] = status]
           /\ met' = Append(met, [url |-> u, hours |-> hours, status |-> status,
                                  flagged |-> h \in suspect, count |-> URLCount(h)])
  BY <1>3, <1>4, <1>5
<1>7. PICK e : e = [url |-> u, hours |-> hours, status |-> Admit(l.depth, URLCount(h), fl, passes),
                    flagged |-> h \in suspect, count |-> URLCount(h)]
  OBVIOUS
<1>8. /\ e.url = u /\ e.hours = hours /\ e.status = Admit(l.depth, URLCount(h), fl, passes)
      /\ e.flagged <=> h \in suspect
      /\ e.count = URLCount(h)
  BY <1>7
<1>9. e \in Met
  <2>1. Admit(l.depth, URLCount(h), fl, passes) \in {"Scheduled", "Trapped"}
    BY DEF Admit
  <2>2. URLCount(h) \in Nat
    <3> DEFINE S == {v \in DOMAIN Links : Links[v].host = h /\ rows[v] # "none"}
    <3>1. S \in SUBSET DOMAIN Links
      OBVIOUS
    <3> HIDE DEF S
    <3>2. IsFiniteSet(S)
      BY <3>1, TrapAssumption, FS_Subset
    <3>3. Cardinality(S) \in Nat
      BY <3>2, FS_CardinalityType
    <3> QED BY <3>3 DEF URLCount, S
  <2>3. (h \in suspect) \in BOOLEAN
    OBVIOUS
  <2> HIDE DEF l, h, hours, fl
  <2> QED BY <1>1, <1>7, <2>1, <2>2, <2>3 DEF Met
<1>10. /\ traps' = [traps EXCEPT ![h] = o]
       /\ suspect' = IF newly THEN suspect \cup {h} ELSE suspect
       /\ rows' = [rows EXCEPT ![u] = e.status]
       /\ met' = Append(q, e)
       /\ clock' = clock /\ rows[u] = "none"
  <2>1. clock' = clock /\ rows[u] = "none"
    BY DEF TrapDiscover
  <2> QED BY <1>2, <1>6, <1>7, <1>8, <2>1
<1>11. kind \in Kinds \cup {"none"} /\ \A k \in Kinds : Counts(e, k) <=> kind = k
  BY <1>1, <1>8, FirstKind
<1>12. /\ t \in HostTrap /\ u \notin t.seen /\ Counted(t, q, h) /\ Flagged(t)
       /\ t.flagged # {} => e.flagged
  <2>1. /\ \A v \in traps[h].seen : rows[v] # "none"
        /\ Counted(traps[h], met, h) /\ Flagged(traps[h])
        /\ traps[h].flagged # {} => h \in suspect
    BY <1>1 DEF TrapInv
  <2> QED BY <1>1, <1>2, <1>3, <1>8, <1>10, <2>1
<1>13. Observed(t, o, e.url, kind)
  BY <1>5, <1>8, <1>11, <1>12, ObserveIs
<1>14. kind \in Violation(Links[e.url], e.hours) /\ Ruled(e, t, o, kind) /\ Links[e.url].host = h
       /\ e.hours = Hours[clock]
  <2>1. (newly \/ e.flagged) <=> fl
    BY <1>8
  <2>2. passes \in PatternPass(o, l, newly \/ e.flagged, hours)
    BY <1>6, <2>1
  <2>3. e.status = Admit(l.depth, e.count, newly \/ e.flagged, passes)
    BY <1>8, <2>1
  <2> QED BY <1>4, <1>8, <2>2, <2>3 DEF Ruled
<1>15. PICK i \in DOMAIN Hours : i = clock
  BY <1>1
<1>16. q \in Seq(Met)
  BY <1>1, <1>2
<1> HIDE DEF l, h, hours, fl, newly
<1>17. Counted(o, Append(q, e), h) /\ Flagged(o)
  BY <1>9, <1>11, <1>12, <1>13, <1>14, <1>16, ObserveCounts
<1>18. o \in HostTrap /\ o.seen \subseteq t.seen \cup {u}
  BY <1>8, <1>13 DEF Observed
<1>19. traps' \in [TrapHosts -> HostTrap] /\ traps'[h] = o /\ \A g \in TrapHosts : g # h => traps'[g] = traps[g]
  BY <1>1, <1>10, <1>18
<1>20. /\ met' \in Seq(Met) /\ Len(met') = Len(q) + 1 /\ DOMAIN met' = 1..(Len(q) + 1) /\ Len(q) \in Nat
       /\ DOMAIN q = 1..Len(q)
  BY <1>9, <1>10, <1>16
<1>21. e.status \in {"Scheduled", "Trapped"}
  BY <1>9 DEF Met
<1>22. rows' \in [DOMAIN Links -> {"none", "Scheduled", "Trapped"}] /\ rows'[u] # "none"
       /\ \A v \in DOMAIN Links : rows[v] # "none" => rows'[v] # "none"
  BY <1>1, <1>10, <1>21
<1>23. ASSUME NEW g \in TrapHosts
       PROVE  /\ \A v \in traps'[g].seen : rows'[v] # "none"
              /\ Counted(traps'[g], met', g) /\ Flagged(traps'[g])
              /\ traps'[g].flagged # {} => g \in suspect'
              /\ \A k \in Kinds, b \in Paths : Cardinality(Leaked(met', g, k, b, Len(met'))) < FlagThreshold
  <2>1. /\ \A v \in traps[g].seen : rows[v] # "none" /\ v \in DOMAIN Links
        /\ Counted(traps[g], met, g) /\ Flagged(traps[g])
        /\ traps[g].flagged # {} => g \in suspect
        /\ \A k \in Kinds, b \in Paths : Cardinality(Leaked(met, g, k, b, Len(met))) < FlagThreshold
    <3>1. traps[g].seen \in SUBSET DOMAIN Links
      BY <1>1 DEF HostTrap
    <3> QED BY <3>1 DEF TrapInv
  <2>2. \A v \in traps'[g].seen : rows'[v] # "none"
    BY <1>3, <1>18, <1>19, <1>22, <2>1
  <2>3. Counted(traps'[g], met', g) /\ Flagged(traps'[g])
    <3>1. CASE g = h
      BY <1>10, <1>17, <1>19, <3>1
    <3>2. CASE g # h
      <4>1. PICK tg : tg = traps[g]
        OBVIOUS
      <4>2. Counted(tg, Append(q, e), g)
        BY <1>2, <1>9, <1>14, <1>16, <2>1, <3>2, <4>1, OtherCounts
      <4> QED BY <1>10, <1>19, <2>1, <3>2, <4>1, <4>2
    <3> QED BY <3>1, <3>2
  <2>4. traps'[g].flagged # {} => g \in suspect'
    <3>1. CASE g = h
      <4>1. o.flagged # {} => newly \/ h \in suspect
        BY <1>8, <1>12 DEF newly
      <4> QED BY <1>10, <1>19, <3>1, <4>1
    <3>2. CASE g # h
      BY <1>10, <1>19, <2>1, <3>2
    <3> QED BY <3>1, <3>2
  <2>5. ASSUME NEW k \in Kinds, NEW b \in Paths
        PROVE  Cardinality(Leaked(met', g, k, b, Len(met'))) < FlagThreshold
    <3>1. Cardinality(Leaked(q, g, k, b, Len(q))) < FlagThreshold
      BY <1>2, <2>1
    <3>2. Cardinality(Leaked(Append(q, e), g, k, b, Len(Append(q, e)))) < FlagThreshold
      BY <1>9, <1>12, <1>13, <1>14, <1>15, <1>16, <1>17, <3>1, LeakBounded
    <3> QED BY <1>10, <3>2
  <2> QED BY <2>2, <2>3, <2>4, <2>5
<1>24. ASSUME NEW j \in DOMAIN met' PROVE Judged(met', j)
  <2>1. CASE j \in 1..Len(q)
    <3>1. Judged(q, j)
      BY <1>2, <1>20, <2>1 DEF TrapInv
    <3> QED BY <1>9, <1>10, <1>16, <2>1, <3>1, JudgedBefore
  <2>2. CASE j = Len(q) + 1
    <3>1. Judged(Append(q, e), Len(q) + 1)
      BY <1>9, <1>12, <1>13, <1>14, <1>15, <1>16, <1>17, JudgedNow
    <3> QED BY <1>10, <2>2, <3>1
  <2>3. j \in 1..Len(q) \/ j = Len(q) + 1
    BY <1>20
  <2> QED BY <2>1, <2>2, <2>3
<1>25. clock' \in DOMAIN Hours
  BY <1>1, <1>10
<1> QED BY <1>19, <1>20, <1>22, <1>23, <1>24, <1>25 DEF TrapInv

\* A detector that starts over.
LEMMA FreshKeeps ==
  ASSUME NEW h \in TrapHosts
  PROVE  /\ Fresh \in HostTrap /\ Fresh.seen = {} /\ Fresh.flagged = {}
         /\ Counted(Fresh, <<>>, h) /\ Flagged(Fresh)
         /\ \A k \in Kinds, b \in Paths : Cardinality(Leaked(<<>>, h, k, b, Len(<<>>))) < FlagThreshold
<1>1. /\ Fresh \in HostTrap /\ Fresh.seen = {} /\ Fresh.flagged = {} /\ Fresh.cal = 0 /\ Fresh.fac = 0
      /\ \A b \in Paths : Fresh.session[b] = 0
  BY DEF Fresh, HostTrap
<1>2. Len(<<>>) = 0 /\ 1..0 = {}
  OBVIOUS
<1>3. \A k, b : Tally(<<>>, h, k, b, Len(<<>>)) = {} /\ Leaked(<<>>, h, k, b, Len(<<>>)) = {}
  BY <1>2 DEF Tally, Leaked
<1>4. Cardinality({}) = 0
  BY FS_EmptySet
<1>5. FlagThreshold \in Nat /\ FlagThreshold # 0 /\ ~(0 >= FlagThreshold) /\ 0 < FlagThreshold
  BY TrapAssumption
<1>6. Counted(Fresh, <<>>, h)
  BY <1>1, <1>3, <1>4 DEF Counted
<1>7. Flagged(Fresh)
  BY <1>1, <1>5 DEF Flagged
<1>8. \A k \in Kinds, b \in Paths : Cardinality(Leaked(<<>>, h, k, b, Len(<<>>))) < FlagThreshold
  BY <1>3, <1>4, <1>5
<1> QED BY <1>1, <1>6, <1>7, <1>8

LEMMA StartsClean ==
  ASSUME NEW tr, tr = [h \in TrapHosts |-> Fresh]
  PROVE  /\ tr \in [TrapHosts -> HostTrap] /\ <<>> \in Seq(Met) /\ DOMAIN <<>> = {}
         /\ \A h \in TrapHosts :
              /\ tr[h].seen = {} /\ tr[h].flagged = {}
              /\ Counted(tr[h], <<>>, h) /\ Flagged(tr[h])
              /\ \A k \in Kinds, b \in Paths : Cardinality(Leaked(<<>>, h, k, b, Len(<<>>))) < FlagThreshold
<1>1. <<>> \in Seq(Met) /\ DOMAIN <<>> = {}
  OBVIOUS
<1>2. \A h \in TrapHosts : tr[h] = Fresh
  OBVIOUS
<1>3. tr \in [TrapHosts -> HostTrap]
  BY FreshKeeps
<1> QED BY <1>1, <1>2, <1>3, FreshKeeps

-----------------------------------------------------------------------------
(* The soft-404 detector of every behaviour. *)

LEMMA PagesFinite ==
  ASSUME NEW S, \A c \in S : c[1] \in DOMAIN PageHost
  PROVE  IsFiniteSet(PagesOf(S)) /\ Cardinality(PagesOf(S)) \in Nat
<1>1. PagesOf(S) \in SUBSET DOMAIN PageHost
  BY DEF PagesOf
<1>2. IsFiniteSet(PagesOf(S))
  BY <1>1, TrapAssumption, FS_Subset
<1> QED BY <1>2, FS_CardinalityType

SoftDetector == [seen : [Range(PageHost) -> [Prints -> SUBSET DOMAIN PageHost]],
                 template : [Range(PageHost) -> SUBSET (Prints \ {0})]]
Serves == (DOMAIN PageHost) \X Prints \X {"Crawled", "Gone"}

\* What SoftObserve changes, for the fingerprint it sees.
SoftObserved(o, d, h, fp, u) ==
  LET keys == d.seen[h][fp] \cup {u}
  IN  /\ o \in SoftDetector
      /\ \A g \in Range(PageHost), x \in Prints : g # h \/ x # fp =>
           o.seen[g][x] = d.seen[g][x] /\ (x \in o.template[g] <=> x \in d.template[g])
      /\ fp = 0 \/ fp \in d.template[h] => o = d
      /\ fp # 0 /\ fp \notin d.template[h] =>
           /\ fp \in o.template[h] <=> ~(Cardinality(keys) < SoftThreshold)
           /\ Cardinality(keys) < SoftThreshold => o.seen[h][fp] = keys

LEMMA SoftObserveIs ==
  ASSUME NEW d \in SoftDetector, NEW h \in Range(PageHost), NEW fp \in Prints, NEW u \in DOMAIN PageHost
  PROVE  SoftObserved(SoftObserve(d, h, fp, u), d, h, fp, u)
<1> SUFFICES LET o == SoftObserve(d, h, fp, u)
                 keys == d.seen[h][fp] \cup {u}
             IN  /\ o \in SoftDetector
                 /\ \A g \in Range(PageHost), x \in Prints : g # h \/ x # fp =>
                      o.seen[g][x] = d.seen[g][x] /\ (x \in o.template[g] <=> x \in d.template[g])
                 /\ fp = 0 \/ fp \in d.template[h] => o = d
                 /\ fp # 0 /\ fp \notin d.template[h] =>
                      /\ fp \in o.template[h] <=> ~(Cardinality(keys) < SoftThreshold)
                      /\ Cardinality(keys) < SoftThreshold => o.seen[h][fp] = keys
  BY DEF SoftObserved
<1> DEFINE o == SoftObserve(d, h, fp, u)
           keys == d.seen[h][fp] \cup {u}
           o1 == [d EXCEPT !.seen[h][fp] = keys]
           o2 == [d EXCEPT !.seen[h][fp] = {}, !.template[h] = @ \cup {fp}]
<1>1. /\ d.seen \in [Range(PageHost) -> [Prints -> SUBSET DOMAIN PageHost]]
      /\ d.template \in [Range(PageHost) -> SUBSET (Prints \ {0})]
      /\ DOMAIN d = {"seen", "template"}
  BY DEF SoftDetector
<1>2. keys \in SUBSET DOMAIN PageHost
  BY <1>1
<1>3. CASE fp = 0 \/ fp \in d.template[h]
  <2>1. o = d
    BY <1>3 DEF SoftObserve, isTemplate
  <2> HIDE DEF o
  <2> QED BY <1>3, <2>1 DEF o
<1> HIDE DEF keys
<1>4. CASE fp # 0 /\ fp \notin d.template[h] /\ Cardinality(keys) < SoftThreshold
  <2>1. o = o1
    BY <1>4 DEF SoftObserve, isTemplate, keys
  <2>2. o1.template = d.template /\ o1.seen = [d.seen EXCEPT ![h][fp] = keys] /\ DOMAIN o1 = {"seen", "template"}
        /\ o1 = [seen |-> o1.seen, template |-> o1.template]
    <3>1. o1.template = d.template /\ o1.seen = [d.seen EXCEPT ![h][fp] = keys] /\ DOMAIN o1 = {"seen", "template"}
      BY <1>1
    <3>2. o1 = [x \in DOMAIN o1 |-> o1[x]]
      OBVIOUS
    <3> HIDE DEF o1
    <3>3. o1 = [seen |-> o1.seen, template |-> o1.template]
      BY <3>1, <3>2
    <3> QED BY <3>1, <3>3
  <2> HIDE DEF o, o1
  <2>3. o.template = d.template /\ o.seen = [d.seen EXCEPT ![h][fp] = keys]
        /\ o = [seen |-> o.seen, template |-> o.template]
    BY <2>1, <2>2
  <2>4. o.seen \in [Range(PageHost) -> [Prints -> SUBSET DOMAIN PageHost]]
    BY <1>1, <1>2, <2>3
  <2>5. o \in SoftDetector
    BY <1>1, <2>3, <2>4 DEF SoftDetector
  <2>6. o.seen[h][fp] = keys
    BY <1>1, <2>3
  <2>7. \A g \in Range(PageHost), x \in Prints : g # h \/ x # fp =>
          o.seen[g][x] = d.seen[g][x] /\ (x \in o.template[g] <=> x \in d.template[g])
    BY <1>1, <2>3
  <2> QED BY <1>4, <2>3, <2>5, <2>6, <2>7 DEF o, keys
<1>5. CASE fp # 0 /\ fp \notin d.template[h] /\ ~(Cardinality(keys) < SoftThreshold)
  <2>1. o = o2
    BY <1>5 DEF SoftObserve, isTemplate, keys
  <2>2. /\ o2.template = [d.template EXCEPT ![h] = @ \cup {fp}]
        /\ o2.seen = [d.seen EXCEPT ![h][fp] = {}]
        /\ o2 = [seen |-> o2.seen, template |-> o2.template]
    <3>1. /\ o2.template = [d.template EXCEPT ![h] = @ \cup {fp}]
          /\ o2.seen = [d.seen EXCEPT ![h][fp] = {}] /\ DOMAIN o2 = {"seen", "template"}
      BY <1>1
    <3>2. o2 = [x \in DOMAIN o2 |-> o2[x]]
      OBVIOUS
    <3> HIDE DEF o2
    <3>3. o2 = [seen |-> o2.seen, template |-> o2.template]
      BY <3>1, <3>2
    <3> QED BY <3>1, <3>3
  <2> HIDE DEF o, o2
  <2>3. /\ o.template = [d.template EXCEPT ![h] = d.template[h] \cup {fp}]
        /\ o.seen = [d.seen EXCEPT ![h][fp] = {}]
        /\ o = [seen |-> o.seen, template |-> o.template]
    BY <2>1, <2>2
  <2>4. o.seen \in [Range(PageHost) -> [Prints -> SUBSET DOMAIN PageHost]]
    BY <1>1, <2>3
  <2>5. o.template \in [Range(PageHost) -> SUBSET (Prints \ {0})]
    <3>1. d.template[h] \cup {fp} \in SUBSET (Prints \ {0})
      BY <1>1, <1>5
    <3> QED BY <1>1, <2>3, <3>1
  <2>6. o \in SoftDetector
    BY <2>3, <2>4, <2>5 DEF SoftDetector
  <2>7. fp \in o.template[h]
    BY <1>1, <2>3
  <2>8. \A g \in Range(PageHost), x \in Prints : g # h \/ x # fp =>
          o.seen[g][x] = d.seen[g][x] /\ (x \in o.template[g] <=> x \in d.template[g])
    BY <1>1, <2>3
  <2> QED BY <1>5, <2>6, <2>7, <2>8 DEF o, keys
<1> QED BY <1>3, <1>4, <1>5

\* A served page weighs on its own fingerprint only.
LEMMA WithOther ==
  ASSUME NEW s, NEW c, NEW g, NEW x, PageHost[c[1]] # g \/ c[2] # x
  PROVE  With(s \cup {c}, g, x) = With(s, g, x)
BY DEF With

LEMMA WithOwn ==
  ASSUME NEW s \in SUBSET Serves, NEW c \in Serves
  PROVE  LET W == With(s, PageHost[c[1]], c[2])
             V == With(s \cup {c}, PageHost[c[1]], c[2])
         IN  /\ V = W \cup {c} /\ W \in SUBSET Serves /\ V \in SUBSET Serves
             /\ PagesOf(V) = PagesOf(W) \cup {c[1]}
             /\ c[3] = "Crawled" => Kept(V) = Kept(W) \cup {c}
             /\ c[3] = "Gone" => Kept(V) = Kept(W)
<1> DEFINE W == With(s, PageHost[c[1]], c[2])
           V == With(s \cup {c}, PageHost[c[1]], c[2])
<1>1. V = W \cup {c} /\ W \in SUBSET Serves
  BY DEF With
<1> HIDE DEF W, V
<1>2. V \in SUBSET Serves /\ PagesOf(V) = PagesOf(W) \cup {c[1]}
  BY <1>1 DEF PagesOf
<1>3. /\ c[3] = "Crawled" => Kept(V) = Kept(W) \cup {c}
      /\ c[3] = "Gone" => Kept(V) = Kept(W)
  BY <1>1 DEF Kept
<1> QED BY <1>1, <1>2, <1>3 DEF W, V

LEMMA CrawlKeeps ==
  ASSUME SoftInv, NEW u \in DOMAIN PageHost, NEW fp \in Prints, NEW nm \in BOOLEAN, CrawlPage(u, fp, nm)
  PROVE  SoftInv'
<1> DEFINE h == PageHost[u]
<1>1. PICK d, s : d = soft /\ s = served
  OBVIOUS
<1>2. /\ d \in SoftDetector /\ s \in SUBSET Serves
      /\ \A g \in Range(PageHost), x \in Prints \ {0} : FarmWeighed(d, s, g, x)
      /\ \A c \in s : c[2] = 0 => c[3] = "Crawled"
  BY <1>1 DEF SoftInv, SoftDetector, Serves
<1>3. h \in Range(PageHost)
  BY DEF Range
<1>4. CASE nm
  <2>1. soft' = soft /\ served' = served
    BY <1>4 DEF CrawlPage
  <2> QED BY <2>1 DEF SoftInv
<1>5. CASE ~nm
  <2>1. PICK o : o = SoftObserve(d, h, fp, u)
    OBVIOUS
  <2> DEFINE status == IF fp \in o.template[h] THEN "Gone" ELSE "Crawled"
             c == <<u, fp, status>>
  <2>2. soft' = o /\ served' = s \cup {c}
    BY <1>1, <1>5, <2>1 DEF CrawlPage, isTemplate
  <2>3. c \in Serves /\ c[1] = u /\ c[2] = fp /\ c[3] = status
    BY DEF Serves
  <2>4. /\ o \in SoftDetector
        /\ \A g \in Range(PageHost), x \in Prints : g # h \/ x # fp =>
             o.seen[g][x] = d.seen[g][x] /\ (x \in o.template[g] <=> x \in d.template[g])
        /\ fp = 0 \/ fp \in d.template[h] => o = d
        /\ fp # 0 /\ fp \notin d.template[h] =>
             /\ fp \in o.template[h] <=> ~(Cardinality(d.seen[h][fp] \cup {u}) < SoftThreshold)
             /\ Cardinality(d.seen[h][fp] \cup {u}) < SoftThreshold => o.seen[h][fp] = d.seen[h][fp] \cup {u}
    <3> HIDE DEF h
    <3>1. SoftObserved(o, d, h, fp, u)
      BY <1>2, <1>3, <2>1, SoftObserveIs
    <3> QED BY <3>1 DEF SoftObserved
  <2>5. 0 \notin o.template[h] /\ (fp = 0 => status = "Crawled")
    BY <1>3, <2>4 DEF SoftDetector
  <2> HIDE DEF h
  <2>6. ASSUME NEW g \in Range(PageHost), NEW x \in Prints \ {0}
        PROVE  FarmWeighed(o, s \cup {c}, g, x)
    <3>1. FarmWeighed(d, s, g, x)
      BY <1>2
    <3>2. CASE g # h \/ x # fp
      <4>1. With(s \cup {c}, g, x) = With(s, g, x)
        <5>1. PageHost[c[1]] # g \/ c[2] # x
          BY <2>3, <3>2 DEF h
        <5> HIDE DEF c
        <5> QED BY <5>1, WithOther
      <4>2. o.seen[g][x] = d.seen[g][x] /\ (x \in o.template[g] <=> x \in d.template[g])
        BY <2>4, <3>2
      <4> HIDE DEF c
      <4> QED BY <3>1, <4>1, <4>2 DEF FarmWeighed
    <3>3. CASE g = h /\ x = fp
      <4> DEFINE W == With(s, h, fp)
                 V == With(s \cup {c}, h, fp)
      <4>1. /\ V = W \cup {c} /\ W \in SUBSET Serves /\ V \in SUBSET Serves
            /\ PagesOf(V) = PagesOf(W) \cup {u}
            /\ status = "Crawled" => Kept(V) = Kept(W) \cup {c}
            /\ status = "Gone" => Kept(V) = Kept(W)
        <5>1. PageHost[c[1]] = h /\ c[2] = fp
          BY <2>3 DEF h
        <5>2. PICK cc : cc = c
          OBVIOUS
        <5>3. LET W1 == With(s, PageHost[cc[1]], cc[2])
                  V1 == With(s \cup {cc}, PageHost[cc[1]], cc[2])
              IN  /\ V1 = W1 \cup {cc} /\ W1 \in SUBSET Serves /\ V1 \in SUBSET Serves
                  /\ PagesOf(V1) = PagesOf(W1) \cup {cc[1]}
                  /\ cc[3] = "Crawled" => Kept(V1) = Kept(W1) \cup {cc}
                  /\ cc[3] = "Gone" => Kept(V1) = Kept(W1)
          <6>1. cc \in Serves
            BY <2>3, <5>2
          <6> HIDE DEF c
          <6> QED BY <1>2, <6>1, WithOwn
        <5> HIDE DEF c, status
        <5> QED BY <2>3, <5>1, <5>2, <5>3
      <4>2. /\ Cardinality(PagesOf(Kept(W))) < SoftThreshold
            /\ fp \notin d.template[h] => Kept(W) = W /\ d.seen[h][fp] = PagesOf(W)
            /\ fp \in d.template[h] => Cardinality(PagesOf(W)) >= SoftThreshold
        BY <3>1, <3>3 DEF FarmWeighed
      <4>3. /\ IsFiniteSet(PagesOf(W)) /\ Cardinality(PagesOf(W)) \in Nat
            /\ IsFiniteSet(PagesOf(V)) /\ Cardinality(PagesOf(V)) \in Nat
        <5>1. (\A z \in W : z[1] \in DOMAIN PageHost) /\ (\A z \in V : z[1] \in DOMAIN PageHost)
          BY <4>1 DEF Serves
        <5> HIDE DEF W, V
        <5> QED BY <5>1, PagesFinite
      <4>4. SoftThreshold \in Nat /\ fp # 0
        BY <3>3, TrapAssumption
      <4> HIDE DEF W, V
      <4>5. FarmWeighed(o, s \cup {c}, h, fp) <=>
              /\ Cardinality(PagesOf(Kept(V))) < SoftThreshold
              /\ fp \notin o.template[h] => Kept(V) = V /\ o.seen[h][fp] = PagesOf(V)
              /\ fp \in o.template[h] => Cardinality(PagesOf(V)) >= SoftThreshold
        BY DEF FarmWeighed, V
      <4> HIDE DEF c
      <4>6. CASE fp \in d.template[h]
        <5>1. o = d /\ status = "Gone"
          BY <2>4, <4>6
        <5>2. Cardinality(PagesOf(W)) <= Cardinality(PagesOf(V))
          BY <4>1, <4>3, FS_Subset
        <5>3. Cardinality(PagesOf(V)) >= SoftThreshold
          BY <4>2, <4>3, <4>4, <4>6, <5>2
        <5> QED BY <3>3, <4>1, <4>2, <4>5, <4>6, <5>1, <5>3
      <4>7. CASE fp \notin d.template[h] /\ Cardinality(PagesOf(V)) < SoftThreshold
        <5>1. fp \notin o.template[h] /\ o.seen[h][fp] = PagesOf(V)
          BY <2>4, <4>1, <4>2, <4>4, <4>7
        <5>2. Kept(V) = V
          BY <4>1, <4>2, <4>7, <5>1
        <5> QED BY <3>3, <4>5, <4>7, <5>1, <5>2
      <4>8. CASE fp \notin d.template[h] /\ ~(Cardinality(PagesOf(V)) < SoftThreshold)
        <5>1. fp \in o.template[h] /\ status = "Gone"
          BY <2>4, <4>1, <4>2, <4>4, <4>8
        <5>2. Cardinality(PagesOf(V)) >= SoftThreshold
          BY <4>3, <4>4, <4>8
        <5> QED BY <3>3, <4>1, <4>2, <4>5, <5>1, <5>2
      <4> QED BY <4>6, <4>7, <4>8
    <3> QED BY <3>2, <3>3
  <2>7. \A z \in s \cup {c} : z[2] = 0 => z[3] = "Crawled"
    BY <1>2, <2>3, <2>5
  <2>8. s \cup {c} \in SUBSET Serves
    BY <1>2, <2>3
  <2> HIDE DEF c
  <2> QED BY <2>2, <2>4, <2>6, <2>7, <2>8 DEF SoftInv, SoftDetector, Serves
<1> QED BY <1>4, <1>5

LEMMA SoftStarts ==
  /\ NewSoftDetector \in SoftDetector
  /\ \A h \in Range(PageHost), fp \in Prints \ {0} : FarmWeighed(NewSoftDetector, {}, h, fp)
<1>1. /\ NewSoftDetector \in SoftDetector
      /\ \A h \in Range(PageHost), fp \in Prints : NewSoftDetector.seen[h][fp] = {} /\ NewSoftDetector.template[h] = {}
  BY DEF NewSoftDetector, SoftDetector
<1>2. \A h, fp : With({}, h, fp) = {}
  BY DEF With
<1>3. Kept({}) = {} /\ PagesOf({}) = {} /\ Cardinality({}) = 0
  BY FS_EmptySet DEF Kept, PagesOf
<1>4. 0 < SoftThreshold
  BY TrapAssumption
<1> QED BY <1>1, <1>2, <1>3, <1>4 DEF FarmWeighed

-----------------------------------------------------------------------------

LEMMA TrapInvInit == TrapInit => TrapInv /\ SoftInv
<1> SUFFICES ASSUME TrapInit PROVE TrapInv /\ SoftInv
  OBVIOUS
<1>1. /\ traps = [h \in TrapHosts |-> Fresh] /\ met = <<>> /\ clock = 1
      /\ rows = [u \in DOMAIN Links |-> "none"] /\ soft = NewSoftDetector /\ served = {}
  BY DEF TrapInit
<1>2. 1 \in DOMAIN Hours
  BY TrapAssumption
<1>3. TrapInv
  BY <1>1, <1>2, StartsClean DEF TrapInv
<1>4. SoftInv
  BY <1>1, SoftStarts DEF SoftInv, SoftDetector
<1> QED BY <1>3, <1>4

LEMMA TrapInvNext ==
  ASSUME OneDate PROVE TrapInv /\ SoftInv /\ [TrapNext]_trapVars => TrapInv' /\ SoftInv'
<1> SUFFICES ASSUME TrapInv, SoftInv, [TrapNext]_trapVars PROVE TrapInv' /\ SoftInv'
  OBVIOUS
<1>1. ASSUME UNCHANGED urlVars PROVE TrapInv'
  BY <1>1 DEF TrapInv, urlVars
<1>2. ASSUME UNCHANGED pageVars PROVE SoftInv'
  BY <1>2 DEF SoftInv, pageVars
<1>3. CASE TrapNext
  <2>1. ASSUME NEW u \in DOMAIN Links, TrapDiscover(u) PROVE TrapInv' /\ SoftInv'
    <3>1. UNCHANGED pageVars
      BY <2>1 DEF TrapDiscover
    <3> QED BY <1>2, <2>1, <3>1, DiscoverKeeps
  <2>2. CASE Advance
    <3>1. UNCHANGED pageVars /\ UNCHANGED <<traps, suspect, rows, met>> /\ clock < Len(Hours) /\ clock' = clock + 1
      BY <2>2 DEF Advance
    <3>2. clock' \in DOMAIN Hours
      <4>1. clock \in 1..Len(Hours) /\ Len(Hours) \in Nat /\ DOMAIN Hours = 1..Len(Hours)
        BY TrapAssumption DEF TrapInv
      <4> QED BY <3>1, <4>1
    <3>3. TrapInv'
      BY <3>1, <3>2 DEF TrapInv
    <3> QED BY <1>2, <3>1, <3>3
  <2>3. ASSUME NEW u \in DOMAIN PageHost, NEW fp \in Prints, NEW nm \in BOOLEAN, CrawlPage(u, fp, nm)
        PROVE  TrapInv' /\ SoftInv'
    <3>1. UNCHANGED urlVars
      BY <2>3 DEF CrawlPage
    <3> QED BY <1>1, <2>3, <3>1, CrawlKeeps
  <2>4. CASE Reload
    <3>1. /\ traps' = [h \in TrapHosts |-> Fresh] /\ met' = <<>> /\ clock' = clock /\ rows' = rows
          /\ soft' = NewSoftDetector /\ served' = {}
      BY <2>4 DEF Reload
    <3>2. clock' \in DOMAIN Hours /\ rows' \in [DOMAIN Links -> {"none", "Scheduled", "Trapped"}]
      BY <3>1 DEF TrapInv
    <3>3. TrapInv'
      BY <3>1, <3>2, StartsClean DEF TrapInv
    <3>4. SoftInv'
      BY <3>1, SoftStarts DEF SoftInv, SoftDetector
    <3> QED BY <3>3, <3>4
  <2> QED BY <1>3, <2>1, <2>2, <2>3, <2>4 DEF TrapNext
<1>4. CASE UNCHANGED trapVars
  <2>1. UNCHANGED urlVars /\ UNCHANGED pageVars
    BY <1>4 DEF trapVars
  <2> QED BY <1>1, <1>2, <2>1
<1> QED BY <1>3, <1>4

LEMMA TrapInvParks == TrapInv /\ SoftInv => TrapsParked
<1> SUFFICES ASSUME TrapInv, SoftInv PROVE TrapsParked
  OBVIOUS
<1>1. ASSUME NEW kind \in Kinds, NEW h \in TrapHosts, NEW base \in Paths
      PROVE  Cardinality({i \in DOMAIN met :
               /\ met[i].status = "Scheduled" /\ Links[met[i].url].host = h
               /\ Counts(met[i], kind)
               /\ kind = "session" => Links[met[i].url].path = base}) < FlagThreshold
  <2>1. {i \in DOMAIN met :
           /\ met[i].status = "Scheduled" /\ Links[met[i].url].host = h
           /\ Counts(met[i], kind)
           /\ kind = "session" => Links[met[i].url].path = base} = Leaked(met, h, kind, base, Len(met))
    <3>1. DOMAIN met = 1..Len(met)
      BY DEF TrapInv
    <3> QED BY <3>1 DEF Leaked, Tally
  <2>2. Cardinality(Leaked(met, h, kind, base, Len(met))) < FlagThreshold
    BY DEF TrapInv
  <2> QED BY <2>1, <2>2
<1>2. \A i \in DOMAIN met : Judged(met, i)
  BY DEF TrapInv
<1>3. ASSUME NEW h \in Range(PageHost), NEW fp \in Prints \ {0}
      PROVE  LET with == {c \in served : PageHost[c[1]] = h /\ c[2] = fp}
                 kept == {c \in with : c[3] = "Crawled"}
             IN /\ Cardinality({c[1] : c \in kept}) < SoftThreshold
                /\ with # kept => Cardinality({c[1] : c \in with}) >= SoftThreshold
  <2>1. FarmWeighed(soft, served, h, fp)
    BY DEF SoftInv
  <2> QED BY <2>1 DEF FarmWeighed, With, Kept, PagesOf
<1>4. \A c \in served : c[2] = 0 => c[3] = "Crawled"
  BY DEF SoftInv
<1> QED BY <1>1, <1>2, <1>3, <1>4 DEF TrapsParked, Judged

\* A trap leaks fewer than FlagThreshold URLs of one pattern per host in a
\* life of the frontier, nothing else is parked, and a soft-404 farm keeps
\* fewer than SoftThreshold pages of a fingerprint: for any links, thresholds,
\* budgets and clock, when no link shows two dates.
THEOREM TrapsHold ==
  ASSUME OneDate
  PROVE  TrapSpec => []TrapsParked
<1>1. TrapSpec => [](TrapInv /\ SoftInv)
  <2>1. TrapInv /\ SoftInv /\ [TrapNext]_trapVars => (TrapInv /\ SoftInv)'
    BY TrapInvNext
  <2> QED BY <2>1, TrapInvInit, PTL DEF TrapSpec
<1> QED BY <1>1, TrapInvParks, PTL

-----------------------------------------------------------------------------
(* The ribbon: rows of bits over the two-element field. *)

Solutions == [Slots -> SUBSET FpBits]

\* acc holds the partial sums of the slots of S of f.
Summing(acc, f, S) ==
  /\ acc \in [0..RibbonSlots -> SUBSET FpBits]
  /\ acc[0] = {}
  /\ \A n \in 1..RibbonSlots : acc[n] = IF n - 1 \in S THEN Xor(acc[n - 1], f[n - 1]) ELSE acc[n - 1]

LEMMA XorIs ==
  /\ \A U, a, b : a \in SUBSET U /\ b \in SUBSET U => Xor(a, b) \in SUBSET U
  /\ \A a, b : Xor(a, b) = Xor(b, a)
  /\ \A a, b, c : Xor(Xor(a, b), c) = Xor(a, Xor(b, c))
  /\ \A a : Xor(a, {}) = a /\ Xor({}, a) = a /\ Xor(a, a) = {}
  BY DEF Xor

LEMMA XorOverIs ==
  ASSUME NEW f \in Solutions, NEW S
  PROVE  \E acc : Summing(acc, f, S) /\ XorOver(f, S) = acc[RibbonSlots]
<1> DEFINE R == RibbonSlots
           T == SUBSET FpBits
           Rec(acc) == acc = [n \in 0..R |-> IF n = 0 THEN {} ELSE IF n - 1 \in S THEN Xor(acc[n - 1], f[n - 1]) ELSE acc[n - 1]]
           step == [n \in 1..R |-> [x \in T |-> IF n - 1 \in S THEN Xor(x, f[n - 1]) ELSE x]]
<1>1. R \in Nat
  BY SeenAssumption
<1>2. {} \in T /\ step \in [1..R -> [T -> T]]
  <2>1. ASSUME NEW n \in 1..R, NEW x \in T PROVE (IF n - 1 \in S THEN Xor(x, f[n - 1]) ELSE x) \in T
    <3>1. n - 1 \in Slots
      BY <1>1 DEF Slots
    <3>2. f[n - 1] \in T
      BY <3>1 DEF Solutions
    <3>3. Xor(x, f[n - 1]) \in T
      BY <3>2, XorIs
    <3> QED BY <3>3
  <2> QED BY <2>1
<1>3. PICK st \in [0..R -> T] : st[0] = {} /\ \A i \in 1..R : st[i] = step[i][st[i - 1]]
  <2> DEFINE x == {}
  <2>1. x \in T
    BY <1>2
  <2> HIDE DEF R, T, step, x
  <2>2. Steps(step, R, T)
    BY <1>2 DEF Steps
  <2>3. \E st : Course(st, R, T, x, step)
    BY <1>1, <2>1, <2>2, Recursion
  <2> QED BY <2>3 DEF x, Course
<1>4. \A i \in 1..R : st[i] = IF i - 1 \in S THEN Xor(st[i - 1], f[i - 1]) ELSE st[i - 1]
  <2> SUFFICES ASSUME NEW i \in 1..R PROVE st[i] = IF i - 1 \in S THEN Xor(st[i - 1], f[i - 1]) ELSE st[i - 1]
    OBVIOUS
  <2>1. i - 1 \in 0..R
    BY <1>1
  <2>2. st[i - 1] \in T
    BY <2>1
  <2> QED BY <1>3, <2>2
<1>5. Rec(st)
  <2>1. st = [n \in 0..R |-> st[n]]
    OBVIOUS
  <2>2. \A n \in 0..R : n # 0 => n \in 1..R
    BY <1>1
  <2>3. \A n \in 0..R : st[n] = IF n = 0 THEN {} ELSE IF n - 1 \in S THEN Xor(st[n - 1], f[n - 1]) ELSE st[n - 1]
    BY <1>3, <1>4, <2>2
  <2> QED BY <2>1, <2>3
<1> DEFINE acc == CHOOSE a : Rec(a)
<1>6. Rec(acc)
  <2> HIDE DEF Rec
  <2> QED BY <1>5
<1>7. XorOver(f, S) = acc[R]
  BY DEF XorOver
<1> HIDE DEF acc
<1>8. /\ acc = [n \in 0..R |-> acc[n]]
      /\ acc[0] = {}
      /\ \A n \in 1..R : acc[n] = IF n - 1 \in S THEN Xor(acc[n - 1], f[n - 1]) ELSE acc[n - 1]
  <2>1. 0 \in 0..R /\ \A n \in 1..R : n \in 0..R /\ n # 0
    BY <1>1
  <2>2. \A n \in 0..R : acc[n] = IF n = 0 THEN {} ELSE IF n - 1 \in S THEN Xor(acc[n - 1], f[n - 1]) ELSE acc[n - 1]
    BY <1>6
  <2>3. DOMAIN acc = 0..R
    BY <1>6
  <2>4. acc = [n \in 0..R |-> acc[n]]
    BY <1>6, <2>3
  <2> QED BY <2>1, <2>2, <2>4
<1>9. \A n \in 0..R : acc[n] \in T
  <2> DEFINE G == {n \in 0..R : acc[n] \in T}
  <2>1. 0 \in G
    BY <1>1, <1>8
  <2>2. \A n \in 0..R : n \in G /\ n < R => n + 1 \in G
    <3> SUFFICES ASSUME NEW n \in 0..R, n \in G, n < R PROVE acc[n + 1] \in T
      BY <1>1
    <3>1. n + 1 \in 1..R /\ (n + 1) - 1 = n /\ n \in Slots
      BY <1>1 DEF Slots
    <3>2. f[n] \in T
      BY <3>1 DEF Solutions
    <3>3. acc[n + 1] = IF n \in S THEN Xor(acc[n], f[n]) ELSE acc[n]
      BY <3>1, <1>8
    <3> QED BY <3>2, <3>3, XorIs
  <2> HIDE DEF G
  <2>3. \A n \in 0..R : n \in G
    BY <1>1, <2>1, <2>2, Climb
  <2> QED BY <2>3 DEF G
<1>10. Summing(acc, f, S)
  <2>1. acc \in [0..R -> T]
    BY <1>8, <1>9
  <2> QED BY <2>1, <1>8 DEF Summing
<1> QED BY <1>7, <1>10

\* The sum is linear in the row.
LEMMA XorLinear ==
  ASSUME NEW f \in Solutions, NEW A, NEW B
  PROVE  XorOver(f, Xor(A, B)) = Xor(XorOver(f, A), XorOver(f, B))
<1> DEFINE R == RibbonSlots
<1>0. R \in Nat
  BY SeenAssumption
<1>1. PICK a : Summing(a, f, A) /\ XorOver(f, A) = a[R]
  BY XorOverIs
<1>2. PICK b : Summing(b, f, B) /\ XorOver(f, B) = b[R]
  BY XorOverIs
<1>3. PICK c : Summing(c, f, Xor(A, B)) /\ XorOver(f, Xor(A, B)) = c[R]
  BY XorOverIs
<1> DEFINE G == {n \in 0..R : c[n] = Xor(a[n], b[n])}
<1>4. 0 \in G
  <2>1. a[0] = {} /\ b[0] = {} /\ c[0] = {} /\ Xor({}, {}) = {}
    BY <1>1, <1>2, <1>3 DEF Summing, Xor
  <2> QED BY <1>0, <2>1
<1>5. \A n \in 0..R : n \in G /\ n < R => n + 1 \in G
  <2> SUFFICES ASSUME NEW n \in 0..R, n \in G, n < R PROVE c[n + 1] = Xor(a[n + 1], b[n + 1])
    BY <1>0
  <2>1. n + 1 \in 1..R /\ (n + 1) - 1 = n
    BY <1>0
  <2>2. /\ a[n + 1] = IF n \in A THEN Xor(a[n], f[n]) ELSE a[n]
        /\ b[n + 1] = IF n \in B THEN Xor(b[n], f[n]) ELSE b[n]
        /\ c[n + 1] = IF n \in Xor(A, B) THEN Xor(c[n], f[n]) ELSE c[n]
    BY <1>1, <1>2, <1>3, <2>1 DEF Summing
  <2>3. n \in Xor(A, B) <=> (n \in A <=> n \notin B)
    BY DEF Xor
  <2>4. c[n] = Xor(a[n], b[n])
    OBVIOUS
  <2>5. \A p, q, v : /\ Xor(Xor(p, q), v) = Xor(Xor(p, v), q)
                     /\ Xor(Xor(p, q), v) = Xor(p, Xor(q, v))
                     /\ Xor(Xor(p, v), Xor(q, v)) = Xor(p, q)
    BY DEF Xor
  <2>6. CASE n \in A /\ n \in B
    BY <2>2, <2>3, <2>4, <2>5, <2>6
  <2>7. CASE n \in A /\ n \notin B
    BY <2>2, <2>3, <2>4, <2>5, <2>7
  <2>8. CASE n \notin A /\ n \in B
    BY <2>2, <2>3, <2>4, <2>5, <2>8
  <2>9. CASE n \notin A /\ n \notin B
    BY <2>2, <2>3, <2>4, <2>5, <2>9
  <2> QED BY <2>6, <2>7, <2>8, <2>9
<1> HIDE DEF G
<1>6. \A n \in 0..R : n \in G
  BY <1>0, <1>4, <1>5, Climb
<1>7. R \in G
  BY <1>0, <1>6
<1> QED BY <1>1, <1>2, <1>3, <1>7 DEF G

\* The sum reads no other slot than those of its row.
LEMMA XorLocal ==
  ASSUME NEW f \in Solutions, NEW g \in Solutions, NEW S, \A i \in Slots : i \in S => f[i] = g[i]
  PROVE  XorOver(f, S) = XorOver(g, S)
<1> DEFINE R == RibbonSlots
<1>0. R \in Nat
  BY SeenAssumption
<1>1. PICK a : Summing(a, f, S) /\ XorOver(f, S) = a[R]
  BY XorOverIs
<1>2. PICK b : Summing(b, g, S) /\ XorOver(g, S) = b[R]
  BY XorOverIs
<1> DEFINE G == {n \in 0..R : a[n] = b[n]}
<1>4. 0 \in G
  BY <1>0, <1>1, <1>2 DEF Summing
<1>5. \A n \in 0..R : n \in G /\ n < R => n + 1 \in G
  <2> SUFFICES ASSUME NEW n \in 0..R, n \in G, n < R PROVE a[n + 1] = b[n + 1]
    BY <1>0
  <2>1. n + 1 \in 1..R /\ (n + 1) - 1 = n /\ n \in Slots
    BY <1>0 DEF Slots
  <2>2. /\ a[n + 1] = IF n \in S THEN Xor(a[n], f[n]) ELSE a[n]
        /\ b[n + 1] = IF n \in S THEN Xor(b[n], g[n]) ELSE b[n]
    BY <1>1, <1>2, <2>1 DEF Summing
  <2> QED BY <2>1, <2>2
<1> HIDE DEF G
<1>6. \A n \in 0..R : n \in G
  BY <1>0, <1>4, <1>5, Climb
<1>7. R \in G
  BY <1>0, <1>6
<1> QED BY <1>1, <1>2, <1>7 DEF G

LEMMA XorNone ==
  ASSUME NEW f \in Solutions
  PROVE  XorOver(f, {}) = {}
<1>1. Xor({}, {}) = {} /\ \A a : Xor(a, a) = {}
  BY DEF Xor
<1> QED BY <1>1, XorLinear

LEMMA XorSingle ==
  ASSUME NEW f \in Solutions, NEW j \in Slots
  PROVE  XorOver(f, {j}) = f[j]
<1> DEFINE R == RibbonSlots
<1>0. R \in Nat /\ j \in 0..R /\ j < R
  BY SeenAssumption DEF Slots
<1>1. PICK a : Summing(a, f, {j}) /\ XorOver(f, {j}) = a[R]
  BY XorOverIs
<1> DEFINE G == {n \in 0..R : a[n] = IF n <= j THEN {} ELSE f[j]}
<1>4. 0 \in G
  BY <1>0, <1>1 DEF Summing
<1>5. \A n \in 0..R : n \in G /\ n < R => n + 1 \in G
  <2> SUFFICES ASSUME NEW n \in 0..R, n \in G, n < R PROVE a[n + 1] = IF n + 1 <= j THEN {} ELSE f[j]
    BY <1>0
  <2>1. n + 1 \in 1..R /\ (n + 1) - 1 = n
    BY <1>0
  <2>2. a[n + 1] = IF n \in {j} THEN Xor(a[n], f[n]) ELSE a[n]
    BY <1>1, <2>1 DEF Summing
  <2>3. a[n] = IF n <= j THEN {} ELSE f[j]
    OBVIOUS
  <2>4. CASE n = j
    <3>1. ~(n + 1 <= j) /\ a[n] = {}
      BY <1>0, <2>3, <2>4
    <3> QED BY <2>2, <2>4, <3>1, XorIs
  <2>5. CASE n # j
    <3>1. n + 1 <= j <=> n <= j
      BY <1>0, <2>5
    <3> QED BY <2>2, <2>3, <2>5, <3>1
  <2> QED BY <2>4, <2>5
<1> HIDE DEF G
<1>6. \A n \in 0..R : n \in G
  BY <1>0, <1>4, <1>5, Climb
<1>7. R \in G /\ ~(R <= j)
  BY <1>0, <1>6
<1> QED BY <1>1, <1>7 DEF G
\* The stored equations: the row of slot i starts at i.
Shaped(eqs) ==
  /\ eqs \in [Slots -> SUBSET Slots]
  /\ \A i \in Slots : eqs[i] # {} => i \in eqs[i] /\ \A j \in eqs[i] : i <= j

\* z solves every stored equation.
Solves(z, eqs, rhs) == \A i \in Slots : eqs[i] # {} => XorOver(z, eqs[i]) = rhs[i]

Elimination == [rows : [Slots -> SUBSET Slots], rhs : Solutions,
                row : SUBSET Slots, fp : SUBSET FpBits, done : BOOLEAN]

\* What the elimination of one equation keeps, after n slots: solving what is
\* left solves what there was.
Reduced(st, n, eqs, rhs, row, fp) ==
  /\ Shaped(st.rows)
  /\ ~st.done => \A j \in st.row : n <= j
  /\ \A z \in Solutions :
       Solves(z, st.rows, st.rhs) /\ (~st.done => XorOver(z, st.row) = st.fp) =>
         Solves(z, eqs, rhs) /\ XorOver(z, row) = fp

LEMMA PivotRecords ==
  ASSUME NEW st \in Elimination, NEW i
  PROVE  /\ [st EXCEPT !.rows[i] = st.row, !.rhs[i] = st.fp, !.done = TRUE]
              = [rows |-> [st.rows EXCEPT ![i] = st.row], rhs |-> [st.rhs EXCEPT ![i] = st.fp],
                 row |-> st.row, fp |-> st.fp, done |-> TRUE]
         /\ [st EXCEPT !.row = Xor(@, st.rows[i]), !.fp = Xor(@, st.rhs[i])]
              = [rows |-> st.rows, rhs |-> st.rhs, row |-> Xor(st.row, st.rows[i]),
                 fp |-> Xor(st.fp, st.rhs[i]), done |-> st.done]
<1> DEFINE a == [st EXCEPT !.rows[i] = st.row, !.rhs[i] = st.fp, !.done = TRUE]
           b == [st EXCEPT !.row = Xor(@, st.rows[i]), !.fp = Xor(@, st.rhs[i])]
           F == {"rows", "rhs", "row", "fp", "done"}
<1>1. DOMAIN st = F
  BY DEF Elimination
<1>2. /\ a.rows = [st.rows EXCEPT ![i] = st.row] /\ a.rhs = [st.rhs EXCEPT ![i] = st.fp]
      /\ a.row = st.row /\ a.fp = st.fp /\ a.done = TRUE
      /\ DOMAIN a = F /\ a = [x \in DOMAIN a |-> a[x]]
  BY <1>1
<1>3. /\ b.row = Xor(st.row, st.rows[i]) /\ b.fp = Xor(st.fp, st.rhs[i])
      /\ b.rows = st.rows /\ b.rhs = st.rhs /\ b.done = st.done
      /\ DOMAIN b = F /\ b = [x \in DOMAIN b |-> b[x]]
  BY <1>1
<1>4. ASSUME NEW r, DOMAIN r = F, r = [x \in DOMAIN r |-> r[x]]
      PROVE  r = [rows |-> r.rows, rhs |-> r.rhs, row |-> r.row, fp |-> r.fp, done |-> r.done]
  BY <1>4
<1> HIDE DEF a, b
<1>5. /\ a = [rows |-> a.rows, rhs |-> a.rhs, row |-> a.row, fp |-> a.fp, done |-> a.done]
      /\ b = [rows |-> b.rows, rhs |-> b.rhs, row |-> b.row, fp |-> b.fp, done |-> b.done]
  BY <1>2, <1>3, <1>4
<1>6. /\ a = [rows |-> [st.rows EXCEPT ![i] = st.row], rhs |-> [st.rhs EXCEPT ![i] = st.fp],
              row |-> st.row, fp |-> st.fp, done |-> TRUE]
      /\ b = [rows |-> st.rows, rhs |-> st.rhs, row |-> Xor(st.row, st.rows[i]),
              fp |-> Xor(st.fp, st.rhs[i]), done |-> st.done]
  BY <1>2, <1>3, <1>5
<1> QED BY <1>6 DEF a, b

LEMMA PivotTyped ==
  ASSUME NEW st \in Elimination, NEW i \in Slots
  PROVE  Pivot(st, i) \in Elimination
<1>1. /\ st.rows \in [Slots -> SUBSET Slots] /\ st.rhs \in [Slots -> SUBSET FpBits]
      /\ st.row \in SUBSET Slots /\ st.fp \in SUBSET FpBits
      /\ st.rows[i] \in SUBSET Slots /\ st.rhs[i] \in SUBSET FpBits
  BY DEF Elimination, Solutions
<1>2. Xor(st.row, st.rows[i]) \in SUBSET Slots /\ Xor(st.fp, st.rhs[i]) \in SUBSET FpBits
  BY <1>1 DEF Xor
<1>3. /\ [st.rows EXCEPT ![i] = st.row] \in [Slots -> SUBSET Slots]
      /\ [st.rhs EXCEPT ![i] = st.fp] \in [Slots -> SUBSET FpBits]
  BY <1>1
<1>4. st = [rows |-> st.rows, rhs |-> st.rhs, row |-> st.row, fp |-> st.fp, done |-> st.done]
  BY DEF Elimination
<1>5. /\ [st EXCEPT !.rows[i] = st.row, !.rhs[i] = st.fp, !.done = TRUE]
           = [rows |-> [st.rows EXCEPT ![i] = st.row], rhs |-> [st.rhs EXCEPT ![i] = st.fp],
              row |-> st.row, fp |-> st.fp, done |-> TRUE]
      /\ [st EXCEPT !.row = Xor(@, st.rows[i]), !.fp = Xor(@, st.rhs[i])]
           = [rows |-> st.rows, rhs |-> st.rhs, row |-> Xor(st.row, st.rows[i]),
              fp |-> Xor(st.fp, st.rhs[i]), done |-> st.done]
  BY PivotRecords
<1>6. st.done \in BOOLEAN
  BY DEF Elimination
<1> QED BY <1>1, <1>2, <1>3, <1>5, <1>6 DEF Pivot, Elimination, Solutions

\* The fields Pivot leaves.
LEMMA PivotIs ==
  ASSUME NEW st \in Elimination, NEW i \in Slots
  PROVE  /\ st.done \/ i \notin st.row => Pivot(st, i) = st
         /\ ~st.done /\ i \in st.row /\ st.rows[i] = {} =>
              /\ Pivot(st, i).rows = [st.rows EXCEPT ![i] = st.row]
              /\ Pivot(st, i).rhs = [st.rhs EXCEPT ![i] = st.fp]
              /\ Pivot(st, i).done
         /\ ~st.done /\ i \in st.row /\ st.rows[i] # {} =>
              /\ Pivot(st, i).rows = st.rows
              /\ Pivot(st, i).rhs = st.rhs
              /\ Pivot(st, i).row = Xor(st.row, st.rows[i])
              /\ Pivot(st, i).fp = Xor(st.fp, st.rhs[i])
              /\ ~Pivot(st, i).done
<1>4. st = [rows |-> st.rows, rhs |-> st.rhs, row |-> st.row, fp |-> st.fp, done |-> st.done]
  BY DEF Elimination
<1>5. /\ [st EXCEPT !.rows[i] = st.row, !.rhs[i] = st.fp, !.done = TRUE]
           = [rows |-> [st.rows EXCEPT ![i] = st.row], rhs |-> [st.rhs EXCEPT ![i] = st.fp],
              row |-> st.row, fp |-> st.fp, done |-> TRUE]
      /\ [st EXCEPT !.row = Xor(@, st.rows[i]), !.fp = Xor(@, st.rhs[i])]
           = [rows |-> st.rows, rhs |-> st.rhs, row |-> Xor(st.row, st.rows[i]),
              fp |-> Xor(st.fp, st.rhs[i]), done |-> st.done]
  BY PivotRecords
<1> QED BY <1>5 DEF Pivot

LEMMA PivotReduces ==
  ASSUME NEW st \in Elimination, NEW i \in Slots, NEW eqs, NEW rhs, NEW row, NEW fp,
         Reduced(st, i, eqs, rhs, row, fp)
  PROVE  Reduced(Pivot(st, i), i + 1, eqs, rhs, row, fp)
<1> DEFINE p == Pivot(st, i)
<1>0. i \in Nat
  BY SeenAssumption DEF Slots
<1>1. /\ st.rows \in [Slots -> SUBSET Slots] /\ st.rhs \in [Slots -> SUBSET FpBits]
      /\ st.row \in SUBSET Slots /\ st.fp \in SUBSET FpBits
      /\ st.rows[i] \in SUBSET Slots /\ st.rhs[i] \in SUBSET FpBits
  BY DEF Elimination, Solutions
<1>2. \A j \in Slots : j \in Nat
  BY SeenAssumption DEF Slots
<1>3. CASE st.done \/ i \notin st.row
  <2>1. p = st
    BY <1>3, PivotIs
  <2>2. ~st.done => \A j \in st.row : i + 1 <= j
    <3> SUFFICES ASSUME ~st.done, NEW j \in st.row PROVE i + 1 <= j
      OBVIOUS
    <3>1. i <= j /\ j # i /\ j \in Nat
      BY <1>1, <1>2, <1>3 DEF Reduced
    <3> QED BY <1>0, <3>1
  <2> QED BY <2>1, <2>2 DEF Reduced
<1>4. CASE ~st.done /\ i \in st.row /\ st.rows[i] = {}
  <2>1. p.rows = [st.rows EXCEPT ![i] = st.row] /\ p.rhs = [st.rhs EXCEPT ![i] = st.fp] /\ p.done
    BY <1>4, PivotIs
  <2> HIDE DEF p
  <2>2. /\ p.rows \in [Slots -> SUBSET Slots]
        /\ p.rows[i] = st.row /\ p.rhs[i] = st.fp
        /\ \A j \in Slots : j # i => p.rows[j] = st.rows[j] /\ p.rhs[j] = st.rhs[j]
    BY <1>1, <2>1
  <2>3. Shaped(p.rows)
    <3>1. \A j \in st.row : i <= j
      BY <1>4 DEF Reduced
    <3>2. Shaped(st.rows)
      BY DEF Reduced
    <3> QED BY <1>4, <2>2, <3>1, <3>2 DEF Shaped
  <2>4. ASSUME NEW z \in Solutions, Solves(z, p.rows, p.rhs)
        PROVE  Solves(z, eqs, rhs) /\ XorOver(z, row) = fp
    <3>1. XorOver(z, st.row) = st.fp
      BY <1>4, <2>2, <2>4 DEF Solves
    <3>2. Solves(z, st.rows, st.rhs)
      BY <1>4, <2>2, <2>4 DEF Solves
    <3> QED BY <3>1, <3>2 DEF Reduced
  <2>5. Reduced(p, i + 1, eqs, rhs, row, fp)
    BY <2>1, <2>3, <2>4 DEF Reduced
  <2> QED BY <2>5 DEF p
<1>5. CASE ~st.done /\ i \in st.row /\ st.rows[i] # {}
  <2>1. /\ p.rows = st.rows /\ p.rhs = st.rhs /\ ~p.done
        /\ p.row = Xor(st.row, st.rows[i]) /\ p.fp = Xor(st.fp, st.rhs[i])
    BY <1>5, PivotIs
  <2> HIDE DEF p
  <2>2. \A j \in p.row : i + 1 <= j
    <3> SUFFICES ASSUME NEW j \in p.row PROVE i + 1 <= j
      OBVIOUS
    <3>1. i \in st.rows[i] /\ (\A h \in st.rows[i] : i <= h) /\ (\A h \in st.row : i <= h)
      BY <1>5 DEF Reduced, Shaped
    <3>2. j # i /\ (j \in st.row \/ j \in st.rows[i])
      BY <1>5, <2>1, <3>1 DEF Xor
    <3>3. i <= j /\ j \in Nat
      BY <1>1, <1>2, <3>1, <3>2
    <3> QED BY <1>0, <3>2, <3>3
  <2>3. ASSUME NEW z \in Solutions, Solves(z, p.rows, p.rhs), XorOver(z, p.row) = p.fp
        PROVE  Solves(z, eqs, rhs) /\ XorOver(z, row) = fp
    <3>1. XorOver(z, st.rows[i]) = st.rhs[i]
      BY <1>5, <2>1, <2>3 DEF Solves
    <3>2. XorOver(z, p.row) = Xor(XorOver(z, st.row), XorOver(z, st.rows[i]))
      BY <2>1, XorLinear
    <3>3. Xor(XorOver(z, st.row), st.rhs[i]) = Xor(st.fp, st.rhs[i])
      BY <2>1, <2>3, <3>1, <3>2
    <3>4. XorOver(z, st.row) = st.fp
      <4>1. \A a, b, c : Xor(a, c) = Xor(b, c) => a = b
        <5> SUFFICES ASSUME NEW a, NEW b, NEW c, Xor(a, c) = Xor(b, c) PROVE a = b
          OBVIOUS
        <5>1. Xor(Xor(a, c), c) = a /\ Xor(Xor(b, c), c) = b
          BY DEF Xor
        <5> QED BY <5>1
      <4> QED BY <3>3, <4>1
    <3> QED BY <2>1, <2>3, <3>4 DEF Reduced
  <2>4. Shaped(p.rows)
    BY <2>1 DEF Reduced
  <2>5. Reduced(p, i + 1, eqs, rhs, row, fp)
    BY <2>1, <2>2, <2>3, <2>4 DEF Reduced
  <2> QED BY <2>5 DEF p
<1> QED BY <1>3, <1>4, <1>5
Equations == [rows : [Slots -> SUBSET Slots], rhs : Solutions, ok : BOOLEAN]
Band == [row : SUBSET Slots, fp : SUBSET FpBits]

\* One equation more: what solves the new system solves the old one and the
\* equation.
Extended(e, st, band) ==
  /\ e \in Equations
  /\ Shaped(e.rows)
  /\ e.ok => st.ok /\ \A z \in Solutions :
       Solves(z, e.rows, e.rhs) => Solves(z, st.rows, st.rhs) /\ XorOver(z, band.row) = band.fp

LEMMA EliminateExtends ==
  ASSUME NEW st \in Equations, Shaped(st.rows), NEW band \in Band
  PROVE  Extended(Eliminate(st, band), st, band)
<1> DEFINE R == RibbonSlots
           first == [rows |-> st.rows, rhs |-> st.rhs, row |-> band.row, fp |-> band.fp, done |-> FALSE]
           Rec(s) == s = [n \in 0..R |-> IF n = 0 THEN first ELSE Pivot(s[n - 1], n - 1)]
           step == [n \in 1..R |-> [x \in Elimination |-> Pivot(x, n - 1)]]
<1>0. R \in Nat /\ \A n \in 1..R : n - 1 \in Slots
  BY SeenAssumption DEF Slots
<1>1. first \in Elimination
  BY DEF Elimination, Equations, Band
<1>2. Steps(step, R, Elimination)
  <2>1. \A n \in 1..R : \A x \in Elimination : Pivot(x, n - 1) \in Elimination
    BY <1>0, PivotTyped
  <2> QED BY <2>1 DEF Steps
<1>3. PICK c : Course(c, R, Elimination, first, step)
  <2> HIDE DEF R, first, step
  <2> QED BY <1>0, <1>1, <1>2, Recursion
<1>4. Rec(c)
  <2>1. c \in [0..R -> Elimination] /\ c[0] = first /\ \A i \in 1..R : c[i] = step[i][c[i - 1]]
    BY <1>3 DEF Course
  <2>2. \A i \in 1..R : i - 1 \in 0..R /\ c[i - 1] \in Elimination
    BY <1>0, <2>1
  <2>3. \A i \in 1..R : c[i] = Pivot(c[i - 1], i - 1)
    BY <2>1, <2>2
  <2>4. \A n \in 0..R : n # 0 => n \in 1..R
    BY <1>0
  <2> HIDE DEF first, step
  <2>5. c = [n \in 0..R |-> c[n]]
    BY <2>1
  <2>6. \A n \in 0..R : c[n] = IF n = 0 THEN first ELSE Pivot(c[n - 1], n - 1)
    BY <2>1, <2>3, <2>4
  <2> QED BY <2>5, <2>6
<1> DEFINE s == CHOOSE s : Rec(s)
<1>5. Rec(s)
  <2> HIDE DEF Rec
  <2> QED BY <1>4
<1>6. Eliminate(st, band) = [rows |-> s[R].rows, rhs |-> s[R].rhs, ok |-> st.ok /\ (s[R].done \/ s[R].fp = {})]
  BY DEF Eliminate
<1> HIDE DEF s, first
<1>7. /\ s = [n \in 0..R |-> s[n]] /\ s[0] = first
      /\ \A n \in 1..R : s[n] = Pivot(s[n - 1], n - 1)
  <2>1. 0 \in 0..R /\ \A n \in 1..R : n \in 0..R /\ n # 0
    BY <1>0
  <2>2. \A n \in 0..R : s[n] = IF n = 0 THEN first ELSE Pivot(s[n - 1], n - 1)
    BY <1>5
  <2>3. DOMAIN s = 0..R
    BY <1>5
  <2>4. s = [n \in 0..R |-> s[n]]
    BY <1>5, <2>3
  <2> QED BY <2>1, <2>2, <2>4
<1>8. Course(s, R, Elimination, first, step)
  <2>1. \A i \in 1..R : s[i - 1] \in Elimination => s[i] = step[i][s[i - 1]]
    BY <1>7
  <2> HIDE DEF R, step
  <2> QED BY <1>0, <1>1, <1>2, <1>7, <2>1, CourseFits
<1>9. \A n \in 0..R : s[n] \in Elimination
  BY <1>8 DEF Course
<1> DEFINE G == {n \in 0..R : Reduced(s[n], n, st.rows, st.rhs, band.row, band.fp)}
<1>10. 0 \in G
  <2>1. first.rows = st.rows /\ first.rhs = st.rhs /\ first.row = band.row /\ first.fp = band.fp /\ ~first.done
    BY DEF first
  <2>2. \A j \in first.row : 0 <= j
    <3>1. band.row \in SUBSET Slots
      BY DEF Band
    <3> QED BY <1>0, <2>1, <3>1 DEF Slots
  <2>3. Reduced(first, 0, st.rows, st.rhs, band.row, band.fp)
    BY <2>1, <2>2 DEF Reduced
  <2> QED BY <1>0, <1>7, <2>3
<1>11. \A n \in 0..R : n \in G /\ n < R => n + 1 \in G
  <2> SUFFICES ASSUME NEW n \in 0..R, n \in G, n < R
               PROVE  n + 1 \in 0..R /\ Reduced(s[n + 1], n + 1, st.rows, st.rhs, band.row, band.fp)
    OBVIOUS
  <2>1. n + 1 \in 1..R /\ (n + 1) - 1 = n /\ n \in Slots /\ n + 1 \in 0..R
    BY <1>0 DEF Slots
  <2>2. s[n + 1] = Pivot(s[n], n)
    BY <1>7, <2>1
  <2>3. s[n] \in Elimination
    BY <1>9
  <2>4. Reduced(s[n], n, st.rows, st.rhs, band.row, band.fp)
    OBVIOUS
  <2>5. Reduced(Pivot(s[n], n), n + 1, st.rows, st.rhs, band.row, band.fp)
    BY <2>1, <2>3, <2>4, PivotReduces
  <2> QED BY <2>1, <2>2, <2>5
<1> HIDE DEF G
<1>12. \A n \in 0..R : n \in G
  BY <1>0, <1>10, <1>11, Climb
<1>13. R \in 0..R
  BY <1>0
<1>14. Reduced(s[R], R, st.rows, st.rhs, band.row, band.fp) /\ s[R] \in Elimination
  BY <1>9, <1>12, <1>13 DEF G
<1> DEFINE e == Eliminate(st, band)
<1>15. e \in Equations /\ Shaped(e.rows) /\ e.rows = s[R].rows /\ e.rhs = s[R].rhs
  <2>1. st.ok \in BOOLEAN
    BY DEF Equations
  <2>2. (st.ok /\ (s[R].done \/ s[R].fp = {})) \in BOOLEAN
    BY <2>1
  <2>3. s[R].rows \in [Slots -> SUBSET Slots] /\ s[R].rhs \in Solutions /\ Shaped(s[R].rows)
    BY <1>14 DEF Elimination, Reduced
  <2> QED BY <1>6, <2>2, <2>3 DEF Equations
<1>16. ASSUME e.ok
       PROVE  st.ok /\ \A z \in Solutions :
                Solves(z, e.rows, e.rhs) => Solves(z, st.rows, st.rhs) /\ XorOver(z, band.row) = band.fp
  <2>0. e.ok = (st.ok /\ (s[R].done \/ s[R].fp = {}))
    BY <1>6
  <2>1. st.ok /\ (s[R].done \/ s[R].fp = {})
    <3> HIDE DEF e
    <3> QED BY <2>0, <1>16, Zenon
  <2>2. ASSUME NEW z \in Solutions, Solves(z, e.rows, e.rhs)
        PROVE  Solves(z, st.rows, st.rhs) /\ XorOver(z, band.row) = band.fp
    <3>1. ~s[R].done => XorOver(z, s[R].row) = s[R].fp
      <4> SUFFICES ASSUME ~s[R].done PROVE XorOver(z, s[R].row) = {}
        BY <2>1
      <4>1. s[R].row = {}
        <5>1. \A j \in s[R].row : R <= j /\ j \in Slots
          BY <1>14 DEF Reduced, Elimination
        <5> QED BY <1>0, <5>1 DEF Slots
      <4> QED BY <4>1, XorNone
    <3>2. Solves(z, s[R].rows, s[R].rhs)
      BY <1>15, <2>2
    <3> QED BY <1>14, <3>1, <3>2 DEF Reduced
  <2> QED BY <2>1, <2>2
<1> HIDE DEF e
<1>17. Extended(e, st, band)
  BY <1>15, <1>16 DEF Extended
<1> QED BY <1>17 DEF e

\* Back substitution solves equations whose row starts at its own slot.
LEMMA BackSubstituteSolves ==
  ASSUME NEW eqs, NEW rhs \in Solutions, Shaped(eqs)
  PROVE  BackSubstitute(eqs, rhs) \in Solutions /\ Solves(BackSubstitute(eqs, rhs), eqs, rhs)
<1> DEFINE R == RibbonSlots
           Sub(z, i) == IF eqs[i] = {} THEN z ELSE [z EXCEPT ![i] = Xor(rhs[i], XorOver(z, eqs[i] \ {i}))]
           Rec(s) == s = [n \in 0..R |-> IF n = 0 THEN NoRows
                                         ELSE LET i == RibbonSlots - n
                                              IN IF eqs[i] = {} THEN s[n - 1]
                                                 ELSE [s[n - 1] EXCEPT ![i] = Xor(rhs[i], XorOver(s[n - 1], eqs[i] \ {i}))]]
           step == [n \in 1..R |-> [x \in Solutions |-> Sub(x, R - n)]]
<1>0. R \in Nat /\ \A n \in 1..R : R - n \in Slots
  BY SeenAssumption DEF Slots
<1>1. NoRows \in Solutions
  BY DEF NoRows, Solutions
<1>2. ASSUME NEW z \in Solutions, NEW i \in Slots
      PROVE  /\ XorOver(z, eqs[i] \ {i}) \in SUBSET FpBits
             /\ Sub(z, i) \in Solutions
  <2>1. PICK a : Summing(a, z, eqs[i] \ {i}) /\ XorOver(z, eqs[i] \ {i}) = a[R]
    BY XorOverIs
  <2>2. R \in 0..R
    BY <1>0
  <2>3. XorOver(z, eqs[i] \ {i}) \in SUBSET FpBits
    BY <2>1, <2>2 DEF Summing
  <2>4. Xor(rhs[i], XorOver(z, eqs[i] \ {i})) \in SUBSET FpBits
    <3>1. rhs[i] \in SUBSET FpBits
      BY DEF Solutions
    <3> QED BY <2>3, <3>1 DEF Xor
  <2> QED BY <2>3, <2>4 DEF Solutions
<1>3. Steps(step, R, Solutions)
  <2>1. \A n \in 1..R : \A x \in Solutions : Sub(x, R - n) \in Solutions
    BY <1>0, <1>2
  <2> HIDE DEF Sub
  <2> QED BY <2>1 DEF Steps
<1>4. PICK c : Course(c, R, Solutions, NoRows, step)
  <2> HIDE DEF R, step
  <2> QED BY <1>0, <1>1, <1>3, Recursion
<1>5. Rec(c)
  <2>1. c \in [0..R -> Solutions] /\ c[0] = NoRows /\ \A i \in 1..R : c[i] = step[i][c[i - 1]]
    BY <1>4 DEF Course
  <2>2. \A i \in 1..R : i - 1 \in 0..R /\ c[i - 1] \in Solutions
    BY <1>0, <2>1
  <2>3. \A i \in 1..R : c[i] = Sub(c[i - 1], R - i)
    <3> HIDE DEF Sub
    <3> QED BY <2>1, <2>2
  <2>4. \A n \in 0..R : n # 0 => n \in 1..R
    BY <1>0
  <2>5. c = [n \in 0..R |-> c[n]]
    BY <2>1
  <2>6. \A n \in 0..R : c[n] = IF n = 0 THEN NoRows ELSE Sub(c[n - 1], R - n)
    <3> HIDE DEF Sub
    <3> QED BY <2>1, <2>3, <2>4
  <2>7. [n \in 0..R |-> c[n]] = [n \in 0..R |-> IF n = 0 THEN NoRows ELSE Sub(c[n - 1], R - n)]
    <3> HIDE DEF Sub
    <3> QED BY <2>6
  <2>8. c = [n \in 0..R |-> IF n = 0 THEN NoRows ELSE Sub(c[n - 1], R - n)]
    <3> HIDE DEF Sub
    <3> QED BY <2>5, <2>7
  <2> QED BY <2>8
<1> DEFINE s == CHOOSE s : Rec(s)
<1>6. Rec(s)
  <2> HIDE DEF Rec
  <2> QED BY <1>5
<1>7. BackSubstitute(eqs, rhs) = s[R]
  BY DEF BackSubstitute
<1> HIDE DEF s
<1>8. /\ s = [n \in 0..R |-> s[n]] /\ s[0] = NoRows
      /\ \A n \in 1..R : s[n] = Sub(s[n - 1], R - n)
  <2>0. s = [n \in 0..R |-> IF n = 0 THEN NoRows ELSE Sub(s[n - 1], R - n)]
    BY <1>6
  <2>1. 0 \in 0..R /\ \A n \in 1..R : n \in 0..R /\ n # 0
    BY <1>0
  <2> HIDE DEF Sub
  <2>2. \A n \in 0..R : s[n] = IF n = 0 THEN NoRows ELSE Sub(s[n - 1], R - n)
    BY <2>0
  <2>3. DOMAIN s = 0..R
    BY <2>0
  <2>4. s = [n \in 0..R |-> s[n]]
    BY <2>0, <2>3
  <2> QED BY <2>1, <2>2, <2>4
<1>9. Course(s, R, Solutions, NoRows, step)
  <2>1. \A i \in 1..R : s[i - 1] \in Solutions => s[i] = step[i][s[i - 1]]
    <3> HIDE DEF Sub
    <3> QED BY <1>8
  <2> HIDE DEF R, step
  <2> QED BY <1>0, <1>1, <1>3, <1>8, <2>1, CourseFits
<1>10. \A n \in 0..R : s[n] \in Solutions
  BY <1>9 DEF Course
<1> DEFINE G == {n \in 0..R : \A i \in Slots : i >= R - n /\ eqs[i] # {} => XorOver(s[n], eqs[i]) = rhs[i]}
<1>11. 0 \in G
  BY <1>0 DEF Slots
<1>12. \A n \in 0..R : n \in G /\ n < R => n + 1 \in G
  <2> SUFFICES ASSUME NEW n \in 0..R, n \in G, n < R, NEW i \in Slots, i >= R - (n + 1), eqs[i] # {}
               PROVE  XorOver(s[n + 1], eqs[i]) = rhs[i]
    BY <1>0
  <2> DEFINE j == R - (n + 1)
             z == s[n]
             y == s[n + 1]
  <2>1. n + 1 \in 1..R /\ (n + 1) - 1 = n /\ j \in Slots /\ n + 1 \in 0..R /\ j \in Nat /\ i \in Nat
    BY <1>0 DEF Slots
  <2>2. y = Sub(z, j) /\ z \in Solutions /\ y \in Solutions
    BY <1>8, <1>10, <2>1
  <2>3. \A h \in Slots : h # j => y[h] = z[h]
    BY <2>2 DEF Solutions
  <2>4. i \in eqs[i] /\ (\A h \in eqs[i] : i <= h) /\ eqs[i] \in SUBSET Slots
    BY DEF Shaped
  <2>5. CASE i # j
    <3>1. i > j /\ i >= R - n
      BY <1>0, <2>1, <2>5
    <3>2. XorOver(z, eqs[i]) = rhs[i]
      BY <3>1
    <3>3. \A h \in Slots : h \in eqs[i] => h # j
      BY <2>1, <2>4, <3>1
    <3>4. XorOver(y, eqs[i]) = XorOver(z, eqs[i])
      <4> HIDE DEF y, z
      <4>1. \A h \in Slots : h \in eqs[i] => y[h] = z[h]
        BY <2>3, <3>3
      <4> QED BY <2>2, <4>1, XorLocal
    <3> QED BY <3>2, <3>4
  <2>6. CASE i = j
    <3> DEFINE S == eqs[i] \ {i}
               x == XorOver(z, S)
    <3>1. y[i] = Xor(rhs[i], x)
      <4>1. y = [z EXCEPT ![i] = Xor(rhs[i], x)]
        BY <2>2, <2>6
      <4> HIDE DEF x, y, z
      <4> QED BY <2>2, <4>1 DEF Solutions
    <3>2. XorOver(y, S) = x
      <4>1. \A h \in Slots : h \in S => y[h] = z[h]
        BY <2>3, <2>6
      <4> HIDE DEF y, z, S, x
      <4>2. XorOver(y, S) = XorOver(z, S)
        BY <2>2, <4>1, XorLocal
      <4> QED BY <4>2 DEF x
    <3>3. eqs[i] = Xor({i}, S)
      BY <2>4 DEF Xor
    <3>4. XorOver(y, Xor({i}, S)) = Xor(XorOver(y, {i}), XorOver(y, S)) /\ XorOver(y, {i}) = y[i]
      <4> DEFINE one == {i}
      <4> HIDE DEF y, S, one
      <4>1. XorOver(y, Xor(one, S)) = Xor(XorOver(y, one), XorOver(y, S))
        BY <2>2, XorLinear
      <4>2. XorOver(y, {i}) = y[i]
        BY <2>2, XorSingle
      <4> QED BY <4>1, <4>2 DEF one
    <3>5. Xor(Xor(rhs[i], x), x) = rhs[i]
      BY DEF Xor
    <3> HIDE DEF y, x, S
    <3>6. XorOver(y, eqs[i]) = Xor(Xor(rhs[i], x), x)
      BY <3>1, <3>2, <3>3, <3>4
    <3> QED BY <3>5, <3>6 DEF y
  <2> QED BY <2>5, <2>6
<1> HIDE DEF G
<1>13. \A n \in 0..R : n \in G
  BY <1>0, <1>11, <1>12, Climb
<1>14. R \in G /\ R \in 0..R
  BY <1>0, <1>13
<1>15. \A i \in Slots : i >= R - R
  BY <1>0 DEF Slots
<1>16. Solves(s[R], eqs, rhs)
  BY <1>14, <1>15 DEF G, Solves
<1> QED BY <1>7, <1>10, <1>14, <1>16
\* st solves with the first n bands of bands.
Holds(st, n, bands) ==
  /\ Shaped(st.rows)
  /\ st.ok => \A z \in Solutions :
       Solves(z, st.rows, st.rhs) => \A m \in 1..n : XorOver(z, bands[m].row) = bands[m].fp

\* A ribbon that solves answers every equation it was given.
LEMMA SolvedRibbon ==
  ASSUME NEW bands \in Seq(Band)
  PROVE  \A z \in solveRibbon(bands) :
           z \in Solutions /\ \A m \in 1..Len(bands) : XorOver(z, bands[m].row) = bands[m].fp
<1> DEFINE L == Len(bands)
           first == [rows |-> NoRows, rhs |-> NoRows, ok |-> TRUE]
           E == {e \in Equations : Shaped(e.rows)}
           Rec(s) == s = [n \in 0..L |-> IF n = 0 THEN first ELSE Eliminate(s[n - 1], bands[n])]
           step == [n \in 1..L |-> [x \in E |-> Eliminate(x, bands[n])]]
<1>0. L \in Nat /\ \A n \in 1..L : bands[n] \in Band
  OBVIOUS
<1>1. first \in E
  <2>1. NoRows \in [Slots -> SUBSET Slots] /\ NoRows \in Solutions /\ Shaped(NoRows)
    BY DEF NoRows, Solutions, Shaped
  <2> QED BY <2>1 DEF Equations
<1>2. \A n \in 1..L : \A x \in E : Eliminate(x, bands[n]) \in E /\ Extended(Eliminate(x, bands[n]), x, bands[n])
  BY <1>0, EliminateExtends DEF Extended
<1>3. Steps(step, L, E)
  <2> HIDE DEF E
  <2> QED BY <1>2 DEF Steps
<1>4. PICK c : Course(c, L, E, first, step)
  <2> HIDE DEF L, first, step, E
  <2> QED BY <1>0, <1>1, <1>3, Recursion
<1>5. Rec(c)
  <2> HIDE DEF E, first
  <2>1. c \in [0..L -> E] /\ c[0] = first /\ \A i \in 1..L : c[i] = step[i][c[i - 1]]
    BY <1>4 DEF Course
  <2>2. \A i \in 1..L : i - 1 \in 0..L /\ c[i - 1] \in E
    BY <1>0, <2>1
  <2>3. \A i \in 1..L : c[i] = Eliminate(c[i - 1], bands[i])
    BY <2>1, <2>2
  <2>4. \A n \in 0..L : n # 0 => n \in 1..L
    BY <1>0
  <2> HIDE DEF step
  <2>5. c = [n \in 0..L |-> c[n]]
    BY <2>1
  <2>6. \A n \in 0..L : c[n] = IF n = 0 THEN first ELSE Eliminate(c[n - 1], bands[n])
    BY <2>1, <2>3, <2>4
  <2> QED BY <2>5, <2>6
<1> DEFINE s == CHOOSE s : Rec(s)
<1>6. Rec(s)
  <2> HIDE DEF Rec
  <2> QED BY <1>5
<1>7. solveRibbon(bands) = IF s[L].ok THEN {BackSubstitute(s[L].rows, s[L].rhs)} ELSE {}
  BY DEF solveRibbon
<1> HIDE DEF s, first
<1>8. /\ s = [n \in 0..L |-> s[n]] /\ s[0] = first
      /\ \A n \in 1..L : s[n] = Eliminate(s[n - 1], bands[n])
  <2>1. 0 \in 0..L /\ \A n \in 1..L : n \in 0..L /\ n # 0
    BY <1>0
  <2>2. \A n \in 0..L : s[n] = IF n = 0 THEN first ELSE Eliminate(s[n - 1], bands[n])
    BY <1>6
  <2>3. DOMAIN s = 0..L
    BY <1>6
  <2>4. s = [n \in 0..L |-> s[n]]
    BY <1>6, <2>3
  <2> QED BY <2>1, <2>2, <2>4
<1>9. Course(s, L, E, first, step)
  <2> HIDE DEF E
  <2>1. \A i \in 1..L : s[i - 1] \in E => s[i] = step[i][s[i - 1]]
    BY <1>8
  <2> HIDE DEF L, step
  <2> QED BY <1>0, <1>1, <1>3, <1>8, <2>1, CourseFits
<1>10. \A n \in 0..L : s[n] \in E
  <2> HIDE DEF E
  <2> QED BY <1>9 DEF Course
<1> DEFINE G == {n \in 0..L : Holds(s[n], n, bands)}
<1>11. 0 \in G
  <2>1. Shaped(s[0].rows) /\ 0 \in 0..L
    BY <1>0, <1>10
  <2>2. 1..0 = {}
    OBVIOUS
  <2> QED BY <2>1, <2>2 DEF Holds
<1>12. \A n \in 0..L : n \in G /\ n < L => n + 1 \in G
  <2> SUFFICES ASSUME NEW n \in 0..L, n \in G, n < L PROVE n + 1 \in 0..L /\ Holds(s[n + 1], n + 1, bands)
    OBVIOUS
  <2>1. n + 1 \in 1..L /\ (n + 1) - 1 = n /\ n + 1 \in 0..L
    BY <1>0
  <2>2. s[n + 1] = Eliminate(s[n], bands[n + 1]) /\ s[n] \in E
    BY <1>8, <1>10, <2>1
  <2>3. Extended(s[n + 1], s[n], bands[n + 1])
    BY <1>2, <2>1, <2>2
  <2>4. Holds(s[n], n, bands)
    OBVIOUS
  <2>5. ASSUME s[n + 1].ok, NEW z \in Solutions, Solves(z, s[n + 1].rows, s[n + 1].rhs), NEW m \in 1..(n + 1)
        PROVE  XorOver(z, bands[m].row) = bands[m].fp
    <3>1. s[n].ok /\ Solves(z, s[n].rows, s[n].rhs) /\ XorOver(z, bands[n + 1].row) = bands[n + 1].fp
      BY <2>3, <2>5 DEF Extended
    <3>2. CASE m = n + 1
      BY <3>1, <3>2
    <3>3. CASE m \in 1..n
      BY <2>4, <3>1, <3>3 DEF Holds
    <3> QED BY <3>2, <3>3
  <2>6. Shaped(s[n + 1].rows)
    BY <2>3 DEF Extended
  <2> QED BY <2>1, <2>5, <2>6 DEF Holds
<1> HIDE DEF G
<1>13. \A n \in 0..L : n \in G
  BY <1>0, <1>11, <1>12, Climb
<1>14. L \in 0..L
  BY <1>0
<1>15. Holds(s[L], L, bands) /\ s[L] \in Equations /\ Shaped(s[L].rows)
  BY <1>10, <1>13, <1>14 DEF G
<1> HIDE DEF L
<1> SUFFICES ASSUME NEW z \in solveRibbon(bands)
             PROVE  z \in Solutions /\ \A m \in 1..L : XorOver(z, bands[m].row) = bands[m].fp
  BY DEF L
<1>16. s[L].ok /\ z = BackSubstitute(s[L].rows, s[L].rhs)
  BY <1>7
<1>17. s[L].rhs \in Solutions
  BY <1>15 DEF Equations
<1>18. z \in Solutions /\ Solves(z, s[L].rows, s[L].rhs)
  BY <1>15, <1>16, <1>17, BackSubstituteSolves
<1> QED BY <1>15, <1>16, <1>18 DEF Holds

LEMMA DerivedBands == Derivations \subseteq Band
<1>0. RibbonSlots \in Nat /\ BandWidth \in Nat \ {0}
  BY SeenAssumption
<1> SUFFICES ASSUME NEW d \in Derivations PROVE d \in Band
  OBVIOUS
<1>1. PICK b \in Bands, start \in 0..(RibbonSlots - BandWidth) : d = Shifted(b, start)
  BY DEF Derivations
<1>2. PICK rest \in SUBSET (1..(BandWidth - 1)), fp \in SUBSET FpBits : b = [row |-> {0} \cup rest, fp |-> fp]
  BY <1>1 DEF Bands
<1>3. d = [row |-> {start + i : i \in {0} \cup rest}, fp |-> fp]
  <2>1. b.row = {0} \cup rest /\ b.fp = fp
    BY <1>2
  <2> DEFINE r == {start + i : i \in b.row}
  <2>2. d = [b EXCEPT !.row = r]
    BY <1>1 DEF Shifted
  <2>3. r = {start + i : i \in {0} \cup rest}
    BY <2>1
  <2> HIDE DEF r
  <2>4. [b EXCEPT !.row = r] = [row |-> r, fp |-> fp]
    BY <1>2
  <2> QED BY <2>2, <2>3, <2>4
<1>4. \A i \in {0} \cup rest : start + i \in Slots
  BY <1>0, <1>1 DEF Slots
<1> QED BY <1>3, <1>4 DEF Band
-----------------------------------------------------------------------------
(* Sorted runs of keys. *)

KeyPairs == Nat \X Nat

LEMMA LessOrder ==
  /\ \A a \in KeyPairs : ~Less(a, a)
  /\ \A a, b \in KeyPairs : Less(a, b) \/ a = b \/ Less(b, a)
  /\ \A a, b, c \in KeyPairs : Less(a, b) /\ Less(b, c) => Less(a, c)
  /\ \A a, b \in KeyPairs : Less(a, b) => ~Less(b, a)
<1>1. \A a \in KeyPairs : a = <<a[1], a[2]>> /\ a[1] \in Nat /\ a[2] \in Nat
  BY DEF KeyPairs
<1>2. \A a \in KeyPairs : ~Less(a, a)
  BY <1>1 DEF Less
<1>3. \A a, b \in KeyPairs : Less(a, b) \/ a = b \/ Less(b, a)
  BY <1>1 DEF Less
<1>4. \A a, b, c \in KeyPairs : Less(a, b) /\ Less(b, c) => Less(a, c)
  <2> SUFFICES ASSUME NEW a \in KeyPairs, NEW b \in KeyPairs, NEW c \in KeyPairs, Less(a, b), Less(b, c)
               PROVE  Less(a, c)
    OBVIOUS
  <2>1. a[1] \in Nat /\ a[2] \in Nat /\ b[1] \in Nat /\ b[2] \in Nat /\ c[1] \in Nat /\ c[2] \in Nat
    BY <1>1
  <2> QED BY <2>1 DEF Less
<1>5. \A a, b \in KeyPairs : Less(a, b) => ~Less(b, a)
  BY <1>1 DEF Less
<1> QED BY <1>2, <1>3, <1>4, <1>5

Strict(run) == \A i \in 2..Len(run) : Less(run[i - 1], run[i])
Weak(run) == \A i \in 2..Len(run) : ~Less(run[i], run[i - 1])

LEMMA StrictAll ==
  ASSUME NEW run \in Seq(KeyPairs), Strict(run)
  PROVE  \A i, j \in 1..Len(run) : i < j => Less(run[i], run[j])
<1> SUFFICES ASSUME NEW i \in 1..Len(run) PROVE \A j \in 1..Len(run) : i < j => Less(run[i], run[j])
  OBVIOUS
<1> DEFINE n == Len(run)
           G == {j \in 0..n : i < j => Less(run[i], run[j])}
<1>0. n \in Nat /\ \A j \in 1..n : run[j] \in KeyPairs
  OBVIOUS
<1>1. 0 \in G
  BY <1>0
<1>2. \A j \in 0..n : j \in G /\ j < n => j + 1 \in G
  <2> SUFFICES ASSUME NEW j \in 0..n, j \in G, j < n, i < j + 1 PROVE Less(run[i], run[j + 1])
    BY <1>0
  <2>1. j + 1 \in 2..n /\ (j + 1) - 1 = j /\ j \in 1..n /\ j + 1 \in 1..n
    BY <1>0
  <2>2. Less(run[j], run[j + 1])
    BY <2>1 DEF Strict
  <2>3. CASE i = j
    BY <2>2, <2>3
  <2>4. CASE i < j
    <3>1. Less(run[i], run[j])
      BY <2>4
    <3>2. run[i] \in KeyPairs /\ run[j] \in KeyPairs /\ run[j + 1] \in KeyPairs
      BY <1>0, <2>1
    <3> QED BY <2>2, <3>1, <3>2, LessOrder
  <2> QED BY <2>1, <2>3, <2>4
<1> HIDE DEF G
<1>3. \A j \in 0..n : j \in G
  BY <1>0, <1>1, <1>2, Climb
<1> QED BY <1>3 DEF G

LEMMA WeakAll ==
  ASSUME NEW run \in Seq(KeyPairs), Weak(run)
  PROVE  \A i, j \in 1..Len(run) : i <= j => ~Less(run[j], run[i])
<1> SUFFICES ASSUME NEW i \in 1..Len(run) PROVE \A j \in 1..Len(run) : i <= j => ~Less(run[j], run[i])
  OBVIOUS
<1> DEFINE n == Len(run)
           G == {j \in 0..n : i <= j => ~Less(run[j], run[i])}
<1>0. n \in Nat /\ \A j \in 1..n : run[j] \in KeyPairs
  OBVIOUS
<1>1. 0 \in G
  BY <1>0
<1>2. \A j \in 0..n : j \in G /\ j < n => j + 1 \in G
  <2> SUFFICES ASSUME NEW j \in 0..n, j \in G, j < n, i <= j + 1 PROVE ~Less(run[j + 1], run[i])
    BY <1>0
  <2>0. j + 1 \in 1..n
    BY <1>0
  <2>1. CASE i = j + 1
    BY <1>0, <2>0, <2>1, LessOrder
  <2>2. CASE i <= j
    <3>1. j + 1 \in 2..n /\ (j + 1) - 1 = j /\ j \in 1..n
      BY <1>0, <2>2
    <3>2. ~Less(run[j + 1], run[j]) /\ ~Less(run[j], run[i])
      BY <2>2, <3>1 DEF Weak
    <3>3. run[i] \in KeyPairs /\ run[j] \in KeyPairs /\ run[j + 1] \in KeyPairs
      BY <1>0, <2>0, <3>1
    <3> QED BY <3>2, <3>3, LessOrder
  <2> QED BY <2>0, <2>1, <2>2
<1> HIDE DEF G
<1>3. \A j \in 0..n : j \in G
  BY <1>0, <1>1, <1>2, Climb
<1> QED BY <1>3 DEF G

LEMMA LeastMin ==
  ASSUME NEW T \in SUBSET Nat, T # {}
  PROVE  Min(T) \in T /\ \A y \in T : Min(T) <= y
<1>1. \E x \in T : \A y \in T : x =< y
  BY LeastNat
<1> QED BY <1>1 DEF Min

\* The search from place "from" for key k.
Search(run, from, k) == Min({i \in from..Len(run) : ~Less(run[i], k)} \cup {Len(run) + 1})

Found(run, from, k, p) ==
  /\ p \in from..(Len(run) + 1)
  /\ \A i \in 1..(p - 1) : Less(run[i], k)
  /\ \A i \in p..Len(run) : ~Less(run[i], k)
  /\ (p <= Len(run) /\ run[p] = k) <=> k \in Range(run)

LEMMA SearchFinds ==
  ASSUME NEW run \in Seq(KeyPairs), Strict(run), NEW from \in 1..(Len(run) + 1), NEW k \in KeyPairs,
         \A i \in 1..(from - 1) : Less(run[i], k)
  PROVE  Found(run, from, k, Search(run, from, k))
<1> DEFINE n == Len(run)
           T == {i \in from..n : ~Less(run[i], k)} \cup {n + 1}
           p == Min(T)
<1>0. n \in Nat /\ DOMAIN run = 1..n /\ (\A j \in 1..n : run[j] \in KeyPairs)
  OBVIOUS
<1>1. T \in SUBSET Nat /\ T # {}
  BY <1>0
<1>2. p \in T /\ \A y \in T : p <= y
  <2> HIDE DEF T
  <2> QED BY <1>1, LeastMin
<1>3. Search(run, from, k) = p
  BY DEF Search
<1> HIDE DEF p
<1>4. p \in from..(n + 1) /\ p \in Nat
  BY <1>0, <1>2
<1>5. ASSUME NEW i \in 1..(p - 1) PROVE Less(run[i], k)
  <2>1. i \in Nat /\ i < p /\ i <= n
    BY <1>0, <1>4
  <2>2. i \notin T
    BY <1>2, <1>4, <2>1
  <2>3. CASE i < from
    BY <2>1, <2>3
  <2>4. CASE i >= from
    BY <1>0, <2>1, <2>2, <2>4
  <2> QED BY <2>1, <2>3, <2>4
<1>6. ASSUME NEW i \in p..n PROVE ~Less(run[i], k)
  <2>1. p <= n /\ p \in 1..n /\ i \in 1..n
    BY <1>0, <1>4
  <2>2. ~Less(run[p], k)
    BY <1>2, <2>1, <1>0
  <2>3. p = i \/ Less(run[p], run[i])
    BY <1>0, <2>1, StrictAll
  <2>4. run[p] \in KeyPairs /\ run[i] \in KeyPairs
    BY <1>0, <2>1
  <2> QED BY <2>2, <2>3, <2>4, LessOrder
<1>7. (p <= n /\ run[p] = k) <=> k \in Range(run)
  <2>1. ASSUME p <= n, run[p] = k PROVE k \in Range(run)
    <3>1. p \in DOMAIN run
      BY <1>0, <1>4, <2>1
    <3> QED BY <2>1, <3>1 DEF Range
  <2>2. ASSUME k \in Range(run) PROVE p <= n /\ run[p] = k
    <3>1. PICK j \in 1..n : run[j] = k
      BY <1>0, <2>2 DEF Range
    <3>2. ~Less(run[j], k)
      BY <3>1, LessOrder
    <3>3. ~(j \in 1..(p - 1))
      BY <1>5, <3>2
    <3>4. p <= j /\ p <= n /\ p \in 1..n
      BY <1>0, <1>4, <3>3
    <3>5. ~(p < j)
      <4> SUFFICES ASSUME p < j PROVE FALSE
        OBVIOUS
      <4>1. Less(run[p], run[j])
        BY <3>4, StrictAll
      <4>2. p \in p..n
        BY <1>0, <3>4
      <4> QED BY <1>6, <3>1, <4>1, <4>2
    <3>6. p = j
      BY <1>4, <3>4, <3>5
    <3> QED BY <3>1, <3>4, <3>6
  <2> QED BY <2>1, <2>2
<1> QED BY <1>3, <1>4, <1>5, <1>6, <1>7 DEF Found

LEMMA PlaceFinds ==
  ASSUME NEW run \in Seq(KeyPairs), Strict(run), NEW k \in KeyPairs
  PROVE  Found(run, 1, k, Place(run, k))
<1>1. DOMAIN run = 1..Len(run) /\ Len(run) \in Nat
  OBVIOUS
<1>2. Place(run, k) = Search(run, 1, k)
  BY <1>1 DEF Place, Search
<1>3. 1 \in 1..(Len(run) + 1) /\ \A i \in 1..(1 - 1) : Less(run[i], k)
  BY <1>1
<1> QED BY <1>2, <1>3, SearchFinds

\* A run that holds the set H.
Holding(run, H) == run \in Seq(KeyPairs) /\ Strict(run) /\ Range(run) = H

LEMMA InsertHolds ==
  ASSUME NEW run, NEW H, Holding(run, H), NEW k \in KeyPairs, k \notin H
  PROVE  Holding(InsertAt(run, Place(run, k), k), H \cup {k})
<1> DEFINE n == Len(run)
           p == Place(run, k)
           new == InsertAt(run, p, k)
<1>0. run \in Seq(KeyPairs) /\ Strict(run) /\ Range(run) = H /\ n \in Nat /\ DOMAIN run = 1..n
  BY DEF Holding
<1>1. Found(run, 1, k, p)
  BY <1>0, PlaceFinds
<1> HIDE DEF p
<1>2. p \in 1..(n + 1) /\ (\A i \in 1..(p - 1) : Less(run[i], k)) /\ \A i \in p..n : ~Less(run[i], k)
  BY <1>1 DEF Found
<1> DEFINE A == SubSeq(run, 1, p - 1)
           B == SubSeq(run, p, n)
<1>3. A \in Seq(KeyPairs) /\ Len(A) = p - 1 /\ \A i \in 1..(p - 1) : A[i] = run[i]
  BY <1>0, <1>2
<1>4. B \in Seq(KeyPairs) /\ Len(B) = n - p + 1 /\ \A i \in 1..(n - p + 1) : B[i] = run[p + i - 1]
  BY <1>0, <1>2
<1>5. new = A \o <<k>> \o B
  BY DEF InsertAt
<1> HIDE DEF A, B
<1> DEFINE C == A \o <<k>>
<1>6. C \in Seq(KeyPairs) /\ Len(C) = p /\ (\A i \in 1..(p - 1) : C[i] = run[i]) /\ C[p] = k
  BY <1>2, <1>3
<1>7. new = C \o B
  BY <1>5
<1> HIDE DEF C, new
<1>8. new \in Seq(KeyPairs) /\ Len(new) = n + 1
  <2>1. new \in Seq(KeyPairs) /\ Len(new) = Len(C) + Len(B)
    BY <1>4, <1>6, <1>7, Joined
  <2> QED BY <1>0, <1>2, <1>4, <1>6, <2>1
<1>9. \A i \in 1..p : new[i] = C[i]
  BY <1>4, <1>6, <1>7, Joined
<1>10. \A i \in (p + 1)..(n + 1) : new[i] = run[i - 1]
  <2> SUFFICES ASSUME NEW i \in (p + 1)..(n + 1) PROVE new[i] = run[i - 1]
    OBVIOUS
  <2>1. i - p \in 1..(n - p + 1) /\ p + (i - p) = i /\ p + (i - p) - 1 = i - 1
    BY <1>0, <1>2
  <2>2. \A j \in 1..(n - p + 1) : new[p + j] = B[j]
    <3>1. \A j \in 1..Len(B) : (C \o B)[Len(C) + j] = B[j]
      BY <1>4, <1>6, Joined
    <3> QED BY <1>4, <1>6, <1>7, <3>1
  <2>3. new[i] = B[i - p] /\ B[i - p] = run[p + (i - p) - 1]
    BY <1>4, <2>1, <2>2
  <2> QED BY <2>1, <2>3
<1>11. new[p] = k /\ \A i \in 1..(p - 1) : new[i] = run[i]
  BY <1>2, <1>6, <1>9
<1>12. Strict(new)
  <2> SUFFICES ASSUME NEW i \in 2..(n + 1) PROVE Less(new[i - 1], new[i])
    BY <1>8 DEF Strict
  <2>1. CASE i < p
    <3>1. i - 1 \in 1..(p - 1) /\ i \in 1..(p - 1) /\ i \in 2..n
      BY <1>0, <1>2, <2>1
    <3> QED BY <1>0, <1>11, <3>1 DEF Strict
  <2>2. CASE i = p
    <3>1. i - 1 \in 1..(p - 1)
      BY <1>2, <2>2
    <3> QED BY <1>2, <1>11, <2>2, <3>1
  <2>3. CASE i = p + 1
    <3>1. i \in (p + 1)..(n + 1) /\ i - 1 = p /\ p \in p..n /\ p \in 1..n
      BY <1>0, <1>2, <2>3
    <3>2. new[i] = run[p] /\ new[i - 1] = k /\ ~Less(run[p], k)
      BY <1>2, <1>10, <1>11, <3>1
    <3>3. run[p] \in KeyPairs /\ run[p] # k
      BY <1>0, <3>1 DEF Range
    <3> QED BY <3>2, <3>3, LessOrder
  <2>4. CASE i > p + 1
    <3>1. i \in (p + 1)..(n + 1) /\ i - 1 \in (p + 1)..(n + 1) /\ i - 1 \in 2..n
      BY <1>0, <1>2, <2>4
    <3>2. new[i] = run[i - 1] /\ new[i - 1] = run[(i - 1) - 1]
      BY <1>10, <3>1
    <3> QED BY <1>0, <3>1, <3>2 DEF Strict
  <2> QED BY <1>0, <1>2, <2>1, <2>2, <2>3, <2>4
<1>13. Range(new) = H \cup {k}
  <2>1. DOMAIN new = 1..(n + 1)
    BY <1>0, <1>8
  <2>2. ASSUME NEW i \in 1..(n + 1) PROVE new[i] \in H \cup {k}
    <3>1. CASE i < p
      <4>1. i \in 1..(p - 1) /\ i \in 1..n
        BY <1>0, <1>2, <3>1
      <4> QED BY <1>0, <1>11, <4>1 DEF Range
    <3>2. CASE i = p
      BY <1>11, <3>2
    <3>3. CASE i > p
      <4>1. i \in (p + 1)..(n + 1) /\ i - 1 \in 1..n
        BY <1>0, <1>2, <3>3
      <4> QED BY <1>0, <1>10, <4>1 DEF Range
    <3> QED BY <1>0, <1>2, <3>1, <3>2, <3>3
  <2>3. ASSUME NEW h \in H PROVE \E i \in 1..(n + 1) : new[i] = h
    <3>1. PICK j \in 1..n : run[j] = h
      BY <1>0 DEF Range
    <3>2. CASE j < p
      <4>1. j \in 1..(p - 1) /\ j \in 1..(n + 1)
        BY <1>0, <1>2, <3>2
      <4> QED BY <1>11, <3>1, <4>1
    <3>3. CASE j >= p
      <4>1. j + 1 \in (p + 1)..(n + 1) /\ (j + 1) - 1 = j /\ j + 1 \in 1..(n + 1)
        BY <1>0, <1>2, <3>3
      <4> QED BY <1>10, <3>1, <4>1
    <3> QED BY <1>0, <1>2, <3>2, <3>3
  <2>4. p \in 1..(n + 1) /\ new[p] = k
    BY <1>2, <1>11
  <2> QED BY <2>1, <2>2, <2>3, <2>4 DEF Range
<1> QED BY <1>8, <1>12, <1>13 DEF Holding, new, p
-----------------------------------------------------------------------------
(* The merge of a sorted batch with a bucket. *)

SweepState == [di : Nat, out : Seq(KeyPairs \X BOOLEAN), new : Seq(KeyPairs)]

\* The pointer is past the bucket's keys below the last key swept, every key
\* swept has its verdict, and the new ones are gathered in order.
Sweeping(st, i, disk, s) ==
  /\ st.di \in 1..(Len(disk) + 1)
  /\ i = 0 => st.di = 1
  /\ i > 0 => \A j \in 1..(st.di - 1) : Less(disk[j], s[i])
  /\ Len(st.out) = i
  /\ \A p \in 1..i :
       /\ st.out[p][1] = s[p]
       /\ st.out[p][2] <=> s[p] \notin Range(disk) /\ \A q \in 1..(p - 1) : s[q] # s[p]
  /\ Holding(st.new, {s[p] : p \in 1..i} \ Range(disk))

LEMMA OnKeyTyped ==
  ASSUME NEW disk, Len(disk) \in Nat, NEW st \in SweepState, NEW k \in KeyPairs
  PROVE  /\ OnKey(st, k, disk) \in SweepState
         /\ OnKey(st, k, disk).di = Search(disk, st.di, k)
<1> DEFINE T == {i \in st.di..Len(disk) : ~Less(disk[i], k)} \cup {Len(disk) + 1}
           di == Min(T)
           known == (di <= Len(disk) /\ disk[di] = k) \/ DupInBatch(st, k)
<1>1. T \in SUBSET Nat /\ T # {}
  BY DEF SweepState
<1>2. di \in Nat
  <2> HIDE DEF T
  <2> QED BY <1>1, LeastMin
<1>3. OnKey(st, k, disk) = [di |-> di, out |-> Append(st.out, <<k, ~known>>), new |-> IF known THEN st.new ELSE Append(st.new, k)]
  BY DEF OnKey
<1>4. known \in BOOLEAN /\ (~known) \in BOOLEAN
  BY DEF DupInBatch
<1>5. di = Search(disk, st.di, k)
  BY DEF Search
<1> HIDE DEF di, known
<1>6. Append(st.out, <<k, ~known>>) \in Seq(KeyPairs \X BOOLEAN)
  <2>1. <<k, ~known>> \in KeyPairs \X BOOLEAN
    BY <1>4
  <2>2. st.out \in Seq(KeyPairs \X BOOLEAN)
    BY DEF SweepState
  <2> QED BY <2>1, <2>2
<1>7. (IF known THEN st.new ELSE Append(st.new, k)) \in Seq(KeyPairs)
  BY DEF SweepState
<1> QED BY <1>2, <1>3, <1>5, <1>6, <1>7 DEF SweepState

\* A key above every one of the run goes last.
LEMMA AppendHolds ==
  ASSUME NEW run, NEW H, Holding(run, H), NEW k \in KeyPairs, \A h \in H : Less(h, k)
  PROVE  Holding(Append(run, k), H \cup {k})
<1> DEFINE new == Append(run, k)
           n == Len(run)
<1>1. run \in Seq(KeyPairs) /\ Strict(run) /\ Range(run) = H /\ n \in Nat /\ DOMAIN run = 1..n
  BY DEF Holding
<1>2. new \in Seq(KeyPairs) /\ Len(new) = n + 1 /\ new[n + 1] = k /\ \A i \in 1..n : new[i] = run[i]
  BY <1>1
<1> HIDE DEF new
<1>3. \A i \in 1..n : run[i] \in H
  BY <1>1 DEF Range
<1>4. Strict(new)
  <2> SUFFICES ASSUME NEW i \in 2..(n + 1) PROVE Less(new[i - 1], new[i])
    BY <1>2 DEF Strict
  <2>1. CASE i = n + 1
    <3>1. i - 1 = n /\ n \in 1..n
      BY <1>1, <2>1
    <3>2. new[i - 1] = run[n] /\ new[i] = k /\ run[n] \in H
      BY <1>2, <1>3, <2>1, <3>1
    <3> QED BY <3>2
  <2>2. CASE i # n + 1
    <3>1. i \in 2..n /\ i - 1 \in 1..n /\ i \in 1..n
      BY <1>1, <2>2
    <3> QED BY <1>1, <1>2, <3>1 DEF Strict
  <2> QED BY <2>1, <2>2
<1>5. Range(new) = H \cup {k}
  <2>1. DOMAIN new = 1..(n + 1) /\ n + 1 \in 1..(n + 1) /\ \A i \in 1..(n + 1) : i \in 1..n \/ i = n + 1
    BY <1>1, <1>2
  <2>2. \A i \in 1..n : i \in 1..(n + 1)
    BY <1>1
  <2>3. \A h \in H : \E i \in 1..n : run[i] = h
    BY <1>1 DEF Range
  <2> QED BY <1>2, <1>3, <2>1, <2>2, <2>3 DEF Range
<1> QED BY <1>2, <1>4, <1>5 DEF Holding, new

LEMMA OnKeySweeps ==
  ASSUME NEW disk \in Seq(KeyPairs), Strict(disk), NEW s \in Seq(KeyPairs), Weak(s), NEW st \in SweepState,
         NEW i \in Nat, i < Len(s), Sweeping(st, i, disk, s)
  PROVE  Sweeping(OnKey(st, s[i + 1], disk), i + 1, disk, s)
<1> DEFINE k == s[i + 1]
           D == Range(disk)
           Past == {s[p] : p \in 1..i}
           new == st.new
           di == Search(disk, st.di, k)
           inDisk == di <= Len(disk) /\ disk[di] = k
           known == inDisk \/ DupInBatch(st, k)
           e == OnKey(st, k, disk)
<1>0. Len(disk) \in Nat /\ Len(s) \in Nat /\ i + 1 \in 1..Len(s) /\ (\A p \in 1..Len(s) : s[p] \in KeyPairs)
  OBVIOUS
<1>1. k \in KeyPairs /\ (\A p \in 1..i : p \in 1..Len(s)) /\ (\A p \in 1..i : ~Less(k, s[p]))
  <2>1. \A p \in 1..i : p \in 1..Len(s) /\ p <= i + 1
    BY <1>0
  <2> QED BY <1>0, <2>1, WeakAll
<1>2. \A j \in 1..(st.di - 1) : Less(disk[j], k)
  <2> SUFFICES ASSUME NEW j \in 1..(st.di - 1) PROVE Less(disk[j], k)
    OBVIOUS
  <2>1. st.di \in 1..(Len(disk) + 1)
    BY DEF Sweeping
  <2>2. j \in 1..Len(disk)
    BY <1>0, <2>1
  <2>3. disk[j] \in KeyPairs
    BY <2>2
  <2>4. CASE i = 0
    <3>1. st.di - 1 = 0
      BY <2>4 DEF Sweeping
    <3> QED BY <3>1
  <2>5. CASE i > 0
    <3>1. Less(disk[j], s[i]) /\ i \in 1..i
      BY <2>5 DEF Sweeping
    <3>2. s[i] \in KeyPairs /\ ~Less(k, s[i])
      BY <1>0, <1>1, <3>1
    <3> QED BY <1>1, <2>3, <3>1, <3>2, LessOrder
  <2> QED BY <2>4, <2>5
<1>3. Found(disk, st.di, k, di)
  <2>1. st.di \in 1..(Len(disk) + 1)
    BY DEF Sweeping
  <2> HIDE DEF k, di
  <2> QED BY <1>1, <1>2, <2>1, SearchFinds DEF di
<1>4. di \in 1..(Len(disk) + 1) /\ (\A j \in 1..(di - 1) : Less(disk[j], k)) /\ (inDisk <=> k \in D)
  <2>1. st.di \in 1..(Len(disk) + 1)
    BY DEF Sweeping
  <2>2. di \in st.di..(Len(disk) + 1) /\ (\A j \in 1..(di - 1) : Less(disk[j], k)) /\ (inDisk <=> k \in D)
    <3> HIDE DEF di, k
    <3> QED BY <1>3 DEF Found
  <2> HIDE DEF di, k, inDisk, D
  <2> QED BY <1>0, <2>1, <2>2
<1>5. Holding(new, Past \ D) /\ new \in Seq(KeyPairs) /\ Strict(new) /\ Range(new) = Past \ D
  <2>1. Holding(new, Past \ D)
    BY DEF Sweeping
  <2> HIDE DEF new, Past, D
  <2> QED BY <2>1 DEF Holding
<1> HIDE DEF di, inDisk, D, k
<1>6. ASSUME k \notin D PROVE DupInBatch(st, k) <=> k \in Past
  <2> DEFINE m == Len(new)
  <2> HIDE DEF new
  <2>0. m \in Nat /\ DOMAIN new = 1..m /\ (new # <<>> <=> m # 0) /\ (DupInBatch(st, k) <=> new # <<>> /\ new[m] = k)
    BY <1>5 DEF DupInBatch, Last, new
  <2>1. ASSUME DupInBatch(st, k) PROVE k \in Past
    <3>1. m \in 1..m /\ new[m] = k
      BY <2>0, <2>1
    <3>2. k \in Range(new)
      BY <2>0, <3>1 DEF Range
    <3> QED BY <1>5, <3>2
  <2>2. ASSUME k \in Past PROVE DupInBatch(st, k)
    <3>1. k \in Range(new)
      BY <1>5, <1>6, <2>2
    <3>2. PICK j \in 1..m : new[j] = k
      BY <2>0, <3>1 DEF Range
    <3>3. m \in 1..m /\ new[m] \in Range(new)
      BY <2>0, <3>2 DEF Range
    <3>4. PICK q \in 1..i : new[m] = s[q]
      BY <1>5, <3>3
    <3>5. ~Less(k, new[m])
      BY <1>1, <3>4
    <3>6. ~(j < m)
      BY <1>5, <3>2, <3>3, <3>5, StrictAll
    <3>7. j = m
      <4> HIDE DEF m
      <4>1. j \in Nat /\ j <= m
        BY <2>0, <3>2
      <4> QED BY <2>0, <3>6, <4>1
    <3> QED BY <2>0, <3>2, <3>3, <3>7
  <2> QED BY <2>1, <2>2
<1> HIDE DEF Past
<1>7. known <=> k \in D \/ k \in Past
  BY <1>4, <1>6
<1>8. /\ e.di = di
      /\ e.out = Append(st.out, <<k, ~known>>)
      /\ e.new = IF known THEN new ELSE Append(new, k)
  BY DEF OnKey, di, Search, inDisk
<1>9. {s[p] : p \in 1..(i + 1)} = Past \cup {k}
  <2>1. \A p \in 1..(i + 1) : p \in 1..i \/ p = i + 1
    OBVIOUS
  <2>2. i + 1 \in 1..(i + 1) /\ \A p \in 1..i : p \in 1..(i + 1)
    OBVIOUS
  <2> QED BY <2>1, <2>2 DEF Past, k
<1> HIDE DEF known, e, new
<1>10. Holding(e.new, (Past \cup {k}) \ D)
  <2>1. CASE known
    <3>1. (Past \cup {k}) \ D = Past \ D
      BY <1>7, <2>1
    <3> QED BY <1>5, <1>8, <2>1, <3>1
  <2>2. CASE ~known
    <3>1. (Past \cup {k}) \ D = (Past \ D) \cup {k}
      BY <1>7, <2>2
    <3>2. \A h \in Past \ D : Less(h, k)
      <4> SUFFICES ASSUME NEW h \in Past \ D PROVE Less(h, k)
        OBVIOUS
      <4>1. PICK p \in 1..i : h = s[p]
        BY DEF Past
      <4>2. h \in KeyPairs /\ ~Less(k, h) /\ h # k
        BY <1>0, <1>1, <1>7, <2>2, <4>1
      <4> QED BY <1>1, <4>2, LessOrder
    <3> DEFINE H == Past \ D
    <3>3. Holding(new, H) /\ \A h \in H : Less(h, k)
      BY <1>5, <3>2
    <3> HIDE DEF H
    <3>4. Holding(Append(new, k), H \cup {k})
      BY <1>1, <3>3, AppendHolds
    <3> QED BY <1>8, <2>2, <3>1, <3>4 DEF H
  <2> QED BY <2>1, <2>2
<1>11. /\ Len(e.out) = i + 1
       /\ \A p \in 1..i : e.out[p] = st.out[p]
       /\ e.out[i + 1][1] = k /\ (e.out[i + 1][2] <=> ~known)
  <2>1. Len(st.out) = i /\ st.out \in Seq(KeyPairs \X BOOLEAN)
    BY DEF Sweeping, SweepState
  <2> DEFINE c == <<k, ~known>>
  <2>2. c[1] = k /\ (c[2] <=> ~known)
    OBVIOUS
  <2>3. e.out = Append(st.out, c)
    BY <1>8
  <2> HIDE DEF c
  <2>4. Len(e.out) = i + 1 /\ e.out[i + 1] = c /\ \A p \in 1..i : e.out[p] = st.out[p]
    BY <2>1, <2>3
  <2> QED BY <2>2, <2>4
<1>12. ASSUME NEW p \in 1..(i + 1)
       PROVE  /\ e.out[p][1] = s[p]
              /\ e.out[p][2] <=> s[p] \notin D /\ \A q \in 1..(p - 1) : s[q] # s[p]
  <2>1. CASE p \in 1..i
    <3>1. st.out[p][1] = s[p] /\ (st.out[p][2] <=> s[p] \notin D /\ \A q \in 1..(p - 1) : s[q] # s[p])
      BY <2>1 DEF Sweeping, D
    <3>2. e.out[p] = st.out[p]
      BY <1>11, <2>1
    <3> QED BY <3>1, <3>2
  <2>2. CASE p = i + 1
    <3>1. p - 1 = i /\ s[p] = k
      BY <2>2 DEF k
    <3>2. k \notin Past <=> \A q \in 1..i : s[q] # k
      BY DEF Past
    <3>3. e.out[p][1] = k /\ (e.out[p][2] <=> ~known)
      BY <1>11, <2>2
    <3>4. e.out[p][2] <=> k \notin D /\ \A q \in 1..i : s[q] # k
      BY <1>7, <3>2, <3>3
    <3> QED BY <3>1, <3>3, <3>4
  <2> QED BY <2>1, <2>2
<1>13. Sweeping(e, i + 1, disk, s)
  <2>1. \A j \in 1..(e.di - 1) : Less(disk[j], s[i + 1])
    BY <1>4, <1>8 DEF k
  <2>2. e.di \in 1..(Len(disk) + 1) /\ i + 1 # 0
    BY <1>4, <1>8
  <2>3. Holding(e.new, {s[p] : p \in 1..(i + 1)} \ Range(disk))
    BY <1>9, <1>10 DEF D
  <2>4. \A p \in 1..(i + 1) :
          /\ e.out[p][1] = s[p]
          /\ e.out[p][2] <=> s[p] \notin Range(disk) /\ \A q \in 1..(p - 1) : s[q] # s[p]
    BY <1>12 DEF D
  <2> QED BY <1>11, <2>1, <2>2, <2>3, <2>4 DEF Sweeping
<1> QED BY <1>13 DEF e, k
LEMMA SweptSweeps ==
  ASSUME NEW disk \in Seq(KeyPairs), Strict(disk), NEW s \in Seq(KeyPairs), Weak(s)
  PROVE  Swept(disk, s) \in SweepState /\ Sweeping(Swept(disk, s), Len(s), disk, s)
<1> DEFINE L == Len(s)
           first == [di |-> 1, out |-> <<>>, new |-> <<>>]
           Rec(f) == f = [n \in 0..L |-> IF n = 0 THEN first ELSE OnKey(f[n - 1], s[n], disk)]
           step == [n \in 1..L |-> [x \in SweepState |-> OnKey(x, s[n], disk)]]
<1>0. L \in Nat /\ (\A n \in 1..L : s[n] \in KeyPairs) /\ Len(disk) \in Nat
  OBVIOUS
<1>1. first \in SweepState
  BY DEF SweepState
<1>2. Steps(step, L, SweepState)
  <2>1. \A n \in 1..L : \A x \in SweepState : OnKey(x, s[n], disk) \in SweepState
    BY <1>0, OnKeyTyped
  <2> QED BY <2>1 DEF Steps
<1>3. PICK c : Course(c, L, SweepState, first, step)
  <2> HIDE DEF L, first, step
  <2> QED BY <1>0, <1>1, <1>2, Recursion
<1>4. Rec(c)
  <2> HIDE DEF first
  <2>1. c \in [0..L -> SweepState] /\ c[0] = first /\ \A i \in 1..L : c[i] = step[i][c[i - 1]]
    BY <1>3 DEF Course
  <2>2. \A i \in 1..L : i - 1 \in 0..L /\ c[i - 1] \in SweepState
    BY <1>0, <2>1
  <2>3. \A i \in 1..L : c[i] = OnKey(c[i - 1], s[i], disk)
    BY <2>1, <2>2
  <2>4. \A n \in 0..L : n # 0 => n \in 1..L
    BY <1>0
  <2> HIDE DEF step
  <2>5. c = [n \in 0..L |-> c[n]]
    BY <2>1
  <2>6. \A n \in 0..L : c[n] = IF n = 0 THEN first ELSE OnKey(c[n - 1], s[n], disk)
    BY <2>1, <2>3, <2>4
  <2> QED BY <2>5, <2>6
<1> DEFINE f == CHOOSE f : Rec(f)
<1>5. Rec(f)
  <2> HIDE DEF Rec
  <2> QED BY <1>4
<1>6. Swept(disk, s) = f[L]
  BY DEF Swept
<1> HIDE DEF f, first
<1>7. /\ f = [n \in 0..L |-> f[n]] /\ f[0] = first
      /\ \A n \in 1..L : f[n] = OnKey(f[n - 1], s[n], disk)
  <2>1. 0 \in 0..L /\ \A n \in 1..L : n \in 0..L /\ n # 0
    BY <1>0
  <2>2. \A n \in 0..L : f[n] = IF n = 0 THEN first ELSE OnKey(f[n - 1], s[n], disk)
    BY <1>5
  <2>3. DOMAIN f = 0..L
    BY <1>5
  <2>4. f = [n \in 0..L |-> f[n]]
    BY <1>5, <2>3
  <2> QED BY <2>1, <2>2, <2>4
<1>8. Course(f, L, SweepState, first, step)
  <2>1. \A i \in 1..L : f[i - 1] \in SweepState => f[i] = step[i][f[i - 1]]
    BY <1>7
  <2> HIDE DEF L, step
  <2> QED BY <1>0, <1>1, <1>2, <1>7, <2>1, CourseFits
<1>9. \A n \in 0..L : f[n] \in SweepState
  BY <1>8 DEF Course
<1> DEFINE G == {n \in 0..L : Sweeping(f[n], n, disk, s)}
<1>10. 0 \in G
  <2>1. f[0].di = 1 /\ f[0].out = <<>> /\ f[0].new = <<>>
    BY <1>7 DEF first
  <2>2. 1..0 = {} /\ Len(<<>>) = 0 /\ <<>> \in Seq(KeyPairs) /\ 2..0 = {}
    OBVIOUS
  <2>3. Holding(<<>>, {})
    BY <2>2 DEF Holding, Strict, Range
  <2>4. {s[p] : p \in 1..0} \ Range(disk) = {}
    BY <2>2
  <2>5. Holding(f[0].new, {s[p] : p \in 1..0} \ Range(disk))
    BY <2>1, <2>3, <2>4
  <2>6. 1 \in 1..(Len(disk) + 1) /\ ~(0 > 0)
    BY <1>0
  <2>7. Sweeping(f[0], 0, disk, s)
    <3> HIDE DEF Rec, step
    <3> QED BY <2>1, <2>2, <2>5, <2>6 DEF Sweeping
  <2> QED BY <1>0, <2>7
<1>11. \A n \in 0..L : n \in G /\ n < L => n + 1 \in G
  <2> SUFFICES ASSUME NEW n \in 0..L, n \in G, n < L PROVE n + 1 \in 0..L /\ Sweeping(f[n + 1], n + 1, disk, s)
    OBVIOUS
  <2>1. n + 1 \in 1..L /\ (n + 1) - 1 = n /\ n + 1 \in 0..L /\ n \in Nat
    BY <1>0
  <2>2. f[n + 1] = OnKey(f[n], s[n + 1], disk) /\ f[n] \in SweepState
    BY <1>7, <1>9, <2>1
  <2>3. Sweeping(f[n], n, disk, s)
    OBVIOUS
  <2>4. Sweeping(OnKey(f[n], s[n + 1], disk), n + 1, disk, s)
    BY <2>1, <2>2, <2>3, OnKeySweeps
  <2> QED BY <2>1, <2>2, <2>4
<1> HIDE DEF G
<1>12. \A n \in 0..L : n \in G
  BY <1>0, <1>10, <1>11, Climb
<1>13. L \in 0..L
  BY <1>0
<1> QED BY <1>6, <1>9, <1>12, <1>13 DEF G

\* s lists the keys of q at the places P in the order p, sorted.
Arranged(s, q, P, p) ==
  /\ s \in Seq(KeyPairs) /\ Weak(s)
  /\ p \in Bijection(1..Len(s), P)
  /\ \A i \in 1..Len(s) : s[i] = q[p[i]]

LEMMA SortsArrange ==
  ASSUME NEW q, NEW P, IsFiniteSet(P), \A i \in P : q[i] \in KeyPairs, NEW s \in Sorts(q, P)
  PROVE  \E p : Arranged(s, q, P, p)
<1> DEFINE n == Cardinality(P)
<1>0. n \in Nat
  BY FS_CardinalityType
<1>1. PICK p \in Bijection(1..n, P) : s = [i \in DOMAIN p |-> q[p[i]]]
  BY DEF Sorts
<1>2. \A i \in 2..Len(s) : ~Less(s[i], s[i - 1])
  BY DEF Sorts
<1> HIDE DEF n
<1>3. p \in [1..n -> P]
  BY DEF Bijection, Injection, Surjection
<1>4. \A i \in 1..n : s[i] = q[p[i]] /\ s[i] \in KeyPairs
  BY <1>1, <1>3
<1>5. s \in [1..n -> KeyPairs]
  BY <1>1, <1>3, <1>4
<1>6. s \in Seq(KeyPairs) /\ Len(s) = n
  BY <1>0, <1>5
<1>7. Arranged(s, q, P, p)
  BY <1>2, <1>4, <1>6 DEF Arranged, Weak
<1> QED BY <1>7

LEMMA ArrangedIs ==
  ASSUME NEW s, NEW q, NEW P, NEW p, Arranged(s, q, P, p)
  PROVE  /\ p \in [1..Len(s) -> P]
         /\ \A a, b \in 1..Len(s) : p[a] = p[b] => a = b
         /\ \A t \in P : \E a \in 1..Len(s) : p[a] = t
  BY DEF Arranged, Bijection, Injection, Surjection, IsInjective

\* A key above every other goes at the end of a run.
LEMMA RunLonger ==
  ASSUME NEW run \in Seq(KeyPairs), Strict(run), NEW k \in KeyPairs, \A z \in Range(run) : Less(z, k)
  PROVE  /\ Append(run, k) \in Seq(KeyPairs) /\ Strict(Append(run, k))
         /\ Range(Append(run, k)) = Range(run) \cup {k}
<1>1. PICK n \in Nat : n = Len(run) /\ DOMAIN run = 1..n
  OBVIOUS
<1>2. PICK more : more = Append(run, k)
  OBVIOUS
<1>3. /\ more \in Seq(KeyPairs) /\ Len(more) = n + 1 /\ DOMAIN more = 1..(n + 1)
      /\ more[n + 1] = k /\ \A i \in 1..n : more[i] = run[i]
  BY <1>1, <1>2
<1>4. \A i \in 1..n : run[i] \in Range(run)
  BY <1>1 DEF Range
<1>5. Strict(more)
  <2> SUFFICES ASSUME NEW i \in 2..(n + 1) PROVE Less(more[i - 1], more[i])
    BY <1>3 DEF Strict
  <2>1. CASE i = n + 1
    <3>1. i - 1 \in 1..n
      BY <2>1
    <3> QED BY <1>3, <1>4, <2>1, <3>1
  <2>2. CASE i \in 2..n
    <3>1. i \in 1..n /\ i - 1 \in 1..n
      BY <2>2
    <3>2. Less(run[i - 1], run[i])
      BY <1>1, <2>2 DEF Strict
    <3> QED BY <1>3, <3>1, <3>2
  <2> QED BY <2>1, <2>2
<1>6. Range(more) = Range(run) \cup {k}
  <2>1. \A i \in 1..(n + 1) : i = n + 1 \/ i \in 1..n
    OBVIOUS
  <2>2. \A x : x \in Range(run) <=> \E i \in 1..n : x = run[i]
    BY <1>1 DEF Range
  <2>3. \A x : x \in Range(more) <=> \E i \in 1..(n + 1) : x = more[i]
    BY <1>3 DEF Range
  <2>4. n + 1 \in 1..(n + 1) /\ \A i \in 1..n : i \in 1..(n + 1)
    OBVIOUS
  <2> QED BY <1>3, <2>1, <2>2, <2>3, <2>4
<1> QED BY <1>2, <1>3, <1>5, <1>6

\* The two-pointer merge after k keys.
Before(out, run, i) == i <= Len(run) => \A z \in Range(out) : Less(z, run[i])
Merging(x, k, a, b) ==
  /\ x = [i |-> x.i, j |-> x.j, out |-> x.out]
  /\ x.i \in 1..(Len(a) + 1) /\ x.j \in 1..(Len(b) + 1) /\ x.i + x.j = k + 2
  /\ x.out \in Seq(KeyPairs) /\ Strict(x.out)
  /\ \A z : z \in Range(x.out) <=> (\E u \in 1..(x.i - 1) : z = a[u]) \/ (\E v \in 1..(x.j - 1) : z = b[v])
  /\ Before(x.out, a, x.i) /\ Before(x.out, b, x.j)

\* A run's head is below the key after it.
LEMMA HeadPasses ==
  ASSUME NEW run \in Seq(KeyPairs), Strict(run), NEW i \in 1..Len(run), NEW out, Before(out, run, i),
         Range(out) \subseteq KeyPairs, NEW more, Range(more) = Range(out) \cup {run[i]}
  PROVE  Before(more, run, i + 1)
<1> SUFFICES ASSUME i + 1 <= Len(run), NEW z \in Range(more) PROVE Less(z, run[i + 1])
  BY DEF Before
<1>1. i + 1 \in 1..Len(run) /\ i + 1 \in 2..Len(run) /\ (i + 1) - 1 = i
  OBVIOUS
<1>2. run[i] \in KeyPairs /\ run[i + 1] \in KeyPairs
  BY <1>1
<1>3. Less(run[i], run[i + 1])
  BY <1>1 DEF Strict
<1>4. CASE z = run[i]
  BY <1>3, <1>4
<1>5. CASE z \in Range(out)
  <2>1. Less(z, run[i]) /\ z \in KeyPairs
    BY <1>5 DEF Before
  <2> QED BY <1>2, <1>3, <2>1, LessOrder
<1> QED BY <1>4, <1>5

LEMMA MergingStep ==
  ASSUME NEW a \in Seq(KeyPairs), Strict(a), NEW b \in Seq(KeyPairs), Strict(b),
         \A u \in 1..Len(a) : \A v \in 1..Len(b) : a[u] # b[v],
         NEW k \in Nat, k < Len(a) + Len(b), NEW x, Merging(x, k, a, b)
  PROVE  Merging(TakeHead(x, a, b), k + 1, a, b)
<1>1. PICK i, j, out : i = x.i /\ j = x.j /\ out = x.out
  OBVIOUS
<1>2. PICK m \in Nat, n \in Nat : m = Len(a) /\ n = Len(b)
  OBVIOUS
<1>3. /\ i \in 1..(m + 1) /\ j \in 1..(n + 1) /\ i + j = k + 2 /\ out \in Seq(KeyPairs) /\ Strict(out)
      /\ Before(out, a, i) /\ Before(out, b, j)
      /\ \A z : z \in Range(out) <=> (\E u \in 1..(i - 1) : z = a[u]) \/ (\E v \in 1..(j - 1) : z = b[v])
  BY <1>1, <1>2 DEF Merging
<1>4. Range(out) \subseteq KeyPairs
  BY <1>3 DEF Range
<1>5. CASE i <= m /\ (j > n \/ Less(a[i], b[j]))
  <2>1. PICK more : more = Append(out, a[i])
    OBVIOUS
  <2>2. i \in 1..m /\ i \in 1..Len(a) /\ a[i] \in KeyPairs /\ i + 1 \in 1..(m + 1) /\ (i + 1) - 1 = i
    BY <1>2, <1>3, <1>5
  <2>3. \A z \in Range(out) : Less(z, a[i])
    BY <1>2, <1>3, <1>5 DEF Before
  <2>4. more \in Seq(KeyPairs) /\ Strict(more) /\ Range(more) = Range(out) \cup {a[i]}
    BY <1>3, <2>1, <2>2, <2>3, RunLonger
  <2>5. Before(more, a, i + 1)
    BY <1>3, <1>4, <2>2, <2>4, HeadPasses
  <2>6. Before(more, b, j)
    <3> SUFFICES ASSUME j <= n PROVE \A z \in Range(more) : Less(z, b[j])
      BY <1>2 DEF Before
    <3>1. ~(j > n)
      BY <1>3
    <3>2. Less(a[i], b[j])
      BY <1>5, <3>1
    <3>3. \A z \in Range(out) : Less(z, b[j])
      BY <1>2, <1>3 DEF Before
    <3> QED BY <2>4, <3>2, <3>3
  <2>7. \A u : u \in 1..i <=> u \in 1..(i - 1) \/ u = i
    BY <2>2
  <2>8. \A z : z \in Range(more) <=> (\E u \in 1..((i + 1) - 1) : z = a[u]) \/ (\E v \in 1..(j - 1) : z = b[v])
    BY <1>3, <2>2, <2>4, <2>7
  <2>9. (i + 1) + j = (k + 1) + 2
    BY <1>3, <2>2
  <2>10. PICK y : y = [i |-> i + 1, j |-> j, out |-> more]
    OBVIOUS
  <2>11. y.i = i + 1 /\ y.j = j /\ y.out = more /\ y = [i |-> y.i, j |-> y.j, out |-> y.out]
    BY <2>10
  <2>12. TakeHead(x, a, b) = y
    BY <1>1, <1>2, <1>5, <2>1, <2>10 DEF TakeHead
  <2>13. Merging(y, k + 1, a, b)
    BY <1>2, <1>3, <2>2, <2>4, <2>5, <2>6, <2>8, <2>9, <2>11 DEF Merging
  <2> QED BY <2>12, <2>13
<1>6. CASE ~(i <= m /\ (j > n \/ Less(a[i], b[j])))
  <2>0. j <= n
    BY <1>2, <1>3, <1>6
  <2>1. PICK more : more = Append(out, b[j])
    OBVIOUS
  <2>2. j \in 1..n /\ j \in 1..Len(b) /\ b[j] \in KeyPairs /\ j + 1 \in 1..(n + 1) /\ (j + 1) - 1 = j
    BY <1>2, <1>3, <2>0
  <2>3. \A z \in Range(out) : Less(z, b[j])
    BY <1>2, <1>3, <2>0 DEF Before
  <2>4. more \in Seq(KeyPairs) /\ Strict(more) /\ Range(more) = Range(out) \cup {b[j]}
    BY <1>3, <2>1, <2>2, <2>3, RunLonger
  <2>5. Before(more, b, j + 1)
    BY <1>3, <1>4, <2>2, <2>4, HeadPasses
  <2>6. Before(more, a, i)
    <3> SUFFICES ASSUME i <= m PROVE \A z \in Range(more) : Less(z, a[i])
      BY <1>2 DEF Before
    <3>1. i \in 1..m /\ i \in 1..Len(a) /\ a[i] \in KeyPairs
      BY <1>2, <1>3
    <3>2. ~Less(a[i], b[j]) /\ a[i] # b[j]
      BY <1>6, <2>2, <3>1
    <3>3. Less(b[j], a[i])
      BY <2>2, <3>1, <3>2, LessOrder
    <3>4. \A z \in Range(out) : Less(z, a[i])
      BY <1>2, <1>3 DEF Before
    <3> QED BY <2>4, <3>3, <3>4
  <2>7. \A v : v \in 1..j <=> v \in 1..(j - 1) \/ v = j
    BY <2>2
  <2>8. \A z : z \in Range(more) <=> (\E u \in 1..(i - 1) : z = a[u]) \/ (\E v \in 1..((j + 1) - 1) : z = b[v])
    BY <1>3, <2>2, <2>4, <2>7
  <2>9. i + (j + 1) = (k + 1) + 2
    BY <1>3, <2>2
  <2>10. PICK y : y = [i |-> i, j |-> j + 1, out |-> more]
    OBVIOUS
  <2>11. y.i = i /\ y.j = j + 1 /\ y.out = more /\ y = [i |-> y.i, j |-> y.j, out |-> y.out]
    BY <2>10
  <2>12. TakeHead(x, a, b) = y
    BY <1>1, <1>2, <1>6, <2>1, <2>10 DEF TakeHead
  <2>13. Merging(y, k + 1, a, b)
    BY <1>2, <1>3, <2>2, <2>4, <2>5, <2>6, <2>8, <2>9, <2>11 DEF Merging
  <2> QED BY <2>12, <2>13
<1> QED BY <1>5, <1>6

\* Two disjoint runs merge into one.
LEMMA MergedRun ==
  ASSUME NEW a, NEW b, NEW A, NEW B, Holding(a, A), Holding(b, B), A \cap B = {},
         NEW run, run = mergeSortedRuns(a, b)
  PROVE  Holding(run, A \cup B)
<1>1. /\ a \in Seq(KeyPairs) /\ Strict(a) /\ Range(a) = A /\ DOMAIN a = 1..Len(a)
      /\ b \in Seq(KeyPairs) /\ Strict(b) /\ Range(b) = B /\ DOMAIN b = 1..Len(b)
  BY DEF Holding
<1>2. PICK m \in Nat, n \in Nat, L \in Nat : m = Len(a) /\ n = Len(b) /\ L = m + n
  <2>1. Len(a) \in Nat /\ Len(b) \in Nat /\ \A u, v \in Nat : u + v \in Nat
    BY <1>1
  <2> QED BY <2>1, Zenon
<1>3. \A u \in 1..Len(a) : \A v \in 1..Len(b) : a[u] # b[v]
  BY <1>1 DEF Range
<1>4. PICK first : first = [i |-> 1, j |-> 1, out |-> <<>>]
  OBVIOUS
<1>5. Merging(first, 0, a, b)
  <2>1. first.i = 1 /\ first.j = 1 /\ first.out = <<>> /\ first = [i |-> first.i, j |-> first.j, out |-> first.out]
    BY <1>4
  <2>2. Range(<<>>) = {} /\ Strict(<<>>) /\ <<>> \in Seq(KeyPairs)
    BY DEF Range, Strict
  <2>3. 1 \in 1..(m + 1) /\ 1 \in 1..(n + 1) /\ 1 + 1 = 0 + 2 /\ 1..(1 - 1) = {}
    OBVIOUS
  <2>4. Before(<<>>, a, 1) /\ Before(<<>>, b, 1)
    BY <2>2 DEF Before
  <2> QED BY <1>2, <2>1, <2>2, <2>3, <2>4 DEF Merging
<1> DEFINE Rec(f) == f = [k \in 0..(Len(a) + Len(b)) |-> IF k = 0 THEN first ELSE TakeHead(f[k - 1], a, b)]
           State == {x \in [i : 1..(m + 1), j : 1..(n + 1), out : Seq(KeyPairs)] : \E k \in 0..L : Merging(x, k, a, b)}
           step == [k \in 1..L |-> [x \in State |-> IF Merging(x, k - 1, a, b) THEN TakeHead(x, a, b) ELSE x]]
<1>6. ASSUME NEW k \in 0..L, NEW x, Merging(x, k, a, b) PROVE x \in State
  <2>1. x \in [i : 1..(m + 1), j : 1..(n + 1), out : Seq(KeyPairs)]
    BY <1>2, <1>6 DEF Merging
  <2> QED BY <1>6, <2>1
<1>7. ASSUME NEW k \in 1..L, NEW x, Merging(x, k - 1, a, b) PROVE Merging(TakeHead(x, a, b), k, a, b)
  <2>1. PICK h \in Nat : h = k - 1 /\ h < Len(a) + Len(b) /\ h + 1 = k
    BY <1>2
  <2> QED BY <1>1, <1>3, <1>7, <2>1, MergingStep
<1>8. first \in State
  <2>1. 0 \in 0..L
    OBVIOUS
  <2> QED BY <1>5, <1>6, <2>1
<1>9. Steps(step, L, State)
  <2>1. ASSUME NEW k \in 1..L, NEW x \in State
        PROVE  (IF Merging(x, k - 1, a, b) THEN TakeHead(x, a, b) ELSE x) \in State
    <3>1. CASE Merging(x, k - 1, a, b)
      <4>1. k \in 0..L
        OBVIOUS
      <4>2. Merging(TakeHead(x, a, b), k, a, b)
        BY <1>7, <3>1
      <4>3. TakeHead(x, a, b) \in State
        <5> HIDE DEF State
        <5> QED BY <1>6, <4>1, <4>2
      <4> HIDE DEF State
      <4> QED BY <3>1, <4>3
    <3>2. CASE ~Merging(x, k - 1, a, b)
      <4> HIDE DEF State
      <4> QED BY <3>2
    <3> HIDE DEF State
    <3> QED BY <3>1, <3>2
  <2> HIDE DEF State
  <2> QED BY <2>1 DEF Steps
<1>10. PICK c : Course(c, L, State, first, step)
  <2> HIDE DEF State, step
  <2> QED BY <1>8, <1>9, Recursion
<1> HIDE DEF State
<1>11. c \in [0..L -> State] /\ c[0] = first /\ \A k \in 1..L : c[k] = IF Merging(c[k - 1], k - 1, a, b) THEN TakeHead(c[k - 1], a, b) ELSE c[k - 1]
  <2>1. c \in [0..L -> State] /\ c[0] = first /\ \A k \in 1..L : c[k] = step[k][c[k - 1]]
    BY <1>10 DEF Course
  <2>2. \A k \in 1..L : k - 1 \in 0..L /\ c[k - 1] \in State
    BY <2>1
  <2> QED BY <2>1, <2>2
<1>12. \A k \in 0..L : Merging(c[k], k, a, b)
  <2> DEFINE G == {k \in 0..L : Merging(c[k], k, a, b)}
  <2>1. 0 \in G
    BY <1>5, <1>11
  <2>2. ASSUME NEW k \in 0..L, k \in G, k < L PROVE k + 1 \in G
    <3>1. PICK h \in 1..L : h = k + 1 /\ h - 1 = k /\ h \in 0..L
      BY <2>2
    <3>2. Merging(c[k], k, a, b)
      BY <2>2
    <3>3. c[h] = TakeHead(c[k], a, b)
      BY <1>11, <3>1, <3>2
    <3>4. Merging(c[h], h, a, b)
      BY <1>7, <3>1, <3>2, <3>3
    <3> QED BY <3>1, <3>4
  <2> HIDE DEF G
  <2>3. \A k \in 0..L : k \in G
    BY <2>1, <2>2, Climb
  <2> QED BY <2>3 DEF G
<1>13. Rec(c)
  <2>1. \A k \in 1..L : c[k] = TakeHead(c[k - 1], a, b)
    <3> SUFFICES ASSUME NEW k \in 1..L PROVE c[k] = TakeHead(c[k - 1], a, b)
      OBVIOUS
    <3>1. PICK h \in 0..L : h = k - 1
      OBVIOUS
    <3>2. Merging(c[h], h, a, b)
      BY <1>12
    <3> QED BY <1>11, <3>1, <3>2
  <2>2. \A k \in 0..L : k # 0 => k \in 1..L
    OBVIOUS
  <2>3. \A k \in 0..L : c[k] = IF k = 0 THEN first ELSE TakeHead(c[k - 1], a, b)
    BY <1>11, <2>1, <2>2
  <2>4. c = [k \in 0..L |-> c[k]]
    BY <1>11
  <2> QED BY <1>2, <2>3, <2>4
<1> DEFINE f == CHOOSE f : Rec(f)
<1>14. Rec(f)
  <2> HIDE DEF Rec
  <2> QED BY <1>13
<1>15. run = f[Len(a) + Len(b)].out
  BY <1>4 DEF mergeSortedRuns
<1> HIDE DEF f
<1>16. f[0] = first /\ \A k \in 1..L : f[k] = TakeHead(f[k - 1], a, b)
  <2>1. 0 \in 0..L /\ \A k \in 1..L : k \in 0..L /\ k # 0
    OBVIOUS
  <2>2. \A k \in 0..L : f[k] = IF k = 0 THEN first ELSE TakeHead(f[k - 1], a, b)
    BY <1>2, <1>14
  <2> QED BY <2>1, <2>2
<1>17. \A k \in 0..L : Merging(f[k], k, a, b)
  <2> DEFINE G == {k \in 0..L : Merging(f[k], k, a, b)}
  <2>1. 0 \in G
    BY <1>5, <1>16
  <2>2. ASSUME NEW k \in 0..L, k \in G, k < L PROVE k + 1 \in G
    <3>1. PICK h \in 1..L : h = k + 1 /\ h - 1 = k /\ h \in 0..L
      BY <2>2
    <3>2. Merging(f[k], k, a, b)
      BY <2>2
    <3>3. f[h] = TakeHead(f[k], a, b)
      BY <1>16, <3>1
    <3>4. Merging(f[h], h, a, b)
      BY <1>7, <3>1, <3>2, <3>3
    <3> QED BY <3>1, <3>4
  <2> HIDE DEF G
  <2>3. \A k \in 0..L : k \in G
    BY <2>1, <2>2, Climb
  <2> QED BY <2>3 DEF G
<1>18. PICK x : x = f[L] /\ Merging(x, L, a, b) /\ run = x.out
  BY <1>2, <1>15, <1>17
<1>19. /\ x.i = m + 1 /\ x.j = n + 1 /\ run \in Seq(KeyPairs) /\ Strict(run)
       /\ \A z : z \in Range(run) <=> (\E u \in 1..m : z = a[u]) \/ (\E v \in 1..n : z = b[v])
  <2>1. PICK i, j : i = x.i /\ j = x.j
    OBVIOUS
  <2>2. i \in 1..(m + 1) /\ j \in 1..(n + 1) /\ i + j = L + 2
    BY <1>2, <1>18, <2>1 DEF Merging
  <2>3. i = m + 1 /\ j = n + 1 /\ i - 1 = m /\ j - 1 = n
    BY <1>2, <2>2
  <2> QED BY <1>18, <2>1, <2>3 DEF Merging
<1>20. \A z : (z \in A <=> \E u \in 1..m : z = a[u]) /\ (z \in B <=> \E v \in 1..n : z = b[v])
  BY <1>1, <1>2 DEF Range
<1>21. Range(run) = A \cup B
  BY <1>19, <1>20
<1> QED BY <1>19, <1>21 DEF Holding


\* The batch's places and keys of bucket b.
Part(batch, b) == {i \in DOMAIN batch : bucketOf(batch[i]) = b}
KeysAt(batch, b) == {batch[i] : i \in Part(batch, b)}

\* The verdicts on s against D: the first of each key that D lacks is new.
Sifted(out, s, D) ==
  /\ Len(out) = Len(s)
  /\ \A p \in 1..Len(s) :
       /\ out[p][1] = s[p]
       /\ out[p][2] <=> s[p] \notin D /\ \A q \in 1..(p - 1) : s[q] # s[p]

Merged(got, D, batch, b) ==
  /\ got.out \in Seq(KeyPairs \X BOOLEAN)
  /\ \E s, p : Arranged(s, batch, Part(batch, b), p) /\ Sifted(got.out, s, D)
  /\ Holding(got.new, KeysAt(batch, b) \ D)
  /\ Holding(got.run, D \cup KeysAt(batch, b))

LEMMA MergedBucket ==
  ASSUME NEW disk, NEW D, Holding(disk, D), NEW batch \in Seq(KeyPairs), NEW b,
         NEW got \in mergeBucket(disk, batch, b)
  PROVE  Merged(got, D, batch, b)
<1> DEFINE P == Part(batch, b)
           H == KeysAt(batch, b)
<1>0. disk \in Seq(KeyPairs) /\ Strict(disk) /\ Range(disk) = D
  BY DEF Holding
<1>1. IsFiniteSet(P) /\ \A i \in P : batch[i] \in KeyPairs
  <2>1. DOMAIN batch = 1..Len(batch) /\ Len(batch) \in Nat
    OBVIOUS
  <2>2. \A x, y \in Int : IsFiniteSet(x..y)
    BY FS_Interval
  <2>3. IsFiniteSet(DOMAIN batch)
    BY <2>1, <2>2
  <2>4. P \in SUBSET DOMAIN batch
    BY DEF Part
  <2>5. IsFiniteSet(P)
    <3> HIDE DEF P
    <3> QED BY <2>3, <2>4, FS_Subset
  <2> QED BY <2>4, <2>5
<1>2. PICK s \in Sorts(batch, P) :
        \E run : /\ run = mergeSortedRuns(disk, Swept(disk, s).new)
                 /\ got = [out |-> Swept(disk, s).out, new |-> Swept(disk, s).new, run |-> run]
  <2>1. PICK st \in {Swept(disk, s) : s \in Sorts(batch, P)} :
          got = [out |-> st.out, new |-> st.new, run |-> mergeSortedRuns(disk, st.new)]
    BY DEF mergeBucket, Part
  <2> QED BY <2>1
<1> DEFINE st == Swept(disk, s)
<1>3. PICK run : /\ run = mergeSortedRuns(disk, st.new)
                 /\ got = [out |-> st.out, new |-> st.new, run |-> run]
  BY <1>2
<1>4. got.out = st.out /\ got.new = st.new /\ got.run = run
  BY <1>3
<1>5. PICK p : Arranged(s, batch, P, p)
  <2> HIDE DEF P
  <2> QED BY <1>1, SortsArrange
<1>6. s \in Seq(KeyPairs) /\ Weak(s) /\ \A i \in 1..Len(s) : s[i] = batch[p[i]]
  BY <1>5 DEF Arranged
<1>7. st \in SweepState /\ Sweeping(st, Len(s), disk, s)
  BY <1>0, <1>6, SweptSweeps
<1> HIDE DEF st
<1>8. {s[i] : i \in 1..Len(s)} = H
  <2>1. p \in [1..Len(s) -> P] /\ \A t \in P : \E a \in 1..Len(s) : p[a] = t
    BY <1>5, ArrangedIs
  <2>2. H = {batch[i] : i \in P}
    BY DEF KeysAt
  <2> HIDE DEF H, P
  <2>3. ASSUME NEW i \in 1..Len(s) PROVE s[i] \in H
    <3>1. p[i] \in P /\ s[i] = batch[p[i]]
      BY <1>6, <2>1
    <3> QED BY <2>2, <3>1
  <2>4. ASSUME NEW z \in H PROVE \E i \in 1..Len(s) : s[i] = z
    <3>1. PICK t \in P : z = batch[t]
      BY <2>2
    <3>2. PICK i \in 1..Len(s) : p[i] = t
      BY <2>1
    <3> QED BY <1>6, <3>1, <3>2
  <2> QED BY <2>3, <2>4
<1>9. Sifted(st.out, s, D) /\ Holding(st.new, H \ D)
  <2>1. Sifted(st.out, s, D)
    BY <1>0, <1>7 DEF Sweeping, Sifted
  <2>2. Holding(st.new, {s[i] : i \in 1..Len(s)} \ D)
    BY <1>0, <1>7 DEF Sweeping
  <2> HIDE DEF H
  <2> QED BY <1>8, <2>1, <2>2
<1>10. Holding(run, D \cup H)
  <2> DEFINE B == H \ D
  <2>1. Holding(st.new, B) /\ D \cap B = {} /\ D \cup B = D \cup H
    BY <1>9
  <2> HIDE DEF B, H
  <2>2. Holding(run, D \cup B)
    BY <1>3, <2>1, MergedRun
  <2> QED BY <2>1, <2>2
<1>11. st.out \in Seq(KeyPairs \X BOOLEAN)
  BY <1>7 DEF SweepState
<1> QED BY <1>4, <1>5, <1>9, <1>10, <1>11 DEF Merged

\* A run is as long as the set it holds.
LEMMA RunCounts ==
  ASSUME NEW run, NEW H, Holding(run, H)
  PROVE  IsFiniteSet(H) /\ Cardinality(H) = Len(run) /\ Len(run) \in Nat
<1> DEFINE n == Len(run)
<1>1. run \in Seq(KeyPairs) /\ Strict(run) /\ Range(run) = H /\ n \in Nat /\ DOMAIN run = 1..n
  BY DEF Holding
<1>2. \A i, j \in 1..n : run[i] = run[j] => i = j
  <2> SUFFICES ASSUME NEW i \in 1..n, NEW j \in 1..n, run[i] = run[j] PROVE i = j
    OBVIOUS
  <2>1. run[i] \in KeyPairs
    BY <1>1
  <2>2. ~Less(run[i], run[j]) /\ ~Less(run[j], run[i])
    BY <2>1, LessOrder
  <2>3. ~(i < j) /\ ~(j < i)
    BY <1>1, <2>2, StrictAll
  <2>4. i \in Nat /\ j \in Nat
    BY <1>1
  <2> QED BY <2>3, <2>4
<1>3. run \in [1..n -> H] /\ \A h \in H : \E i \in 1..n : run[i] = h
  <2>1. run = [i \in 1..n |-> run[i]]
    BY <1>1
  <2>2. \A i \in 1..n : run[i] \in H
    BY <1>1 DEF Range
  <2>3. \A h \in H : \E i \in 1..n : run[i] = h
    BY <1>1 DEF Range
  <2> HIDE DEF n
  <2> QED BY <2>1, <2>2, <2>3
<1> HIDE DEF n
<1>4. run \in Bijection(1..n, H)
  BY <1>2, <1>3 DEF Bijection, Injection, Surjection, IsInjective
<1>5. ExistsBijection(1..n, H)
  BY <1>4 DEF ExistsBijection
<1>6. Cardinality(H) = n
  BY <1>1, <1>5, FS_CountingElements
<1>7. IsFiniteSet(H)
  BY <1>1, <1>5, FS_NatBijection
<1> QED BY <1>1, <1>6, <1>7 DEF n

LEMMA BucketsSplit ==
  ASSUME NEW F \in SUBSET Given, NEW n \in 0..Buckets
  PROVE  /\ {k \in F : bucketOf(k) < 0} = {}
         /\ {k \in F : bucketOf(k) < Buckets} = F
         /\ {k \in F : bucketOf(k) < n + 1} = {k \in F : bucketOf(k) < n} \cup {k \in F : bucketOf(k) = n}
         /\ {k \in F : bucketOf(k) < n} \cap {k \in F : bucketOf(k) = n} = {}
<1>1. \A k \in F : bucketOf(k) \in 0..(Buckets - 1) /\ Buckets \in Nat
  BY SeenAssumption
<1>2. \A k \in F : bucketOf(k) \in Nat /\ bucketOf(k) < Buckets /\ n \in Nat
  BY <1>1
<1>3. /\ \A k \in F : ~(bucketOf(k) < 0)
      /\ \A k \in F : bucketOf(k) < n + 1 <=> bucketOf(k) < n \/ bucketOf(k) = n
      /\ \A k \in F : ~(bucketOf(k) < n /\ bucketOf(k) = n)
  BY <1>2
<1> QED BY <1>2, <1>3

LEMMA AddedCounts ==
  ASSUME NEW got, NEW F \in SUBSET Given,
         \A b \in 0..(Buckets - 1) : Holding(got[b].new, {k \in F : bucketOf(k) = b})
  PROVE  Added(got) = Cardinality(F)
<1> DEFINE N == Buckets
           V(b) == Len(got[b].new)
           Rec(f) == f = [n \in 0..N |-> IF n = 0 THEN 0 ELSE f[n - 1] + Len(got[n - 1].new)]
           Below(n) == {k \in F : bucketOf(k) < n}
           f0 == [n \in 0..N |-> Cardinality(Below(n))]
<1>0. N \in Nat /\ IsFiniteSet(F) /\ (\A n \in 1..N : n - 1 \in 0..(N - 1) /\ n - 1 \in 0..N /\ (n - 1) + 1 = n /\ n \in 0..N)
  <2>1. IsFiniteSet(F)
    BY SeenAssumption, FS_Subset
  <2> QED BY <2>1, SeenAssumption
<1>1. \A n \in 0..N : IsFiniteSet(Below(n)) /\ Cardinality(Below(n)) \in Nat
  <2> SUFFICES ASSUME NEW n \in 0..N PROVE IsFiniteSet(Below(n)) /\ Cardinality(Below(n)) \in Nat
    OBVIOUS
  <2>1. Below(n) \in SUBSET F
    OBVIOUS
  <2> HIDE DEF Below
  <2> QED BY <1>0, <2>1, FS_Subset, FS_CardinalityType
<1>2. \A n \in 1..N : Cardinality(Below(n)) = Cardinality(Below(n - 1)) + V(n - 1)
  <2> SUFFICES ASSUME NEW n \in 1..N PROVE Cardinality(Below(n)) = Cardinality(Below(n - 1)) + V(n - 1)
    OBVIOUS
  <2> DEFINE m == n - 1
             A == Below(m)
             B == {k \in F : bucketOf(k) = m}
  <2>0. m \in 0..(N - 1) /\ m \in 0..N /\ m + 1 = n
    BY <1>0
  <2>1. Below(m + 1) = A \cup B /\ A \cap B = {}
    <3> HIDE DEF m
    <3> QED BY <2>0, BucketsSplit
  <2>2. Holding(got[m].new, B)
    BY <2>0
  <2> HIDE DEF B, A
  <2>3. IsFiniteSet(B) /\ Cardinality(B) = V(m) /\ V(m) \in Nat
    BY <2>2, RunCounts
  <2>4. IsFiniteSet(A) /\ Cardinality(A) \in Nat
    BY <1>1, <2>0 DEF A
  <2>5. Cardinality(A \cup B) = Cardinality(A) + Cardinality(B) - Cardinality(A \cap B)
    BY <2>3, <2>4, FS_Union
  <2>6. Cardinality(A \cap B) = 0
    BY <2>1, FS_EmptySet
  <2>7. Cardinality(A \cup B) = Cardinality(A) + V(m)
    BY <2>3, <2>4, <2>5, <2>6
  <2> HIDE DEF V, Below
  <2> QED BY <2>0, <2>1, <2>7 DEF A
<1>3. Below(0) = {} /\ Below(N) = F
  <2>1. N \in 0..N
    BY <1>0
  <2> QED BY <2>1, BucketsSplit
<1>4. Rec(f0)
  <2> HIDE DEF Below
  <2>1. Cardinality(Below(0)) = 0
    BY <1>3, FS_EmptySet
  <2>2. ASSUME NEW n \in 0..N PROVE Cardinality(Below(n)) = IF n = 0 THEN 0 ELSE f0[n - 1] + Len(got[n - 1].new)
    <3>1. CASE n = 0
      BY <2>1, <3>1
    <3>2. CASE n # 0
      <4>1. n \in 1..N
        BY <1>0, <3>2
      <4>2. f0[n - 1] = Cardinality(Below(n - 1))
        BY <1>0, <4>1
      <4> HIDE DEF f0
      <4> QED BY <1>2, <3>2, <4>1, <4>2
    <3> QED BY <3>1, <3>2
  <2>3. f0 = [n \in 0..N |-> Cardinality(Below(n))]
    OBVIOUS
  <2> HIDE DEF f0
  <2> QED BY <2>2, <2>3
<1> DEFINE f == CHOOSE f : Rec(f)
<1>5. Rec(f)
  <2> HIDE DEF Rec, f0
  <2> QED BY <1>4
<1>6. Added(got) = f[N]
  BY DEF Added
<1> HIDE DEF f, f0
<1>7. f[0] = 0 /\ \A n \in 1..N : f[n] = f[n - 1] + V(n - 1)
  <2>1. 0 \in 0..N /\ \A n \in 1..N : n \in 0..N /\ n # 0
    BY <1>0
  <2>2. \A n \in 0..N : f[n] = IF n = 0 THEN 0 ELSE f[n - 1] + Len(got[n - 1].new)
    BY <1>5
  <2> QED BY <2>1, <2>2
<1> HIDE DEF V, Below
<1> DEFINE G == {n \in 0..N : f[n] = Cardinality(Below(n))}
<1>8. 0 \in G
  BY <1>0, <1>3, <1>7, FS_EmptySet
<1>9. \A n \in 0..N : n \in G /\ n < N => n + 1 \in G
  <2> SUFFICES ASSUME NEW n \in 0..N, n \in G, n < N PROVE n + 1 \in 0..N /\ f[n + 1] = Cardinality(Below(n + 1))
    OBVIOUS
  <2>1. n + 1 \in 1..N /\ (n + 1) - 1 = n /\ n + 1 \in 0..N
    BY <1>0
  <2>2. f[n + 1] = f[n] + V(n) /\ Cardinality(Below(n + 1)) = Cardinality(Below(n)) + V(n)
    BY <1>2, <1>7, <2>1
  <2> QED BY <2>1, <2>2
<1> HIDE DEF G
<1>10. \A n \in 0..N : n \in G
  BY <1>0, <1>8, <1>9, Climb
<1>11. N \in 0..N
  BY <1>0
<1> QED BY <1>3, <1>6, <1>10, <1>11 DEF G
\* The buckets' runs, one after the other.
LEMMA OfAllHolds ==
  ASSUME NEW runs, NEW F \in SUBSET Given,
         \A b \in 0..(Buckets - 1) : Holding(runs[b], {k \in F : bucketOf(k) = b})
  PROVE  OfAll(runs) \in Seq(KeyPairs) /\ Range(OfAll(runs)) = F
<1> DEFINE N == Buckets
           S == Seq(KeyPairs)
           none == <<>>
           Rec(f) == f = [n \in 0..N |-> IF n = 0 THEN <<>> ELSE f[n - 1] \o runs[n - 1]]
           Below(n) == {k \in F : bucketOf(k) < n}
           step == [n \in 1..N |-> [x \in S |-> x \o runs[n - 1]]]
<1>0. N \in Nat /\ (\A n \in 1..N : n - 1 \in 0..(N - 1) /\ n - 1 \in 0..N /\ (n - 1) + 1 = n /\ n \in 0..N)
  BY SeenAssumption
<1>1. \A n \in 1..N : runs[n - 1] \in S
  BY <1>0 DEF Holding
<1>2. none \in S /\ Steps(step, N, S)
  <2>1. \A n \in 1..N : \A x \in S : x \o runs[n - 1] \in S
    BY <1>1, Joined
  <2> HIDE DEF S
  <2>2. step \in [1..N -> [S -> S]]
    BY <2>1
  <2>3. none \in S
    BY DEF S
  <2> QED BY <2>2, <2>3 DEF Steps
<1>3. PICK c : Course(c, N, S, none, step)
  <2> HIDE DEF N, S, none, step
  <2> QED BY <1>0, <1>2, Recursion
<1>4. Rec(c)
  <2> HIDE DEF S
  <2>1. c \in [0..N -> S] /\ c[0] = <<>> /\ \A i \in 1..N : c[i] = step[i][c[i - 1]]
    BY <1>3 DEF Course
  <2>2. \A i \in 1..N : c[i - 1] \in S
    BY <1>0, <2>1
  <2>3. \A i \in 1..N : c[i] = c[i - 1] \o runs[i - 1]
    BY <2>1, <2>2
  <2>4. \A n \in 0..N : n # 0 => n \in 1..N
    BY <1>0
  <2> HIDE DEF step
  <2>5. c = [n \in 0..N |-> c[n]]
    BY <2>1
  <2>6. \A n \in 0..N : c[n] = IF n = 0 THEN <<>> ELSE c[n - 1] \o runs[n - 1]
    BY <2>1, <2>3, <2>4
  <2> QED BY <2>5, <2>6
<1> DEFINE f == CHOOSE f : Rec(f)
<1>5. Rec(f)
  <2> HIDE DEF Rec
  <2> QED BY <1>4
<1>6. OfAll(runs) = f[N]
  BY DEF OfAll
<1> HIDE DEF f
<1>7. f[0] = <<>> /\ \A n \in 1..N : f[n] = f[n - 1] \o runs[n - 1]
  <2>1. 0 \in 0..N /\ \A n \in 1..N : n \in 0..N /\ n # 0
    BY <1>0
  <2>2. \A n \in 0..N : f[n] = IF n = 0 THEN <<>> ELSE f[n - 1] \o runs[n - 1]
    BY <1>5
  <2> QED BY <2>1, <2>2
<1>8. Below(0) = {} /\ Below(N) = F
  <2>1. N \in 0..N
    BY <1>0
  <2> QED BY <2>1, BucketsSplit
<1> DEFINE G == {n \in 0..N : f[n] \in S /\ Range(f[n]) = Below(n)}
<1>9. 0 \in G
  <2>1. Range(<<>>) = {} /\ none \in S
    BY DEF Range
  <2> HIDE DEF Below, S
  <2> QED BY <1>0, <1>7, <1>8, <2>1
<1>10. \A n \in 0..N : n \in G /\ n < N => n + 1 \in G
  <2> SUFFICES ASSUME NEW n \in 0..N, n \in G, n < N
               PROVE  n + 1 \in 0..N /\ f[n + 1] \in S /\ Range(f[n + 1]) = Below(n + 1)
    OBVIOUS
  <2> DEFINE a == f[n]
             b == runs[n]
  <2>1. n + 1 \in 1..N /\ (n + 1) - 1 = n /\ n + 1 \in 0..N /\ n \in 0..(N - 1)
    BY <1>0
  <2>2. f[n + 1] = a \o b /\ a \in Seq(KeyPairs) /\ Range(a) = Below(n)
    BY <1>7, <2>1
  <2>3. b \in Seq(KeyPairs) /\ Range(b) = {k \in F : bucketOf(k) = n}
    BY <2>1 DEF Holding
  <2>4. Below(n + 1) = Below(n) \cup {k \in F : bucketOf(k) = n}
    BY <2>1, BucketsSplit
  <2> DEFINE c2 == a \o b
  <2> HIDE DEF a, b, Below
  <2>5. /\ c2 \in Seq(KeyPairs) /\ Len(c2) = Len(a) + Len(b)
        /\ \A i \in 1..Len(a) : c2[i] = a[i]
        /\ \A i \in 1..Len(b) : c2[Len(a) + i] = b[i]
    BY <2>2, <2>3, Joined
  <2> HIDE DEF c2
  <2>6. DOMAIN a = 1..Len(a) /\ DOMAIN b = 1..Len(b) /\ DOMAIN c2 = 1..Len(c2) /\ Len(a) \in Nat /\ Len(b) \in Nat
    BY <2>2, <2>3, <2>5
  <2>7. /\ \A i \in 1..Len(c2) : i \in 1..Len(a) \/ (i - Len(a) \in 1..Len(b) /\ Len(a) + (i - Len(a)) = i)
        /\ \A i \in 1..Len(a) : i \in 1..Len(c2)
        /\ \A i \in 1..Len(b) : Len(a) + i \in 1..Len(c2)
    BY <2>5, <2>6
  <2>8. \A i \in 1..Len(c2) : c2[i] \in Range(a) \cup Range(b)
    <3> SUFFICES ASSUME NEW i \in 1..Len(c2) PROVE c2[i] \in Range(a) \cup Range(b)
      OBVIOUS
    <3>1. CASE i \in 1..Len(a)
      BY <2>5, <2>6, <3>1 DEF Range
    <3>2. CASE i \notin 1..Len(a)
      <4>1. i - Len(a) \in 1..Len(b) /\ Len(a) + (i - Len(a)) = i
        BY <2>7, <3>2
      <4>2. c2[Len(a) + (i - Len(a))] = b[i - Len(a)]
        BY <2>5, <4>1
      <4> QED BY <2>6, <4>1, <4>2 DEF Range
    <3> QED BY <3>1, <3>2
  <2>9. \A x \in Range(a) \cup Range(b) : \E i \in 1..Len(c2) : c2[i] = x
    BY <2>5, <2>6, <2>7 DEF Range
  <2>10. Range(c2) = Range(a) \cup Range(b)
    BY <2>6, <2>8, <2>9 DEF Range
  <2> QED BY <2>1, <2>2, <2>3, <2>4, <2>5, <2>10 DEF c2
<1> HIDE DEF G
<1>11. \A n \in 0..N : n \in G
  BY <1>0, <1>9, <1>10, Climb
<1>12. N \in 0..N
  BY <1>0
<1> QED BY <1>6, <1>8, <1>11, <1>12 DEF G

-----------------------------------------------------------------------------
(* Both tiers against the keys given. *)

BucketOf(H, b) == {k \in H : bucketOf(k) = b}

\* The record s is the seen-set of the keys H.
Tiers(s, H) ==
  /\ H \in SUBSET Given
  /\ DOMAIN s.filter = 0..(Blocks - 1)
  /\ s.buckets = [b \in 0..(Buckets - 1) |-> s.buckets[b]]
  /\ \A b \in 0..(Buckets - 1) : Holding(s.buckets[b], BucketOf(H, b))
  /\ s.size = Cardinality(H)
  /\ \A k \in H : maybeSeen(s.filter, k)

SeenRecord(s) == DOMAIN s = {"filter", "buckets", "size"} /\ s = [x \in DOMAIN s |-> s[x]]

LEMMA GivenKeys ==
  /\ \A k \in Given : k \in KeyPairs /\ bucketOf(k) \in 0..(Buckets - 1) /\ locate(k).block \in 0..(Blocks - 1)
  /\ IsFiniteSet(Given)
  /\ \A H \in SUBSET Given : IsFiniteSet(H) /\ Cardinality(H) \in Nat
<1>1. \A k \in Given : k \in KeyPairs /\ bucketOf(k) \in 0..(Buckets - 1)
  BY SeenAssumption DEF KeyPairs
<1>2. ASSUME NEW k \in Given PROVE locate(k).block \in 0..(Blocks - 1)
  <2>1. k[1] \in Nat /\ k[2] \in Nat
    BY <1>1 DEF KeyPairs
  <2>2. Mix(k) \in Int
    BY <2>1 DEF Mix
  <2>3. Blocks \in Nat \ {0}
    BY SeenAssumption
  <2>4. Mix(k) % Blocks \in 0..(Blocks - 1)
    BY <2>2, <2>3
  <2>5. locate(k).block = Mix(k) % Blocks
    BY DEF locate
  <2> QED BY <2>4, <2>5
<1>3. IsFiniteSet(Given)
  BY SeenAssumption
<1>4. \A H \in SUBSET Given : IsFiniteSet(H) /\ Cardinality(H) \in Nat
  BY <1>3, FS_Subset, FS_CardinalityType
<1> QED BY <1>1, <1>2, <1>3, <1>4

LEMMA ContainsHeld ==
  ASSUME NEW s, NEW H, Tiers(s, H), NEW k \in Given
  PROVE  /\ contains(s, k) <=> k \in H
         /\ SeenContains(s, k) <=> k \in H
<1> DEFINE b == bucketOf(k)
           run == s.buckets[b]
<1>1. Holding(run, BucketOf(H, b)) /\ k \in KeyPairs
  BY GivenKeys DEF Tiers
<1>2. Found(run, 1, k, Place(run, k))
  BY <1>1, PlaceFinds DEF Holding
<1>3. contains(s, k) <=> k \in Range(run)
  <2> HIDE DEF run, b
  <2>1. contains(s, k) <=> Place(run, k) <= Len(run) /\ run[Place(run, k)] = k
    BY DEF contains, run, b
  <2> QED BY <1>2, <2>1 DEF Found
<1>4. k \in Range(run) <=> k \in H
  <2>1. Range(run) = BucketOf(H, b)
    BY <1>1 DEF Holding
  <2> QED BY <2>1 DEF BucketOf
<1>5. k \in H => maybeSeen(s.filter, k)
  BY DEF Tiers
<1> QED BY <1>3, <1>4, <1>5 DEF SeenContains

LEMMA NewSeenTiers == Tiers(NewSeenSet, {}) /\ SeenRecord(NewSeenSet)
<1> DEFINE s == NewSeenSet
<1>1. /\ s.filter = [b \in 0..(Blocks - 1) |-> {}]
      /\ s.buckets = [b \in 0..(Buckets - 1) |-> <<>>]
      /\ s.size = 0 /\ SeenRecord(s)
  BY DEF NewSeenSet, SeenRecord
<1>2. Holding(<<>>, {})
  BY DEF Holding, Strict, Range
<1>3. \A b : BucketOf({}, b) = {}
  BY DEF BucketOf
<1> HIDE DEF s
<1>4. Cardinality({}) = 0
  BY FS_EmptySet
<1>5. Tiers(s, {})
  BY <1>1, <1>2, <1>3, <1>4 DEF Tiers
<1> QED BY <1>1, <1>5 DEF s

LEMMA LearnHolds ==
  ASSUME NEW s, NEW H, Tiers(s, H), SeenRecord(s), NEW k \in Given, ~SeenContains(s, k)
  PROVE  Tiers(Learn(s, k), H \cup {k}) /\ SeenRecord(Learn(s, k))
<1> DEFINE b == bucketOf(k)
           run == s.buckets[b]
           more == InsertAt(run, Place(run, k), k)
           e == exactAdd(s, k)
           n == Learn(s, k)
           x == locate(k).block
<1>1. k \notin H /\ ~contains(s, k) /\ k \in KeyPairs /\ b \in 0..(Buckets - 1) /\ x \in 0..(Blocks - 1)
  BY ContainsHeld, GivenKeys
<1>2. Holding(more, BucketOf(H, b) \cup {k})
  <2>1. Holding(run, BucketOf(H, b)) /\ k \notin BucketOf(H, b)
    BY <1>1 DEF Tiers, BucketOf
  <2> HIDE DEF run, b
  <2> QED BY <1>1, <2>1, InsertHolds
<1>3. e = [s EXCEPT !.buckets[b] = more, !.size = @ + 1]
  BY <1>1 DEF exactAdd
<1>4. n = [e EXCEPT !.filter = filterAdd(@, k)]
  BY DEF Learn
<1>5. DOMAIN s = {"filter", "buckets", "size"} /\ s = [y \in DOMAIN s |-> s[y]]
  BY DEF SeenRecord
<1> HIDE DEF e, n, more, b, x
<1>6. /\ e.filter = s.filter /\ e.buckets = [s.buckets EXCEPT ![b] = more] /\ e.size = s.size + 1
      /\ DOMAIN e = DOMAIN s /\ e = [y \in DOMAIN e |-> e[y]]
  BY <1>3, <1>5
<1>7. /\ n.filter = filterAdd(s.filter, k) /\ n.buckets = e.buckets /\ n.size = e.size
      /\ DOMAIN n = DOMAIN s /\ n = [y \in DOMAIN n |-> n[y]]
  BY <1>4, <1>5, <1>6
<1>8. SeenRecord(n)
  BY <1>5, <1>7 DEF SeenRecord
<1>9. /\ n.buckets = [c \in 0..(Buckets - 1) |-> n.buckets[c]]
      /\ n.buckets[b] = more
      /\ \A c \in 0..(Buckets - 1) : c # b => n.buckets[c] = s.buckets[c]
  <2>1. s.buckets = [c \in 0..(Buckets - 1) |-> s.buckets[c]]
    BY DEF Tiers
  <2>2. n.buckets = [s.buckets EXCEPT ![b] = more]
    BY <1>6, <1>7
  <2> QED BY <1>1, <2>1, <2>2
<1>10. ASSUME NEW c \in 0..(Buckets - 1) PROVE Holding(n.buckets[c], BucketOf(H \cup {k}, c))
  <2>1. CASE c = b
    <3>1. BucketOf(H \cup {k}, b) = BucketOf(H, b) \cup {k}
      BY DEF BucketOf, b
    <3> QED BY <1>2, <1>9, <2>1, <3>1
  <2>2. CASE c # b
    <3>1. BucketOf(H \cup {k}, c) = BucketOf(H, c)
      BY <2>2 DEF BucketOf, b
    <3>2. Holding(s.buckets[c], BucketOf(H, c))
      BY DEF Tiers
    <3> QED BY <1>9, <2>2, <3>1, <3>2
  <2> QED BY <2>1, <2>2
<1>11. n.size = Cardinality(H \cup {k})
  <2>1. H \in SUBSET Given /\ s.size = Cardinality(H)
    BY DEF Tiers
  <2>2. IsFiniteSet(H)
    BY <2>1, GivenKeys
  <2>3. Cardinality(H \cup {k}) = Cardinality(H) + 1
    BY <1>1, <2>2, FS_AddElement
  <2> QED BY <1>6, <1>7, <2>1, <2>3
<1>12. /\ DOMAIN n.filter = 0..(Blocks - 1)
       /\ n.filter[x] = s.filter[x] \cup locate(k).bits
       /\ \A y \in 0..(Blocks - 1) : y # x => n.filter[y] = s.filter[y]
  <2>1. DOMAIN s.filter = 0..(Blocks - 1)
    BY DEF Tiers
  <2>2. n.filter = [s.filter EXCEPT ![x] = @ \cup locate(k).bits]
    BY <1>7 DEF filterAdd, x
  <2> QED BY <1>1, <2>1, <2>2
<1>13. ASSUME NEW h \in H \cup {k} PROVE maybeSeen(n.filter, h)
  <2>1. h \in Given
    BY DEF Tiers
  <2>2. locate(h).block \in 0..(Blocks - 1)
    BY <2>1, GivenKeys
  <2>3. CASE h = k
    BY <1>12, <2>3 DEF maybeSeen, x
  <2>4. CASE h # k
    <3>1. locate(h).bits \subseteq s.filter[locate(h).block]
      BY <2>4 DEF Tiers, maybeSeen
    <3>2. s.filter[locate(h).block] \subseteq n.filter[locate(h).block]
      BY <1>12, <2>2
    <3> QED BY <3>1, <3>2 DEF maybeSeen
  <2> QED BY <2>3, <2>4
<1>14. H \cup {k} \in SUBSET Given
  BY DEF Tiers
<1>15. Tiers(n, H \cup {k})
  BY <1>9, <1>10, <1>11, <1>12, <1>13, <1>14 DEF Tiers
<1> QED BY <1>8, <1>15 DEF n
\* What bucket b's verdicts say of the batch's keys of that bucket.
Classified(out, batch, b, H) ==
  /\ DOMAIN out = 1..Len(out) /\ Len(out) \in Nat
  /\ \A j \in 1..Len(out) : out[j][1] \in Range(batch) /\ bucketOf(out[j][1]) = b
  /\ \A j, l \in 1..Len(out) : out[j][2] /\ out[l][2] /\ out[j][1] = out[l][1] => j = l
  /\ \A j \in 1..Len(out) : out[j][2] => out[j][1] \notin H
  /\ \A k \in Range(batch) \ H : bucketOf(k) = b => \E j \in 1..Len(out) : out[j][1] = k /\ out[j][2]
  /\ \A k : bucketOf(k) = b =>
       Cardinality({j \in 1..Len(out) : out[j][1] = k}) = Cardinality({i \in DOMAIN batch : batch[i] = k})

LEMMA BucketClassified ==
  ASSUME NEW got, NEW H, NEW batch \in Seq(KeyPairs), NEW b, Merged(got, BucketOf(H, b), batch, b)
  PROVE  Classified(got.out, batch, b, H)
<1> DEFINE out == got.out
           D == BucketOf(H, b)
           P == Part(batch, b)
<1>1. out \in Seq(KeyPairs \X BOOLEAN) /\ \E s, p : Arranged(s, batch, P, p) /\ Sifted(out, s, D)
  BY DEF Merged
<1>2. PICK s, p : Arranged(s, batch, P, p) /\ Sifted(out, s, D)
  BY <1>1
<1> DEFINE n == Len(out)
<1>3. n \in Nat /\ DOMAIN out = 1..n
  BY <1>1
<1> HIDE DEF out
<1>4. /\ Len(s) = n
      /\ \A j \in 1..n : out[j][1] = s[j] /\ (out[j][2] <=> s[j] \notin D /\ \A q \in 1..(j - 1) : s[q] # s[j])
  BY <1>2 DEF Sifted
<1>5. /\ p \in [1..n -> P]
      /\ \A x, y \in 1..n : p[x] = p[y] => x = y
      /\ \A t \in P : \E x \in 1..n : p[x] = t
  BY <1>2, <1>4, ArrangedIs
<1>6. \A j \in 1..n : s[j] = batch[p[j]]
  BY <1>2, <1>4 DEF Arranged
<1> HIDE DEF n
<1>7. \A i : i \in P <=> i \in DOMAIN batch /\ bucketOf(batch[i]) = b
  BY DEF Part
<1> HIDE DEF P
<1>8. ASSUME NEW j \in 1..n PROVE out[j][1] \in Range(batch) /\ bucketOf(out[j][1]) = b
  <2>1. p[j] \in P /\ out[j][1] = batch[p[j]]
    BY <1>4, <1>5, <1>6
  <2> QED BY <1>7, <2>1 DEF Range
<1>9. ASSUME NEW j \in 1..n, NEW l \in 1..n, out[j][2], out[l][2], out[j][1] = out[l][1] PROVE j = l
  <2>1. s[j] = s[l] /\ (\A q \in 1..(j - 1) : s[q] # s[j]) /\ (\A q \in 1..(l - 1) : s[q] # s[l])
    BY <1>4, <1>9
  <2>2. l \notin 1..(j - 1) /\ j \notin 1..(l - 1)
    BY <2>1
  <2>3. j \in Nat /\ l \in Nat /\ j >= 1 /\ l >= 1
    BY <1>3
  <2> QED BY <2>2, <2>3
<1>10. ASSUME NEW j \in 1..n, out[j][2] PROVE out[j][1] \notin H
  <2>1. s[j] \notin D /\ out[j][1] = s[j] /\ bucketOf(s[j]) = b
    BY <1>4, <1>8, <1>10
  <2> QED BY <2>1 DEF BucketOf
<1>11. ASSUME NEW k \in Range(batch) \ H, bucketOf(k) = b PROVE \E j \in 1..n : out[j][1] = k /\ out[j][2]
  <2>1. PICK i \in DOMAIN batch : batch[i] = k
    BY DEF Range
  <2>2. i \in P
    BY <1>7, <1>11, <2>1
  <2>3. PICK x \in 1..n : p[x] = i
    BY <1>5, <2>2
  <2> DEFINE T == {j \in 1..n : s[j] = k}
  <2>4. x \in T /\ T \in SUBSET Nat
    BY <1>3, <1>6, <2>1, <2>3
  <2>5. PICK j \in T : \A y \in T : j <= y
    <3> HIDE DEF T
    <3> QED BY <2>4, LeastNat
  <2>6. \A q \in 1..(j - 1) : s[q] # s[j]
    <3> SUFFICES ASSUME NEW q \in 1..(j - 1), s[q] = s[j] PROVE FALSE
      OBVIOUS
    <3>1. q \in 1..n /\ q < j /\ q \in Nat /\ j \in Nat
      BY <1>3, <2>5
    <3>2. q \in T
      BY <2>5, <3>1
    <3> QED BY <2>5, <3>1, <3>2
  <2>7. k \notin D
    BY DEF BucketOf
  <2> QED BY <1>4, <2>5, <2>6, <2>7
<1>12. ASSUME NEW k, bucketOf(k) = b
       PROVE  Cardinality({j \in 1..n : out[j][1] = k}) = Cardinality({i \in DOMAIN batch : batch[i] = k})
  <2> DEFINE A == {j \in 1..n : out[j][1] = k}
             B == {i \in DOMAIN batch : batch[i] = k}
             f == [j \in A |-> p[j]]
  <2>1. f \in [A -> B]
    <3>1. ASSUME NEW j \in A PROVE p[j] \in B
      <4>1. j \in 1..n /\ p[j] \in P /\ batch[p[j]] = k
        BY <1>4, <1>5, <1>6
      <4> QED BY <1>7, <4>1
    <3> HIDE DEF A, B
    <3> QED BY <3>1
  <2>2. \A x, y \in A : f[x] = f[y] => x = y
    BY <1>5
  <2>3. \A t \in B : \E x \in A : f[x] = t
    <3> SUFFICES ASSUME NEW t \in B PROVE \E x \in A : f[x] = t
      OBVIOUS
    <3>1. t \in P
      BY <1>7, <1>12
    <3>2. PICK x \in 1..n : p[x] = t
      BY <1>5, <3>1
    <3>3. x \in A
      BY <1>4, <1>6, <3>2
    <3> QED BY <3>2, <3>3
  <2>4. DOMAIN f = A
    OBVIOUS
  <2>5. IsFiniteSet(A)
    <3>1. A \in SUBSET (1..n)
      OBVIOUS
    <3>2. \A x, y \in Int : IsFiniteSet(x..y)
      BY FS_Interval
    <3>3. IsFiniteSet(1..n)
      BY <1>3, <3>2
    <3> HIDE DEF A
    <3> QED BY <3>1, <3>3, FS_Subset
  <2> HIDE DEF A, B, f
  <2>6. f \in Bijection(A, B)
    BY <2>1, <2>2, <2>3, <2>4 DEF Bijection, Injection, Surjection, IsInjective
  <2>7. ExistsBijection(A, B)
    BY <2>6 DEF ExistsBijection
  <2>8. Cardinality(B) = Cardinality(A)
    BY <2>5, <2>7, FS_Bijection
  <2> QED BY <2>8 DEF A, B
<1> HIDE DEF D
<1>13. Classified(out, batch, b, H)
  BY <1>3, <1>8, <1>9, <1>10, <1>11, <1>12 DEF Classified, n
<1> QED BY <1>13 DEF out

\* The verdicts of one call, as SeenOnce states them.
Judgement(v) ==
  LET places == UNION {{b} \X DOMAIN v.out[b] : b \in DOMAIN v.out}
      Key(x) == v.out[x[1]][x[2]][1]
      unique == {x \in places : v.out[x[1]][x[2]][2]} IN
  /\ \A k \in Given : Cardinality({x \in places : Key(x) = k})
                      = Cardinality({i \in DOMAIN v.given : v.given[i] = k})
  /\ \A x, y \in unique : Key(x) = Key(y) => x = y
  /\ {Key(x) : x \in unique} = Range(v.given) \ v.before

LEMMA MergeJudges ==
  ASSUME NEW out, NEW batch, NEW H, NEW B, DOMAIN out = B, Range(batch) \in SUBSET Given,
         \A k \in Given : bucketOf(k) \in B \/ (k \notin Range(batch) /\ \A i \in DOMAIN batch : batch[i] # k),
         \A b \in B : Classified(out[b], batch, b, H)
  PROVE  Judgement([out |-> out, before |-> H, given |-> batch])
<1> DEFINE v == [out |-> out, before |-> H, given |-> batch]
           places == UNION {{b} \X DOMAIN v.out[b] : b \in DOMAIN v.out}
           Key(x) == v.out[x[1]][x[2]][1]
           unique == {x \in places : v.out[x[1]][x[2]][2]}
<1>0. v.out = out /\ v.before = H /\ v.given = batch
  OBVIOUS
<1>1. \A x : x \in places <=> \E b \in B : \E j \in 1..Len(out[b]) : x = <<b, j>>
  <2>1. \A b \in B : DOMAIN out[b] = 1..Len(out[b])
    BY DEF Classified
  <2> HIDE DEF v
  <2> QED BY <1>0, <2>1
<1> HIDE DEF places
<1>2. \A b, j : <<b, j>>[1] = b /\ <<b, j>>[2] = j
  OBVIOUS
<1>3. \A x \in unique : \E b \in B : \E j \in 1..Len(out[b]) : x = <<b, j>> /\ out[b][j][2] /\ Key(x) = out[b][j][1]
  <2> HIDE DEF v
  <2> QED BY <1>0, <1>1, <1>2
<1>4. ASSUME NEW x \in unique, NEW y \in unique, Key(x) = Key(y) PROVE x = y
  <2> HIDE DEF Key, unique
  <2>1. PICK b, j : b \in B /\ j \in 1..Len(out[b]) /\ x = <<b, j>> /\ out[b][j][2] /\ Key(x) = out[b][j][1]
    BY <1>3
  <2>2. PICK c, l : c \in B /\ l \in 1..Len(out[c]) /\ y = <<c, l>> /\ out[c][l][2] /\ Key(y) = out[c][l][1]
    BY <1>3
  <2>3. bucketOf(out[b][j][1]) = b /\ bucketOf(out[c][l][1]) = c
    BY <2>1, <2>2 DEF Classified
  <2>4. b = c
    BY <1>4, <2>1, <2>2, <2>3
  <2>5. j = l
    BY <1>4, <2>1, <2>2, <2>4 DEF Classified
  <2> QED BY <2>1, <2>2, <2>4, <2>5
<1>5. {Key(x) : x \in unique} = Range(batch) \ H
  <2>1. ASSUME NEW x \in unique PROVE Key(x) \in Range(batch) \ H
    <3> HIDE DEF Key, unique
    <3>1. PICK b, j : b \in B /\ j \in 1..Len(out[b]) /\ x = <<b, j>> /\ out[b][j][2] /\ Key(x) = out[b][j][1]
      BY <1>3
    <3> QED BY <3>1 DEF Classified
  <2>2. ASSUME NEW k \in Range(batch) \ H PROVE \E x \in unique : Key(x) = k
    <3>1. k \in Given /\ bucketOf(k) \in B
      OBVIOUS
    <3> DEFINE b == bucketOf(k)
    <3>2. PICK j \in 1..Len(out[b]) : out[b][j][1] = k /\ out[b][j][2]
      BY <3>1 DEF Classified
    <3> DEFINE x == <<b, j>>
    <3>3. x \in places /\ x[1] = b /\ x[2] = j
      BY <1>1, <3>1
    <3> HIDE DEF x, b, v
    <3>4. x \in unique /\ Key(x) = k
      BY <1>0, <3>2, <3>3
    <3> QED BY <3>4
  <2> HIDE DEF Key, unique
  <2> QED BY <2>1, <2>2
<1>6. ASSUME NEW k \in Given
      PROVE  Cardinality({x \in places : Key(x) = k}) = Cardinality({i \in DOMAIN batch : batch[i] = k})
  <2> DEFINE X == {x \in places : Key(x) = k}
             c == bucketOf(k)
             J == {j \in 1..Len(out[c]) : out[c][j][1] = k}
  <2>1. CASE c \in B
    <3> DEFINE f == [j \in J |-> <<c, j>>]
    <3>1. \A j \in J : <<c, j>> \in X
      <4> SUFFICES ASSUME NEW j \in J PROVE <<c, j>> \in X
        OBVIOUS
      <4> DEFINE x == <<c, j>>
      <4>1. x \in places /\ x[1] = c /\ x[2] = j
        BY <1>1, <2>1
      <4> HIDE DEF x, c, v
      <4>2. x \in X
        BY <1>0, <4>1
      <4> QED BY <4>2 DEF x
    <3>2. \A x \in X : \E j \in J : x = <<c, j>>
      <4> SUFFICES ASSUME NEW x \in X PROVE \E j \in J : x = <<c, j>>
        OBVIOUS
      <4>1. PICK b, j : b \in B /\ j \in 1..Len(out[b]) /\ x = <<b, j>>
        BY <1>1
      <4>2. x[1] = b /\ x[2] = j
        BY <4>1
      <4>3. out[b][j][1] = k
        <5> HIDE DEF v
        <5> QED BY <1>0, <4>2
      <4>4. b = c
        BY <4>1, <4>3 DEF Classified
      <4> QED BY <4>1, <4>3, <4>4
    <3>3. IsFiniteSet(J)
      <4>1. J \in SUBSET (1..Len(out[c])) /\ Len(out[c]) \in Nat
        BY <2>1 DEF Classified
      <4>2. \A x, y \in Int : IsFiniteSet(x..y)
        BY FS_Interval
      <4>3. IsFiniteSet(1..Len(out[c]))
        BY <4>1, <4>2
      <4> HIDE DEF J
      <4> QED BY <4>1, <4>3, FS_Subset
    <3> HIDE DEF X, J, c
    <3>4. f \in [J -> X] /\ DOMAIN f = J /\ (\A a, b \in J : f[a] = f[b] => a = b) /\ \A x \in X : \E j \in J : f[j] = x
      BY <3>1, <3>2
    <3> HIDE DEF f
    <3>5. f \in Bijection(J, X)
      BY <3>4 DEF Bijection, Injection, Surjection, IsInjective
    <3>6. ExistsBijection(J, X)
      BY <3>5 DEF ExistsBijection
    <3>7. Cardinality(X) = Cardinality(J)
      BY <3>3, <3>6, FS_Bijection
    <3>8. Cardinality(J) = Cardinality({i \in DOMAIN batch : batch[i] = k})
      BY <2>1 DEF Classified, J, c
    <3> QED BY <3>7, <3>8 DEF X
  <2>2. CASE c \notin B
    <3>1. {i \in DOMAIN batch : batch[i] = k} = {}
      BY <2>2
    <3>2. X = {}
      <4> SUFFICES ASSUME NEW x \in X PROVE FALSE
        OBVIOUS
      <4>1. PICK b, j : b \in B /\ j \in 1..Len(out[b]) /\ x = <<b, j>>
        BY <1>1
      <4>2. x[1] = b /\ x[2] = j
        BY <4>1
      <4>3. out[b][j][1] = k
        <5> HIDE DEF v
        <5> QED BY <1>0, <4>2
      <4>4. b = c
        BY <4>1, <4>3 DEF Classified
      <4> QED BY <2>2, <4>1, <4>4
    <3> QED BY <3>1, <3>2
  <2> QED BY <2>1, <2>2
<1>7. /\ \A k \in Given : Cardinality({x \in places : Key(x) = k}) = Cardinality({i \in DOMAIN v.given : v.given[i] = k})
      /\ \A x, y \in unique : Key(x) = Key(y) => x = y
      /\ {Key(x) : x \in unique} = Range(v.given) \ v.before
  <2> HIDE DEF v, Key, unique
  <2> QED BY <1>0, <1>4, <1>5, <1>6
<1> QED BY <1>7 DEF Judgement, places
\* The seen-set after a merge whose buckets came out as got.
AfterMerge(s, got) ==
  LET Unique(x) == {c[1] : c \in {c \in UNION {Range(got[b].out) : b \in DOMAIN got} :
                                    c[2] /\ locate(c[1]).block = x}}
  IN [filter  |-> [x \in DOMAIN s.filter |->
                     s.filter[x] \cup UNION {locate(k).bits : k \in Unique(x)}],
      buckets |-> [b \in DOMAIN s.buckets |-> got[b].run],
      size    |-> s.size + Added(got)]

LEMMA MergeHolds ==
  ASSUME NEW s, NEW H, Tiers(s, H), NEW batch \in Seq(Given), NEW got \in exactMerge(s, batch)
  PROVE  /\ Tiers(AfterMerge(s, got), H \cup Range(batch)) /\ SeenRecord(AfterMerge(s, got))
         /\ Judgement([out |-> [b \in DOMAIN got |-> got[b].out], before |-> H, given |-> batch])
<1> DEFINE B == 0..(Buckets - 1)
           F == Range(batch) \ H
           n == AfterMerge(s, got)
           may == [b \in B |-> mergeBucket(s.buckets[b], batch, b)]
<1>0. /\ DOMAIN s.buckets = B /\ H \in SUBSET Given /\ s.size = Cardinality(H)
      /\ DOMAIN s.filter = 0..(Blocks - 1)
      /\ \A b \in B : Holding(s.buckets[b], BucketOf(H, b))
  BY DEF Tiers
<1>1. DOMAIN got = B /\ \A b \in B : got[b] \in mergeBucket(s.buckets[b], batch, b)
  <2>1. got \in {g \in [DOMAIN may -> UNION Range(may)] : \A b \in DOMAIN may : g[b] \in may[b]}
    BY <1>0 DEF exactMerge
  <2>2. DOMAIN may = B /\ \A b \in B : may[b] = mergeBucket(s.buckets[b], batch, b)
    OBVIOUS
  <2> HIDE DEF may
  <2> QED BY <2>1, <2>2
<1>2. batch \in Seq(KeyPairs) /\ Range(batch) \in SUBSET Given
  <2>1. batch \in [1..Len(batch) -> Given] /\ Len(batch) \in Nat
    OBVIOUS
  <2>2. \A i \in 1..Len(batch) : batch[i] \in KeyPairs
    BY <2>1, GivenKeys
  <2> QED BY <2>1, <2>2 DEF Range
<1> HIDE DEF B
<1>3. \A b \in B : Merged(got[b], BucketOf(H, b), batch, b)
  BY <1>0, <1>1, <1>2, MergedBucket
<1>4. \A b \in B : Classified(got[b].out, batch, b, H)
  BY <1>2, <1>3, BucketClassified
<1>5. \A b \in B : KeysAt(batch, b) = BucketOf(Range(batch), b)
  BY DEF KeysAt, Part, BucketOf, Range
<1>6. \A b \in B : /\ Holding(got[b].new, {k \in F : bucketOf(k) = b})
                   /\ Holding(got[b].run, BucketOf(H \cup Range(batch), b))
  <2> SUFFICES ASSUME NEW b \in B
               PROVE  /\ Holding(got[b].new, {k \in F : bucketOf(k) = b})
                      /\ Holding(got[b].run, BucketOf(H \cup Range(batch), b))
    OBVIOUS
  <2>1. KeysAt(batch, b) \ BucketOf(H, b) = {k \in F : bucketOf(k) = b}
    BY <1>5 DEF BucketOf
  <2>2. BucketOf(H, b) \cup KeysAt(batch, b) = BucketOf(H \cup Range(batch), b)
    BY <1>5 DEF BucketOf
  <2>3. Holding(got[b].new, KeysAt(batch, b) \ BucketOf(H, b)) /\ Holding(got[b].run, BucketOf(H, b) \cup KeysAt(batch, b))
    BY <1>3 DEF Merged
  <2> HIDE DEF F
  <2> QED BY <2>1, <2>2, <2>3
<1>7. Added(got) = Cardinality(F)
  <2>1. F \in SUBSET Given
    BY <1>2
  <2>2. \A b \in 0..(Buckets - 1) : Holding(got[b].new, {k \in F : bucketOf(k) = b})
    BY <1>6 DEF B
  <2> HIDE DEF F
  <2> QED BY <2>1, <2>2, AddedCounts
<1>8. Cardinality(H \cup Range(batch)) = Cardinality(H) + Cardinality(F)
  <2>1. F \in SUBSET Given /\ H \cap F = {} /\ H \cup F = H \cup Range(batch)
    BY <1>2
  <2> HIDE DEF F
  <2>2. IsFiniteSet(H) /\ IsFiniteSet(F) /\ Cardinality(H) \in Nat /\ Cardinality(F) \in Nat
    BY <1>0, <2>1, GivenKeys
  <2>3. Cardinality(H \cup F) = Cardinality(H) + Cardinality(F) - Cardinality(H \cap F)
    BY <2>2, FS_Union
  <2>4. Cardinality(H \cap F) = 0
    BY <2>1, FS_EmptySet
  <2>5. Cardinality(H \cup F) = Cardinality(H) + Cardinality(F)
    BY <2>2, <2>3, <2>4
  <2> QED BY <2>1, <2>5
<1> DEFINE Unique(x) == {c[1] : c \in {c \in UNION {Range(got[b].out) : b \in DOMAIN got} :
                                         c[2] /\ locate(c[1]).block = x}}
<1>9. n = [filter  |-> [x \in DOMAIN s.filter |-> s.filter[x] \cup UNION {locate(k).bits : k \in Unique(x)}],
           buckets |-> [b \in DOMAIN s.buckets |-> got[b].run],
           size    |-> s.size + Added(got)]
  BY DEF AfterMerge
<1>10. \A k \in F : k \in Unique(locate(k).block)
  <2> SUFFICES ASSUME NEW k \in F PROVE k \in Unique(locate(k).block)
    OBVIOUS
  <2> DEFINE b == bucketOf(k)
  <2>1. b \in B
    BY <1>2, GivenKeys DEF B
  <2>2. PICK j \in 1..Len(got[b].out) : got[b].out[j][1] = k /\ got[b].out[j][2]
    BY <1>4, <2>1 DEF Classified
  <2> DEFINE c == got[b].out[j]
  <2>3. DOMAIN got[b].out = 1..Len(got[b].out)
    BY <1>4, <2>1 DEF Classified
  <2>4. c \in Range(got[b].out) /\ c[1] = k /\ c[2]
    BY <2>2, <2>3 DEF Range
  <2> HIDE DEF c
  <2>5. c \in UNION {Range(got[e].out) : e \in DOMAIN got}
    BY <1>1, <2>1, <2>4
  <2> QED BY <2>4, <2>5
<1> HIDE DEF Unique, n
<1>11. /\ n.filter = [x \in 0..(Blocks - 1) |-> s.filter[x] \cup UNION {locate(k).bits : k \in Unique(x)}]
       /\ n.buckets = [b \in B |-> got[b].run]
       /\ n.size = s.size + Added(got)
       /\ SeenRecord(n)
  <2>1. SeenRecord(n)
    BY <1>9 DEF SeenRecord
  <2> QED BY <1>0, <1>9, <2>1
<1>12. ASSUME NEW k \in H \cup Range(batch) PROVE maybeSeen(n.filter, k)
  <2>1. k \in Given /\ locate(k).block \in 0..(Blocks - 1)
    BY <1>0, <1>2, GivenKeys
  <2> DEFINE x == locate(k).block
  <2>2. n.filter[x] = s.filter[x] \cup UNION {locate(h).bits : h \in Unique(x)}
    BY <1>11, <2>1
  <2>3. CASE k \in H
    <3>1. locate(k).bits \subseteq s.filter[x]
      BY <2>3 DEF Tiers, maybeSeen
    <3> HIDE DEF x
    <3>2. locate(k).bits \subseteq n.filter[x]
      BY <2>2, <3>1
    <3> QED BY <3>2 DEF maybeSeen, x
  <2>4. CASE k \notin H
    <3>1. k \in Unique(x)
      BY <1>10, <2>4
    <3> HIDE DEF x
    <3>2. locate(k).bits \subseteq n.filter[x]
      BY <2>2, <3>1
    <3> QED BY <3>2 DEF maybeSeen, x
  <2> QED BY <2>3, <2>4
<1>13. Tiers(n, H \cup Range(batch))
  <2>1. H \cup Range(batch) \in SUBSET Given
    BY <1>0, <1>2
  <2>2. DOMAIN n.filter = 0..(Blocks - 1)
    BY <1>11
  <2>3. n.buckets = [b \in B |-> n.buckets[b]] /\ \A b \in B : n.buckets[b] = got[b].run
    BY <1>11
  <2>4. n.size = Cardinality(H \cup Range(batch))
    BY <1>0, <1>7, <1>8, <1>11
  <2> QED BY <1>6, <1>12, <2>1, <2>2, <2>3, <2>4 DEF Tiers, B
<1>14. Judgement([out |-> [b \in DOMAIN got |-> got[b].out], before |-> H, given |-> batch])
  <2> DEFINE out == [b \in DOMAIN got |-> got[b].out]
  <2>1. DOMAIN out = B /\ \A b \in B : out[b] = got[b].out
    BY <1>1
  <2> HIDE DEF out
  <2>2. \A b \in B : Classified(out[b], batch, b, H)
    BY <1>4, <2>1
  <2>3. \A k \in Given : bucketOf(k) \in B
    BY GivenKeys DEF B
  <2>4. Judgement([out |-> out, before |-> H, given |-> batch])
    BY <1>2, <2>1, <2>2, <2>3, MergeJudges
  <2> QED BY <2>4 DEF out
<1> QED BY <1>11, <1>13, <1>14 DEF n

\* The verdict of Seen on one key.
LEMMA KeyJudges ==
  ASSUME NEW H, NEW k \in Given, NEW fresh \in BOOLEAN, fresh <=> k \notin H
  PROVE  Judgement([out |-> [b \in {bucketOf(k)} |-> <<<<k, fresh>>>>], before |-> H, given |-> <<k>>])
<1> DEFINE b == bucketOf(k)
           one == <<<<k, fresh>>>>
           batch == <<k>>
           out == [c \in {b} |-> one]
<1>1. Len(one) = 1 /\ DOMAIN one = 1..1 /\ one[1][1] = k /\ (one[1][2] <=> fresh) /\ \A j \in 1..1 : j = 1
  OBVIOUS
<1>2. DOMAIN batch = 1..1 /\ batch[1] = k /\ Range(batch) = {k} /\ 1 \in 1..1
  BY DEF Range
<1> HIDE DEF one, batch
<1>3. \A h : {j \in 1..Len(one) : one[j][1] = h} = {i \in DOMAIN batch : batch[i] = h}
  BY <1>1, <1>2
<1>4. Classified(one, batch, b, H)
  BY <1>1, <1>2, <1>3 DEF Classified
<1>5. DOMAIN out = {b} /\ out[b] = one
  OBVIOUS
<1> HIDE DEF out
<1>6. \A h \in Given : bucketOf(h) \in {b} \/ (h \notin Range(batch) /\ \A i \in DOMAIN batch : batch[i] # h)
  BY <1>1, <1>2
<1> DEFINE B == {b}
<1>7. DOMAIN out = B /\ (\A c \in B : Classified(out[c], batch, c, H)) /\ Range(batch) \in SUBSET Given
  BY <1>2, <1>4, <1>5
<1>8. \A h \in Given : bucketOf(h) \in B \/ (h \notin Range(batch) /\ \A i \in DOMAIN batch : batch[i] # h)
  BY <1>6
<1> HIDE DEF B, b
<1>9. Judgement([out |-> out, before |-> H, given |-> batch])
  BY <1>7, <1>8, MergeJudges
<1> QED BY <1>9 DEF out, batch, one, b

-----------------------------------------------------------------------------
(* The seen-set over every run of calls. *)

\* The inductive invariant: both tiers hold exactly the keys given, the last
\* call's verdicts are right, and a ribbon answers for all of them.
SeenInv ==
  /\ Tiers(seen, held) /\ SeenRecord(seen)
  /\ \A v \in verdict : Judgement(v)
  /\ \A r \in ribbon : \A k \in held : ribbonQuery(r, k)

LEMMA SeenInvInit == SeenInit => SeenInv
  BY NewSeenTiers DEF SeenInit, SeenInv

LEMMA LearnKeeps ==
  ASSUME SeenInv, NEW k \in Given, seen' = IF SeenContains(seen, k) THEN seen ELSE Learn(seen, k),
         held' = held \cup {k}
  PROVE  Tiers(seen', held') /\ SeenRecord(seen')
<1>1. PICK s : s = seen
  OBVIOUS
<1>2. PICK H : H = held
  OBVIOUS
<1>3. Tiers(s, H) /\ SeenRecord(s)
  BY <1>1, <1>2 DEF SeenInv
<1>4. CASE SeenContains(s, k)
  <2>1. H \cup {k} = H
    BY <1>3, <1>4, ContainsHeld
  <2> QED BY <1>1, <1>2, <1>3, <1>4, <2>1
<1>5. CASE ~SeenContains(s, k)
  <2>1. Tiers(Learn(s, k), H \cup {k}) /\ SeenRecord(Learn(s, k))
    BY <1>3, <1>5, LearnHolds
  <2> QED BY <1>1, <1>2, <1>5, <2>1
<1> QED BY <1>4, <1>5

LEMMA SeenKeyKeeps == ASSUME SeenInv, ribbon = {}, NEW k \in Given, SeenKey(k) PROVE SeenInv'
<1>1. Tiers(seen', held') /\ SeenRecord(seen')
  BY LearnKeeps DEF SeenKey
<1>2. PICK H : H = held
  OBVIOUS
<1>3. PICK fresh \in BOOLEAN : fresh <=> ~SeenContains(seen, k)
  OBVIOUS
<1>4. fresh <=> k \notin H
  BY <1>2, <1>3, ContainsHeld DEF SeenInv
<1>5. Judgement([out |-> [b \in {bucketOf(k)} |-> <<<<k, fresh>>>>], before |-> H, given |-> <<k>>])
  BY <1>4, KeyJudges
<1>6. fresh = ~SeenContains(seen, k)
  BY <1>3 DEF SeenContains
<1>7. verdict' = {[out |-> [b \in {bucketOf(k)} |-> <<<<k, fresh>>>>], before |-> H, given |-> <<k>>]}
  BY <1>2, <1>6 DEF SeenKey
<1>8. ribbon' = {}
  BY DEF SeenKey
<1>9. \A v \in verdict' : Judgement(v)
  BY <1>5, <1>7
<1> QED BY <1>1, <1>8, <1>9 DEF SeenInv

LEMMA InsertKeyKeeps == ASSUME SeenInv, ribbon = {}, NEW k \in Given, InsertKey(k) PROVE SeenInv'
<1>1. Tiers(seen', held') /\ SeenRecord(seen')
  BY LearnKeeps DEF InsertKey
<1>2. ribbon' = {} /\ verdict' = {}
  BY DEF InsertKey
<1> QED BY <1>1, <1>2 DEF SeenInv

LEMMA MergeBatchKeeps == ASSUME SeenInv, ribbon = {}, NEW batch \in Seq(Given), MergeBatch(batch) PROVE SeenInv'
<1>1. PICK s : s = seen
  OBVIOUS
<1>2. PICK H : H = held
  OBVIOUS
<1>3. Tiers(s, H)
  BY <1>1, <1>2 DEF SeenInv
<1>4. PICK got \in exactMerge(s, batch) :
        /\ seen' = AfterMerge(s, got)
        /\ verdict' = {[out |-> [b \in DOMAIN got |-> got[b].out], before |-> H, given |-> batch]}
  BY <1>1, <1>2 DEF MergeBatch, AfterMerge
<1>5. held' = H \cup Range(batch) /\ ribbon' = {}
  BY <1>2 DEF MergeBatch
<1>6. /\ Tiers(AfterMerge(s, got), H \cup Range(batch)) /\ SeenRecord(AfterMerge(s, got))
      /\ Judgement([out |-> [b \in DOMAIN got |-> got[b].out], before |-> H, given |-> batch])
  BY <1>3, <1>4, MergeHolds
<1> QED BY <1>4, <1>5, <1>6 DEF SeenInv

LEMMA MarshalRibbonKeeps == ASSUME SeenInv, MarshalRibbon PROVE SeenInv'
<1>1. PICK runs : runs = seen.buckets
  OBVIOUS
<1>2. PICK H : H = held
  OBVIOUS
<1> DEFINE keys == OfAll(runs)
<1>3. keys \in Seq(KeyPairs) /\ Range(keys) = H
  <2>1. H \in SUBSET Given /\ \A b \in 0..(Buckets - 1) : Holding(runs[b], {k \in H : bucketOf(k) = b})
    BY <1>1, <1>2 DEF SeenInv, Tiers, BucketOf
  <2> QED BY <2>1, OfAllHolds
<1>4. PICK d \in [Range(keys) -> Derivations] : \E z \in solveRibbon([i \in DOMAIN keys |-> d[keys[i]]]) :
        ribbon' = {[derive |-> d, z |-> z]}
  BY <1>1 DEF MarshalRibbon
<1> DEFINE bands == [i \in DOMAIN keys |-> d[keys[i]]]
<1>5. PICK z \in solveRibbon(bands) : ribbon' = {[derive |-> d, z |-> z]}
  BY <1>4
<1> HIDE DEF keys
<1>6. bands \in Seq(Band) /\ Len(bands) = Len(keys) /\ DOMAIN keys = 1..Len(keys) /\ Len(keys) \in Nat
  <2>1. DOMAIN keys = 1..Len(keys) /\ Len(keys) \in Nat
    BY <1>3
  <2>2. \A i \in 1..Len(keys) : d[keys[i]] \in Band
    BY <1>3, <2>1, DerivedBands DEF Range
  <2>3. bands \in [1..Len(keys) -> Band]
    BY <2>1, <2>2
  <2> HIDE DEF bands
  <2> QED BY <2>1, <2>3
<1>7. \A i \in 1..Len(keys) : XorOver(z, bands[i].row) = bands[i].fp
  <2> HIDE DEF bands
  <2> QED BY <1>5, <1>6, SolvedRibbon
<1>8. ASSUME NEW k \in H PROVE ribbonQuery([derive |-> d, z |-> z], k)
  <2>1. PICK i \in DOMAIN keys : keys[i] = k
    BY <1>3 DEF Range
  <2>2. bands[i] = d[k] /\ i \in 1..Len(keys)
    BY <1>6, <2>1
  <2> QED BY <1>7, <2>2 DEF ribbonQuery
<1>9. held' = H /\ seen' = seen /\ verdict' = {} /\ held = H
  BY <1>2 DEF MarshalRibbon
<1>10. \A r \in ribbon' : \A k \in held' : ribbonQuery(r, k)
  BY <1>5, <1>8, <1>9
<1>11. Tiers(seen', held') /\ SeenRecord(seen')
  BY <1>9 DEF SeenInv
<1> QED BY <1>9, <1>10, <1>11 DEF SeenInv

LEMMA SeenInvNext == SeenInv /\ [SeenNext]_seenVars => SeenInv'
<1> SUFFICES ASSUME SeenInv, [SeenNext]_seenVars PROVE SeenInv'
  OBVIOUS
<1>1. ASSUME NEW k \in Given, ribbon = {}, SeenKey(k) \/ InsertKey(k) PROVE SeenInv'
  BY <1>1, SeenKeyKeeps, InsertKeyKeeps
<1>2. ASSUME ribbon = {}, NEW n \in 0..MaxBatch, NEW batch \in [1..n -> Given], MergeBatch(batch) PROVE SeenInv'
  <2>1. n \in Nat
    BY SeenAssumption
  <2>2. batch \in Seq(Given)
    BY <2>1
  <2> QED BY <1>2, <2>2, MergeBatchKeeps
<1>3. ASSUME MarshalRibbon PROVE SeenInv'
  BY <1>3, MarshalRibbonKeeps
<1>4. CASE UNCHANGED seenVars
  BY <1>4 DEF SeenInv, seenVars
<1> QED BY <1>1, <1>2, <1>3, <1>4 DEF SeenNext

LEMMA SeenInvOnce == SeenInv => SeenOnce
<1> SUFFICES ASSUME SeenInv PROVE SeenOnce
  OBVIOUS
<1>1. Tiers(seen, held)
  BY DEF SeenInv
<1>2. \A b \in DOMAIN seen.buckets :
        /\ \A i \in 2..Len(seen.buckets[b]) : Less(seen.buckets[b][i - 1], seen.buckets[b][i])
        /\ Range(seen.buckets[b]) = {k \in held : bucketOf(k) = b}
  <2>1. DOMAIN seen.buckets = 0..(Buckets - 1)
    BY <1>1 DEF Tiers
  <2> QED BY <1>1, <2>1 DEF Tiers, Holding, Strict, BucketOf
<1>3. seen.size = Cardinality(held)
  BY <1>1 DEF Tiers
<1>4. \A k \in Given : SeenContains(seen, k) <=> k \in held
  BY <1>1, ContainsHeld
<1>5. \A v \in verdict : Judgement(v)
  BY DEF SeenInv
<1>6. \A r \in ribbon : \A k \in held : ribbonQuery(r, k)
  BY DEF SeenInv
<1> QED BY <1>2, <1>3, <1>4, <1>5, <1>6 DEF SeenOnce, Judgement

\* A key is taken for new exactly once: whichever mix of Seen, Insert and
\* Merge delivers the keys, both tiers of the seen-set hold exactly them, each
\* call's verdicts are right, and a ribbon frozen from the set (MarshalRibbon)
\* answers yes for every key, whatever bands and fingerprints its seed derived.
THEOREM SeenHolds == SeenSpec => []SeenOnce
<1>1. SeenSpec => []SeenInv
  BY SeenInvInit, SeenInvNext, PTL DEF SeenSpec
<1> QED BY <1>1, SeenInvOnce, PTL
-----------------------------------------------------------------------------
(* Robots rules. *)

\* The literal runs of a pattern.
Literals(C) == {s \in Seq(Seq(C)) : Len(s) >= 1}

NextRun(s, c) == IF c = Star THEN Append(s, <<>>) ELSE [s EXCEPT ![Len(s)] = Append(@, c)]

LEMMA NextRunIs ==
  ASSUME NEW C, NEW s \in Literals(C), NEW c \in C
  PROVE  /\ NextRun(s, c) \in Literals(C)
         /\ Len(NextRun(s, c)) = 1 => Len(s) = 1 /\ Len(NextRun(s, c)[1]) = Len(s[1]) + 1
<1>1. s \in Seq(Seq(C)) /\ Len(s) >= 1 /\ Len(s) \in Nat /\ Len(s) \in 1..Len(s)
  BY DEF Literals
<1>2. CASE c = Star
  <2>1. Append(s, <<>>) \in Seq(Seq(C)) /\ Len(Append(s, <<>>)) = Len(s) + 1
    BY <1>1
  <2> QED BY <1>1, <1>2, <2>1 DEF NextRun, Literals
<1>3. CASE c # Star
  <2> DEFINE last == Append(s[Len(s)], c)
             t == [s EXCEPT ![Len(s)] = last]
  <2>1. last \in Seq(C) /\ Len(last) = Len(s[Len(s)]) + 1
    <3> DEFINE w == s[Len(s)]
    <3>1. w \in Seq(C)
      BY <1>1
    <3> HIDE DEF w
    <3>2. Append(w, c) \in Seq(C)
      BY <3>1
    <3>3. Len(Append(w, c)) = Len(w) + 1
      BY <3>1
    <3> QED BY <3>2, <3>3 DEF w
  <2> HIDE DEF last
  <2>2. t \in Seq(Seq(C)) /\ Len(t) = Len(s) /\ t[Len(s)] = last
    BY <1>1, <2>1
  <2>3. NextRun(s, c) = t
    BY <1>3 DEF NextRun, last
  <2> HIDE DEF t
  <2> QED BY <1>1, <2>1, <2>2, <2>3 DEF Literals
<1> QED BY <1>2, <1>3

\* A pattern has literal runs, and a lone empty one only when it is empty.
LEMMA SegmentsAre ==
  ASSUME NEW C, NEW p \in Seq(C)
  PROVE  segments(p) \in Literals(C) /\ (segments(p) = <<<<>>>> => p = <<>>)
<1> DEFINE L == Len(p)
           first == <<<<>>>>
           Rec(f) == f = [n \in 0..L |-> IF n = 0 THEN first ELSE (IF p[n] = Star THEN Append(f[n - 1], <<>>) ELSE [f[n - 1] EXCEPT ![Len(f[n - 1])] = Append(@, p[n])])]
           step == [n \in 1..L |-> [x \in Literals(C) |-> (IF p[n] = Star THEN Append(x, <<>>) ELSE [x EXCEPT ![Len(x)] = Append(@, p[n])])]]
<1>0. L \in Nat
  OBVIOUS
<1>1. first \in Literals(C)
  BY DEF Literals
<1>2. Steps(step, L, Literals(C))
  <2>1. \A n \in 1..L : \A x \in Literals(C) : (IF p[n] = Star THEN Append(x, <<>>) ELSE [x EXCEPT ![Len(x)] = Append(@, p[n])]) \in Literals(C)
    <3>1. \A n \in 1..L : p[n] \in C
      OBVIOUS
    <3> QED BY <3>1, NextRunIs DEF NextRun
  <2> HIDE DEF L
  <2> QED BY <2>1 DEF Steps
<1>3. PICK c : Course(c, L, Literals(C), first, step)
  <2> HIDE DEF L, first, step
  <2> QED BY <1>0, <1>1, <1>2, Recursion
<1>4. Rec(c)
  <2> HIDE DEF first, L
  <2>1. c \in [0..L -> Literals(C)] /\ c[0] = first /\ \A i \in 1..L : c[i] = step[i][c[i - 1]]
    BY <1>3 DEF Course
  <2>2. \A i \in 1..L : i - 1 \in 0..L /\ c[i - 1] \in Literals(C)
    BY <1>0, <2>1
  <2>3. \A n \in 1..L : c[n] = (IF p[n] = Star THEN Append(c[n - 1], <<>>) ELSE [c[n - 1] EXCEPT ![Len(c[n - 1])] = Append(@, p[n])])
    BY <2>1, <2>2
  <2>4. \A n \in 0..L : n # 0 => n \in 1..L
    BY <1>0
  <2> HIDE DEF step
  <2>5. c = [n \in 0..L |-> c[n]]
    BY <2>1
  <2>6. \A n \in 0..L : c[n] = IF n = 0 THEN first ELSE (IF p[n] = Star THEN Append(c[n - 1], <<>>) ELSE [c[n - 1] EXCEPT ![Len(c[n - 1])] = Append(@, p[n])])
    BY <2>1, <2>3, <2>4
  <2> QED BY <2>5, <2>6
<1> DEFINE f == CHOOSE f : Rec(f)
<1>5. Rec(f)
  <2> HIDE DEF Rec
  <2> QED BY <1>4
<1>6. segments(p) = f[L]
  BY DEF segments
<1> HIDE DEF f, first, L
<1>7. /\ f = [n \in 0..L |-> f[n]] /\ f[0] = first
      /\ \A n \in 1..L : f[n] = (IF p[n] = Star THEN Append(f[n - 1], <<>>) ELSE [f[n - 1] EXCEPT ![Len(f[n - 1])] = Append(@, p[n])])
  <2>1. 0 \in 0..L /\ \A n \in 1..L : n \in 0..L /\ n # 0
    BY <1>0
  <2>2. \A n \in 0..L : f[n] = IF n = 0 THEN first ELSE (IF p[n] = Star THEN Append(f[n - 1], <<>>) ELSE [f[n - 1] EXCEPT ![Len(f[n - 1])] = Append(@, p[n])])
    BY <1>5
  <2>3. DOMAIN f = 0..L
    BY <1>5
  <2>4. f = [n \in 0..L |-> f[n]]
    BY <1>5, <2>3
  <2> QED BY <2>1, <2>2, <2>4
<1>8. Course(f, L, Literals(C), first, step)
  <2>1. \A i \in 1..L : f[i - 1] \in Literals(C) => f[i] = step[i][f[i - 1]]
    BY <1>7
  <2> HIDE DEF step
  <2> QED BY <1>0, <1>1, <1>2, <1>7, <2>1, CourseFits
<1>9. \A n \in 0..L : f[n] \in Literals(C)
  BY <1>8 DEF Course
<1> DEFINE G == {n \in 0..L : Len(f[n]) = 1 => Len(f[n][1]) = n}
<1>10. 0 \in G
  BY <1>0, <1>7 DEF first
<1>11. \A n \in 0..L : n \in G /\ n < L => n + 1 \in G
  <2> SUFFICES ASSUME NEW n \in 0..L, n \in G, n < L PROVE n + 1 \in G
    OBVIOUS
  <2>1. n + 1 \in 1..L /\ n + 1 \in 0..L /\ (n + 1) - 1 = n /\ n \in Nat
    BY <1>0
  <2>2. p[n + 1] \in C
    BY <2>1 DEF L
  <2>3. f[n + 1] = NextRun(f[n], p[n + 1])
    BY <1>7, <2>1 DEF NextRun
  <2>4. f[n] \in Literals(C)
    BY <1>9
  <2>5. Len(f[n + 1]) = 1 => Len(f[n]) = 1 /\ Len(f[n + 1][1]) = Len(f[n][1]) + 1
    BY <2>2, <2>3, <2>4, NextRunIs
  <2> QED BY <2>1, <2>5
<1>12. \A n \in 0..L : n \in G
  <2> HIDE DEF G
  <2> QED BY <1>0, <1>10, <1>11, Climb
<1>13. L \in 0..L
  BY <1>0
<1>14. ASSUME segments(p) = <<<<>>>> PROVE p = <<>>
  <2>1. Len(f[L]) = 1 /\ Len(f[L][1]) = 0
    BY <1>6, <1>14
  <2>2. L = 0
    BY <1>12, <1>13, <2>1
  <2> QED BY <2>2 DEF L
<1> QED BY <1>6, <1>9, <1>13, <1>14

\* The first k literal runs can be placed in order so that the last ends after
\* e characters of the path.
Reaches(segs, path, k, e) ==
  \E at \in [1..k -> 0..Len(path)] :
    /\ at[1] = 0
    /\ \A j \in 1..k : StandsAt(segs[j], path, at[j])
    /\ \A j \in 2..k : at[j - 1] + Len(segs[j - 1]) <= at[j]
    /\ at[k] + Len(segs[k]) = e

LEMMA StandsIn ==
  ASSUME NEW C, NEW path \in Seq(C)
  PROVE  /\ \A seg, q : StandsAt(seg, path, q) => q >= 0 /\ q + Len(seg) <= Len(path)
         /\ \A q \in 0..Len(path) : StandsAt(<<>>, path, q)
<1>1. ASSUME NEW q \in 0..Len(path) PROVE StandsAt(<<>>, path, q)
  <2>1. q + Len(<<>>) = q /\ q \in Nat /\ q <= Len(path) /\ SubSeq(path, q + 1, q) = <<>>
    OBVIOUS
  <2> QED BY <2>1 DEF StandsAt
<1> QED BY <1>1 DEF StandsAt

LEMMA ReachesFirst ==
  ASSUME NEW C, NEW segs \in Literals(C), NEW path \in Seq(C), NEW e
  PROVE  Reaches(segs, path, 1, e) <=> StandsAt(segs[1], path, 0) /\ e = Len(segs[1])
<1>0. Len(path) \in Nat /\ segs[1] \in Seq(C) /\ Len(segs[1]) \in Nat
  BY DEF Literals
<1>1. ASSUME Reaches(segs, path, 1, e) PROVE StandsAt(segs[1], path, 0) /\ e = Len(segs[1])
  BY <1>0, <1>1 DEF Reaches
<1>2. ASSUME StandsAt(segs[1], path, 0), e = Len(segs[1]) PROVE Reaches(segs, path, 1, e)
  <2> DEFINE at == [j \in 1..1 |-> 0]
  <2>1. at \in [1..1 -> 0..Len(path)] /\ at[1] = 0
    BY <1>0
  <2>2. \A j \in 1..1 : StandsAt(segs[j], path, at[j])
    BY <1>2
  <2>3. at[1] + Len(segs[1]) = e
    BY <1>0, <1>2
  <2> HIDE DEF at
  <2> QED BY <2>1, <2>2, <2>3 DEF Reaches
<1> QED BY <1>1, <1>2

LEMMA ReachesNext ==
  ASSUME NEW C, NEW segs \in Literals(C), NEW path \in Seq(C), NEW k \in 1..(Len(segs) - 1), NEW e \in Int
  PROVE  Reaches(segs, path, k + 1, e) <=>
           /\ StandsAt(segs[k + 1], path, e - Len(segs[k + 1]))
           /\ \E d \in 0..(e - Len(segs[k + 1])) : Reaches(segs, path, k, d)
<1> DEFINE seg == segs[k + 1]
           q == e - Len(seg)
<1>0. /\ Len(path) \in Nat /\ k \in Nat /\ k >= 1 /\ segs \in Seq(Seq(C))
      /\ \A j \in 1..(k + 1) : segs[j] \in Seq(C) /\ Len(segs[j]) \in Nat
  BY DEF Literals
<1>00. Len(seg) \in Nat /\ seg \in Seq(C)
  BY <1>0
<1>1. ASSUME Reaches(segs, path, k + 1, e)
      PROVE  StandsAt(seg, path, q) /\ \E d \in 0..q : Reaches(segs, path, k, d)
  <2>1. PICK at \in [1..(k + 1) -> 0..Len(path)] :
          /\ at[1] = 0
          /\ \A j \in 1..(k + 1) : StandsAt(segs[j], path, at[j])
          /\ \A j \in 2..(k + 1) : at[j - 1] + Len(segs[j - 1]) <= at[j]
          /\ at[k + 1] + Len(seg) = e
    BY <1>1 DEF Reaches
  <2>2. k + 1 \in 1..(k + 1) /\ k + 1 \in 2..(k + 1) /\ (k + 1) - 1 = k /\ k \in 1..(k + 1)
    BY <1>0
  <2>3. at[k + 1] = q /\ at[k + 1] \in Nat /\ at[k] \in Nat
    <3>1. at[k + 1] \in 0..Len(path) /\ at[k] \in 0..Len(path)
      BY <2>2
    <3>2. at[k + 1] + Len(seg) = e
      BY <2>1
    <3> DEFINE x == at[k + 1]
               n == Len(seg)
    <3>3. x \in Nat /\ at[k] \in Nat /\ n \in Nat /\ x + n = e
      BY <1>0, <1>00, <3>1, <3>2
    <3> HIDE DEF x, n
    <3>4. x = e - n
      BY <3>3
    <3> QED BY <3>3, <3>4 DEF x, n
  <2>4. StandsAt(seg, path, q)
    BY <2>1, <2>2, <2>3
  <2> DEFINE d == at[k] + Len(segs[k])
  <2>5. d \in 0..q
    <3>1. Len(segs[k]) \in Nat
      BY <1>0, <2>2
    <3>2. d <= at[k + 1]
      BY <2>1, <2>2
    <3> QED BY <2>3, <3>1, <3>2
  <2> DEFINE bt == [j \in 1..k |-> at[j]]
  <2>6. bt \in [1..k -> 0..Len(path)] /\ bt[1] = 0 /\ bt[k] = at[k]
    BY <1>0, <2>1
  <2>7. \A j \in 1..k : StandsAt(segs[j], path, bt[j])
    <3> SUFFICES ASSUME NEW j \in 1..k PROVE StandsAt(segs[j], path, bt[j])
      OBVIOUS
    <3>1. j \in 1..(k + 1) /\ bt[j] = at[j]
      BY <1>0
    <3> QED BY <2>1, <3>1
  <2>8. \A j \in 2..k : bt[j - 1] + Len(segs[j - 1]) <= bt[j]
    <3> SUFFICES ASSUME NEW j \in 2..k PROVE bt[j - 1] + Len(segs[j - 1]) <= bt[j]
      OBVIOUS
    <3>1. j \in 1..k /\ j - 1 \in 1..k /\ j \in 2..(k + 1)
      BY <1>0
    <3>2. bt[j] = at[j] /\ bt[j - 1] = at[j - 1]
      BY <3>1
    <3> QED BY <2>1, <3>1, <3>2
  <2>9. bt[k] + Len(segs[k]) = d
    BY <2>6
  <2> HIDE DEF bt, d
  <2>10. Reaches(segs, path, k, d)
    BY <2>6, <2>7, <2>8, <2>9 DEF Reaches
  <2> QED BY <2>4, <2>5, <2>10
<1>2. ASSUME StandsAt(seg, path, q), NEW d \in 0..q, Reaches(segs, path, k, d)
      PROVE  Reaches(segs, path, k + 1, e)
  <2>1. PICK bt \in [1..k -> 0..Len(path)] :
          /\ bt[1] = 0
          /\ \A j \in 1..k : StandsAt(segs[j], path, bt[j])
          /\ \A j \in 2..k : bt[j - 1] + Len(segs[j - 1]) <= bt[j]
          /\ bt[k] + Len(segs[k]) = d
    BY <1>2 DEF Reaches
  <2>2. q \in 0..Len(path) /\ q + Len(seg) = e
    <3> DEFINE l == Len(seg)
               b == Len(path)
    <3>1. l \in Nat /\ b \in Nat /\ q = e - l
      BY <1>0, <1>00
    <3> HIDE DEF q, l, b, seg
    <3>2. q >= 0 /\ q + l <= b
      BY <1>2, StandsIn DEF l, b
    <3>3. q \in 0..b /\ q + l = e
      BY <3>1, <3>2
    <3> QED BY <3>3 DEF l, b
  <2> DEFINE at == [j \in 1..(k + 1) |-> IF j = k + 1 THEN q ELSE bt[j]]
  <2> HIDE DEF q
  <2>3. at \in [1..(k + 1) -> 0..Len(path)]
    BY <1>0, <2>1, <2>2
  <2>4. at[1] = 0 /\ at[k + 1] = q /\ at[k] = bt[k]
    BY <1>0, <2>1
  <2>5. \A j \in 1..(k + 1) : StandsAt(segs[j], path, at[j])
    BY <1>0, <1>2, <2>1
  <2>6. \A j \in 2..(k + 1) : at[j - 1] + Len(segs[j - 1]) <= at[j]
    <3> SUFFICES ASSUME NEW j \in 2..(k + 1) PROVE at[j - 1] + Len(segs[j - 1]) <= at[j]
      OBVIOUS
    <3>1. CASE j = k + 1
      BY <1>0, <1>2, <2>1, <2>4, <3>1
    <3>2. CASE j # k + 1
      <4>1. j \in 2..k /\ j - 1 \in 1..k /\ j - 1 # k + 1 /\ j \in 1..(k + 1) /\ j - 1 \in 1..(k + 1)
        BY <1>0, <3>2
      <4> QED BY <2>1, <3>2, <4>1
    <3> QED BY <3>1, <3>2
  <2>7. at[k + 1] + Len(segs[k + 1]) = e
    BY <2>2, <2>4
  <2> HIDE DEF at
  <2> QED BY <2>3, <2>4, <2>5, <2>6, <2>7 DEF Reaches
<1> QED BY <1>1, <1>2

LEMMA ReachesIn ==
  ASSUME NEW C, NEW segs \in Literals(C), NEW path \in Seq(C), NEW k \in 1..Len(segs), NEW e,
         Reaches(segs, path, k, e)
  PROVE  e \in 0..Len(path)
<1>0. k \in 1..k
  BY DEF Literals
<1>1. PICK at \in [1..k -> 0..Len(path)] :
        (\A j \in 1..k : StandsAt(segs[j], path, at[j])) /\ at[k] + Len(segs[k]) = e
  BY DEF Reaches
<1>2. k \in 1..k /\ segs[k] \in Seq(C) /\ Len(segs[k]) \in Nat /\ at[k] \in 0..Len(path) /\ Len(path) \in Nat
  BY DEF Literals
<1>3. at[k] + Len(segs[k]) <= Len(path)
  BY <1>0, <1>1, StandsIn
<1> QED BY <1>1, <1>2, <1>3

\* pos is where the first k runs end at the earliest, NoMatch when they cannot
\* be placed.
Scanned(segs, path, pos, k) ==
  /\ pos \in 0..Len(path) \cup {NoMatch}
  /\ k = 0 => pos = 0
  /\ k # 0 /\ pos = NoMatch => \A e : ~Reaches(segs, path, k, e)
  /\ k # 0 /\ pos # NoMatch => Reaches(segs, path, k, pos) /\ \A e : Reaches(segs, path, k, e) => pos <= e

\* The scan takes each run at the first place it stands in, and so leaves the
\* most room for the rest.
LEMMA SegmentScans ==
  ASSUME NEW C, NEW segs \in Literals(C), NEW path \in Seq(C), NEW anchored \in BOOLEAN,
         NEW k \in 1..Len(segs), NEW pos, Scanned(segs, path, pos, k - 1),
         k = 1 \/ k # Len(segs) \/ ~anchored \/ segs[k] = <<>>
  PROVE  Scanned(segs, path, AfterSegment(segs, anchored, path, pos, k), k)
<1> DEFINE seg == segs[k]
           tail == Len(path) - Len(seg)
           hits == {q \in pos..tail : StandsAt(seg, path, q)}
           new == AfterSegment(segs, anchored, path, pos, k)
<1>0. /\ Len(path) \in Nat /\ k \in Nat /\ k >= 1 /\ seg \in Seq(C) /\ Len(seg) \in Nat /\ tail \in Int
      /\ NoMatch = -1
  BY DEF Literals, NoMatch
<1>1. new = IF pos = NoMatch \/ seg = <<>> THEN pos
            ELSE IF k = 1 THEN IF StandsAt(seg, path, 0) THEN Len(seg) ELSE NoMatch
            ELSE IF hits = {} THEN NoMatch ELSE Min(hits) + Len(seg)
  BY DEF AfterSegment
<1>2. pos \in 0..Len(path) \cup {NoMatch}
  BY DEF Scanned
<1>3. CASE k = 1
  <2>1. pos = 0
    BY <1>0, <1>3 DEF Scanned
  <2>2. \A e : Reaches(segs, path, k, e) <=> StandsAt(seg, path, 0) /\ e = Len(seg)
    BY <1>3, ReachesFirst
  <2>3. StandsAt(seg, path, 0) => Len(seg) \in 0..Len(path)
    BY <1>0, StandsIn
  <2>4. seg = <<>> => StandsAt(seg, path, 0) /\ Len(seg) = 0
    BY <1>0, StandsIn
  <2>5. new = IF StandsAt(seg, path, 0) THEN Len(seg) ELSE NoMatch
    BY <1>0, <1>1, <1>3, <2>1, <2>4
  <2> HIDE DEF seg, new
  <2>6. Scanned(segs, path, new, k)
    BY <1>0, <2>2, <2>3, <2>5 DEF Scanned
  <2> QED BY <2>6 DEF new
<1>4. CASE k # 1 /\ pos = NoMatch
  <2>1. new = NoMatch
    BY <1>1, <1>4
  <2>2. \A e : ~Reaches(segs, path, k - 1, e)
    BY <1>0, <1>4 DEF Scanned
  <2>3. ASSUME NEW e, Reaches(segs, path, k, e) PROVE FALSE
    <3>1. e \in Int
      BY <1>0, <2>3, ReachesIn
    <3>2. k - 1 \in 1..(Len(segs) - 1) /\ (k - 1) + 1 = k
      BY <1>0, <1>4 DEF Literals
    <3>3. \E d : Reaches(segs, path, k - 1, d)
      BY <2>3, <3>1, <3>2, ReachesNext
    <3> QED BY <2>2, <3>3
  <2>4. Scanned(segs, path, new, k)
    <3> HIDE DEF new
    <3> QED BY <1>0, <2>1, <2>3 DEF Scanned
  <2> QED BY <2>4 DEF new
<1>5. CASE k # 1 /\ pos # NoMatch
  <2>1. /\ pos \in 0..Len(path) /\ Reaches(segs, path, k - 1, pos)
        /\ \A e : Reaches(segs, path, k - 1, e) => pos <= e
    BY <1>0, <1>2, <1>5 DEF Scanned
  <2>2. k - 1 \in 1..(Len(segs) - 1) /\ (k - 1) + 1 = k
    BY <1>0, <1>5 DEF Literals
  <2>3. \A e \in Int : Reaches(segs, path, k, e) <=>
          /\ StandsAt(seg, path, e - Len(seg))
          /\ \E d \in 0..(e - Len(seg)) : Reaches(segs, path, k - 1, d)
    BY <2>2, ReachesNext
  <2>4. \A e \in Int : Reaches(segs, path, k, e) <=> StandsAt(seg, path, e - Len(seg)) /\ pos <= e - Len(seg)
    <3> SUFFICES ASSUME NEW e \in Int
                 PROVE  Reaches(segs, path, k, e) <=> StandsAt(seg, path, e - Len(seg)) /\ pos <= e - Len(seg)
      OBVIOUS
    <3> DEFINE q == e - Len(seg)
    <3>1. q \in Int
      BY <1>0
    <3> HIDE DEF q
    <3>2. (\E d \in 0..q : Reaches(segs, path, k - 1, d)) <=> pos <= q
      BY <1>0, <2>1, <3>1
    <3> QED BY <2>3, <3>2 DEF q
  <2>5. \A e : Reaches(segs, path, k, e) => e \in Int
    BY <1>0, ReachesIn
  <2>6. \A q : StandsAt(seg, path, q) => q >= 0 /\ q + Len(seg) <= Len(path)
    BY StandsIn
  <2> HIDE DEF seg, new
  <2>7. CASE seg = <<>>
    <3>1. new = pos /\ Len(seg) = 0
      BY <1>1, <2>7
    <3>2. StandsAt(seg, path, pos)
      BY <2>1, <2>7, StandsIn
    <3>3. \A e \in Int : Reaches(segs, path, k, e) <=> StandsAt(seg, path, e) /\ pos <= e
      <4>1. \A e \in Int : e - Len(seg) = e
        BY <3>1
      <4> QED BY <2>4, <4>1
    <3>4. Reaches(segs, path, k, pos) /\ \A e : Reaches(segs, path, k, e) => pos <= e
      BY <1>0, <2>1, <2>5, <3>2, <3>3
    <3> QED BY <1>0, <1>5, <2>1, <3>1, <3>4 DEF Scanned, new
  <2>8. CASE seg # <<>>
    <3>1. new = IF hits = {} THEN NoMatch ELSE Min(hits) + Len(seg)
      BY <1>1, <1>5, <2>8
    <3>2. hits \in SUBSET Nat
      BY <1>0, <2>1
    <3>3. \A e \in Int : Reaches(segs, path, k, e) <=> e - Len(seg) \in hits
      <4> SUFFICES ASSUME NEW e \in Int PROVE Reaches(segs, path, k, e) <=> e - Len(seg) \in hits
        OBVIOUS
      <4> DEFINE q == e - Len(seg)
      <4>1. q \in Int
        BY <1>0
      <4>2. Reaches(segs, path, k, e) <=> StandsAt(seg, path, q) /\ pos <= q
        BY <2>4
      <4>3. StandsAt(seg, path, q) => q <= tail
        <5> HIDE DEF q
        <5> QED BY <1>0, <2>6, <4>1
      <4> HIDE DEF q
      <4>4. StandsAt(seg, path, q) /\ pos <= q <=> q \in hits
        BY <1>0, <2>1, <4>1, <4>3
      <4> QED BY <4>2, <4>4 DEF q
    <3>4. CASE hits = {}
      <4>1. \A e : ~Reaches(segs, path, k, e)
        BY <2>5, <3>3, <3>4
      <4> QED BY <1>0, <3>1, <3>4, <4>1 DEF Scanned, new
    <3>5. CASE hits # {}
      <4> DEFINE q == Min(hits)
      <4>1. q \in hits /\ \A x \in hits : q <= x
        <5>1. \E x \in hits : \A y \in hits : x <= y
          BY <3>2, <3>5, LeastNat
        <5> HIDE DEF hits
        <5> QED BY <5>1 DEF Min
      <4>2. new = q + Len(seg)
        BY <3>1, <3>5
      <4>3. q \in Nat /\ q + Len(seg) <= Len(path)
        BY <2>6, <3>2, <4>1
      <4> HIDE DEF q, hits
      <4>4. new \in 0..Len(path) /\ new # NoMatch /\ new - Len(seg) = q /\ new \in Int
        BY <1>0, <4>2, <4>3
      <4>5. Reaches(segs, path, k, new)
        BY <3>3, <4>1, <4>4
      <4>6. ASSUME NEW e, Reaches(segs, path, k, e) PROVE new <= e
        <5>1. e \in Int /\ e - Len(seg) \in hits
          BY <2>5, <3>3, <4>6
        <5>2. q <= e - Len(seg)
          BY <4>1, <5>1
        <5> QED BY <1>0, <4>2, <4>3, <5>1, <5>2
      <4>7. Scanned(segs, path, new, k)
        BY <1>0, <4>4, <4>5, <4>6 DEF Scanned
      <4> QED BY <4>7 DEF new
    <3> QED BY <3>4, <3>5
  <2> QED BY <2>7, <2>8
<1> QED BY <1>3, <1>4, <1>5

\* Where a scan of path may be.
Positions(path) == 0..Len(path) \cup {NoMatch}

LEMMA AfterTyped ==
  ASSUME NEW C, NEW segs \in Literals(C), NEW path \in Seq(C), NEW anchored \in BOOLEAN,
         NEW k \in 1..Len(segs), NEW pos \in Positions(path)
  PROVE  AfterSegment(segs, anchored, path, pos, k) \in Positions(path)
<1> DEFINE seg == segs[k]
           tail == Len(path) - Len(seg)
           hits == {q \in pos..tail : StandsAt(seg, path, q)}
<1>0. /\ Len(path) \in Nat /\ seg \in Seq(C) /\ Len(seg) \in Nat /\ tail \in Int /\ NoMatch = -1
  BY DEF Literals, NoMatch
<1>1. \A q : StandsAt(seg, path, q) => q >= 0 /\ q + Len(seg) <= Len(path)
  BY StandsIn
<1>2. StandsAt(seg, path, 0) => Len(seg) \in Positions(path)
  <2> HIDE DEF seg
  <2> QED BY <1>0, <1>1 DEF Positions
<1>3. Len(path) \in Positions(path) /\ NoMatch \in Positions(path)
  BY <1>0 DEF Positions
<1>4. ASSUME pos # NoMatch, hits # {} PROVE Min(hits) + Len(seg) \in Positions(path)
  <2>1. pos \in Nat
    BY <1>0, <1>4 DEF Positions
  <2>2. hits \in SUBSET Nat
    BY <1>0, <2>1
  <2>3. PICK x \in hits : \A y \in hits : x <= y
    BY <1>4, <2>2, LeastNat
  <2> DEFINE q == Min(hits)
  <2>4. q \in hits
    <3> HIDE DEF hits
    <3> QED BY <2>3 DEF Min
  <2> HIDE DEF q
  <2>5. q \in Nat /\ StandsAt(seg, path, q)
    BY <2>2, <2>4
  <2> HIDE DEF seg
  <2>6. q + Len(seg) \in 0..Len(path)
    BY <1>0, <1>1, <2>5
  <2> QED BY <2>6 DEF Positions, q
<1> HIDE DEF hits, tail
<1> QED BY <1>2, <1>3, <1>4 DEF AfterSegment, hits, tail

LEMMA BodyIs ==
  ASSUME NEW C, NEW p \in Seq(C)
  PROVE  /\ Body(p) \in Seq(C)
         /\ Body(p) = <<>> => p = <<>> \/ p = <<Dollar>>
<1>1. CASE ~Anchored(p)
  BY <1>1 DEF Body
<1>2. CASE Anchored(p)
  <2>1. p # <<>> /\ p[Len(p)] = Dollar /\ Len(p) \in Nat /\ Len(p) >= 1
    BY <1>2 DEF Anchored, Last
  <2> DEFINE b == SubSeq(p, 1, Len(p) - 1)
  <2>2. b \in Seq(C) /\ Len(b) = Len(p) - 1
    <3> DEFINE n == Len(p) - 1
    <3>1. n \in 0..Len(p) /\ n \in Nat
      BY <2>1
    <3> HIDE DEF n
    <3>2. SubSeq(p, 1, n) = [i \in 1..n |-> p[i]]
      BY <3>1
    <3>3. \A i \in 1..n : p[i] \in C
      BY <2>1, <3>1
    <3>4. [i \in 1..n |-> p[i]] \in Seq(C) /\ Len([i \in 1..n |-> p[i]]) = n
      BY <3>1, <3>3
    <3> QED BY <3>2, <3>4 DEF n
  <2>3. Body(p) = b
    BY <1>2 DEF Body, Front
  <2>4. ASSUME b = <<>> PROVE p = <<Dollar>>
    <3>1. Len(p) = 1
      <4> HIDE DEF b
      <4>1. Len(b) = 0
        BY <2>4
      <4> QED BY <2>1, <2>2, <4>1
    <3>2. p = [i \in 1..1 |-> p[i]] /\ p[1] = Dollar
      BY <2>1, <3>1
    <3> QED BY <3>1, <3>2
  <2> QED BY <2>2, <2>3, <2>4
<1> QED BY <1>1, <1>2

MeansReach(segs, anchored, path) ==
  \E e : Reaches(segs, path, Len(segs), e) /\ (anchored => e = Len(path))

\* The reference in terms of Reaches.
LEMMA MeansReaches ==
  ASSUME NEW C, NEW pattern \in Seq(C), NEW path \in Seq(C)
  PROVE  MeansMatch(pattern, path) <=>
           pattern # <<>> /\ MeansReach(segments(Body(pattern)), Anchored(pattern), path)
BY DEF MeansMatch, MeansReach, Reaches

\* The last run under an anchor.
LEMMA AnchorMeans ==
  ASSUME NEW C, NEW segs \in Literals(C), NEW path \in Seq(C), Len(segs) > 1, NEW pos,
         Scanned(segs, path, pos, Len(segs) - 1)
  PROVE  LET seg == segs[Len(segs)]
             tail == Len(path) - Len(seg)
         IN /\ pos = NoMatch => \A e : ~Reaches(segs, path, Len(segs), e)
            /\ pos # NoMatch => (Reaches(segs, path, Len(segs), Len(path)) <=>
                                   tail >= pos /\ StandsAt(seg, path, tail))
<1> DEFINE n == Len(segs)
           seg == segs[n]
           tail == Len(path) - Len(seg)
<1>0. /\ Len(path) \in Nat /\ n \in Nat /\ n - 1 \in 1..(n - 1) /\ (n - 1) + 1 = n /\ n \in 1..n
      /\ seg \in Seq(C) /\ Len(seg) \in Nat /\ tail \in Int /\ n - 1 # 0
  BY DEF Literals
<1>1. \A e \in Int : Reaches(segs, path, n, e) <=>
        /\ StandsAt(seg, path, e - Len(seg))
        /\ \E d \in 0..(e - Len(seg)) : Reaches(segs, path, n - 1, d)
  BY <1>0, ReachesNext
<1>2. ASSUME pos = NoMatch, NEW e, Reaches(segs, path, n, e) PROVE FALSE
  <2>1. e \in Int
    BY <1>0, <1>2, ReachesIn
  <2>2. \A d : ~Reaches(segs, path, n - 1, d)
    BY <1>0, <1>2 DEF Scanned
  <2> QED BY <1>1, <1>2, <2>1, <2>2
<1>3. ASSUME pos # NoMatch
      PROVE  Reaches(segs, path, n, Len(path)) <=> tail >= pos /\ StandsAt(seg, path, tail)
  <2>1. pos \in 0..Len(path) /\ Reaches(segs, path, n - 1, pos) /\ \A e : Reaches(segs, path, n - 1, e) => pos <= e
    BY <1>0, <1>3 DEF Scanned
  <2>2. Reaches(segs, path, n, Len(path)) <=>
          StandsAt(seg, path, tail) /\ \E d \in 0..tail : Reaches(segs, path, n - 1, d)
    BY <1>0, <1>1
  <2> HIDE DEF seg, n, tail
  <2>3. (\E d \in 0..tail : Reaches(segs, path, n - 1, d)) <=> tail >= pos
    BY <1>0, <2>1
  <2> QED BY <2>2, <2>3
<1> QED BY <1>2, <1>3

\* match decides as the pattern means, for every pattern but the lone $.
LEMMA MatchMeans ==
  ASSUME NEW C, NEW pattern \in Seq(C), NEW path \in Seq(C), pattern # <<Dollar>>
  PROVE  match(pattern, path) <=> MeansMatch(pattern, path)
<1> DEFINE segs == segments(Body(pattern))
           anchored == Anchored(pattern)
<1>a. segs \in Literals(C) /\ (segs = <<<<>>>> => pattern = <<>>)
  BY BodyIs, SegmentsAre
<1>b. anchored \in BOOLEAN
  BY DEF Anchored
<1> HIDE DEF segs, anchored
<1>c. Len(segs) \in Nat /\ Len(segs) >= 1 /\ segs \in Seq(Seq(C)) /\ Len(path) \in Nat /\ NoMatch = -1
  BY <1>a DEF Literals, NoMatch
<1> DEFINE L == Len(segs)
           first == 0
           Rec(f) == f = [n \in 0..L |-> IF n = 0 THEN first ELSE AfterSegment(segs, anchored, path, f[n - 1], n)]
           step == [n \in 1..L |-> [x \in Positions(path) |-> AfterSegment(segs, anchored, path, x, n)]]
<1>0. L \in Nat
  BY <1>c
<1>1. first \in Positions(path)
  BY <1>c DEF Positions
<1>2. Steps(step, L, Positions(path))
  <2>1. \A n \in 1..L : \A x \in Positions(path) : AfterSegment(segs, anchored, path, x, n) \in Positions(path)
    BY <1>a, <1>b, AfterTyped
  <2> HIDE DEF L
  <2> QED BY <2>1 DEF Steps
<1>3. PICK c : Course(c, L, Positions(path), first, step)
  <2> HIDE DEF L, first, step
  <2> QED BY <1>0, <1>1, <1>2, Recursion
<1>4. Rec(c)
  <2> HIDE DEF first, L
  <2>1. c \in [0..L -> Positions(path)] /\ c[0] = first /\ \A i \in 1..L : c[i] = step[i][c[i - 1]]
    BY <1>3 DEF Course
  <2>2. \A i \in 1..L : i - 1 \in 0..L /\ c[i - 1] \in Positions(path)
    BY <1>0, <2>1
  <2>3. \A n \in 1..L : c[n] = AfterSegment(segs, anchored, path, c[n - 1], n)
    BY <2>1, <2>2
  <2>4. \A n \in 0..L : n # 0 => n \in 1..L
    BY <1>0
  <2> HIDE DEF step
  <2>5. c = [n \in 0..L |-> c[n]]
    BY <2>1
  <2>6. \A n \in 0..L : c[n] = IF n = 0 THEN first ELSE AfterSegment(segs, anchored, path, c[n - 1], n)
    BY <2>1, <2>3, <2>4
  <2> QED BY <2>5, <2>6
<1> DEFINE f == CHOOSE f : Rec(f)
<1>5. Rec(f)
  <2> HIDE DEF Rec
  <2> QED BY <1>4
<1>6. match(pattern, path) <=>
        /\ pattern # <<>> /\ f[L] # NoMatch
        /\ anchored => Last(segs) = <<>> \/ f[L] = Len(path)
  BY DEF match, segs, anchored
<1> HIDE DEF f, first, L
<1>7. /\ f = [n \in 0..L |-> f[n]] /\ f[0] = first
      /\ \A n \in 1..L : f[n] = AfterSegment(segs, anchored, path, f[n - 1], n)
  <2>1. 0 \in 0..L /\ \A n \in 1..L : n \in 0..L /\ n # 0
    BY <1>0
  <2>2. \A n \in 0..L : f[n] = IF n = 0 THEN first ELSE AfterSegment(segs, anchored, path, f[n - 1], n)
    BY <1>5
  <2>3. DOMAIN f = 0..L
    BY <1>5
  <2>4. f = [n \in 0..L |-> f[n]]
    BY <1>5, <2>3
  <2> QED BY <2>1, <2>2, <2>4
<1>8. Course(f, L, Positions(path), first, step)
  <2>1. \A i \in 1..L : f[i - 1] \in Positions(path) => f[i] = step[i][f[i - 1]]
    BY <1>7
  <2> HIDE DEF step
  <2> QED BY <1>0, <1>1, <1>2, <1>7, <2>1, CourseFits
<1>9. \A n \in 0..L : f[n] \in Positions(path)
  BY <1>8 DEF Course
<1> DEFINE Open(k) == k = 1 \/ k # Len(segs) \/ ~anchored \/ segs[k] = <<>>
           G == {k \in 0..L : (k # 0 => Open(k)) => Scanned(segs, path, f[k], k)}
<1>10. 0 \in G
  BY <1>0, <1>7, <1>c DEF Scanned, first
<1>11. \A k \in 0..L : k \in G /\ k < L => k + 1 \in G
  <2> SUFFICES ASSUME NEW k \in 0..L, k \in G, k < L, Open(k + 1) PROVE Scanned(segs, path, f[k + 1], k + 1)
    BY <1>0
  <2>1. k + 1 \in 1..L /\ (k + 1) - 1 = k /\ k # Len(segs)
    BY <1>0 DEF L
  <2>2. Scanned(segs, path, f[k], k)
    BY <2>1
  <2>3. f[k + 1] = AfterSegment(segs, anchored, path, f[k], k + 1)
    BY <1>7, <2>1
  <2>4. k + 1 \in 1..Len(segs)
    BY <2>1 DEF L
  <2> QED BY <1>a, <1>b, <2>1, <2>2, <2>3, <2>4, SegmentScans
<1>12. \A k \in 0..L : k \in G
  <2> HIDE DEF G
  <2> QED BY <1>0, <1>10, <1>11, Climb
<1>13. L \in 0..L /\ L # 0 /\ L - 1 \in 0..L /\ L = Len(segs) /\ L \in 1..L /\ (L - 1) + 1 = L
  BY <1>c DEF L
<1>14. Last(segs) = segs[L]
  BY <1>13 DEF Last
<1>15. f[L] \in Positions(path)
  BY <1>9, <1>13
<1>16. MeansMatch(pattern, path) <=> pattern # <<>> /\ MeansReach(segs, anchored, path)
  BY MeansReaches DEF segs, anchored
<1>17. CASE ~anchored
  <2>1. Scanned(segs, path, f[L], L)
    BY <1>12, <1>13, <1>17
  <2>2. f[L] # NoMatch <=> \E e : Reaches(segs, path, L, e)
    BY <1>13, <2>1 DEF Scanned
  <2> QED BY <1>6, <1>13, <1>16, <1>17, <2>2 DEF MeansReach
<1>18. CASE anchored /\ L = 1 /\ pattern # <<>>
  <2>1. Scanned(segs, path, f[L], L)
    BY <1>12, <1>13, <1>18
  <2>2. segs[1] # <<>>
    <3> SUFFICES ASSUME segs[1] = <<>> PROVE FALSE
      OBVIOUS
    <3>1. segs = [i \in 1..1 |-> segs[i]]
      <4>1. Len(segs) = 1
        BY <1>13, <1>18
      <4>2. segs = [i \in 1..Len(segs) |-> segs[i]]
        BY <1>c
      <4> QED BY <4>1, <4>2
    <3>2. segs = <<<<>>>>
      BY <3>1
    <3> QED BY <1>a, <1>18, <3>2
  <2>3. \A e : Reaches(segs, path, L, e) => e = Len(segs[1])
    BY <1>a, <1>18, ReachesFirst
  <2>4. f[L] # NoMatch => Reaches(segs, path, L, f[L])
    BY <1>13, <2>1 DEF Scanned
  <2>5. f[L] = NoMatch => \A e : ~Reaches(segs, path, L, e)
    BY <1>13, <2>1 DEF Scanned
  <2>6. (f[L] # NoMatch /\ f[L] = Len(path)) <=> Reaches(segs, path, L, Len(path))
    BY <1>c, <2>3, <2>4, <2>5
  <2> QED BY <1>6, <1>13, <1>14, <1>16, <1>18, <2>2, <2>6 DEF MeansReach
<1>19. CASE anchored /\ L > 1
  <2>1. Scanned(segs, path, f[L - 1], L - 1)
    BY <1>12, <1>13, <1>19
  <2> DEFINE seg == segs[L]
             tail == Len(path) - Len(seg)
             pos == f[L - 1]
  <2>2. f[L] = AfterSegment(segs, anchored, path, pos, L)
    BY <1>7, <1>13
  <2>3. f[L] = IF pos = NoMatch \/ seg = <<>> THEN pos
               ELSE IF tail >= pos /\ StandsAt(seg, path, tail) THEN Len(path) ELSE NoMatch
    BY <1>13, <1>19, <2>2 DEF AfterSegment
  <2>4. /\ pos = NoMatch => \A e : ~Reaches(segs, path, L, e)
        /\ pos # NoMatch => (Reaches(segs, path, L, Len(path)) <=> tail >= pos /\ StandsAt(seg, path, tail))
    BY <1>a, <1>13, <1>19, <2>1, AnchorMeans
  <2>5. pos # NoMatch => pos \in 0..Len(path)
    BY <1>13, <2>1 DEF Scanned
  <2>6. seg = <<>> => tail = Len(path) /\ StandsAt(seg, path, tail)
    BY <1>c, StandsIn
  <2> HIDE DEF seg, tail, pos
  <2>7. (f[L] # NoMatch /\ (seg = <<>> \/ f[L] = Len(path))) <=> Reaches(segs, path, L, Len(path))
    BY <1>c, <2>3, <2>4, <2>5, <2>6
  <2>8. Last(segs) = seg
    BY <1>14 DEF seg
  <2> QED BY <1>6, <1>13, <1>16, <1>19, <2>7, <2>8 DEF MeansReach
<1>20. CASE pattern = <<>>
  BY <1>6, <1>16, <1>20
<1>21. L = 1 \/ L > 1
  BY <1>0, <1>13
<1> QED BY <1>17, <1>18, <1>19, <1>20, <1>21

Rule(C) == [pattern : Seq(C), allow : BOOLEAN, length : Nat]
Weighings == [best : Int, allow : BOOLEAN]

\* The verdict v after the first n rules: the longest that match decide, Allow
\* on a tie.
Weighing(v, rules, path, n) ==
  LET hit == {j \in 1..n : match(rules[j].pattern, path)} IN
  /\ hit = {} => v.best = -1 /\ v.allow
  /\ hit # {} => /\ \E j \in hit : rules[j].length = v.best
                 /\ \A j \in hit : rules[j].length <= v.best
                 /\ v.allow <=> \E j \in hit : rules[j].length = v.best /\ rules[j].allow

LEMMA WeighedJudges ==
  ASSUME NEW C, NEW rules \in Seq(Rule(C)), NEW path, NEW n \in 1..Len(rules),
         NEW v \in Weighings, Weighing(v, rules, path, n - 1)
  PROVE  Weighing(Weighed(v, rules[n], path), rules, path, n)
<1> DEFINE H(k) == {j \in 1..k : match(rules[j].pattern, path)}
           r == rules[n]
           w == Weighed(v, r, path)
<1>0. /\ n \in Nat /\ n >= 1 /\ r \in Rule(C) /\ r.length \in Nat /\ r.allow \in BOOLEAN
      /\ v.best \in Int /\ v.allow \in BOOLEAN /\ v = [best |-> v.best, allow |-> v.allow]
      /\ \A j \in 1..n : rules[j].length \in Nat /\ rules[j].allow \in BOOLEAN
  <2>1. \A j \in 1..n : rules[j] \in Rule(C)
    OBVIOUS
  <2>2. n \in Nat /\ n >= 1 /\ n \in 1..n
    OBVIOUS
  <2>3. \A x \in Rule(C) : x.length \in Nat /\ x.allow \in BOOLEAN
    BY DEF Rule
  <2>4. v.best \in Int /\ v.allow \in BOOLEAN /\ v = [best |-> v.best, allow |-> v.allow]
    BY DEF Weighings
  <2> QED BY <2>1, <2>2, <2>3, <2>4
<1>1. H(n) = IF match(r.pattern, path) THEN H(n - 1) \cup {n} ELSE H(n - 1)
  <2>1. 1..n = 1..(n - 1) \cup {n} /\ n \notin 1..(n - 1)
    BY <1>0
  <2> QED BY <2>1
<1>2. /\ H(n - 1) = {} => v.best = -1 /\ v.allow
      /\ H(n - 1) # {} => /\ \E j \in H(n - 1) : rules[j].length = v.best
                          /\ \A j \in H(n - 1) : rules[j].length <= v.best
                          /\ v.allow <=> \E j \in H(n - 1) : rules[j].length = v.best /\ rules[j].allow
  BY DEF Weighing
<1>3. \A j \in H(n - 1) : j \in 1..n /\ j # n
  BY <1>0
<1> SUFFICES /\ H(n) = {} => w.best = -1 /\ w.allow
             /\ H(n) # {} => /\ \E j \in H(n) : rules[j].length = w.best
                             /\ \A j \in H(n) : rules[j].length <= w.best
                             /\ w.allow <=> \E j \in H(n) : rules[j].length = w.best /\ rules[j].allow
  BY DEF Weighing
<1>4. CASE ~match(r.pattern, path)
  <2>1. w = v
    BY <1>4 DEF Weighed
  <2>2. H(n) = H(n - 1)
    BY <1>1, <1>4
  <2> HIDE DEF H, w
  <2> QED BY <1>2, <2>1, <2>2
<1>5. CASE match(r.pattern, path) /\ r.length > v.best
  <2>1. w.best = r.length /\ w.allow = r.allow
    BY <1>5 DEF Weighed
  <2>2. H(n) = H(n - 1) \cup {n}
    BY <1>1, <1>5
  <2>3. \A j \in H(n - 1) : rules[j].length < r.length /\ rules[j].length \in Nat
    <3> HIDE DEF H
    <3> QED BY <1>0, <1>2, <1>3, <1>5
  <2> HIDE DEF H, w
  <2>4. n \in H(n) /\ r = rules[n]
    BY <2>2
  <2> HIDE DEF r
  <2> QED BY <1>0, <2>1, <2>2, <2>3, <2>4
<1>6. CASE match(r.pattern, path) /\ r.length <= v.best
  <2>1. H(n) = H(n - 1) \cup {n}
    BY <1>1, <1>6
  <2>2. H(n - 1) # {}
    <3> HIDE DEF H, r
    <3> QED BY <1>0, <1>2, <1>6
  <2>3. w.best = v.best /\ (w.allow <=> v.allow \/ (r.length = v.best /\ r.allow))
    <3>1. ~(r.length > v.best)
      BY <1>0, <1>6
    <3>2. w = IF r.length = v.best /\ r.allow THEN [v EXCEPT !.allow = TRUE] ELSE v
      BY <1>6, <3>1 DEF Weighed
    <3> HIDE DEF r, w
    <3> QED BY <1>0, <3>2
  <2> HIDE DEF H, w
  <2>4. n \in H(n) /\ r = rules[n]
    BY <2>1
  <2> HIDE DEF r
  <2> QED BY <1>0, <1>2, <1>6, <2>1, <2>2, <2>3, <2>4
<1>7. r.length > v.best \/ r.length <= v.best
  BY <1>0
<1> QED BY <1>4, <1>5, <1>6, <1>7

\* What Allowed says of the rules as a set.
Settles(ans, H) ==
  /\ ans <=> (H = {} \/ \E r \in H : r.allow /\ \A s \in H : s.length <= r.length)
  /\ H # {} => \E r \in H : \A s \in H : s.length <= r.length

LEMMA AllowedSettles ==
  ASSUME NEW C, NEW group, group.rules \in Seq(Rule(C)), NEW path
  PROVE  Settles(Allowed(group, path), {r \in Range(group.rules) : match(r.pattern, path)})
<1> DEFINE rules == group.rules
<1>c. rules \in Seq(Rule(C)) /\ Len(rules) \in Nat /\ \A n \in 1..Len(rules) : rules[n] \in Rule(C)
  OBVIOUS
<1> DEFINE L == Len(rules)
           first == [best |-> -1, allow |-> TRUE]
           Rec(f) == f = [n \in 0..L |-> IF n = 0 THEN first ELSE Weighed(f[n - 1], rules[n], path)]
           step == [n \in 1..L |-> [x \in Weighings |-> Weighed(x, rules[n], path)]]
<1>0. L \in Nat
  OBVIOUS
<1>1. first \in Weighings
  BY DEF Weighings
<1>2. Steps(step, L, Weighings)
  <2>1. \A n \in 1..L : \A x \in Weighings : Weighed(x, rules[n], path) \in Weighings
    <3> SUFFICES ASSUME NEW n \in 1..L, NEW x \in Weighings PROVE Weighed(x, rules[n], path) \in Weighings
      OBVIOUS
    <3>1. rules[n].length \in Nat /\ rules[n].allow \in BOOLEAN /\ x.best \in Int /\ x.allow \in BOOLEAN
      BY <1>c DEF Rule, Weighings
    <3>2. [best |-> rules[n].length, allow |-> rules[n].allow] \in Weighings
      BY <3>1 DEF Weighings
    <3>3. [x EXCEPT !.allow = TRUE] \in Weighings
      BY DEF Weighings
    <3> HIDE DEF rules, L
    <3> QED BY <3>2, <3>3 DEF Weighed
  <2> HIDE DEF L
  <2> QED BY <2>1 DEF Steps
<1>3. PICK c : Course(c, L, Weighings, first, step)
  <2> HIDE DEF L, first, step
  <2> QED BY <1>0, <1>1, <1>2, Recursion
<1>4. Rec(c)
  <2> HIDE DEF first, L
  <2>1. c \in [0..L -> Weighings] /\ c[0] = first /\ \A i \in 1..L : c[i] = step[i][c[i - 1]]
    BY <1>3 DEF Course
  <2>2. \A i \in 1..L : i - 1 \in 0..L /\ c[i - 1] \in Weighings
    BY <1>0, <2>1
  <2>3. \A n \in 1..L : c[n] = Weighed(c[n - 1], rules[n], path)
    BY <2>1, <2>2
  <2>4. \A n \in 0..L : n # 0 => n \in 1..L
    BY <1>0
  <2> HIDE DEF step
  <2>5. c = [n \in 0..L |-> c[n]]
    BY <2>1
  <2>6. \A n \in 0..L : c[n] = IF n = 0 THEN first ELSE Weighed(c[n - 1], rules[n], path)
    BY <2>1, <2>3, <2>4
  <2> QED BY <2>5, <2>6
<1> DEFINE f == CHOOSE f : Rec(f)
<1>5. Rec(f)
  <2> HIDE DEF Rec
  <2> QED BY <1>4
<1>6. Allowed(group, path) = f[L].allow
  BY DEF Allowed
<1> HIDE DEF f, first, L
<1>7. /\ f = [n \in 0..L |-> f[n]] /\ f[0] = first
      /\ \A n \in 1..L : f[n] = Weighed(f[n - 1], rules[n], path)
  <2>1. 0 \in 0..L /\ \A n \in 1..L : n \in 0..L /\ n # 0
    BY <1>0
  <2>2. \A n \in 0..L : f[n] = IF n = 0 THEN first ELSE Weighed(f[n - 1], rules[n], path)
    BY <1>5
  <2>3. DOMAIN f = 0..L
    BY <1>5
  <2>4. f = [n \in 0..L |-> f[n]]
    BY <1>5, <2>3
  <2> QED BY <2>1, <2>2, <2>4
<1>8. Course(f, L, Weighings, first, step)
  <2>1. \A i \in 1..L : f[i - 1] \in Weighings => f[i] = step[i][f[i - 1]]
    BY <1>7
  <2> HIDE DEF step
  <2> QED BY <1>0, <1>1, <1>2, <1>7, <2>1, CourseFits
<1>9. \A n \in 0..L : f[n] \in Weighings
  BY <1>8 DEF Course
<1> HIDE DEF rules
<1>c2. L = Len(rules)
  BY DEF L
<1> DEFINE G == {n \in 0..L : Weighing(f[n], rules, path, n)}
<1>10. 0 \in G
  <2>1. f[0].best = -1 /\ f[0].allow = TRUE /\ 1..0 = {}
    BY <1>7 DEF first
  <2>2. {j \in 1..0 : match(rules[j].pattern, path)} = {}
    BY <2>1
  <2>3. Weighing(f[0], rules, path, 0)
    BY <2>1, <2>2 DEF Weighing
  <2> QED BY <1>0, <2>3
<1>11. \A n \in 0..L : n \in G /\ n < L => n + 1 \in G
  <2> SUFFICES ASSUME NEW n \in 0..L, n \in G, n < L PROVE n + 1 \in G
    OBVIOUS
  <2>1. n + 1 \in 1..L /\ n + 1 \in 0..L /\ (n + 1) - 1 = n
    BY <1>0
  <2>2. f[n + 1] = Weighed(f[n], rules[n + 1], path) /\ f[n] \in Weighings
    BY <1>7, <1>9, <2>1
  <2>3. Weighing(f[n], rules, path, n) /\ n + 1 \in 1..Len(rules)
    BY <1>c2, <2>1
  <2>4. Weighing(f[n + 1], rules, path, n + 1)
    BY <1>c, <2>1, <2>2, <2>3, WeighedJudges
  <2> QED BY <2>1, <2>4
<1>12. \A n \in 0..L : n \in G
  <2> HIDE DEF G
  <2> QED BY <1>0, <1>10, <1>11, Climb
<1> DEFINE v == f[L]
           hit == {j \in 1..L : match(rules[j].pattern, path)}
           H == {r \in Range(rules) : match(r.pattern, path)}
<1>13. Weighing(v, rules, path, L) /\ v \in Weighings
  BY <1>0, <1>9, <1>12
<1>14. H = {rules[j] : j \in hit}
  <2>1. Range(rules) = {rules[j] : j \in 1..L}
    BY <1>c, <1>c2 DEF Range
  <2> QED BY <2>1
<1>15. \A j \in hit : rules[j].length \in Nat /\ rules[j].allow \in BOOLEAN
  BY <1>c, <1>c2 DEF Rule
<1>16. /\ hit = {} => v.allow
       /\ hit # {} => /\ \E j \in hit : rules[j].length = v.best
                      /\ \A j \in hit : rules[j].length <= v.best
                      /\ v.allow <=> \E j \in hit : rules[j].length = v.best /\ rules[j].allow
  BY <1>13 DEF Weighing
<1>17. v.best \in Int /\ v.allow \in BOOLEAN
  BY <1>13 DEF Weighings
<1> HIDE DEF v, hit, H
<1>18. CASE hit = {}
  <2>1. H = {}
    BY <1>14, <1>18
  <2>2. v.allow = TRUE
    BY <1>16, <1>17, <1>18
  <2>3. Settles(v.allow, H)
    BY <2>1, <2>2 DEF Settles
  <2> QED BY <1>6, <2>3 DEF v, H, rules
<1>19. CASE hit # {}
  <2>1. PICK k \in hit : rules[k].length = v.best
    BY <1>16, <1>19
  <2>2. rules[k] \in H /\ H # {}
    BY <1>14, <2>1
  <2>3. \A s \in H : s.length <= rules[k].length
    BY <1>14, <1>16, <1>19, <2>1
  <2>4. v.allow => \E r \in H : r.allow /\ \A s \in H : s.length <= r.length
    <3> SUFFICES ASSUME v.allow PROVE \E r \in H : r.allow /\ \A s \in H : s.length <= r.length
      OBVIOUS
    <3>1. PICK j \in hit : rules[j].length = v.best /\ rules[j].allow
      BY <1>16, <1>19
    <3>2. rules[j] \in H /\ \A s \in H : s.length <= rules[j].length
      BY <1>14, <1>16, <1>19, <3>1
    <3> QED BY <3>1, <3>2
  <2>5. (\E r \in H : r.allow /\ \A s \in H : s.length <= r.length) => v.allow
    <3> SUFFICES ASSUME NEW r \in H, r.allow, \A s \in H : s.length <= r.length PROVE v.allow
      OBVIOUS
    <3>1. PICK j \in hit : r = rules[j]
      BY <1>14
    <3>2. rules[j].length = v.best
      <4>1. v.best <= rules[j].length
        BY <2>1, <2>2, <3>1
      <4>2. rules[j].length <= v.best
        BY <1>16, <1>19
      <4> QED BY <1>15, <1>17, <4>1, <4>2
    <3> QED BY <1>16, <1>19, <3>1, <3>2
  <2>6. Settles(v.allow, H)
    BY <2>2, <2>3, <2>4, <2>5 DEF Settles
  <2> QED BY <1>6, <2>6 DEF v, H, rules
<1> QED BY <1>18, <1>19

\* After line i the parser is in a run of User-agent lines.
UserAgent(lines, i) == lines[i].field = "user-agent"
InRun(lines, i) == \E j \in 1..i : UserAgent(lines, j) /\ \A e \in (j + 1)..i : ~Ends(lines, e)
Opens(lines, k) == UserAgent(lines, k) /\ ~InRun(lines, k - 1)

\* The group line i falls in: the number of runs begun so far.
GroupOf(lines, i) == Cardinality({k \in 1..i : Opens(lines, k)})

LEMMA GroupNext ==
  ASSUME NEW lines, NEW i \in Nat
  PROVE  /\ GroupOf(lines, 0) = 0
         /\ GroupOf(lines, i) \in Nat
         /\ GroupOf(lines, i + 1) = GroupOf(lines, i) + IF Opens(lines, i + 1) THEN 1 ELSE 0
<1> DEFINE O(n) == {k \in 1..n : Opens(lines, k)}
<1>1. IsFiniteSet(O(i)) /\ Cardinality(O(i)) \in Nat
  <2>1. IsFiniteSet(1..i)
    BY FS_Interval
  <2>2. O(i) \subseteq 1..i
    OBVIOUS
  <2> QED BY <2>1, <2>2, FS_Subset, FS_CardinalityType
<1>2. O(0) = {}
  OBVIOUS
<1>3. O(i + 1) = IF Opens(lines, i + 1) THEN O(i) \cup {i + 1} ELSE O(i)
  <2>1. 1..(i + 1) = 1..i \cup {i + 1}
    OBVIOUS
  <2> QED BY <2>1
<1>4. i + 1 \notin O(i)
  OBVIOUS
<1> HIDE DEF O
<1>5. Cardinality(O(i + 1)) = Cardinality(O(i)) + IF Opens(lines, i + 1) THEN 1 ELSE 0
  BY <1>1, <1>3, <1>4, FS_AddElement
<1>6. Cardinality(O(0)) = 0
  BY <1>2, FS_EmptySet
<1> QED BY <1>1, <1>5, <1>6 DEF GroupOf, O

\* Later lines are in later groups, and in the same one just when no run
\* begins between them.
LEMMA GroupGrows ==
  ASSUME NEW lines, NEW i \in Nat, NEW j \in Nat, i <= j
  PROVE  /\ GroupOf(lines, i) \in Nat /\ GroupOf(lines, j) \in Nat
         /\ GroupOf(lines, i) <= GroupOf(lines, j)
         /\ GroupOf(lines, i) = GroupOf(lines, j) <=> \A k \in (i + 1)..j : ~Opens(lines, k)
<1> DEFINE O(n) == {k \in 1..n : Opens(lines, k)}
<1>1. /\ IsFiniteSet(O(j)) /\ IsFiniteSet(O(i))
      /\ Cardinality(O(i)) \in Nat /\ Cardinality(O(j)) \in Nat
  <2>1. IsFiniteSet(1..i) /\ IsFiniteSet(1..j)
    BY FS_Interval
  <2>2. O(i) \subseteq 1..i /\ O(j) \subseteq 1..j
    OBVIOUS
  <2> QED BY <2>1, <2>2, FS_Subset, FS_CardinalityType
<1>2. O(i) \subseteq O(j)
  OBVIOUS
<1>3. O(i) = O(j) <=> \A k \in (i + 1)..j : ~Opens(lines, k)
  <2>1. 1..j = 1..i \cup (i + 1)..j /\ 1..i \cap (i + 1)..j = {}
    OBVIOUS
  <2>2. O(j) = O(i) \cup {k \in (i + 1)..j : Opens(lines, k)}
    BY <2>1
  <2>3. \A k \in (i + 1)..j : k \notin O(i)
    BY <2>1
  <2> QED BY <2>2, <2>3
<1> HIDE DEF O
<1>4. /\ Cardinality(O(i)) <= Cardinality(O(j))
      /\ Cardinality(O(i)) = Cardinality(O(j)) => O(i) = O(j)
  BY <1>1, <1>2, FS_Subset
<1> QED BY <1>1, <1>3, <1>4 DEF GroupOf, O

\* The rule at line t belongs to the agents of its group.
LEMMA RunIsGroup ==
  ASSUME NEW lines, NEW n \in Nat, NEW t \in 1..n, NEW d \in 1..n, Ends(lines, t), UserAgent(lines, d)
  PROVE  d \in RunOf(lines, t) <=> GroupOf(lines, d) = GroupOf(lines, t)
<1>0. d \in Nat /\ t \in Nat /\ d # t /\ d >= 1 /\ t >= 1
  BY DEF Ends, RuleFields, UserAgent
<1>1. CASE d < t
  <2>1. GroupOf(lines, d) = GroupOf(lines, t) <=> \A k \in (d + 1)..t : ~Opens(lines, k)
    BY <1>0, <1>1, GroupGrows
  <2>2. ~UserAgent(lines, t)
    BY DEF Ends, RuleFields, UserAgent
  <2> DEFINE Broken(k) == UserAgent(lines, k) /\ \E e \in (d + 1)..(k - 1) : Ends(lines, e)
  <2>3. d \in RunOf(lines, t) <=> \A k \in (d + 1)..(t - 1) : ~Broken(k)
    BY <1>0, <1>1 DEF RunOf, UserAgent
  <2>4. ASSUME \A k \in (d + 1)..(t - 1) : ~Broken(k), NEW k \in (d + 1)..t, Opens(lines, k) PROVE FALSE
    <3>1. UserAgent(lines, k) /\ k # t /\ k \in (d + 1)..(t - 1)
      BY <1>0, <2>2, <2>4 DEF Opens
    <3>2. \A e \in (d + 1)..(k - 1) : ~Ends(lines, e)
      BY <2>4, <3>1
    <3>3. d \in 1..(k - 1)
      BY <1>0
    <3>4. InRun(lines, k - 1)
      BY <3>2, <3>3 DEF InRun
    <3> QED BY <2>4, <3>4 DEF Opens
  <2>5. ASSUME \A k \in (d + 1)..t : ~Opens(lines, k), NEW k0 \in (d + 1)..(t - 1), Broken(k0) PROVE FALSE
    <3> DEFINE B == {k \in (d + 1)..(t - 1) : Broken(k)}
    <3>1. B \in SUBSET Nat /\ B # {}
      BY <1>0, <2>5
    <3>2. PICK k \in B : \A y \in B : k <= y
      BY <3>1, LeastNat
    <3>3. k \in (d + 1)..(t - 1) /\ UserAgent(lines, k)
      BY <3>2
    <3>4. PICK e \in (d + 1)..(k - 1) : Ends(lines, e)
      BY <3>2
    <3>5. ~Opens(lines, k)
      BY <1>0, <2>5, <3>3
    <3>6. PICK j \in 1..(k - 1) : UserAgent(lines, j) /\ \A x \in (j + 1)..(k - 1) : ~Ends(lines, x)
      BY <3>3, <3>5 DEF Opens, InRun
    <3>7. j # e
      BY <3>4, <3>6 DEF Ends, RuleFields, UserAgent
    <3>8. e < j
      <4>1. ~(e \in (j + 1)..(k - 1))
        BY <3>4, <3>6
      <4> QED BY <1>0, <3>3, <3>4, <3>6, <3>7, <4>1
    <3>9. j \in (d + 1)..(t - 1) /\ e \in (d + 1)..(j - 1)
      BY <1>0, <3>3, <3>4, <3>6, <3>8
    <3>10. j \in B
      BY <3>4, <3>6, <3>9
    <3> HIDE DEF B
    <3> QED BY <1>0, <3>2, <3>3, <3>6, <3>10
  <2> HIDE DEF Broken
  <2> QED BY <2>1, <2>3, <2>4, <2>5
<1>2. CASE t < d
  <2>1. d \notin RunOf(lines, t)
    BY <1>0, <1>2 DEF RunOf
  <2> DEFINE U == {k \in (t + 1)..d : UserAgent(lines, k)}
  <2>2. U \in SUBSET Nat /\ d \in U
    BY <1>0, <1>2
  <2>3. PICK k \in U : \A y \in U : k <= y
    BY <2>2, LeastNat
  <2>4. k \in (t + 1)..d /\ UserAgent(lines, k)
    BY <2>3
  <2>5. ASSUME InRun(lines, k - 1) PROVE FALSE
    <3>1. PICK j \in 1..(k - 1) : UserAgent(lines, j) /\ \A e \in (j + 1)..(k - 1) : ~Ends(lines, e)
      BY <2>5 DEF InRun
    <3>2. j # t
      BY <3>1 DEF Ends, RuleFields, UserAgent
    <3>3. ~(t \in (j + 1)..(k - 1))
      BY <3>1
    <3>4. j \in U
      BY <1>0, <2>4, <3>1, <3>2, <3>3
    <3> HIDE DEF U
    <3> QED BY <1>0, <2>3, <2>4, <3>1, <3>4
  <2>6. Opens(lines, k)
    BY <2>4, <2>5 DEF Opens
  <2>7. GroupOf(lines, t) # GroupOf(lines, d)
    BY <1>0, <1>2, <2>4, <2>6, GroupGrows
  <2> QED BY <2>1, <2>7
<1> QED BY <1>0, <1>1, <1>2

Group(C, D) == [agents : SUBSET Seq(C), rules : Seq(Rule(C)), crawlDelay : D]
Parsing(C, D) == [groups : Seq(Group(C, D)), starting : BOOLEAN]
RuleOf(line) == [pattern |-> line.value, allow |-> line.field = "allow", length |-> patternLength(line.value)]
RuleLine(line) == line.field \in {"allow", "disallow"}

\* What one line does to the groups.
Lined(new, st, line) ==
  LET n == Len(st.groups)
      m == Len(new.groups)
  IN /\ line.field = "user-agent" =>
          /\ new.starting
          /\ m = IF st.starting THEN n ELSE n + 1
          /\ \A k \in 1..m :
               /\ new.groups[k].rules = IF k <= n THEN st.groups[k].rules ELSE <<>>
               /\ new.groups[k].agents = (IF k <= n THEN st.groups[k].agents ELSE {})
                                         \cup (IF k = m THEN {line.value} ELSE {})
     /\ line.field # "user-agent" =>
          /\ m = n
          /\ new.starting <=> st.starting /\ ~(line.field \in RuleFields /\ n > 0)
          /\ \A k \in 1..n :
               /\ new.groups[k].agents = st.groups[k].agents
               /\ new.groups[k].rules = IF RuleLine(line) /\ k = n THEN Append(st.groups[k].rules, RuleOf(line))
                                        ELSE st.groups[k].rules

LEMMA PatternLengthNat ==
  ASSUME NEW C, NEW p \in Seq(C)
  PROVE  patternLength(p) \in Nat
<1>1. Len(p) \in Nat /\ (p # <<>> => Len(p) >= 1)
  OBVIOUS
<1> QED BY <1>1 DEF patternLength

LEMMA OnLineIs ==
  ASSUME NEW C, NEW D, 0 \in D, NEW st \in Parsing(C, D), NEW line, line.value \in D,
         line.field \in {"user-agent", "allow", "disallow"} => line.value \in Seq(C)
  PROVE  /\ OnLine(st, line) \in Parsing(C, D)
         /\ Lined(OnLine(st, line), st, line)
<1> DEFINE gs == st.groups
           n == Len(gs)
           new == OnLine(st, line)
<1>1. /\ gs \in Seq(Group(C, D)) /\ st.starting \in BOOLEAN /\ n \in Nat
      /\ \A k \in 1..n : gs[k] \in Group(C, D)
      /\ st = [groups |-> gs, starting |-> st.starting]
  BY DEF Parsing
<1>2. CASE line.field = "user-agent"
  <2> DEFINE hs == IF OpensGroup(st.starting) THEN Append(gs, EmptyGroup) ELSE gs
             m == Len(hs)
             ts == [hs EXCEPT ![m].agents = @ \cup {line.value}]
  <2>1. new = [st EXCEPT !.groups = ts, !.starting = TRUE]
    BY <1>2 DEF OnLine
  <2>2. EmptyGroup \in Group(C, D) /\ EmptyGroup.agents = {} /\ EmptyGroup.rules = <<>>
    BY DEF EmptyGroup, Group
  <2>3. /\ hs \in Seq(Group(C, D)) /\ m \in Nat
        /\ m = IF st.starting THEN n ELSE n + 1
        /\ \A k \in 1..m : hs[k] = IF k <= n THEN gs[k] ELSE EmptyGroup
    <3> HIDE DEF gs
    <3>1. CASE st.starting
      BY <1>1, <3>1 DEF OpensGroup
    <3>2. CASE ~st.starting
      <4>1. hs = Append(gs, EmptyGroup)
        BY <3>2 DEF OpensGroup
      <4>2. Append(gs, EmptyGroup) \in Seq(Group(C, D)) /\ Len(Append(gs, EmptyGroup)) = n + 1
        BY <1>1, <2>2
      <4>3. \A k \in 1..(n + 1) : Append(gs, EmptyGroup)[k] = IF k <= n THEN gs[k] ELSE EmptyGroup
        BY <1>1
      <4> QED BY <1>1, <3>2, <4>1, <4>2, <4>3
    <3> QED BY <3>1, <3>2
  <2>4. \A k \in 1..m : hs[k] \in Group(C, D)
    BY <2>3
  <2> HIDE DEF hs, m
  <2>5. DOMAIN hs = 1..m
    BY <2>3 DEF m
  <2>6. ts = [k \in 1..m |-> IF k = m THEN [hs[k] EXCEPT !.agents = @ \cup {line.value}] ELSE hs[k]]
    BY <2>5
  <2>7. \A k \in 1..m : ts[k] \in Group(C, D) /\ ts[k].rules = hs[k].rules
                        /\ ts[k].agents = hs[k].agents \cup (IF k = m THEN {line.value} ELSE {})
    <3> SUFFICES ASSUME NEW k \in 1..m
                 PROVE  ts[k] \in Group(C, D) /\ ts[k].rules = hs[k].rules
                        /\ ts[k].agents = hs[k].agents \cup (IF k = m THEN {line.value} ELSE {})
      OBVIOUS
    <3>1. hs[k] \in Group(C, D)
      BY <2>4
    <3> DEFINE h == hs[k]
    <3> HIDE DEF h, ts
    <3>2. ts[k] = IF k = m THEN [h EXCEPT !.agents = @ \cup {line.value}] ELSE h
      BY <2>6 DEF h
    <3>3. h \in Group(C, D) /\ line.value \in Seq(C)
      BY <1>2, <3>1 DEF h
    <3>4. ts[k] \in Group(C, D) /\ ts[k].rules = h.rules
          /\ ts[k].agents = h.agents \cup (IF k = m THEN {line.value} ELSE {})
      BY <3>2, <3>3 DEF Group
    <3> QED BY <3>4 DEF h
  <2>8. ts \in Seq(Group(C, D)) /\ Len(ts) = m
    <3>1. ts = [k \in 1..m |-> ts[k]]
      BY <2>6
    <3> HIDE DEF ts
    <3> QED BY <2>3, <2>7, <3>1, ListIs
  <2> HIDE DEF ts
  <2>9. new.groups = ts /\ new.starting = TRUE /\ new = [groups |-> ts, starting |-> TRUE]
    BY <1>1, <2>1
  <2>10. new \in Parsing(C, D)
    BY <2>8, <2>9 DEF Parsing
  <2>11. \A k \in 1..m :
           /\ ts[k].rules = IF k <= n THEN gs[k].rules ELSE <<>>
           /\ ts[k].agents = (IF k <= n THEN gs[k].agents ELSE {}) \cup (IF k = m THEN {line.value} ELSE {})
    BY <2>2, <2>3, <2>7
  <2>12. Lined(new, st, line)
    <3> HIDE DEF new
    <3> QED BY <1>2, <2>3, <2>8, <2>9, <2>11 DEF Lined
  <2> QED BY <2>10, <2>12
<1>3. CASE RuleLine(line) /\ n > 0
  <2> DEFINE ts == [gs EXCEPT ![n].rules = Append(@, RuleOf(line))]
  <2>1. line.field # "user-agent" /\ line.value \in Seq(C) /\ line.field \in RuleFields /\ line.field # "crawl-delay"
    BY <1>3 DEF RuleLine, RuleFields
  <2>2. new = [st EXCEPT !.starting = FALSE, !.groups = ts]
    BY <1>3, <2>1 DEF OnLine, RuleLine, RuleOf
  <2>3. RuleOf(line) \in Rule(C)
    BY <2>1, PatternLengthNat DEF RuleOf, Rule
  <2>4. DOMAIN gs = 1..n
    BY <1>1
  <2>5. ts = [k \in 1..n |-> IF k = n THEN [gs[k] EXCEPT !.rules = Append(@, RuleOf(line))] ELSE gs[k]]
    BY <2>4
  <2>6. \A k \in 1..n : ts[k] \in Group(C, D) /\ ts[k].agents = gs[k].agents
                        /\ ts[k].rules = IF k = n THEN Append(gs[k].rules, RuleOf(line)) ELSE gs[k].rules
    <3> SUFFICES ASSUME NEW k \in 1..n
                 PROVE  ts[k] \in Group(C, D) /\ ts[k].agents = gs[k].agents
                        /\ ts[k].rules = IF k = n THEN Append(gs[k].rules, RuleOf(line)) ELSE gs[k].rules
      OBVIOUS
    <3> DEFINE g == gs[k]
               r == RuleOf(line)
    <3>1. g \in Group(C, D) /\ r \in Rule(C)
      BY <1>1, <2>3
    <3> HIDE DEF g, ts, r
    <3>2. ts[k] = IF k = n THEN [g EXCEPT !.rules = Append(@, r)] ELSE g
      BY <2>5 DEF g, r
    <3>3. Append(g.rules, r) \in Seq(Rule(C))
      BY <3>1 DEF Group
    <3>4. ts[k] \in Group(C, D) /\ ts[k].agents = g.agents
          /\ ts[k].rules = IF k = n THEN Append(g.rules, r) ELSE g.rules
      BY <3>1, <3>2, <3>3 DEF Group
    <3> QED BY <3>4 DEF g, r
  <2>7. ts \in Seq(Group(C, D)) /\ Len(ts) = n
    <3>1. ts = [k \in 1..n |-> ts[k]]
      BY <2>5
    <3> HIDE DEF ts
    <3> QED BY <1>1, <2>6, <3>1, ListIs
  <2> HIDE DEF ts
  <2>8. new.groups = ts /\ new.starting = FALSE /\ new = [groups |-> ts, starting |-> FALSE]
    BY <1>1, <2>2
  <2>9. new \in Parsing(C, D)
    BY <2>7, <2>8 DEF Parsing
  <2>10. Lined(new, st, line)
    <3> HIDE DEF new
    <3> QED BY <1>1, <1>3, <2>1, <2>6, <2>7, <2>8 DEF Lined
  <2> QED BY <2>9, <2>10
<1>4. CASE line.field = "crawl-delay" /\ n > 0
  <2> DEFINE ts == [gs EXCEPT ![n].crawlDelay = IF line.value = NoDelay THEN @ ELSE line.value]
  <2>1. line.field # "user-agent" /\ ~RuleLine(line) /\ line.field \in RuleFields
    BY <1>4 DEF RuleLine, RuleFields
  <2>2. new = [st EXCEPT !.starting = FALSE, !.groups = ts]
    BY <1>4 DEF OnLine
  <2>4. DOMAIN gs = 1..n
    BY <1>1
  <2>5. ts = [k \in 1..n |-> IF k = n THEN [gs[k] EXCEPT !.crawlDelay = IF line.value = NoDelay THEN @ ELSE line.value]
                              ELSE gs[k]]
    BY <2>4
  <2>6. \A k \in 1..n : ts[k] \in Group(C, D) /\ ts[k].agents = gs[k].agents /\ ts[k].rules = gs[k].rules
    <3> SUFFICES ASSUME NEW k \in 1..n
                 PROVE  ts[k] \in Group(C, D) /\ ts[k].agents = gs[k].agents /\ ts[k].rules = gs[k].rules
      OBVIOUS
    <3> DEFINE g == gs[k]
    <3>1. g \in Group(C, D)
      BY <1>1
    <3> HIDE DEF g, ts
    <3>2. ts[k] = IF k = n THEN [g EXCEPT !.crawlDelay = IF line.value = NoDelay THEN @ ELSE line.value] ELSE g
      BY <2>5 DEF g
    <3>3. ts[k] \in Group(C, D) /\ ts[k].agents = g.agents /\ ts[k].rules = g.rules
      BY <3>1, <3>2 DEF Group
    <3> QED BY <3>3 DEF g
  <2>7. ts \in Seq(Group(C, D)) /\ Len(ts) = n
    <3>1. ts = [k \in 1..n |-> ts[k]]
      BY <2>5
    <3> HIDE DEF ts
    <3> QED BY <1>1, <2>6, <3>1, ListIs
  <2> HIDE DEF ts
  <2>8. new.groups = ts /\ new.starting = FALSE /\ new = [groups |-> ts, starting |-> FALSE]
    BY <1>1, <2>2
  <2>9. new \in Parsing(C, D)
    BY <2>7, <2>8 DEF Parsing
  <2>10. Lined(new, st, line)
    <3> HIDE DEF new
    <3> QED BY <1>1, <1>4, <2>1, <2>6, <2>7, <2>8 DEF Lined
  <2> QED BY <2>9, <2>10
<1>5. CASE line.field # "user-agent" /\ ~(n > 0 /\ (RuleLine(line) \/ line.field = "crawl-delay"))
  <2>1. new = st
    BY <1>5 DEF OnLine, RuleLine
  <2>2. ~(line.field \in RuleFields /\ n > 0)
    BY <1>5 DEF RuleFields, RuleLine
  <2>3. \A k \in 1..n : ~(RuleLine(line) /\ k = n)
    BY <1>1, <1>5
  <2>4. Lined(st, st, line)
    BY <1>5, <2>2, <2>3 DEF Lined
  <2> QED BY <2>1, <2>4
<1> QED BY <1>2, <1>3, <1>4, <1>5

LEMMA InRunNext ==
  ASSUME NEW lines, NEW i \in Nat
  PROVE  InRun(lines, i + 1) <=> UserAgent(lines, i + 1) \/ (InRun(lines, i) /\ ~Ends(lines, i + 1))
<1>1. ASSUME InRun(lines, i + 1), ~UserAgent(lines, i + 1) PROVE InRun(lines, i) /\ ~Ends(lines, i + 1)
  <2>1. PICK j \in 1..(i + 1) : UserAgent(lines, j) /\ \A e \in (j + 1)..(i + 1) : ~Ends(lines, e)
    BY <1>1 DEF InRun
  <2>2. j # i + 1 /\ j \in 1..i /\ i + 1 \in (j + 1)..(i + 1) /\ (j + 1)..i \subseteq (j + 1)..(i + 1)
    BY <1>1, <2>1
  <2> QED BY <2>1, <2>2 DEF InRun
<1>2. ASSUME UserAgent(lines, i + 1) PROVE InRun(lines, i + 1)
  <2>1. i + 1 \in 1..(i + 1) /\ ((i + 1) + 1)..(i + 1) = {}
    OBVIOUS
  <2> QED BY <1>2, <2>1 DEF InRun
<1>3. ASSUME InRun(lines, i), ~Ends(lines, i + 1) PROVE InRun(lines, i + 1)
  <2>1. PICK j \in 1..i : UserAgent(lines, j) /\ \A e \in (j + 1)..i : ~Ends(lines, e)
    BY <1>3 DEF InRun
  <2>2. j \in 1..(i + 1) /\ \A e \in (j + 1)..(i + 1) : e = i + 1 \/ e \in (j + 1)..i
    OBVIOUS
  <2>3. \A e \in (j + 1)..(i + 1) : ~Ends(lines, e)
    BY <1>3, <2>1, <2>2
  <2> QED BY <2>1, <2>2, <2>3 DEF InRun
<1> QED BY <1>1, <1>2, <1>3

\* The values of the User-agent lines of group g, and its rules.
AgentsOf(lines, i, g) == {lines[j].value : j \in {x \in 1..i : UserAgent(lines, x) /\ GroupOf(lines, x) = g}}
RulesOf(lines, i, g) == {RuleOf(lines[j]) : j \in {x \in 1..i : RuleLine(lines[x]) /\ GroupOf(lines, x) = g}}

\* The groups after i lines are the runs of the lines.
Parsed(st, lines, i) ==
  /\ st.starting <=> InRun(lines, i)
  /\ Len(st.groups) = GroupOf(lines, i)
  /\ Len(st.groups) = 0 => \A j \in 1..i : ~UserAgent(lines, j)
  /\ \A g \in 1..Len(st.groups) :
       /\ st.groups[g].agents = AgentsOf(lines, i, g)
       /\ Range(st.groups[g].rules) = RulesOf(lines, i, g)

\* The runs one line longer.
LEMMA OfNext ==
  ASSUME NEW lines, NEW i \in Nat, NEW g
  PROVE  /\ AgentsOf(lines, i + 1, g) = AgentsOf(lines, i, g)
              \cup (IF UserAgent(lines, i + 1) /\ GroupOf(lines, i + 1) = g THEN {lines[i + 1].value} ELSE {})
         /\ RulesOf(lines, i + 1, g) = RulesOf(lines, i, g)
              \cup (IF RuleLine(lines[i + 1]) /\ GroupOf(lines, i + 1) = g THEN {RuleOf(lines[i + 1])} ELSE {})
         /\ g > GroupOf(lines, i) => AgentsOf(lines, i, g) = {} /\ RulesOf(lines, i, g) = {}
<1>1. 1..(i + 1) = 1..i \cup {i + 1}
  OBVIOUS
<1>2. \A x \in 1..i : ~(g > GroupOf(lines, i) /\ GroupOf(lines, x) = g)
  <2> SUFFICES ASSUME NEW x \in 1..i PROVE ~(g > GroupOf(lines, i) /\ GroupOf(lines, x) = g)
    OBVIOUS
  <2>1. x \in Nat /\ x <= i
    OBVIOUS
  <2>2. GroupOf(lines, x) <= GroupOf(lines, i) /\ GroupOf(lines, x) \in Nat /\ GroupOf(lines, i) \in Nat
    BY <2>1, GroupGrows
  <2> QED BY <2>2
<1>3. AgentsOf(lines, i + 1, g) = AgentsOf(lines, i, g)
        \cup (IF UserAgent(lines, i + 1) /\ GroupOf(lines, i + 1) = g THEN {lines[i + 1].value} ELSE {})
  BY <1>1 DEF AgentsOf
<1>4. RulesOf(lines, i + 1, g) = RulesOf(lines, i, g)
        \cup (IF RuleLine(lines[i + 1]) /\ GroupOf(lines, i + 1) = g THEN {RuleOf(lines[i + 1])} ELSE {})
  BY <1>1 DEF RulesOf
<1>5. g > GroupOf(lines, i) => AgentsOf(lines, i, g) = {} /\ RulesOf(lines, i, g) = {}
  BY <1>2 DEF AgentsOf, RulesOf
<1> QED BY <1>3, <1>4, <1>5

LEMMA ParsedNext ==
  ASSUME NEW C, NEW D, NEW st \in Parsing(C, D), NEW new \in Parsing(C, D), NEW lines, NEW i \in Nat,
         RuleLine(lines[i + 1]) => lines[i + 1].value \in Seq(C),
         Parsed(st, lines, i), Lined(new, st, lines[i + 1])
  PROVE  Parsed(new, lines, i + 1)
<1> DEFINE n == Len(st.groups)
           m == Len(new.groups)
           line == lines[i + 1]
<1>1. /\ n \in Nat /\ m \in Nat /\ n = GroupOf(lines, i) /\ (st.starting <=> InRun(lines, i))
      /\ n = 0 => \A j \in 1..i : ~UserAgent(lines, j)
      /\ \A g \in 1..n : /\ st.groups[g].agents = AgentsOf(lines, i, g)
                         /\ Range(st.groups[g].rules) = RulesOf(lines, i, g)
                         /\ st.groups[g].rules \in Seq(Rule(C))
  <2>1. /\ n = GroupOf(lines, i) /\ (st.starting <=> InRun(lines, i))
        /\ n = 0 => \A j \in 1..i : ~UserAgent(lines, j)
        /\ \A g \in 1..n : /\ st.groups[g].agents = AgentsOf(lines, i, g)
                           /\ Range(st.groups[g].rules) = RulesOf(lines, i, g)
    BY DEF Parsed
  <2>2. st.groups \in Seq(Group(C, D)) /\ new.groups \in Seq(Group(C, D))
    BY DEF Parsing
  <2>3. n \in Nat /\ m \in Nat /\ \A g \in 1..n : st.groups[g] \in Group(C, D)
    BY <2>2
  <2>4. \A h \in Group(C, D) : h.rules \in Seq(Rule(C))
    BY DEF Group
  <2> HIDE DEF n, m
  <2> QED BY <2>1, <2>3, <2>4
<1>2. GroupOf(lines, i + 1) = n + IF Opens(lines, i + 1) THEN 1 ELSE 0
  BY <1>1, GroupNext
<1>3. InRun(lines, i + 1) <=> UserAgent(lines, i + 1) \/ (InRun(lines, i) /\ ~Ends(lines, i + 1))
  BY InRunNext
<1>4. \A j \in 1..(i + 1) : j = i + 1 \/ j \in 1..i
  OBVIOUS
<1>5. CASE line.field = "user-agent"
  <2>1. /\ new.starting
        /\ m = IF st.starting THEN n ELSE n + 1
        /\ \A k \in 1..m :
             /\ new.groups[k].rules = IF k <= n THEN st.groups[k].rules ELSE <<>>
             /\ new.groups[k].agents = (IF k <= n THEN st.groups[k].agents ELSE {})
                                       \cup (IF k = m THEN {line.value} ELSE {})
    BY <1>5 DEF Lined
  <2>2. UserAgent(lines, i + 1) /\ ~RuleLine(line)
    BY <1>5 DEF UserAgent, RuleLine
  <2>3. Opens(lines, i + 1) <=> ~st.starting
    <3>1. (i + 1) - 1 = i
      OBVIOUS
    <3> QED BY <1>1, <2>2, <3>1 DEF Opens
  <2>4. m = GroupOf(lines, i + 1)
    BY <1>1, <1>2, <2>1, <2>3
  <2>5. m # 0
    <3>1. st.starting => \E j \in 1..i : UserAgent(lines, j)
      BY <1>1 DEF InRun
    <3> QED BY <1>1, <2>1, <3>1
  <2>6. \A g \in 1..m : /\ new.groups[g].agents = AgentsOf(lines, i + 1, g)
                        /\ Range(new.groups[g].rules) = RulesOf(lines, i + 1, g)
    <3> SUFFICES ASSUME NEW g \in 1..m
                 PROVE  /\ new.groups[g].agents = AgentsOf(lines, i + 1, g)
                        /\ Range(new.groups[g].rules) = RulesOf(lines, i + 1, g)
      OBVIOUS
    <3>0. /\ AgentsOf(lines, i + 1, g) = AgentsOf(lines, i, g)
               \cup (IF UserAgent(lines, i + 1) /\ GroupOf(lines, i + 1) = g THEN {lines[i + 1].value} ELSE {})
          /\ RulesOf(lines, i + 1, g) = RulesOf(lines, i, g)
               \cup (IF RuleLine(lines[i + 1]) /\ GroupOf(lines, i + 1) = g THEN {RuleOf(lines[i + 1])} ELSE {})
          /\ g > GroupOf(lines, i) => AgentsOf(lines, i, g) = {} /\ RulesOf(lines, i, g) = {}
      <4> HIDE DEF n, m, line
      <4> QED BY OfNext
    <3>1. /\ AgentsOf(lines, i + 1, g) = AgentsOf(lines, i, g) \cup (IF m = g THEN {line.value} ELSE {})
          /\ RulesOf(lines, i + 1, g) = RulesOf(lines, i, g)
          /\ g > n => AgentsOf(lines, i, g) = {} /\ RulesOf(lines, i, g) = {}
      <4> HIDE DEF n, m
      <4> QED BY <1>1, <2>2, <2>4, <3>0
    <3>2. g \in Nat /\ g >= 1 /\ (g <= n \/ g > n)
      BY <1>1
    <3>3. CASE g <= n
      <4>1. g \in 1..n
        BY <1>1, <3>2, <3>3
      <4> HIDE DEF n, m, line
      <4> QED BY <1>1, <2>1, <3>1, <3>3, <4>1
    <3>4. CASE g > n
      <4>1. ~(g <= n)
        BY <1>1, <3>2, <3>4
      <4>2. Range(<<>>) = {}
        BY DEF Range
      <4> HIDE DEF n, m, line
      <4> QED BY <2>1, <3>1, <3>4, <4>1, <4>2
    <3> QED BY <3>2, <3>3, <3>4
  <2>7. new.starting <=> InRun(lines, i + 1)
    BY <1>3, <2>1, <2>2
  <2> QED BY <2>4, <2>5, <2>6, <2>7 DEF Parsed
<1>6. CASE line.field # "user-agent"
  <2>1. /\ m = n
        /\ new.starting <=> st.starting /\ ~(line.field \in RuleFields /\ n > 0)
        /\ \A k \in 1..n :
             /\ new.groups[k].agents = st.groups[k].agents
             /\ new.groups[k].rules = IF RuleLine(line) /\ k = n THEN Append(st.groups[k].rules, RuleOf(line))
                                      ELSE st.groups[k].rules
    BY <1>6 DEF Lined
  <2>2. ~UserAgent(lines, i + 1) /\ ~Opens(lines, i + 1)
    BY <1>6 DEF UserAgent, Opens
  <2>3. m = GroupOf(lines, i + 1)
    BY <1>1, <1>2, <2>1, <2>2
  <2>4. m = 0 => \A j \in 1..(i + 1) : ~UserAgent(lines, j)
    BY <1>1, <1>4, <2>1, <2>2
  <2>5. new.starting <=> InRun(lines, i + 1)
    <3>1. Ends(lines, i + 1) <=> line.field \in RuleFields
      BY DEF Ends
    <3>2. n = 0 => ~InRun(lines, i)
      BY <1>1 DEF InRun
    <3>3. n > 0 \/ n = 0
      BY <1>1
    <3> QED BY <1>1, <1>3, <2>1, <2>2, <3>1, <3>2, <3>3
  <2>6. \A g \in 1..m : /\ new.groups[g].agents = AgentsOf(lines, i + 1, g)
                        /\ Range(new.groups[g].rules) = RulesOf(lines, i + 1, g)
    <3> SUFFICES ASSUME NEW g \in 1..m
                 PROVE  /\ new.groups[g].agents = AgentsOf(lines, i + 1, g)
                        /\ Range(new.groups[g].rules) = RulesOf(lines, i + 1, g)
      OBVIOUS
    <3>0. /\ AgentsOf(lines, i + 1, g) = AgentsOf(lines, i, g)
               \cup (IF UserAgent(lines, i + 1) /\ GroupOf(lines, i + 1) = g THEN {lines[i + 1].value} ELSE {})
          /\ RulesOf(lines, i + 1, g) = RulesOf(lines, i, g)
               \cup (IF RuleLine(lines[i + 1]) /\ GroupOf(lines, i + 1) = g THEN {RuleOf(lines[i + 1])} ELSE {})
          /\ g > GroupOf(lines, i) => AgentsOf(lines, i, g) = {} /\ RulesOf(lines, i, g) = {}
      <4> HIDE DEF n, m, line
      <4> QED BY OfNext
    <3>1. /\ AgentsOf(lines, i + 1, g) = AgentsOf(lines, i, g)
          /\ RulesOf(lines, i + 1, g) = RulesOf(lines, i, g)
               \cup (IF RuleLine(line) /\ m = g THEN {RuleOf(line)} ELSE {})
      <4> HIDE DEF n, m
      <4> QED BY <2>2, <2>3, <3>0
    <3>2. g \in 1..n
      BY <2>1
    <3>3. RuleLine(line) => Range(Append(st.groups[g].rules, RuleOf(line)))
                            = Range(st.groups[g].rules) \cup {RuleOf(line)}
      <4>1. RuleLine(line) => RuleOf(line) \in Rule(C)
        BY PatternLengthNat DEF RuleOf, Rule
      <4> QED BY <1>1, <3>2, <4>1, RangeAppend
    <3> HIDE DEF n, m, line
    <3> QED BY <1>1, <2>1, <3>1, <3>2, <3>3
  <2> QED BY <2>3, <2>4, <2>5, <2>6 DEF Parsed
<1> QED BY <1>5, <1>6

\* The lines of a robots.txt over the characters C.
Robots(lines, C) ==
  /\ Len(lines) \in Nat
  /\ \A i \in 1..Len(lines) :
       lines[i].field \in {"user-agent", "allow", "disallow"} => lines[i].value \in Seq(C)

\* Parse picks from the runs of the lines.
LEMMA ParseIs ==
  ASSUME NEW C, NEW lines, Robots(lines, C), NEW product
  PROVE  \E D, st : /\ st \in Parsing(C, D) /\ Parsed(st, lines, Len(lines))
                    /\ Parse(lines, product) = IF selectGroup(st.groups, product) = {} THEN EmptyGroup
                                               ELSE CHOOSE g \in selectGroup(st.groups, product) : TRUE
<1> DEFINE D == {0} \cup {lines[i].value : i \in 1..Len(lines)}
           S == Parsing(C, D)
<1>a. \A n \in 1..Len(lines) : \A x \in S : OnLine(x, lines[n]) \in S /\ Lined(OnLine(x, lines[n]), x, lines[n])
  <2> SUFFICES ASSUME NEW n \in 1..Len(lines), NEW x \in S
               PROVE  OnLine(x, lines[n]) \in S /\ Lined(OnLine(x, lines[n]), x, lines[n])
    OBVIOUS
  <2>1. 0 \in D /\ lines[n].value \in D
    OBVIOUS
  <2>2. lines[n].field \in {"user-agent", "allow", "disallow"} => lines[n].value \in Seq(C)
    BY DEF Robots
  <2> HIDE DEF D
  <2> QED BY <2>1, <2>2, OnLineIs
<1> HIDE DEF D
<1> DEFINE L == Len(lines)
           first == [groups |-> <<>>, starting |-> FALSE]
           Rec(f) == f = [n \in 0..L |-> IF n = 0 THEN first ELSE OnLine(f[n - 1], lines[n])]
           step == [n \in 1..L |-> [x \in S |-> OnLine(x, lines[n])]]
<1>0. L \in Nat
  BY DEF Robots
<1>1. first \in S
  BY DEF Parsing
<1>2. Steps(step, L, S)
  <2>1. \A n \in 1..L : \A x \in S : OnLine(x, lines[n]) \in S
    BY <1>a
  <2> HIDE DEF L
  <2> QED BY <2>1 DEF Steps
<1>3. PICK c : Course(c, L, S, first, step)
  <2> HIDE DEF L, first, step
  <2> QED BY <1>0, <1>1, <1>2, Recursion
<1>4. Rec(c)
  <2> HIDE DEF first, L
  <2>1. c \in [0..L -> S] /\ c[0] = first /\ \A i \in 1..L : c[i] = step[i][c[i - 1]]
    BY <1>3 DEF Course
  <2>2. \A i \in 1..L : i - 1 \in 0..L /\ c[i - 1] \in S
    BY <1>0, <2>1
  <2>3. \A n \in 1..L : c[n] = OnLine(c[n - 1], lines[n])
    BY <2>1, <2>2
  <2>4. \A n \in 0..L : n # 0 => n \in 1..L
    BY <1>0
  <2> HIDE DEF step
  <2>5. c = [n \in 0..L |-> c[n]]
    BY <2>1
  <2>6. \A n \in 0..L : c[n] = IF n = 0 THEN first ELSE OnLine(c[n - 1], lines[n])
    BY <2>1, <2>3, <2>4
  <2> QED BY <2>5, <2>6
<1> DEFINE f == CHOOSE f : Rec(f)
<1>5. Rec(f)
  <2> HIDE DEF Rec
  <2> QED BY <1>4
<1>6. Parse(lines, product) = IF selectGroup(f[L].groups, product) = {} THEN EmptyGroup
                               ELSE CHOOSE g \in selectGroup(f[L].groups, product) : TRUE
  BY DEF Parse
<1> HIDE DEF f, first, L
<1>7. /\ f = [n \in 0..L |-> f[n]] /\ f[0] = first
      /\ \A n \in 1..L : f[n] = OnLine(f[n - 1], lines[n])
  <2>1. 0 \in 0..L /\ \A n \in 1..L : n \in 0..L /\ n # 0
    BY <1>0
  <2>2. \A n \in 0..L : f[n] = IF n = 0 THEN first ELSE OnLine(f[n - 1], lines[n])
    BY <1>5
  <2>3. DOMAIN f = 0..L
    BY <1>5
  <2>4. f = [n \in 0..L |-> f[n]]
    BY <1>5, <2>3
  <2> QED BY <2>1, <2>2, <2>4
<1>8. Course(f, L, S, first, step)
  <2>1. \A i \in 1..L : f[i - 1] \in S => f[i] = step[i][f[i - 1]]
    BY <1>7
  <2> HIDE DEF step
  <2> QED BY <1>0, <1>1, <1>2, <1>7, <2>1, CourseFits
<1>9. \A n \in 0..L : f[n] \in S
  BY <1>8 DEF Course
<1>b. L = Len(lines)
  BY DEF L
<1> DEFINE G == {n \in 0..L : Parsed(f[n], lines, n)}
<1>10. 0 \in G
  <2>1. f[0].starting = FALSE /\ f[0].groups = <<>> /\ Len(f[0].groups) = 0 /\ 1..0 = {}
    BY <1>7 DEF first
  <2>2. GroupOf(lines, 0) = 0
    BY GroupNext
  <2>3. ~InRun(lines, 0)
    BY <2>1 DEF InRun
  <2>4. Parsed(f[0], lines, 0)
    BY <2>1, <2>2, <2>3 DEF Parsed
  <2> QED BY <1>0, <2>4
<1>11. \A n \in 0..L : n \in G /\ n < L => n + 1 \in G
  <2> SUFFICES ASSUME NEW n \in 0..L, n \in G, n < L PROVE n + 1 \in G
    OBVIOUS
  <2>1. n + 1 \in 1..L /\ n + 1 \in 0..L /\ (n + 1) - 1 = n /\ n \in Nat /\ n + 1 \in 1..Len(lines)
    BY <1>0, <1>b
  <2>2. f[n + 1] = OnLine(f[n], lines[n + 1]) /\ f[n] \in S /\ f[n + 1] \in S
    BY <1>7, <1>9, <2>1
  <2>3. Lined(f[n + 1], f[n], lines[n + 1])
    BY <1>a, <2>1, <2>2
  <2>4. RuleLine(lines[n + 1]) => lines[n + 1].value \in Seq(C)
    BY <2>1 DEF Robots, RuleLine
  <2>5. Parsed(f[n], lines, n)
    OBVIOUS
  <2>6. Parsed(f[n + 1], lines, n + 1)
    BY <2>1, <2>2, <2>3, <2>4, <2>5, ParsedNext
  <2> QED BY <2>1, <2>6
<1>12. \A n \in 0..L : n \in G
  <2> HIDE DEF G
  <2> QED BY <1>0, <1>10, <1>11, Climb
<1>13. f[L] \in S /\ Parsed(f[L], lines, Len(lines))
  BY <1>0, <1>9, <1>12, <1>b
<1> QED BY <1>6, <1>13

\* Every User-agent line is in a group.
LEMMA AgentGroup ==
  ASSUME NEW lines, NEW n \in Nat, NEW j \in 1..n, UserAgent(lines, j)
  PROVE  GroupOf(lines, j) \in 1..GroupOf(lines, n)
<1> DEFINE U == {k \in 1..n : UserAgent(lines, k)}
<1>1. U \in SUBSET Nat /\ j \in U /\ j \in Nat /\ j <= n
  OBVIOUS
<1>2. PICK k \in U : \A y \in U : k <= y
  BY <1>1, LeastNat
<1>3. k \in Nat /\ k >= 1 /\ k <= j /\ UserAgent(lines, k)
  BY <1>1, <1>2
<1>4. ~InRun(lines, k - 1)
  <2>1. \A x \in 1..(k - 1) : x \notin U
    BY <1>2, <1>3
  <2>2. \A x \in 1..(k - 1) : x \in 1..n
    BY <1>2
  <2> QED BY <2>1, <2>2 DEF InRun
<1>5. Opens(lines, k) /\ k \in (0 + 1)..j
  BY <1>3, <1>4 DEF Opens
<1>6. /\ GroupOf(lines, 0) \in Nat /\ GroupOf(lines, j) \in Nat /\ GroupOf(lines, n) \in Nat
      /\ GroupOf(lines, 0) <= GroupOf(lines, j) /\ GroupOf(lines, j) <= GroupOf(lines, n)
      /\ GroupOf(lines, 0) # GroupOf(lines, j)
  BY <1>1, <1>5, GroupGrows
<1> QED BY <1>6

\* The lines that name the crawler, and those that name everyone.
Naming(lines, product) == {j \in 1..Len(lines) : /\ UserAgent(lines, j) /\ lines[j].value # <<Star>>
                                                 /\ IsPrefix(lines[j].value, product)}
Starred(lines) == {j \in 1..Len(lines) : UserAgent(lines, j) /\ lines[j].value = <<Star>>}

\* The groups' agents are those of their lines.
Grouped(groups, lines) ==
  /\ \A j \in 1..Len(lines) : UserAgent(lines, j) =>
       GroupOf(lines, j) \in 1..Len(groups) /\ lines[j].value \in groups[GroupOf(lines, j)].agents
  /\ \A g \in 1..Len(groups) : \A a \in groups[g].agents :
       \E j \in 1..Len(lines) : UserAgent(lines, j) /\ GroupOf(lines, j) = g /\ lines[j].value = a

LEMMA ParsedGrouped ==
  ASSUME NEW st, NEW lines, Len(lines) \in Nat, Parsed(st, lines, Len(lines))
  PROVE  Grouped(st.groups, lines)
<1> DEFINE n == Len(lines)
           gs == st.groups
<1>1. Len(gs) = GroupOf(lines, n) /\ \A g \in 1..Len(gs) : gs[g].agents = AgentsOf(lines, n, g)
  BY DEF Parsed
<1>2. \A j \in 1..n : UserAgent(lines, j) => GroupOf(lines, j) \in 1..Len(gs)
  BY <1>1, AgentGroup
<1>3. ASSUME NEW j \in 1..n, UserAgent(lines, j) PROVE lines[j].value \in gs[GroupOf(lines, j)].agents
  <2>1. lines[j].value \in AgentsOf(lines, n, GroupOf(lines, j))
    BY <1>3 DEF AgentsOf
  <2> QED BY <1>1, <1>2, <1>3, <2>1
<1>4. ASSUME NEW g \in 1..Len(gs), NEW a \in gs[g].agents
      PROVE  \E j \in 1..n : UserAgent(lines, j) /\ GroupOf(lines, j) = g /\ lines[j].value = a
  <2>1. a \in AgentsOf(lines, n, g)
    BY <1>1, <1>4
  <2> QED BY <2>1 DEF AgentsOf
<1> QED BY <1>2, <1>3, <1>4 DEF Grouped

LEMMA LineOrder ==
  ASSUME NEW lines, NEW n \in Nat, NEW i \in 1..n, NEW j \in 1..n, i <= j
  PROVE  GroupOf(lines, i) <= GroupOf(lines, j)
<1>1. i \in Nat /\ j \in Nat
  OBVIOUS
<1> QED BY <1>1, GroupGrows

\* The first of the deciding lines, and what the rules under it alone say.
FirstDecider(lines, product) ==
  IF Deciders(lines, product) = {} THEN {} ELSE {Min(Deciders(lines, product))}

FirstMeans(lines, product, path) ==
  LET ours == {i \in DOMAIN lines :
                 /\ lines[i].field \in {"allow", "disallow"}
                 /\ FirstDecider(lines, product) \cap RunOf(lines, i) # {}
                 /\ MeansMatch(lines[i].value, path)}
      top  == {i \in ours : \A j \in ours : patternLength(lines[j].value) <= patternLength(lines[i].value)}
  IN top = {} \/ \E i \in top : lines[i].field = "allow"

\* The deciding line: the longest name, the first of them.
LEMMA DeciderNames ==
  ASSUME NEW C, NEW lines, Robots(lines, C), DOMAIN lines = 1..Len(lines), NEW product, Len(product) \in Nat,
         Naming(lines, product) # {}
  PROVE  \E d \in Naming(lines, product) :
           /\ FirstDecider(lines, product) = {d}
           /\ Len(lines[d].value) \in Nat
           /\ \A j \in Naming(lines, product) :
                /\ Len(lines[j].value) \in Nat /\ Len(lines[j].value) <= Len(lines[d].value)
                /\ Len(lines[j].value) = Len(lines[d].value) => d <= j
<1> DEFINE n == Len(lines)
           H == Naming(lines, product)
           len(j) == Len(lines[j].value)
           W(j) == Weight(lines[j].value, product)
           fit == {j \in DOMAIN lines : lines[j].field = "user-agent" /\ Weight(lines[j].value, product) > -2}
           best == {j \in fit : \A k \in fit : Weight(lines[j].value, product) >= Weight(lines[k].value, product)}
<1>1. \A j \in H : j \in 1..n /\ UserAgent(lines, j) /\ lines[j].value # <<Star>> /\ IsPrefix(lines[j].value, product)
  BY DEF Naming
<1>2. \A j \in H : len(j) \in Nat /\ len(j) <= Len(product)
  <2> SUFFICES ASSUME NEW j \in H PROVE len(j) \in Nat /\ len(j) <= Len(product)
    OBVIOUS
  <2>1. lines[j].value \in Seq(C)
    BY <1>1 DEF Robots, UserAgent
  <2>2. len(j) <= Len(product)
    BY <1>1 DEF IsPrefix
  <2> QED BY <2>1, <2>2
<1>3. \A j \in H : W(j) = len(j) /\ j \in fit
  <2> SUFFICES ASSUME NEW j \in H PROVE W(j) = len(j) /\ j \in fit
    OBVIOUS
  <2>1. W(j) = len(j)
    BY <1>1 DEF Weight
  <2>2. W(j) > -2
    BY <1>2, <2>1
  <2> QED BY <1>1, <2>1, <2>2 DEF UserAgent
<1>4. \A j \in fit : j \notin H => W(j) = -1
  <2> SUFFICES ASSUME NEW j \in fit, j \notin H PROVE W(j) = -1
    OBVIOUS
  <2>1. j \in 1..n /\ UserAgent(lines, j) /\ W(j) > -2
    BY DEF UserAgent
  <2>2. CASE lines[j].value = <<Star>>
    BY <2>2 DEF Weight
  <2>3. CASE lines[j].value # <<Star>>
    <3>1. ~IsPrefix(lines[j].value, product)
      BY <2>1, <2>3 DEF Naming
    <3>2. W(j) = -2
      BY <2>3, <3>1 DEF Weight
    <3> QED BY <2>1, <3>2
  <2> QED BY <2>2, <2>3
<1> DEFINE T == {len(j) : j \in H}
<1>5. T \in SUBSET (0..Len(product)) /\ T # {}
  <2> DEFINE b == Len(product)
  <2>1. b \in Nat /\ H # {}
    OBVIOUS
  <2> HIDE DEF len, H, b
  <2>2. \A j \in H : len(j) \in Nat /\ len(j) <= b
    BY <1>2 DEF b
  <2>3. \A j \in H : len(j) \in 0..b
    BY <2>1, <2>2
  <2> QED BY <2>1, <2>3 DEF b
<1>6. PICK w \in T : \A y \in T : y <= w
  BY <1>5, GreatestNat
<1>7. w \in Nat /\ \A j \in H : len(j) <= w
  BY <1>5, <1>6
<1> DEFINE B == {j \in H : len(j) = w}
<1>8. B # {}
  BY <1>6
<1>9. B = best
  <2>1. ASSUME NEW j \in B PROVE j \in best
    <3>1. j \in fit /\ W(j) = w /\ j \in H
      BY <1>3
    <3>2. ASSUME NEW k \in fit PROVE W(j) >= W(k)
      <4>1. CASE k \in H
        <5>1. W(k) = len(k) /\ len(k) <= w
          BY <1>3, <1>7, <4>1
        <5> QED BY <1>2, <1>7, <3>1, <4>1, <5>1
      <4>2. CASE k \notin H
        <5>1. W(k) = -1
          BY <1>4, <4>2, <3>2
        <5> QED BY <1>7, <3>1, <5>1
      <4> QED BY <4>1, <4>2
    <3> QED BY <3>1, <3>2
  <2>2. ASSUME NEW j \in best PROVE j \in B
    <3>1. PICK k \in B : TRUE
      BY <1>8
    <3>2. k \in fit /\ W(k) = w /\ k \in H
      BY <1>3
    <3>3. W(j) >= w /\ j \in fit
      BY <3>2
    <3>4. j \in H
      BY <1>4, <1>7, <3>3
    <3>5. W(j) = len(j) /\ len(j) <= w /\ len(j) \in Nat
      BY <1>2, <1>3, <1>7, <3>4
    <3> QED BY <1>7, <3>3, <3>4, <3>5
  <2> QED BY <2>1, <2>2
<1>10. B \in SUBSET Nat
  BY <1>1
<1>11. PICK d \in B : \A y \in B : d <= y
  BY <1>8, <1>10, LeastNat
<1>12. FirstDecider(lines, product) = {d}
  <2>1. FirstDecider(lines, product) = IF best = {} THEN {} ELSE {Min(best)}
    BY DEF FirstDecider, Deciders
  <2>2. Min(B) = d
    <3> HIDE DEF B
    <3> QED BY <1>10, <1>11, MinIs
  <2> QED BY <1>8, <1>9, <2>1, <2>2
<1>13. d \in H /\ len(d) = w
  BY <1>11
<1>14. \A j \in H : len(j) = w => d <= j
  BY <1>11
<1> QED BY <1>2, <1>7, <1>12, <1>13, <1>14

\* The deciding line when nobody names the crawler.
LEMMA DeciderStars ==
  ASSUME NEW lines, Len(lines) \in Nat, DOMAIN lines = 1..Len(lines), NEW product, Naming(lines, product) = {}
  PROVE  /\ Starred(lines) = {} => FirstDecider(lines, product) = {}
         /\ Starred(lines) # {} => \E d \in Starred(lines) : /\ FirstDecider(lines, product) = {d}
                                                            /\ \A j \in Starred(lines) : d <= j
<1> DEFINE S == Starred(lines)
           W(j) == Weight(lines[j].value, product)
           fit == {j \in DOMAIN lines : lines[j].field = "user-agent" /\ Weight(lines[j].value, product) > -2}
           best == {j \in fit : \A k \in fit : Weight(lines[j].value, product) >= Weight(lines[k].value, product)}
<1>1. \A j \in S : W(j) = -1 /\ j \in 1..Len(lines) /\ UserAgent(lines, j)
  BY DEF Starred, Weight
<1>2. \A j \in 1..Len(lines) : UserAgent(lines, j) /\ j \notin S => W(j) = -2
  <2> SUFFICES ASSUME NEW j \in 1..Len(lines), UserAgent(lines, j), j \notin S PROVE W(j) = -2
    OBVIOUS
  <2>1. lines[j].value # <<Star>>
    BY DEF Starred
  <2>2. ~IsPrefix(lines[j].value, product)
    BY <2>1 DEF Naming
  <2> QED BY <2>1, <2>2 DEF Weight
<1>3. fit = S
  BY <1>1, <1>2 DEF UserAgent
<1>4. best = S
  BY <1>1, <1>3
<1>5. FirstDecider(lines, product) = IF best = {} THEN {} ELSE {Min(best)}
  BY DEF FirstDecider, Deciders
<1>6. S \in SUBSET Nat
  BY <1>1
<1> HIDE DEF S, best
<1>7. ASSUME S # {} PROVE \E d \in S : FirstDecider(lines, product) = {d} /\ \A j \in S : d <= j
  <2>1. PICK d \in S : \A y \in S : d <= y
    BY <1>6, <1>7, LeastNat
  <2>2. Min(S) = d
    BY <1>6, <2>1, MinIs
  <2> QED BY <1>4, <1>5, <1>7, <2>1, <2>2
<1>8. S = {} => FirstDecider(lines, product) = {}
  BY <1>4, <1>5
<1> QED BY <1>7, <1>8 DEF S

\* selectGroup takes the group of the deciding line.
Selected(sel, groups, lines, product) ==
  \/ FirstDecider(lines, product) = {} /\ sel = {}
  \/ \E d \in 1..Len(lines) :
       /\ FirstDecider(lines, product) = {d} /\ UserAgent(lines, d)
       /\ GroupOf(lines, d) \in 1..Len(groups) /\ sel = {groups[GroupOf(lines, d)]}

LEMMA SelectNamed ==
  ASSUME NEW C, NEW lines, Robots(lines, C), DOMAIN lines = 1..Len(lines), NEW product, Len(product) \in Nat,
         NEW groups, Len(groups) \in Nat, DOMAIN groups = 1..Len(groups), Grouped(groups, lines),
         Naming(lines, product) # {}
  PROVE  Selected(selectGroup(groups, product), groups, lines, product)
<1> DEFINE H == Naming(lines, product)
           len(j) == Len(lines[j].value)
           G(j) == GroupOf(lines, j)
<1>0. Len(lines) \in Nat
  BY DEF Robots
<1>1. PICK d \in H : /\ FirstDecider(lines, product) = {d} /\ len(d) \in Nat
                     /\ \A j \in H : len(j) \in Nat /\ len(j) <= len(d) /\ (len(j) = len(d) => d <= j)
  BY DeciderNames
<1>2. \A j \in H : j \in 1..Len(lines) /\ UserAgent(lines, j) /\ lines[j].value # <<Star>> /\ IsPrefix(lines[j].value, product)
  BY DEF Naming
<1> DEFINE Fit(g) == {a \in g.agents : a # <<Star>> /\ IsPrefix(a, product)}
           named == {i \in DOMAIN groups : Fit(groups[i]) # {}}
           Best(i) == Max({Len(a) : a \in Fit(groups[i])})
           top == {i \in named : \A j \in named : Best(j) <= Best(i)}
           w == len(d)
<1>3. \A i \in 1..Len(groups) : \A a \in Fit(groups[i]) : \E j \in H : G(j) = i /\ lines[j].value = a
  <2> SUFFICES ASSUME NEW i \in 1..Len(groups), NEW a \in Fit(groups[i]) PROVE \E j \in H : G(j) = i /\ lines[j].value = a
    OBVIOUS
  <2>1. PICK j \in 1..Len(lines) : UserAgent(lines, j) /\ GroupOf(lines, j) = i /\ lines[j].value = a
    BY DEF Grouped
  <2>2. j \in H
    BY <2>1 DEF Naming
  <2> QED BY <2>1, <2>2
<1>4. \A j \in H : G(j) \in 1..Len(groups) /\ lines[j].value \in Fit(groups[G(j)])
  BY <1>2 DEF Grouped
<1> HIDE DEF Fit, G, H
<1>5. \A i \in named : /\ i \in 1..Len(groups) /\ Best(i) \in Nat /\ Best(i) <= w
                       /\ \E j \in H : G(j) = i /\ len(j) = Best(i)
  <2> SUFFICES ASSUME NEW i \in named
               PROVE  /\ i \in 1..Len(groups) /\ Best(i) \in Nat /\ Best(i) <= w
                      /\ \E j \in H : G(j) = i /\ len(j) = Best(i)
    OBVIOUS
  <2> DEFINE T == {Len(a) : a \in Fit(groups[i])}
  <2>1. i \in 1..Len(groups) /\ T # {}
    OBVIOUS
  <2>2. \A t \in T : \E j \in H : G(j) = i /\ len(j) = t
    BY <1>3, <2>1
  <2>3. \A t \in T : t \in Nat /\ t <= w
    BY <1>1, <2>2
  <2>4. T \in SUBSET (0..w)
    BY <1>1, <2>3
  <2> HIDE DEF T, w
  <2>5. PICK m \in T : \A y \in T : y <= m
    BY <1>1, <2>1, <2>4, GreatestNat DEF w
  <2>6. Max(T) = m
    <3>1. T \in SUBSET Nat
      BY <2>3
    <3> QED BY <2>5, <3>1, MaxIs
  <2>7. Best(i) = m
    BY <2>6 DEF T
  <2> HIDE DEF Best
  <2> QED BY <2>1, <2>2, <2>3, <2>5, <2>7
<1>6. G(d) \in named /\ Best(G(d)) = w
  <2>1. G(d) \in named /\ lines[d].value \in Fit(groups[G(d)])
    BY <1>4
  <2> DEFINE T == {Len(a) : a \in Fit(groups[G(d)])}
  <2>2. w \in T
    BY <2>1
  <2>3. \A t \in T : t \in Nat /\ t <= w
    BY <1>1, <1>3, <1>4
  <2>4. T \in SUBSET Nat
    BY <2>3
  <2> HIDE DEF T, w
  <2>5. Max(T) = w
    BY <2>2, <2>3, <2>4, MaxIs
  <2> QED BY <2>1, <2>5 DEF T
<1>7. G(d) \in top
  BY <1>5, <1>6
<1>8. \A i \in top : i \in Nat /\ G(d) <= i
  <2> SUFFICES ASSUME NEW i \in top PROVE i \in Nat /\ G(d) <= i
    OBVIOUS
  <2>1. i \in named /\ Best(G(d)) <= Best(i)
    BY <1>6
  <2> HIDE DEF named, Best
  <2>2. i \in Nat /\ Best(i) = w
    BY <1>1, <1>5, <1>6, <2>1
  <2>3. PICK j \in H : G(j) = i /\ len(j) = w
    BY <1>5, <2>1, <2>2
  <2>4. d <= j /\ d \in 1..Len(lines) /\ j \in 1..Len(lines)
    BY <1>1, <1>2, <2>3
  <2>5. G(d) <= G(j)
    BY <1>0, <2>4, LineOrder DEF G
  <2> QED BY <2>2, <2>3, <2>5
<1>9. Min(top) = G(d)
  <2>1. top \in SUBSET Nat
    BY <1>8
  <2> HIDE DEF top
  <2> QED BY <1>7, <1>8, <2>1, MinIs
<1>10. selectGroup(groups, product) = {groups[Min(top)]}
  <2>1. named # {}
    BY <1>6
  <2> QED BY <2>1 DEF selectGroup, Fit
<1>11. G(d) \in 1..Len(groups)
  BY <1>4
<1> QED BY <1>1, <1>2, <1>9, <1>10, <1>11 DEF Selected, G

LEMMA SelectStars ==
  ASSUME NEW lines, Len(lines) \in Nat, DOMAIN lines = 1..Len(lines), NEW product,
         NEW groups, Len(groups) \in Nat, DOMAIN groups = 1..Len(groups), Grouped(groups, lines),
         Naming(lines, product) = {}
  PROVE  Selected(selectGroup(groups, product), groups, lines, product)
<1> DEFINE G(j) == GroupOf(lines, j)
           Fit(g) == {a \in g.agents : a # <<Star>> /\ IsPrefix(a, product)}
           named == {i \in DOMAIN groups : Fit(groups[i]) # {}}
           stars == {i \in DOMAIN groups : <<Star>> \in groups[i].agents}
           low == {k \in stars : \A j \in stars : k <= j}
<1>1. named = {}
  <2> SUFFICES ASSUME NEW i \in 1..Len(groups), NEW a \in Fit(groups[i]) PROVE FALSE
    OBVIOUS
  <2>1. PICK j \in 1..Len(lines) : UserAgent(lines, j) /\ GroupOf(lines, j) = i /\ lines[j].value = a
    BY DEF Grouped
  <2>2. j \in Naming(lines, product)
    BY <2>1 DEF Naming
  <2> QED BY <2>2
<1>2. selectGroup(groups, product) = {groups[i] : i \in low}
  BY <1>1 DEF selectGroup
<1>3. \A i \in stars : \E j \in Starred(lines) : G(j) = i
  <2> SUFFICES ASSUME NEW i \in stars PROVE \E j \in Starred(lines) : G(j) = i
    OBVIOUS
  <2>1. PICK j \in 1..Len(lines) : UserAgent(lines, j) /\ GroupOf(lines, j) = i /\ lines[j].value = <<Star>>
    BY DEF Grouped
  <2> QED BY <2>1 DEF Starred
<1>4. \A j \in Starred(lines) : G(j) \in stars /\ UserAgent(lines, j) /\ j \in 1..Len(lines)
  BY DEF Starred, Grouped
<1>5. CASE Starred(lines) = {}
  <2>1. low = {}
    BY <1>3, <1>5
  <2>2. FirstDecider(lines, product) = {}
    BY <1>5, DeciderStars
  <2> QED BY <1>2, <2>1, <2>2 DEF Selected
<1>6. CASE Starred(lines) # {}
  <2>1. PICK d \in Starred(lines) : FirstDecider(lines, product) = {d} /\ \A j \in Starred(lines) : d <= j
    BY <1>6, DeciderStars
  <2>2. \A i \in stars : i \in Nat /\ G(d) <= i
    <3> SUFFICES ASSUME NEW i \in stars PROVE i \in Nat /\ G(d) <= i
      OBVIOUS
    <3>1. i \in Nat
      OBVIOUS
    <3>2. PICK j \in Starred(lines) : G(j) = i
      BY <1>3
    <3>3. d <= j /\ d \in 1..Len(lines) /\ j \in 1..Len(lines)
      BY <1>4, <2>1, <3>2
    <3>4. G(d) <= G(j)
      BY <3>3, LineOrder
    <3> QED BY <3>1, <3>2, <3>4
  <2>3. G(d) \in stars /\ G(d) \in 1..Len(groups)
    BY <1>4
  <2>4. low = {G(d)}
    <3> HIDE DEF stars, G
    <3> QED BY <2>2, <2>3
  <2>5. selectGroup(groups, product) = {groups[G(d)]}
    BY <1>2, <2>4
  <2> QED BY <1>4, <2>1, <2>3, <2>5 DEF Selected
<1> QED BY <1>5, <1>6

\* Without a lone "$" rule the parsed group decides as the lines of the first
\* group do.
LEMMA FirstAgree ==
  ASSUME NEW C, NEW lines, Robots(lines, C), DOMAIN lines = 1..Len(lines), NEW product, Len(product) \in Nat,
         NEW path \in Seq(C), \A i \in 1..Len(lines) : ~LoneDollar(lines[i])
  PROVE  Allowed(Parse(lines, product), path) <=> FirstMeans(lines, product, path)
<1> DEFINE n == Len(lines)
           plen(i) == patternLength(lines[i].value)
           ours == {i \in DOMAIN lines : /\ lines[i].field \in {"allow", "disallow"}
                                         /\ FirstDecider(lines, product) \cap RunOf(lines, i) # {}
                                         /\ MeansMatch(lines[i].value, path)}
           top == {i \in ours : \A j \in ours : patternLength(lines[j].value) <= patternLength(lines[i].value)}
<1>0. n \in Nat
  BY DEF Robots
<1>1. PICK D, st : /\ st \in Parsing(C, D) /\ Parsed(st, lines, Len(lines))
                   /\ Parse(lines, product) = IF selectGroup(st.groups, product) = {} THEN EmptyGroup
                                              ELSE CHOOSE g \in selectGroup(st.groups, product) : TRUE
  BY ParseIs
<1> DEFINE groups == st.groups
           group == Parse(lines, product)
           rules == group.rules
<1>2. /\ groups \in Seq(Group(C, D)) /\ Len(groups) \in Nat /\ DOMAIN groups = 1..Len(groups)
      /\ \A g \in 1..Len(groups) : groups[g] \in Group(C, D)
  <2>1. groups \in Seq(Group(C, D))
    BY <1>1 DEF Parsing
  <2> QED BY <2>1
<1>3. Grouped(groups, lines)
  BY <1>0, <1>1, ParsedGrouped
<1>4. Selected(selectGroup(groups, product), groups, lines, product)
  <2> HIDE DEF groups
  <2>1. CASE Naming(lines, product) = {}
    BY <1>0, <1>2, <1>3, <2>1, SelectStars
  <2>2. CASE Naming(lines, product) # {}
    BY <1>2, <1>3, <2>2, SelectNamed
  <2> QED BY <2>1, <2>2
<1>5. FirstMeans(lines, product, path) <=> (top = {} \/ \E i \in top : lines[i].field = "allow")
  BY DEF FirstMeans
<1>6. \A i \in 1..n : RuleLine(lines[i]) => /\ lines[i].value \in Seq(C) /\ plen(i) \in Nat
                                            /\ match(lines[i].value, path) <=> MeansMatch(lines[i].value, path)
  <2> SUFFICES ASSUME NEW i \in 1..n, RuleLine(lines[i])
               PROVE  /\ lines[i].value \in Seq(C) /\ plen(i) \in Nat
                      /\ match(lines[i].value, path) <=> MeansMatch(lines[i].value, path)
    OBVIOUS
  <2>1. lines[i].value \in Seq(C)
    BY DEF Robots, RuleLine
  <2>2. lines[i].value # <<Dollar>>
    BY DEF LoneDollar, RuleLine
  <2> DEFINE p == lines[i].value
  <2> HIDE DEF p
  <2>3. p \in Seq(C) /\ p # <<Dollar>>
    BY <2>1, <2>2 DEF p
  <2>4. patternLength(p) \in Nat /\ (match(p, path) <=> MeansMatch(p, path))
    BY <2>3, PatternLengthNat, MatchMeans
  <2> QED BY <2>1, <2>4 DEF p
<1>7. CASE FirstDecider(lines, product) = {}
  <2>1. top = {}
    BY <1>7
  <2>2. group = EmptyGroup
    BY <1>1, <1>4, <1>7 DEF Selected
  <2>3. EmptyGroup.rules = <<>> /\ EmptyGroup.rules \in Seq(Rule(C)) /\ Range(EmptyGroup.rules) = {}
    BY DEF EmptyGroup, Range
  <2>4. Settles(Allowed(EmptyGroup, path), {r \in Range(EmptyGroup.rules) : match(r.pattern, path)})
    BY <2>3, AllowedSettles
  <2>5. {r \in Range(EmptyGroup.rules) : match(r.pattern, path)} = {}
    BY <2>3
  <2> HIDE DEF top
  <2>6. Allowed(EmptyGroup, path)
    BY <2>4, <2>5 DEF Settles
  <2> QED BY <1>5, <2>1, <2>2, <2>6
<1>8. ASSUME NEW d \in 1..n, FirstDecider(lines, product) = {d}, UserAgent(lines, d),
             GroupOf(lines, d) \in 1..Len(groups), selectGroup(groups, product) = {groups[GroupOf(lines, d)]}
      PROVE  Allowed(group, path) <=> FirstMeans(lines, product, path)
  <2> DEFINE g == GroupOf(lines, d)
             mine == {i \in 1..n : RuleLine(lines[i]) /\ GroupOf(lines, i) = g}
             H == {r \in Range(rules) : match(r.pattern, path)}
  <2>1. group = groups[g] /\ rules \in Seq(Rule(C))
    <3>1. group = groups[g]
      BY <1>1, <1>8
    <3>2. groups[g] \in Group(C, D)
      BY <1>2, <1>8
    <3> QED BY <3>1, <3>2 DEF Group
  <2>2. Range(rules) = {RuleOf(lines[i]) : i \in mine}
    <3>1. Range(groups[g].rules) = RulesOf(lines, n, g)
      BY <1>1, <1>8 DEF Parsed
    <3> QED BY <2>1, <3>1 DEF RulesOf
  <2>3. \A i \in 1..n : RuleLine(lines[i]) => (FirstDecider(lines, product) \cap RunOf(lines, i) # {} <=> GroupOf(lines, i) = g)
    <3> SUFFICES ASSUME NEW i \in 1..n, RuleLine(lines[i])
                 PROVE  {d} \cap RunOf(lines, i) # {} <=> GroupOf(lines, i) = g
      BY <1>8
    <3>1. Ends(lines, i)
      BY DEF RuleLine, Ends, RuleFields
    <3>2. d \in RunOf(lines, i) <=> GroupOf(lines, d) = GroupOf(lines, i)
      BY <1>0, <1>8, <3>1, RunIsGroup
    <3> QED BY <3>2
  <2>4. ours = {i \in mine : match(lines[i].value, path)}
    BY <1>6, <2>3 DEF RuleLine
  <2> HIDE DEF mine, ours
  <2>5. \A i \in mine : /\ i \in 1..n /\ RuleLine(lines[i])
                        /\ RuleOf(lines[i]).pattern = lines[i].value /\ RuleOf(lines[i]).length = plen(i)
                        /\ RuleOf(lines[i]).allow <=> lines[i].field = "allow"
    BY DEF mine, RuleOf
  <2>6. H = {RuleOf(lines[i]) : i \in ours}
    BY <2>2, <2>4, <2>5
  <2>7. Settles(Allowed(group, path), H)
    BY <2>1, AllowedSettles
  <2>8. \A i \in ours : /\ i \in mine /\ plen(i) \in Nat /\ RuleOf(lines[i]).length = plen(i)
                        /\ RuleOf(lines[i]).allow <=> lines[i].field = "allow"
    BY <1>6, <2>4, <2>5
  <2>9. \A i \in ours : (\A s \in H : s.length <= RuleOf(lines[i]).length) <=> i \in top
    BY <2>6, <2>8
  <2>10. H = {} <=> top = {}
    <3>1. ASSUME H # {} PROVE top # {}
      <4>1. PICK r \in H : \A s \in H : s.length <= r.length
        BY <2>7, <3>1 DEF Settles
      <4>2. PICK i \in ours : r = RuleOf(lines[i])
        BY <2>6, <4>1
      <4>3. i \in top
        BY <2>9, <4>1, <4>2
      <4> QED BY <4>3
    <3>2. ASSUME top # {} PROVE H # {}
      BY <2>6, <3>2
    <3> QED BY <3>1, <3>2
  <2>11. (\E r \in H : r.allow /\ \A s \in H : s.length <= r.length) <=> \E i \in top : lines[i].field = "allow"
    <3>1. ASSUME NEW r \in H, r.allow, \A s \in H : s.length <= r.length PROVE \E i \in top : lines[i].field = "allow"
      <4>1. PICK i \in ours : r = RuleOf(lines[i])
        BY <2>6
      <4> QED BY <2>8, <2>9, <3>1, <4>1
    <3>2. ASSUME NEW i \in top, lines[i].field = "allow" PROVE \E r \in H : r.allow /\ \A s \in H : s.length <= r.length
      <4>1. i \in ours /\ RuleOf(lines[i]) \in H
        BY <2>6
      <4>2. RuleOf(lines[i]).allow /\ \A s \in H : s.length <= RuleOf(lines[i]).length
        BY <2>8, <2>9, <3>2, <4>1
      <4> QED BY <4>1, <4>2
    <3> QED BY <3>1, <3>2
  <2> HIDE DEF H, top
  <2> QED BY <1>5, <2>7, <2>10, <2>11 DEF Settles
<1>9. CASE FirstDecider(lines, product) # {}
  <2>1. PICK d \in 1..n : /\ FirstDecider(lines, product) = {d} /\ UserAgent(lines, d)
                          /\ GroupOf(lines, d) \in 1..Len(groups)
                          /\ selectGroup(groups, product) = {groups[GroupOf(lines, d)]}
    BY <1>4, <1>9 DEF Selected
  <2> QED BY <1>8, <2>1
<1> QED BY <1>7, <1>9

\* When the deciding lines stand over one group, a rule under any of them is
\* under the first.
LEMMA OneGroupFirst ==
  ASSUME NEW lines, Len(lines) \in Nat, DOMAIN lines = 1..Len(lines), NEW product, OneGroup(lines, product)
  PROVE  \A i \in DOMAIN lines : Deciders(lines, product) \cap RunOf(lines, i) # {}
                                <=> FirstDecider(lines, product) \cap RunOf(lines, i) # {}
<1>1. PICK D : D = Deciders(lines, product)
  OBVIOUS
<1>2. PICK n \in Nat : n = Len(lines) /\ DOMAIN lines = 1..n
  OBVIOUS
<1>3. D \subseteq 1..n /\ \A d \in D : lines[d].field = "user-agent"
  BY <1>1, <1>2 DEF Deciders
<1>4. CASE D = {}
  <2>1. FirstDecider(lines, product) = {}
    BY <1>1, <1>4 DEF FirstDecider
  <2> QED BY <1>1, <1>4, <2>1
<1>5. CASE D # {}
  <2>1. D \in SUBSET Nat
    BY <1>3
  <2>2. PICK f \in D : \A d \in D : f <= d
    BY <1>5, <2>1, LeastNat
  <2>3. Min(D) = f
    BY <2>1, <2>2, MinIs
  <2>4. FirstDecider(lines, product) = {f}
    BY <1>1, <1>5, <2>3 DEF FirstDecider
  <2>5. ASSUME NEW i \in 1..n, NEW d \in D, d \in RunOf(lines, i) PROVE f \in RunOf(lines, i)
    <3>1. f \in Nat /\ d \in Nat /\ f \in 1..n /\ d \in 1..n /\ f <= d /\ d \in 1..(i - 1)
      BY <1>3, <2>2, <2>5 DEF RunOf
    <3>2. ASSUME NEW k \in (f + 1)..(i - 1), lines[k].field = "user-agent", NEW e \in (f + 1)..(k - 1)
          PROVE  ~Ends(lines, e)
      <4>1. CASE e < d
        <5>1. e \in (f + 1)..(d - 1)
          BY <3>1, <4>1
        <5> QED BY <1>1, <2>2, <5>1 DEF OneGroup
      <4>2. CASE e = d
        BY <1>3, <4>2 DEF Ends, RuleFields
      <4>3. CASE e > d
        <5>1. k \in (d + 1)..(i - 1) /\ e \in (d + 1)..(k - 1)
          BY <3>1, <4>3
        <5> QED BY <2>5, <3>2, <5>1 DEF RunOf
      <4>4. e \in Int /\ d \in Int
        BY <3>1
      <4> QED BY <4>1, <4>2, <4>3, <4>4
    <3>3. f \in 1..(i - 1)
      BY <3>1
    <3>4. lines[f].field = "user-agent"
      BY <1>3, <2>2
    <3> QED BY <3>2, <3>3, <3>4 DEF RunOf
  <2> QED BY <1>1, <1>2, <2>2, <2>4, <2>5
<1> QED BY <1>4, <1>5

\* Then the parsed group decides as all of the lines do.
LEMMA RobotsAgree ==
  ASSUME NEW C, NEW lines, Robots(lines, C), DOMAIN lines = 1..Len(lines), NEW product, Len(product) \in Nat,
         NEW path \in Seq(C), \A i \in 1..Len(lines) : ~LoneDollar(lines[i]), OneGroup(lines, product)
  PROVE  Allowed(Parse(lines, product), path) <=> MeansAllowed(lines, product, path)
<1>1. Allowed(Parse(lines, product), path) <=> FirstMeans(lines, product, path)
  BY FirstAgree
<1>2. Len(lines) \in Nat
  BY DEF Robots
<1>3. \A i \in DOMAIN lines : Deciders(lines, product) \cap RunOf(lines, i) # {}
                             <=> FirstDecider(lines, product) \cap RunOf(lines, i) # {}
  BY <1>2, OneGroupFirst
<1>4. {i \in DOMAIN lines : /\ lines[i].field \in {"allow", "disallow"}
                            /\ Deciders(lines, product) \cap RunOf(lines, i) # {}
                            /\ MeansMatch(lines[i].value, path)}
      = {i \in DOMAIN lines : /\ lines[i].field \in {"allow", "disallow"}
                              /\ FirstDecider(lines, product) \cap RunOf(lines, i) # {}
                              /\ MeansMatch(lines[i].value, path)}
  BY <1>3
<1>5. FirstMeans(lines, product, path) <=> MeansAllowed(lines, product, path)
  BY <1>4 DEF FirstMeans, MeansAllowed
<1> QED BY <1>1, <1>5

RobotsInv == call \in Calls /\ RobotsMeaning

\* What the calls are, over the characters C.
LEMMA CallsTyped ==
  ASSUME NEW c \in Calls
  PROVE  \E C : /\ Product \in Seq(C)
                /\ c.kind = "match" => c.pattern \in Seq(C) /\ c.path \in Seq(C)
                /\ c.kind = "robots" => c.path \in Seq(C) /\ Robots(c.lines, C) /\ DOMAIN c.lines = 1..Len(c.lines)
<1>1. /\ Product \in Seq(STRING)
      /\ c.kind = "match" => c.pattern \in Seq(STRING) /\ c.path \in Seq(STRING)
      /\ c.kind = "robots" =>
            /\ c.path \in Seq(STRING) /\ c.lines = [i \in 1..Len(c.lines) |-> c.lines[i]] /\ Len(c.lines) \in Nat
            /\ \A i \in DOMAIN c.lines : c.lines[i].field # "crawl-delay" => c.lines[i].value \in Seq(STRING)
  BY RulesAssumption
<1>2. PICK C : C = STRING
  OBVIOUS
<1>3. /\ Product \in Seq(C)
      /\ c.kind = "match" => c.pattern \in Seq(C) /\ c.path \in Seq(C)
      /\ c.kind = "robots" =>
            /\ c.path \in Seq(C) /\ c.lines = [i \in 1..Len(c.lines) |-> c.lines[i]] /\ Len(c.lines) \in Nat
            /\ \A i \in DOMAIN c.lines : c.lines[i].field # "crawl-delay" => c.lines[i].value \in Seq(C)
  BY <1>1, <1>2, Zenon
<1>4. ASSUME c.kind = "robots" PROVE Robots(c.lines, C) /\ DOMAIN c.lines = 1..Len(c.lines)
  <2>1. DOMAIN c.lines = 1..Len(c.lines)
    BY <1>3, <1>4
  <2>2. ASSUME NEW i \in 1..Len(c.lines), c.lines[i].field \in {"user-agent", "allow", "disallow"}
        PROVE  c.lines[i].value \in Seq(C)
    <3>1. c.lines[i].field # "crawl-delay"
      BY <2>2
    <3> QED BY <1>3, <1>4, <2>1, <3>1
  <2> QED BY <1>3, <1>4, <2>1, <2>2 DEF Robots
<1> QED BY <1>3, <1>4

\* For any product token and any calls (robots.go:199 match, :245 Allowed,
\* Parse): the scan decides as the patterns mean, and the parser as RFC 9309
\* reads the lines when the deciding agent heads one group.
THEOREM RobotsHold == RulesSpec => []RobotsMeaning
<1>1. RulesInit => RobotsInv
  BY DEF RulesInit, RobotsInv, RobotsMeaning
<1>2. RobotsInv /\ [RulesNext]_ruleVars => RobotsInv'
  <2> SUFFICES ASSUME RobotsInv, [RulesNext]_ruleVars PROVE RobotsInv'
    OBVIOUS
  <2>1. call \in Calls
    BY DEF RobotsInv
  <2>2. PICK C : /\ Product \in Seq(C)
                 /\ call.kind = "match" => call.pattern \in Seq(C) /\ call.path \in Seq(C)
                 /\ call.kind = "robots" => /\ call.path \in Seq(C) /\ Robots(call.lines, C)
                                            /\ DOMAIN call.lines = 1..Len(call.lines)
    BY <2>1, CallsTyped
  <2>3. CASE UNCHANGED ruleVars
    BY <2>3 DEF RobotsInv, RobotsMeaning, ruleVars
  <2>4. CASE RulesNext /\ MatchPath
    <3>1. call' = call /\ call.kind = "match" /\ answer' = {match(call.pattern, call.path)}
      BY <2>4 DEF RulesNext, MatchPath
    <3>2. call.pattern # <<Dollar>> => (match(call.pattern, call.path) <=> MeansMatch(call.pattern, call.path))
      BY <2>2, <3>1, MatchMeans
    <3> QED BY <2>1, <3>1, <3>2 DEF RobotsInv, RobotsMeaning
  <2>5. CASE RulesNext /\ ParseRobots
    <3>1. call' = call /\ call.kind = "robots" /\ answer' = {Allowed(Parse(call.lines, Product), call.path)}
      BY <2>5 DEF RulesNext, ParseRobots
    <3>2. Len(Product) \in Nat
      BY <2>2
    <3>3. ASSUME ~(\E i \in DOMAIN call.lines : LoneDollar(call.lines[i])), OneGroup(call.lines, Product)
          PROVE  Allowed(Parse(call.lines, Product), call.path) <=> MeansAllowed(call.lines, Product, call.path)
      <4>1. \A i \in 1..Len(call.lines) : ~LoneDollar(call.lines[i])
        BY <2>2, <3>1, <3>3
      <4> QED BY <2>2, <3>1, <3>2, <3>3, <4>1, RobotsAgree
    <3> QED BY <2>1, <3>1, <3>3 DEF RobotsInv, RobotsMeaning
  <2>6. CASE RulesNext /\ (CanonPair \/ ShipBatch)
    <3>1. call' = call /\ call.kind # "match" /\ call.kind # "robots"
      BY <2>6 DEF RulesNext, CanonPair, ShipBatch
    <3> QED BY <2>1, <3>1 DEF RobotsInv, RobotsMeaning
  <2> QED BY <2>3, <2>4, <2>5, <2>6 DEF RulesNext
<1>3. RobotsInv => RobotsMeaning
  BY DEF RobotsInv
<1> QED BY <1>1, <1>2, <1>3, PTL DEF RulesSpec
=============================================================================
