---------------------------- MODULE FormatProofs ----------------------------
(***************************************************************************)
(* The formats, proved for every instance of their modules: what a page,   *)
(* a .meguri file and the wire body of a discovery batch give back, that   *)
(* no operation on a collection of files loses a row, and what a clean     *)
(* manifest is worth.  The first three sections are facts on numbers,      *)
(* recursive functions and sequences that DataProofs uses too.             *)
(***************************************************************************)
EXTENDS Collection, Rules, FiniteSetTheorems, TLAPS

-----------------------------------------------------------------------------
(* Least and greatest numbers, and induction over a sequence. *)

LEMMA LeastNat ==
  ASSUME NEW T \in SUBSET Nat, T # {}
  PROVE  \E x \in T : \A y \in T : x <= y
<1> DEFINE Q == {0..x : x \in T}
<1>1. \A x \in T : 0..x \in SUBSET Nat /\ IsFiniteSet(0..x)
  BY FS_Interval
<1>2. Q \subseteq FiniteSubsetsOf(Nat) /\ Q # {}
  BY <1>1 DEF FiniteSubsetsOf
<1>3. PICK q \in Q : \A r \in Q : ~ (<<r, q>> \in StrictSubsetOrdering(Nat))
  BY <1>2, FS_StrictSubsetOrderingWellFounded, WFMin
<1>4. PICK x \in T : q = 0..x
  OBVIOUS
<1>5. ASSUME NEW y \in T, y < x PROVE FALSE
  <2>1. 0..y \in Q /\ 0..y \in SUBSET Nat /\ 0..x \in SUBSET Nat
    BY <1>1
  <2>2. 0..y \subseteq 0..x /\ x \in 0..x /\ x \notin 0..y
    BY <1>5
  <2>3. <<0..y, 0..x>> \in StrictSubsetOrdering(Nat)
    BY <2>1, <2>2 DEF StrictSubsetOrdering
  <2> QED BY <1>3, <1>4, <2>1, <2>3
<1> QED BY <1>5

\* Induction up to n: a set of naturals that has 0 and goes on to n has all of 0..n.
LEMMA Climb ==
  ASSUME NEW n \in Nat, NEW G, 0 \in G, \A i \in 0..n : i \in G /\ i < n => i + 1 \in G
  PROVE  \A i \in 0..n : i \in G
<1> DEFINE Bad == {i \in 0..n : i \notin G}
<1> SUFFICES ASSUME Bad # {} PROVE FALSE
  OBVIOUS
<1>1. Bad \in SUBSET Nat
  OBVIOUS
<1>2. PICK m \in Bad : \A y \in Bad : m <= y
  BY <1>1, LeastNat
<1>3. m \in Nat /\ m <= n /\ m \notin G /\ m # 0
  BY <1>2
<1>4. m - 1 \in 0..n /\ m - 1 < n /\ ~(m <= m - 1) /\ (m - 1) + 1 = m
  BY <1>3
<1>5. m - 1 \in G
  BY <1>2, <1>4
<1>6. (m - 1) + 1 \in G
  BY <1>4, <1>5
<1> QED BY <1>3, <1>4, <1>6

LEMMA GreatestUpto ==
  ASSUME NEW n \in Nat, NEW T \in SUBSET (1..n), T # {}
  PROVE  Max(T) \in T /\ \A y \in T : y <= Max(T)
<1> DEFINE U == {u \in Nat : \A y \in T : y <= u}
<1>1. n \in U /\ U \in SUBSET Nat
  OBVIOUS
<1>2. PICK m \in U : \A y \in U : m <= y
  BY <1>1, LeastNat
<1>3. m \in T
  <2> SUFFICES ASSUME m \notin T PROVE FALSE
    OBVIOUS
  <2>1. \A y \in T : y \in Nat /\ y > 0 /\ y < m
    BY <1>2
  <2>2. m - 1 \in Nat /\ \A y \in T : y <= m - 1
    <3>1. PICK z \in T : TRUE
      OBVIOUS
    <3>2. m \in Nat /\ m > 0
      BY <1>2, <2>1, <3>1
    <3> QED BY <2>1, <3>2
  <2>3. m - 1 \in U
    BY <2>2
  <2> QED BY <1>2, <2>3
<1>4. \E x \in T : \A y \in T : x >= y
  BY <1>2, <1>3
<1>5. Max(T) \in T /\ \A y \in T : Max(T) >= y
  BY <1>4 DEF Max
<1> QED BY <1>5

LEMMA GreatestNat ==
  ASSUME NEW b \in Nat, NEW T \in SUBSET (0..b), T # {}
  PROVE  \E x \in T : \A y \in T : y <= x
<1> DEFINE U == {b - x : x \in T}
<1>0. \A x \in 0..b : b - x \in Nat
  OBVIOUS
<1>1. U \in SUBSET Nat /\ U # {}
  BY <1>0
<1>2. PICK u \in U : \A y \in U : u <= y
  BY <1>1, LeastNat
<1>3. PICK x \in T : u = b - x
  BY <1>2
<1>4. ASSUME NEW y \in T PROVE y <= x
  <2>1. b - y \in U /\ x \in 0..b /\ y \in 0..b
    BY <1>4
  <2>2. b - x <= b - y
    BY <1>2, <1>3, <2>1
  <2> QED BY <2>1, <2>2
<1> QED BY <1>4

LEMMA MinIs ==
  ASSUME NEW T \in SUBSET Nat, NEW x \in T, \A y \in T : x <= y
  PROVE  Min(T) = x
<1>1. \E z \in T : \A y \in T : z <= y
  OBVIOUS
<1>2. Min(T) \in T /\ \A y \in T : Min(T) <= y
  BY <1>1 DEF Min
<1>3. Min(T) \in Nat /\ x \in Nat /\ Min(T) <= x /\ x <= Min(T)
  BY <1>2
<1> QED BY <1>3

LEMMA MaxIs ==
  ASSUME NEW T \in SUBSET Nat, NEW x \in T, \A y \in T : y <= x
  PROVE  Max(T) = x
<1>1. \E z \in T : \A y \in T : z >= y
  OBVIOUS
<1>2. Max(T) \in T /\ \A y \in T : Max(T) >= y
  BY <1>1 DEF Max
<1>3. Max(T) \in Nat /\ x \in Nat /\ Max(T) >= x /\ Max(T) <= x
  BY <1>2
<1> QED BY <1>3

\* A sequence whose neighbours ascend ascends.
LEMMA Ascends ==
  ASSUME NEW n \in Nat, NEW v, \A i \in 1..n : v[i] \in Nat, \A i \in 2..n : v[i - 1] <= v[i]
  PROVE  \A i \in 1..n : \A p \in i..n : v[i] <= v[p]
<1> SUFFICES ASSUME NEW i \in 1..n PROVE \A p \in i..n : v[i] <= v[p]
  OBVIOUS
<1> DEFINE G == {d \in 0..n : d >= i => v[i] <= v[d]}
<1>1. 0 \in G
  OBVIOUS
<1>2. \A d \in 0..n : d \in G /\ d < n => d + 1 \in G
  <2> SUFFICES ASSUME NEW d \in 0..n, d \in G, d < n, d + 1 >= i PROVE v[i] <= v[d + 1]
    OBVIOUS
  <2>1. CASE d + 1 = i
    BY <2>1
  <2>2. CASE d >= i
    <3>1. d + 1 \in 2..n /\ (d + 1) - 1 = d /\ d \in 1..n /\ d + 1 \in 1..n
      BY <2>2
    <3>2. v[(d + 1) - 1] <= v[d + 1] /\ v[i] \in Nat /\ v[d] \in Nat /\ v[d + 1] \in Nat
      BY <3>1
    <3>3. v[d] <= v[d + 1] /\ v[i] <= v[d]
      BY <2>2, <3>1, <3>2
    <3> QED BY <3>2, <3>3
  <2> QED BY <2>1, <2>2
<1>3. \A d \in 0..n : d \in G
  <2> HIDE DEF G
  <2> QED BY <1>1, <1>2, Climb
<1> QED BY <1>3

-----------------------------------------------------------------------------
(* Recursive functions. *)

\* st starts at x and goes on by the step function.
Steps(step, n, S) == step \in [1..n -> [S -> S]]
Course(st, n, S, x, step) ==
  st \in [0..n -> S] /\ st[0] = x /\ \A i \in 1..n : st[i] = step[i][st[i - 1]]

\* A recursive function over 0..n, by its step function.
LEMMA Recursion ==
  ASSUME NEW n \in Nat, NEW S, NEW x \in S, NEW step, Steps(step, n, S)
  PROVE  \E st : Course(st, n, S, x, step)
<1> USE DEF Steps
<1> DEFINE Part(m, f) == f \in [0..m -> S] /\ f[0] = x /\ \A i \in 1..m : f[i] = step[i][f[i - 1]]
           G == {m \in 0..n : \E f : Part(m, f)}
<1>1. 0 \in G
  <2> DEFINE f == [i \in 0..0 |-> x]
  <2>1. Part(0, f)
    OBVIOUS
  <2> HIDE DEF Part, f
  <2> QED BY <2>1
<1>2. \A m \in 0..n : m \in G /\ m < n => m + 1 \in G
  <2> SUFFICES ASSUME NEW m \in 0..n, m \in G, m < n PROVE m + 1 \in G
    OBVIOUS
  <2>1. PICK f : Part(m, f)
    OBVIOUS
  <2> DEFINE y == step[m + 1][f[m]]
             g == [i \in 0..(m + 1) |-> IF i <= m THEN f[i] ELSE y]
  <2>2. m \in 0..m /\ f[m] \in S /\ m + 1 \in 1..n
    BY <2>1
  <2>3. y \in S
    BY <2>2
  <2>4. /\ g \in [0..(m + 1) -> S]
        /\ \A i \in 0..m : g[i] = f[i]
        /\ g[m + 1] = y
    <3> HIDE DEF y
    <3>1. \A i \in 0..(m + 1) : i <= m => i \in 0..m
      OBVIOUS
    <3> QED BY <2>1, <2>3, <3>1
  <2> HIDE DEF g
  <2>5. g[0] = x
    BY <2>1, <2>4
  <2>6. ASSUME NEW i \in 1..(m + 1) PROVE g[i] = step[i][g[i - 1]]
    <3>1. CASE i = m + 1
      <4>1. i - 1 = m
        BY <3>1
      <4>2. g[i - 1] = f[m] /\ g[i] = y
        BY <3>1, <4>1, <2>4
      <4> QED BY <3>1, <4>2
    <3>2. CASE i # m + 1
      <4>1. i \in 1..m /\ i \in 0..m /\ i - 1 \in 0..m
        BY <3>2
      <4>2. g[i] = f[i] /\ g[i - 1] = f[i - 1]
        BY <4>1, <2>4
      <4> QED BY <4>1, <4>2, <2>1
    <3> QED BY <3>1, <3>2
  <2>7. Part(m + 1, g)
    <3> HIDE DEF y
    <3> QED BY <2>4, <2>5, <2>6
  <2> HIDE DEF Part, y
  <2> QED BY <2>7
<1>3. n \in G
  <2> HIDE DEF G
  <2>1. \A i \in 0..n : i \in G
    BY <1>1, <1>2, Climb
  <2> QED BY <2>1
<1> QED BY <1>3 DEF Course

\* Whatever satisfies the recursion on S is the course.
LEMMA CourseFits ==
  ASSUME NEW n \in Nat, NEW S, NEW x \in S, NEW step, Steps(step, n, S), NEW f,
         f = [i \in 0..n |-> f[i]], f[0] = x,
         \A i \in 1..n : f[i - 1] \in S => f[i] = step[i][f[i - 1]]
  PROVE  Course(f, n, S, x, step)
<1> DEFINE G == {i \in 0..n : f[i] \in S}
<1>1. 0 \in G
  OBVIOUS
<1>2. \A i \in 0..n : i \in G /\ i < n => i + 1 \in G
  <2> SUFFICES ASSUME NEW i \in 0..n, i \in G, i < n PROVE f[i + 1] \in S
    OBVIOUS
  <2>1. i + 1 \in 1..n /\ (i + 1) - 1 = i
    OBVIOUS
  <2>2. f[i + 1] = step[i + 1][f[i]]
    BY <2>1
  <2>3. step[i + 1] \in [S -> S]
    BY <2>1 DEF Steps
  <2> QED BY <2>2, <2>3
<1> HIDE DEF G
<1>3. \A i \in 0..n : i \in G
  BY <1>1, <1>2, Climb
<1>4. \A i \in 0..n : f[i] \in S
  BY <1>3 DEF G
<1>5. f \in [0..n -> S]
  BY <1>4
<1>6. \A i \in 1..n : i - 1 \in 0..n
  OBVIOUS
<1> QED BY <1>4, <1>5, <1>6 DEF Course

-----------------------------------------------------------------------------
(* Sequences. *)

LEMMA Joined ==
  ASSUME NEW S, NEW a \in Seq(S), NEW b \in Seq(S)
  PROVE  /\ a \o b \in Seq(S) /\ Len(a \o b) = Len(a) + Len(b)
         /\ \A i \in 1..Len(a) : (a \o b)[i] = a[i]
         /\ \A i \in 1..Len(b) : (a \o b)[Len(a) + i] = b[i]
  OBVIOUS

\* A function on 1..n is a sequence.
LEMMA ListIs ==
  ASSUME NEW n \in Nat, NEW S, NEW t, t = [k \in 1..n |-> t[k]], \A k \in 1..n : t[k] \in S
  PROVE  t \in Seq(S) /\ Len(t) = n
<1>1. t \in [1..n -> S]
  OBVIOUS
<1> QED BY <1>1

LEMMA RangeAppend ==
  ASSUME NEW S, NEW s \in Seq(S), NEW x \in S
  PROVE  Range(Append(s, x)) = Range(s) \cup {x}
<1>1. Len(s) \in Nat /\ DOMAIN s = 1..Len(s) /\ DOMAIN Append(s, x) = 1..(Len(s) + 1)
  OBVIOUS
<1>2. 1..(Len(s) + 1) = 1..Len(s) \cup {Len(s) + 1}
  BY <1>1
<1>3. (\A k \in 1..Len(s) : Append(s, x)[k] = s[k]) /\ Append(s, x)[Len(s) + 1] = x
  OBVIOUS
<1> QED BY <1>1, <1>2, <1>3 DEF Range

LEMMA SameList ==
  ASSUME NEW S, NEW a \in Seq(S), NEW b \in Seq(S), Len(a) = Len(b), \A i \in 1..Len(a) : a[i] = b[i]
  PROVE  a = b
  OBVIOUS

LEMMA AppendIs ==
  ASSUME NEW S, NEW a \in Seq(S), NEW v \in S
  PROVE  /\ Append(a, v) \in Seq(S) /\ Len(Append(a, v)) = Len(a) + 1
         /\ \A i \in 1..Len(a) : Append(a, v)[i] = a[i]
         /\ Append(a, v)[Len(a) + 1] = v
  OBVIOUS

LEMMA ReplacedIs ==
  ASSUME NEW S, NEW a \in Seq(S), NEW m \in 1..Len(a), NEW e \in S
  PROVE  /\ [a EXCEPT ![m] = e] \in Seq(S) /\ Len([a EXCEPT ![m] = e]) = Len(a)
         /\ [a EXCEPT ![m] = e][m] = e /\ \A i \in 1..Len(a) : i # m => [a EXCEPT ![m] = e][i] = a[i]
<1> DEFINE n == Len(a)
           b == [a EXCEPT ![m] = e]
<1>1. n \in Nat /\ DOMAIN a = 1..n /\ a \in [1..n -> S]
  OBVIOUS
<1>2. b \in [1..n -> S] /\ b[m] = e /\ \A i \in 1..n : i # m => b[i] = a[i]
  BY <1>1
<1> HIDE DEF b, n
<1>3. b \in Seq(S) /\ Len(b) = n
  BY <1>1, <1>2
<1> QED BY <1>2, <1>3 DEF b, n

AppendsLast(a, b, v) == Append(a \o b, v) = a \o Append(b, v)

LEMMA AppendLast ==
  ASSUME NEW S, NEW a \in Seq(S), NEW b \in Seq(S), NEW v \in S
  PROVE  AppendsLast(a, b, v)
<1> SUFFICES Append(a \o b, v) = a \o Append(b, v)
  BY DEF AppendsLast
<1> DEFINE l == Append(a \o b, v)
           c == Append(b, v)
           r == a \o c
           n == Len(a)
           k == Len(b)
<1>1. /\ a \o b \in Seq(S) /\ Len(a \o b) = n + k
      /\ \A i \in 1..n : (a \o b)[i] = a[i]
      /\ \A i \in 1..k : (a \o b)[n + i] = b[i]
      /\ n \in Nat /\ k \in Nat
  BY Joined
<1>2. c \in Seq(S) /\ Len(c) = k + 1 /\ (\A i \in 1..k : c[i] = b[i]) /\ c[k + 1] = v
  BY AppendIs
<1>3. /\ l \in Seq(S) /\ Len(l) = (n + k) + 1
      /\ (\A i \in 1..(n + k) : l[i] = (a \o b)[i]) /\ l[(n + k) + 1] = v
  <2> DEFINE ab == a \o b
  <2> HIDE DEF ab, n, k
  <2>1. ab \in Seq(S) /\ Len(ab) = n + k
    BY <1>1 DEF ab
  <2>2. /\ Append(ab, v) \in Seq(S) /\ Len(Append(ab, v)) = Len(ab) + 1
        /\ \A i \in 1..Len(ab) : Append(ab, v)[i] = ab[i]
        /\ Append(ab, v)[Len(ab) + 1] = v
    BY <2>1, AppendIs
  <2> QED BY <2>1, <2>2 DEF ab
<1> HIDE DEF c
<1>4. /\ r \in Seq(S) /\ Len(r) = n + (k + 1)
      /\ \A i \in 1..n : r[i] = a[i]
      /\ \A i \in 1..(k + 1) : r[n + i] = c[i]
  <2>1. /\ r \in Seq(S) /\ Len(r) = Len(a) + Len(c)
        /\ \A i \in 1..Len(a) : r[i] = a[i]
        /\ \A i \in 1..Len(c) : r[Len(a) + i] = c[i]
    <3>1. c \in Seq(S)
      BY <1>2
    <3> QED BY <3>1, Joined
  <2> HIDE DEF r
  <2> QED BY <1>2, <2>1
<1> DEFINE ab == a \o b
<1> HIDE DEF l, r, n, k, ab
<1>5. Len(l) = Len(r) /\ Len(l) = n + k + 1
  BY <1>1, <1>3, <1>4
<1>6. ASSUME NEW i \in 1..(n + k + 1) PROVE l[i] = r[i]
  <2>1. CASE i \in 1..n
    <3>1. i \in 1..(n + k)
      BY <1>1, <2>1
    <3> QED BY <1>1, <1>3, <1>4, <2>1, <3>1 DEF ab
  <2>2. CASE i \in (n + 1)..(n + k)
    <3>1. i \in 1..(n + k) /\ i - n \in 1..k /\ i - n \in 1..(k + 1) /\ n + (i - n) = i
      BY <1>1, <2>2
    <3>2. l[i] = ab[i] /\ ab[n + (i - n)] = b[i - n] /\ r[n + (i - n)] = c[i - n] /\ c[i - n] = b[i - n]
      BY <1>1, <1>2, <1>3, <1>4, <3>1 DEF ab
    <3> QED BY <3>1, <3>2
  <2>3. CASE i = n + k + 1
    <3>1. i = (n + k) + 1 /\ i = n + (k + 1) /\ k + 1 \in 1..(k + 1)
      BY <1>1, <2>3
    <3>2. l[i] = v /\ r[n + (k + 1)] = c[k + 1]
      BY <1>3, <1>4, <3>1
    <3> QED BY <1>2, <3>1, <3>2
  <2> QED BY <1>1, <2>1, <2>2, <2>3
<1>7. \A i \in 1..Len(l) : l[i] = r[i]
  BY <1>5, <1>6
<1>8. l = r
  BY <1>3, <1>4, <1>5, <1>7, SameList
<1> QED BY <1>8 DEF l, r, c

LEMMA PartIs ==
  ASSUME NEW S, NEW s \in Seq(S), NEW a \in Nat, NEW z \in Nat, 1 <= a, a <= z + 1, z <= Len(s)
  PROVE  /\ SubSeq(s, a, z) \in Seq(S) /\ Len(SubSeq(s, a, z)) = (z - a) + 1
         /\ \A i \in 1..((z - a) + 1) : SubSeq(s, a, z)[i] = s[(a - 1) + i]
         /\ SubSeq(s, a, z) = [i \in 1..((z - a) + 1) |-> s[(a - 1) + i]]
  OBVIOUS

\* SubSeq(s, a, z) is the elements of s from a to z.
Stretch(s, a, z, S) ==
  /\ SubSeq(s, a, z) \in Seq(S) /\ Len(SubSeq(s, a, z)) = (z - a) + 1
  /\ \A i \in 1..((z - a) + 1) : SubSeq(s, a, z)[i] = s[(a - 1) + i]

LEMMA PartOf ==
  ASSUME NEW S, NEW s \in Seq(S), NEW a \in Nat, NEW z \in Nat, 1 <= a, a <= z + 1, z <= Len(s)
  PROVE  Stretch(s, a, z, S)
  BY PartIs DEF Stretch

-----------------------------------------------------------------------------
(* The arithmetic of a machine word. *)

LEMMA DivisionIs ==
  ASSUME NEW V \in Nat, V > 0, NEW a \in Int
  PROVE  a = V * (a \div V) + (a % V) /\ a % V \in Nat /\ a % V < V /\ a \div V \in Int
  OBVIOUS

LEMMA DivisionOf ==
  ASSUME NEW V \in Nat, V > 0, NEW a \in Int, NEW b \in Int, 0 <= b, b < V, NEW q \in Int, a = V * q + b
  PROVE  a % V = b /\ a \div V = q
<1> DEFINE p == a \div V
           c == a % V
<1>1. a = V * p + c /\ c \in Nat /\ c < V /\ p \in Int
  BY DivisionIs
<1> HIDE DEF p, c
<1>2. V * (p - q) = b - c
  BY <1>1
<1>3. p = q
  <2>1. ASSUME p - q >= 1 PROVE FALSE
    <3>1. V * ((p - q) - 1) >= 0
      BY <1>1, <2>1
    <3> QED BY <1>1, <1>2, <3>1
  <2>2. ASSUME p - q <= -1 PROVE FALSE
    <3>1. V * ((q - p) - 1) >= 0
      BY <1>1, <2>2
    <3> QED BY <1>1, <1>2, <3>1
  <2> QED BY <1>1, <2>1, <2>2
<1> QED BY <1>1, <1>3 DEF p, c

\* The powers up to the word.
LEMMA PowersGrow ==
  /\ \A w \in 0..WordBits : 2^w \in Nat /\ 2^w > 0 /\ 2^(w + 1) = 2 * 2^w
<1> DEFINE G == {w \in Nat : 2^w > 0}
<1>1. 0 \in G
  BY WordAssumption
<1>2. \A w \in 0..WordBits : w \in G /\ w < WordBits => w + 1 \in G
  BY WordAssumption
<1> HIDE DEF G
<1>3. \A w \in 0..WordBits : w \in G
  BY <1>1, <1>2, WordAssumption, Climb
<1> QED BY <1>3, WordAssumption DEF G

\* Half is the first value with the sign bit.
Half == 2^(WordBits - 1)

LEMMA WordIs == Half \in Nat /\ Half > 0 /\ Word \in Nat /\ Word = 2 * Half /\ Word \div 2 = Half
<1>1. WordBits - 1 \in 0..WordBits /\ (WordBits - 1) + 1 = WordBits
  BY WordAssumption
<1>2. Half \in Nat /\ Half > 0 /\ 2^((WordBits - 1) + 1) = 2 * Half
  BY <1>1, PowersGrow DEF Half
<1>3. Word = 2 * Half
  BY <1>1, <1>2 DEF Word
<1> QED BY <1>2, <1>3

LEMMA WrapIs ==
  ASSUME NEW a \in Int
  PROVE  /\ Wrap(a) \in 0..(Word - 1)
         /\ 0 <= a /\ a < Word => Wrap(a) = a
         /\ -Word <= a /\ a < 0 => Wrap(a) = a + Word
         /\ Word <= a /\ a < 2 * Word => Wrap(a) = a - Word
<1>1. Word \in Nat /\ Word > 0
  BY WordIs
<1>2. a % Word \in Nat /\ a % Word < Word
  BY <1>1, DivisionIs
<1>3. ASSUME 0 <= a, a < Word PROVE a % Word = a
  <2>1. a = Word * 0 + a
    BY <1>1
  <2> QED BY <1>1, <1>3, <2>1, DivisionOf
<1>4. ASSUME -Word <= a, a < 0 PROVE a % Word = a + Word
  <2>1. a = Word * (-1) + (a + Word) /\ -1 \in Int /\ a + Word \in Int /\ 0 <= a + Word /\ a + Word < Word
    BY <1>1, <1>4
  <2> QED BY <1>1, <2>1, DivisionOf
<1>5. ASSUME Word <= a, a < 2 * Word PROVE a % Word = a - Word
  <2>1. a = Word * 1 + (a - Word) /\ 1 \in Int /\ a - Word \in Int /\ 0 <= a - Word /\ a - Word < Word
    BY <1>1, <1>5
  <2> QED BY <1>1, <2>1, DivisionOf
<1> QED BY <1>1, <1>2, <1>3, <1>4, <1>5 DEF Wrap

\* A step forward undoes the difference.
LEMMA StepBack ==
  ASSUME NEW x \in 0..(Word - 1), NEW y \in 0..(Word - 1)
  PROVE  Wrap(y - x) \in 0..(Word - 1) /\ Wrap(x + Wrap(y - x)) = y
<1>1. Word \in Nat
  BY WordIs
<1>2. CASE y >= x
  <2>1. Wrap(y - x) = y - x
    BY <1>1, <1>2, WrapIs
  <2>2. Wrap(y) = y
    BY <1>1, WrapIs
  <2>3. x + (y - x) = y
    BY <1>1
  <2> QED BY <1>1, <1>2, <2>1, <2>2, <2>3
<1>3. CASE y < x
  <2>1. Wrap(y - x) = (y - x) + Word
    BY <1>1, <1>3, WrapIs
  <2>2. Wrap(y + Word) = (y + Word) - Word
    BY <1>1, WrapIs
  <2>3. x + ((y - x) + Word) = y + Word /\ (y + Word) - Word = y
    BY <1>1
  <2>4. (y - x) + Word \in 0..(Word - 1)
    BY <1>1, <1>3
  <2> QED BY <2>1, <2>2, <2>3, <2>4
<1> QED BY <1>1, <1>2, <1>3

\* A step is packed with its sign in the low bit, and read back.
LEMMA ZigzagBack ==
  ASSUME NEW v \in 0..(Word - 1)
  PROVE  /\ zigzag(v) \in 0..(Word - 1)
         /\ unzigzag(zigzag(v)) = v
         /\ zigzag(Signed(v)) = zigzag(v)
<1>1. Half \in Nat /\ Half > 0 /\ Word = 2 * Half /\ Word \div 2 = Half /\ v \in Nat /\ v < Word
  BY WordIs
<1>2. CASE v < Half
  <2>1. Signed(v) = v /\ zigzag(v) = 2 * v
    BY <1>1, <1>2 DEF Signed, zigzag
  <2>2. (2 * v) % 2 = 0 /\ (2 * v) \div 2 = v
    BY <1>1
  <2>3. Wrap(v) = v
    BY <1>1, WrapIs
  <2>4. unzigzag(2 * v) = v
    BY <2>2, <2>3 DEF unzigzag
  <2> QED BY <1>1, <1>2, <2>1, <2>4
<1>3. CASE v >= Half
  <2> DEFINE s == v - Word
             u == -2 * s - 1
  <2>1. s \in Int /\ s < 0 /\ s >= -Half /\ ~(v < Half)
    BY <1>1, <1>3
  <2>2. Signed(v) = s /\ Signed(s) = s
    <3>1. s < Half
      BY <1>1, <2>1
    <3>2. Signed(v) = s
      BY <1>1, <2>1 DEF Signed
    <3> HIDE DEF s
    <3>3. Signed(s) = s
      BY <1>1, <3>1 DEF Signed
    <3> QED BY <3>2, <3>3
  <2>3. zigzag(v) = u /\ zigzag(s) = u
    <3> HIDE DEF s
    <3> QED BY <2>1, <2>2 DEF zigzag
  <2>4. u % 2 = 1 /\ u \div 2 = -s - 1 /\ u \in 0..(Word - 1)
    <3> HIDE DEF s
    <3> QED BY <1>1, <2>1
  <2>5. -(-s - 1) - 1 = s
    BY <2>1
  <2>6. Wrap(s) = s + Word /\ s + Word = v
    <3>1. -Word <= s
      BY <1>1, <2>1
    <3>2. s + Word = v
      BY <1>1
    <3> HIDE DEF s
    <3> QED BY <1>1, <2>1, <3>1, <3>2, WrapIs
  <2>7. unzigzag(u) = v
    <3> HIDE DEF s, u
    <3> QED BY <2>4, <2>5, <2>6 DEF unzigzag
  <2> HIDE DEF s, u
  <2> QED BY <2>2, <2>3, <2>4, <2>7
<1> QED BY <1>1, <1>2, <1>3

-----------------------------------------------------------------------------
(* Fixed-width rows laid end to end. *)

LEMMA PlaceIs ==
  ASSUME NEW N \in Nat, NEW n \in Nat, n > 0, NEW k \in 1..N, NEW i \in 1..n
  PROVE  /\ (k - 1) * n \in Nat /\ (k - 1) * n + i \in 1..(N * n)
         /\ (((k - 1) * n + i) - 1) \div n = k - 1
         /\ (((k - 1) * n + i) - 1) % n = i - 1
<1>1. (k - 1) * n \in Nat /\ (N - k) * n \in Nat
  BY SMT
<1>2. (k - 1) * n + (N - k) * n + n = N * n
  BY SMT
<1>3. (k - 1) * n + i \in 1..(N * n)
  <2> DEFINE x == (k - 1) * n
             y == (N - k) * n
             z == N * n
  <2> HIDE DEF x, y, z
  <2>1. x \in Nat /\ y \in Nat /\ x + y + n = z
    BY <1>1, <1>2 DEF x, y, z
  <2>2. x + i \in 1..z
    BY <2>1
  <2> QED BY <2>2 DEF x, z
<1>4. ((k - 1) * n + i) - 1 = n * (k - 1) + (i - 1) /\ ((k - 1) * n + i) - 1 \in Int
  BY <1>1
<1>5. k - 1 \in Int /\ i - 1 \in Int /\ 0 <= i - 1 /\ i - 1 < n
  OBVIOUS
<1>6. (((k - 1) * n + i) - 1) % n = i - 1 /\ (((k - 1) * n + i) - 1) \div n = k - 1
  <2> DEFINE a == ((k - 1) * n + i) - 1
             q == k - 1
  <2>1. a \in Int /\ a = n * q + (i - 1) /\ q \in Int
    BY <1>4, <1>5
  <2> HIDE DEF a, q
  <2>2. a % n = i - 1 /\ a \div n = q
    BY <1>5, <2>1, DivisionOf
  <2> QED BY <2>2 DEF a, q
<1> QED BY <1>1, <1>3, <1>6

(* Bit packing. *)

\* One more bit of v.
LEMMA NextBit ==
  ASSUME NEW k \in 0..(WordBits - 1), NEW v \in Nat
  PROVE  v % 2^(k + 1) = (v % 2^k) + ((v \div 2^k) % 2) * 2^k
<1> DEFINE V == 2^k
           r == v % V
           q == v \div V
           h == q % 2
           g == q \div 2
<1>1. V \in Nat /\ V > 0 /\ 2^(k + 1) = 2 * V
  <2>1. k \in 0..WordBits
    BY WordAssumption
  <2> QED BY <2>1, PowersGrow
<1> HIDE DEF V
<1>2. v = V * q + r /\ r \in Nat /\ r < V /\ q \in Int
  BY <1>1, DivisionIs
<1> HIDE DEF q, r
<1>3. q = 2 * g + h /\ h \in Nat /\ h < 2 /\ g \in Int
  BY <1>2, DivisionIs
<1> HIDE DEF g, h
<1>4. v = (2 * V) * g + (r + h * V)
  <2>1. V * q = V * (2 * g + h)
    BY <1>3
  <2>2. V * (2 * g + h) = (2 * V) * g + h * V
    BY <1>1, <1>3
  <2>3. (2 * V) * g \in Int /\ h * V \in Int
    BY <1>1, <1>3
  <2> DEFINE a == (2 * V) * g
             b == h * V
             c == V * q
  <2> HIDE DEF a, b, c
  <2>4. v = c + r /\ c = a + b /\ a \in Int /\ b \in Int
    BY <1>2, <2>1, <2>2, <2>3 DEF a, b, c
  <2>5. v = a + (r + b)
    BY <1>2, <2>4
  <2> QED BY <2>5 DEF a, b
<1>5. h * V \in Int /\ 0 <= r + h * V /\ r + h * V < 2 * V
  <2>1. CASE h = 0
    BY <1>1, <1>2, <2>1
  <2>2. CASE h = 1
    BY <1>1, <1>2, <2>2
  <2> QED BY <1>3, <2>1, <2>2
<1>6. v % (2 * V) = r + h * V
  <2> DEFINE m == r + h * V
             X == 2 * V
  <2>1. m \in Int /\ 0 <= m /\ m < X /\ v = X * g + m /\ X \in Nat /\ X > 0
    BY <1>1, <1>2, <1>4, <1>5
  <2> HIDE DEF m, X
  <2>2. v % X = m
    BY <1>3, <2>1, DivisionOf
  <2> QED BY <2>2 DEF m, X
<1>7. v % 2^(k + 1) = r + h * V
  BY <1>1, <1>6
<1> QED BY <1>7 DEF r, h, q, V

LEMMA BitWidthIs ==
  ASSUME NEW v \in 0..(Word - 1)
  PROVE  bitWidth(v) \in 0..WordBits /\ v < 2^bitWidth(v)
<1> DEFINE T == {w \in 0..WordBits : v < 2^w}
<1>1. WordBits \in T /\ T \in SUBSET Nat
  BY WordAssumption, WordIs DEF Word
<1>2. PICK w \in T : \A y \in T : w <= y
  BY <1>1, LeastNat
<1>3. w \in 0..WordBits /\ v < 2^w
  BY <1>2
<1>4. ASSUME w > 0 PROVE v >= 2^(w - 1)
  <2>1. w - 1 \in 0..WordBits /\ w - 1 \notin T
    <3>1. w \in Nat /\ w - 1 \in 0..WordBits /\ ~(w <= w - 1)
      BY <1>3, <1>4, WordAssumption
    <3> QED BY <1>2, <3>1
  <2>2. 2^(w - 1) \in Nat
    BY <2>1, PowersGrow
  <2>3. ~(v < 2^(w - 1))
    BY <2>1
  <2>4. v \in Nat
    BY WordIs
  <2> QED BY <2>2, <2>3, <2>4
<1>5. \E x \in 0..WordBits : v < 2^x /\ (x > 0 => v >= 2^(x - 1))
  BY <1>3, <1>4
<1> QED BY <1>5 DEF bitWidth

\* Values that fit a width come back from their bits.
FitsIn(vals, n, width) == vals = [i \in 1..n |-> vals[i]] /\ \A i \in 1..n : vals[i] \in Nat /\ vals[i] < 2^width

Bit(bits, p) == IF p \in DOMAIN bits THEN bits[p] ELSE 0

LEMMA BitIs ==
  ASSUME NEW n \in Nat, NEW width \in 0..WordBits, NEW vals, FitsIn(vals, n, width), NEW i \in 1..n, NEW k \in 1..width
  PROVE  Bit(bitpack(vals, width), (i - 1) * width + k) = (vals[i] \div 2^(k - 1)) % 2
<1> DEFINE p == (i - 1) * width + k
           bits == bitpack(vals, width)
<1>1. width \in Nat /\ width > 0
  BY WordAssumption
<1>2. p \in 1..(n * width) /\ (p - 1) \div width = i - 1 /\ (p - 1) % width = k - 1
  BY <1>1, PlaceIs
<1>3. Len(vals) = n
  <2>1. vals = [j \in 1..n |-> vals[j]] /\ \A j \in 1..n : vals[j] \in Nat
    BY DEF FitsIn
  <2> QED BY <2>1, ListIs
<1>4. (i - 1) + 1 = i
  OBVIOUS
<1> HIDE DEF p
<1>5. bits = [x \in 1..(n * width) |-> (vals[((x - 1) \div width) + 1] \div 2^((x - 1) % width)) % 2]
  BY <1>3 DEF bitpack
<1>6. bits[p] = (vals[((p - 1) \div width) + 1] \div 2^((p - 1) % width)) % 2 /\ p \in DOMAIN bits
  BY <1>2, <1>5
<1> HIDE DEF bits
<1>7. bits[p] = (vals[i] \div 2^(k - 1)) % 2
  BY <1>2, <1>4, <1>6
<1>8. Bit(bits, p) = (vals[i] \div 2^(k - 1)) % 2
  BY <1>6, <1>7 DEF Bit
<1> QED BY <1>8 DEF p, bits

LEMMA UnpackOne ==
  ASSUME NEW n \in Nat, NEW width \in 0..WordBits, NEW vals, FitsIn(vals, n, width), NEW i \in 1..n
  PROVE  bitunpack(bitpack(vals, width), n, width)[i] = vals[i]
<1> DEFINE bits == bitpack(vals, width)
<1>a. vals[i] \in Nat /\ vals[i] < 2^width
  BY DEF FitsIn
<1>c. \A k \in 1..width : Bit(bits, (i - 1) * width + k) = (vals[i] \div 2^(k - 1)) % 2
  BY BitIs
<1>b. \A k \in 1..width : Bit(bits, (i - 1) * width + k) \in Nat /\ 2^(k - 1) \in Nat
  <2> SUFFICES ASSUME NEW k \in 1..width PROVE Bit(bits, (i - 1) * width + k) \in Nat /\ 2^(k - 1) \in Nat
    OBVIOUS
  <2>1. k - 1 \in 0..WordBits
    BY WordAssumption
  <2>2. 2^(k - 1) \in Nat /\ 2^(k - 1) > 0
    BY <2>1, PowersGrow
  <2> DEFINE q == vals[i] \div 2^(k - 1)
  <2>3. q \in Int
    BY <1>a, <2>2, DivisionIs
  <2> HIDE DEF q
  <2>4. q % 2 \in Nat
    BY <2>3
  <2> QED BY <1>c, <2>2, <2>4 DEF q
<1> HIDE DEF bits
<1> DEFINE L == width
           first == 0
           Rec(f) == f = [k \in 0..L |-> IF k = 0 THEN first ELSE f[k - 1] + Bit(bits, (i - 1) * width + k) * 2^(k - 1)]
           step == [k \in 1..L |-> [x \in Nat |-> x + Bit(bits, (i - 1) * width + k) * 2^(k - 1)]]
<1>0. L \in Nat
  BY WordAssumption
<1>1. first \in Nat
  OBVIOUS
<1>2. Steps(step, L, Nat)
  <2>1. \A k \in 1..L : \A x \in Nat : x + Bit(bits, (i - 1) * width + k) * 2^(k - 1) \in Nat
    <3> SUFFICES ASSUME NEW k \in 1..L, NEW x \in Nat PROVE x + Bit(bits, (i - 1) * width + k) * 2^(k - 1) \in Nat
      OBVIOUS
    <3>1. Bit(bits, (i - 1) * width + k) \in Nat /\ 2^(k - 1) \in Nat
      BY <1>b
    <3> DEFINE b == Bit(bits, (i - 1) * width + k)
               e == 2^(k - 1)
    <3> HIDE DEF b, e
    <3>2. b \in Nat /\ e \in Nat
      BY <3>1 DEF b, e
    <3>3. x + b * e \in Nat
      BY <3>2
    <3> QED BY <3>3 DEF b, e
  <2> HIDE DEF L
  <2> QED BY <2>1 DEF Steps
<1>3. PICK c : Course(c, L, Nat, first, step)
  <2> HIDE DEF L, first, step
  <2> QED BY <1>0, <1>1, <1>2, Recursion
<1>4. Rec(c)
  <2> HIDE DEF first, L
  <2>1. c \in [0..L -> Nat] /\ c[0] = first /\ \A j \in 1..L : c[j] = step[j][c[j - 1]]
    BY <1>3 DEF Course
  <2>2. \A j \in 1..L : j - 1 \in 0..L /\ c[j - 1] \in Nat
    BY <1>0, <2>1
  <2>3. \A k \in 1..L : c[k] = c[k - 1] + Bit(bits, (i - 1) * width + k) * 2^(k - 1)
    BY <2>1, <2>2
  <2>4. \A k \in 0..L : k # 0 => k \in 1..L
    BY <1>0
  <2> HIDE DEF step
  <2>5. c = [k \in 0..L |-> c[k]]
    BY <2>1
  <2>6. \A k \in 0..L : c[k] = IF k = 0 THEN first ELSE c[k - 1] + Bit(bits, (i - 1) * width + k) * 2^(k - 1)
    BY <2>1, <2>3, <2>4
  <2> QED BY <2>5, <2>6
<1> DEFINE f == CHOOSE f : Rec(f)
<1>5. Rec(f)
  <2> HIDE DEF Rec
  <2> QED BY <1>4
<1>6. bitunpack(bits, n, width)[i] = f[width]
  BY DEF bitunpack, Bit
<1> HIDE DEF f, first, L
<1>7. /\ f = [k \in 0..L |-> f[k]] /\ f[0] = first
      /\ \A k \in 1..L : f[k] = f[k - 1] + Bit(bits, (i - 1) * width + k) * 2^(k - 1)
  <2>1. 0 \in 0..L /\ \A k \in 1..L : k \in 0..L /\ k # 0
    BY <1>0
  <2>2. \A k \in 0..L : f[k] = IF k = 0 THEN first ELSE f[k - 1] + Bit(bits, (i - 1) * width + k) * 2^(k - 1)
    BY <1>5
  <2>3. DOMAIN f = 0..L
    BY <1>5
  <2>4. f = [k \in 0..L |-> f[k]]
    BY <1>5, <2>3
  <2> QED BY <2>1, <2>2, <2>4
<1>8. Course(f, L, Nat, first, step)
  <2>1. \A j \in 1..L : f[j - 1] \in Nat => f[j] = step[j][f[j - 1]]
    BY <1>7
  <2> HIDE DEF step
  <2> QED BY <1>0, <1>1, <1>2, <1>7, <2>1, CourseFits
<1>9. \A k \in 0..L : f[k] \in Nat
  BY <1>8 DEF Course
<1> DEFINE G == {k \in Nat : k \in 0..width => f[k] = vals[i] % 2^k}
<1>10. 0 \in G
  <2>1. vals[i] % 1 = 0 /\ 2^0 = 1
    BY <1>a, WordAssumption
  <2> QED BY <1>7, <2>1 DEF first
<1>11. \A k \in 0..width : k \in G /\ k < width => k + 1 \in G
  <2> SUFFICES ASSUME NEW k \in 0..width, k \in G, k < width PROVE f[k + 1] = vals[i] % 2^(k + 1)
    BY WordAssumption
  <2>1. k + 1 \in 1..L /\ (k + 1) - 1 = k /\ k \in 0..(WordBits - 1) /\ k \in Nat /\ k + 1 \in 1..width
    BY WordAssumption DEF L
  <2>2. f[k] = vals[i] % 2^k
    BY <2>1
  <2>3. f[k + 1] = f[k] + Bit(bits, (i - 1) * width + (k + 1)) * 2^k
    BY <1>7, <2>1
  <2>4. Bit(bits, (i - 1) * width + (k + 1)) = (vals[i] \div 2^k) % 2
    BY <1>c, <2>1
  <2>5. vals[i] % 2^(k + 1) = (vals[i] % 2^k) + ((vals[i] \div 2^k) % 2) * 2^k
    BY <1>a, <2>1, NextBit
  <2> QED BY <2>2, <2>3, <2>4, <2>5
<1> HIDE DEF G
<1>12. \A k \in 0..width : k \in G
  <2>1. width \in Nat
    BY WordAssumption
  <2> QED BY <1>10, <1>11, <2>1, Climb
<1>13. f[width] = vals[i] % 2^width
  <2>1. width \in 0..width
    BY WordAssumption
  <2> QED BY <1>12, <2>1 DEF G
<1>14. vals[i] % 2^width = vals[i]
  <2> DEFINE V == 2^width
  <2>1. V \in Nat /\ V > 0
    BY PowersGrow
  <2> HIDE DEF V
  <2>2. vals[i] \in Nat /\ vals[i] < V
    BY <1>a DEF V
  <2>3. vals[i] = V * 0 + vals[i]
    BY <2>1, <2>2
  <2>4. vals[i] % V = vals[i]
    BY <2>1, <2>2, <2>3, DivisionOf
  <2> QED BY <2>4 DEF V
<1> QED BY <1>6, <1>13, <1>14 DEF bits

LEMMA Unpacked ==
  ASSUME NEW n \in Nat, NEW width \in 0..WordBits, NEW vals, FitsIn(vals, n, width)
  PROVE  bitunpack(bitpack(vals, width), n, width) = vals
<1> DEFINE u == bitunpack(bitpack(vals, width), n, width)
<1>1. \A i \in 1..n : u[i] = vals[i]
  BY UnpackOne
<1>2. u = [i \in 1..n |-> u[i]]
  BY DEF bitunpack
<1>3. vals = [i \in 1..n |-> vals[i]]
  BY DEF FitsIn
<1> HIDE DEF u
<1>4. u = vals
  BY <1>1, <1>2, <1>3
<1> QED BY <1>4 DEF u

-----------------------------------------------------------------------------
(* Frame of reference and delta. *)

\* The columns a page holds: n words.
Words(vals, n) == vals = [i \in 1..n |-> vals[i]] /\ \A i \in 1..n : vals[i] \in 0..(Word - 1)

LEMMA WordsSeq ==
  ASSUME NEW n \in Nat, NEW vals, Words(vals, n)
  PROVE  vals \in Seq(0..(Word - 1)) /\ Len(vals) = n /\ DOMAIN vals = 1..n
<1> DEFINE S == 0..(Word - 1)
<1>1. vals = [i \in 1..n |-> vals[i]] /\ \A i \in 1..n : vals[i] \in S
  BY DEF Words
<1> HIDE DEF S
<1>2. vals \in Seq(S) /\ Len(vals) = n
  BY <1>1, ListIs
<1> QED BY <1>1, <1>2 DEF S

LEMMA FrameIs ==
  ASSUME NEW n \in Nat, NEW vals, Words(vals, n)
  PROVE  /\ Least(vals) \in 0..(Word - 1) /\ \A i \in 1..n : Least(vals) <= vals[i]
         /\ FrameWidth(vals) \in 0..WordBits
         /\ FitsIn(Residuals(vals), n, FrameWidth(vals))
<1>1. Word \in Nat /\ Word > 0 /\ vals \in Seq(0..(Word - 1)) /\ Len(vals) = n /\ DOMAIN vals = 1..n
  BY WordIs, WordsSeq
<1>2. \A i \in 1..n : vals[i] \in 0..(Word - 1) /\ vals[i] \in Nat
  BY <1>1 DEF Words
<1>3. CASE n = 0
  <2>1. vals = <<>>
    BY <1>1, <1>3
  <2>2. Least(vals) = 0 /\ FrameWidth(vals) = 0
    BY <2>1 DEF Least, FrameWidth
  <2>3. FitsIn(Residuals(vals), n, FrameWidth(vals))
    BY <1>1, <1>3 DEF FitsIn, Residuals
  <2> QED BY <1>1, <1>3, <2>2, <2>3, WordAssumption
<1>4. CASE n > 0
  <2> DEFINE T == Range(vals)
  <2>1. vals # <<>> /\ 1 \in 1..n
    BY <1>1, <1>4
  <2>2. T = {vals[i] : i \in 1..n}
    BY <1>1 DEF Range
  <2>3. T # {} /\ T \in SUBSET Nat /\ T \in SUBSET (0..(Word - 1))
    BY <1>2, <2>1, <2>2
  <2>4. \A i \in 1..n : vals[i] \in T
    BY <2>2
  <2> HIDE DEF T
  <2>5. PICK lo \in T : \A y \in T : lo <= y
    BY <2>3, LeastNat
  <2>6. PICK hi \in T : \A y \in T : y <= hi
    <3> DEFINE b == Word - 1
    <3>1. b \in Nat /\ T \in SUBSET (0..b)
      BY <1>1, <2>3
    <3> HIDE DEF b
    <3> QED BY <2>3, <3>1, GreatestNat
  <2>7. Least(vals) = lo
    <3>1. Min(T) = lo
      BY <2>3, <2>5, MinIs
    <3> QED BY <2>1, <3>1 DEF Least, T
  <2>8. FrameWidth(vals) = bitWidth(hi - lo)
    <3>1. Max(T) = hi
      BY <2>3, <2>6, MaxIs
    <3> QED BY <2>1, <2>7, <3>1 DEF FrameWidth, T
  <2>9. hi \in 0..(Word - 1) /\ lo \in 0..(Word - 1) /\ lo <= hi
    BY <2>3, <2>5, <2>6
  <2>10. hi - lo \in 0..(Word - 1)
    BY <1>1, <2>9
  <2> DEFINE w == bitWidth(hi - lo)
  <2>11. w \in 0..WordBits /\ hi - lo < 2^w
    BY <2>10, BitWidthIs
  <2>12. 2^w \in Nat
    BY <2>11, PowersGrow
  <2> HIDE DEF w
  <2>13. \A i \in 1..n : Residuals(vals)[i] = vals[i] - lo
    BY <1>1, <2>7 DEF Residuals
  <2>14. \A i \in 1..n : vals[i] - lo \in Nat /\ vals[i] - lo < 2^w
    <3> SUFFICES ASSUME NEW i \in 1..n PROVE vals[i] - lo \in Nat /\ vals[i] - lo < 2^w
      OBVIOUS
    <3>1. lo <= vals[i] /\ vals[i] <= hi /\ vals[i] \in Nat /\ lo \in Nat /\ hi \in Nat
      BY <1>1, <1>2, <2>4, <2>5, <2>6, <2>9
    <3> DEFINE V == 2^w
    <3> HIDE DEF V
    <3>2. V \in Nat /\ hi - lo < V
      BY <2>11, <2>12 DEF V
    <3>3. vals[i] - lo \in Nat /\ vals[i] - lo < V
      BY <3>1, <3>2
    <3> QED BY <3>3 DEF V
  <2>15. Residuals(vals) = [i \in 1..n |-> Residuals(vals)[i]]
    BY <1>1 DEF Residuals
  <2>16. FitsIn(Residuals(vals), n, w)
    BY <2>13, <2>14, <2>15 DEF FitsIn
  <2> QED BY <2>4, <2>5, <2>7, <2>8, <2>9, <2>11, <2>16 DEF w
<1> QED BY <1>3, <1>4

\* The residuals and the least value give the values back.
LEMMA Rebased ==
  ASSUME NEW n \in Nat, NEW vals, Words(vals, n)
  PROVE  [i \in 1..n |-> Wrap(bitunpack(bitpack(Residuals(vals), FrameWidth(vals)), n, FrameWidth(vals))[i]
                              + Least(vals))] = vals
<1> DEFINE w == FrameWidth(vals)
           res == Residuals(vals)
           u == bitunpack(bitpack(res, w), n, w)
           lo == Least(vals)
<1>1. lo \in 0..(Word - 1) /\ w \in 0..WordBits /\ FitsIn(res, n, w)
  BY FrameIs
<1>2. DOMAIN vals = 1..n /\ \A i \in 1..n : res[i] = vals[i] - lo
  BY WordsSeq DEF Residuals
<1>3. u = res
  <2> HIDE DEF res, w
  <2> QED BY <1>1, Unpacked
<1> HIDE DEF u, res, w, lo
<1>4. \A i \in 1..n : Wrap(u[i] + lo) = vals[i]
  <2> SUFFICES ASSUME NEW i \in 1..n PROVE Wrap(u[i] + lo) = vals[i]
    OBVIOUS
  <2>1. vals[i] \in 0..(Word - 1)
    BY DEF Words
  <2>2. Word \in Nat
    BY WordIs
  <2>3. u[i] + lo = vals[i]
    BY <1>1, <1>2, <1>3, <2>1, <2>2
  <2>4. Wrap(vals[i]) = vals[i]
    BY <2>1, <2>2, WrapIs
  <2> QED BY <2>3, <2>4
<1>5. vals = [i \in 1..n |-> vals[i]]
  BY DEF Words
<1>6. [i \in 1..n |-> Wrap(u[i] + lo)] = vals
  BY <1>4, <1>5
<1> QED BY <1>6 DEF u, res, w, lo

LEMMA FORBack ==
  ASSUME NEW n \in Nat, NEW vals, Words(vals, n)
  PROVE  decodeFOR(encodeFOR(vals).payload, n, encodeFOR(vals).base) = {vals}
<1> DEFINE w == FrameWidth(vals)
           pack == bitpack(Residuals(vals), w)
           u == bitunpack(pack, n, w)
           lo == Least(vals)
<1>1. encodeFOR(vals).base = lo /\ encodeFOR(vals).payload = [ints |-> <<w>>, bits |-> pack]
  BY DEF encodeFOR, Payload
<1>2. [ints |-> <<w>>, bits |-> pack].ints[1] = w /\ [ints |-> <<w>>, bits |-> pack].bits = pack
  OBVIOUS
<1>3. [i \in 1..n |-> Wrap(u[i] + lo)] = vals
  BY Rebased
<1>4. \A i \in 1..n : u[i] \in Int /\ lo \in Int
  <2>1. lo \in 0..(Word - 1) /\ w \in 0..WordBits /\ FitsIn(Residuals(vals), n, w) /\ Word \in Nat
    BY FrameIs, WordIs
  <2>2. u = Residuals(vals)
    <3> HIDE DEF w
    <3> QED BY <2>1, Unpacked
  <2> QED BY <2>1, <2>2 DEF FitsIn
<1>5. \A i \in 1..n : lo + u[i] = u[i] + lo
  <2> HIDE DEF lo, u
  <2> QED BY <1>4
<1>6. decodeFOR(encodeFOR(vals).payload, n, encodeFOR(vals).base) = {[i \in 1..n |-> Wrap(lo + u[i])]}
  <2> HIDE DEF lo, w, pack, u
  <2>1. decodeFOR([ints |-> <<w>>, bits |-> pack], n, lo) = {[i \in 1..n |-> Wrap(lo + bitunpack(pack, n, w)[i])]}
    BY <1>2 DEF decodeFOR
  <2> QED BY <1>1, <2>1 DEF u
<1> HIDE DEF lo, u
<1>7. [i \in 1..n |-> Wrap(lo + u[i])] = [i \in 1..n |-> Wrap(u[i] + lo)]
  BY <1>5
<1> QED BY <1>3, <1>6, <1>7

(* Deltas. *)

LEMMA DeltasIs ==
  ASSUME NEW n \in Nat, n > 0, NEW vals, Words(vals, n)
  PROVE  /\ Words(Deltas(vals), n - 1) /\ Len(Deltas(vals)) = n - 1
         /\ \A i \in 1..(n - 1) : unzigzag(Deltas(vals)[i]) = Wrap(vals[i + 1] - vals[i])
<1> DEFINE d == Deltas(vals)
<1>1. Len(vals) = n /\ n - 1 \in Nat /\ Word \in Nat
  BY WordsSeq, WordIs
<1>2. d = [i \in 1..(n - 1) |-> zigzag(Wrap(vals[i + 1] - vals[i]))]
  BY <1>1 DEF Deltas
<1>3. \A i \in 1..(n - 1) : i \in 1..n /\ i + 1 \in 1..n
  OBVIOUS
<1>4. \A i \in 1..(n - 1) : Wrap(vals[i + 1] - vals[i]) \in 0..(Word - 1)
  BY <1>3, StepBack DEF Words
<1>5. \A i \in 1..(n - 1) : d[i] = zigzag(Wrap(vals[i + 1] - vals[i]))
  BY <1>2
<1>6. d = [i \in 1..(n - 1) |-> d[i]]
  BY <1>2
<1> HIDE DEF d
<1>7. \A i \in 1..(n - 1) : d[i] \in 0..(Word - 1) /\ unzigzag(d[i]) = Wrap(vals[i + 1] - vals[i])
  BY <1>4, <1>5, ZigzagBack
<1>8. Words(d, n - 1)
  BY <1>6, <1>7 DEF Words
<1>9. Len(d) = n - 1
  BY <1>1, <1>8, WordsSeq
<1> QED BY <1>7, <1>8, <1>9 DEF d

\* Summing the steps of vals from its first value gives vals.
LEMMA SummedBack ==
  ASSUME NEW n \in Nat, n > 0, NEW vals, Words(vals, n), NEW steps,
         \A i \in 1..(n - 1) : unzigzag(steps[i]) = Wrap(vals[i + 1] - vals[i])
  PROVE  Summed(vals[1], steps, n) = vals
<1> DEFINE base == vals[1]
<1>w. Word \in Nat /\ \A i \in 1..n : vals[i] \in 0..(Word - 1) /\ vals[i] \in Int
  BY WordIs DEF Words
<1>b. base \in 0..(Word - 1)
  BY <1>w
<1>a. \A k \in 1..(n - 1) : unzigzag(steps[k]) \in Int
  <2> SUFFICES ASSUME NEW k \in 1..(n - 1) PROVE unzigzag(steps[k]) \in Int
    OBVIOUS
  <2>1. k \in 1..n /\ k + 1 \in 1..n
    OBVIOUS
  <2>2. Wrap(vals[k + 1] - vals[k]) \in 0..(Word - 1)
    BY <1>w, <2>1, StepBack
  <2> QED BY <1>w, <2>2
<1> HIDE DEF base
<1> DEFINE L == n - 1
           first == base
           Rec(f) == f = [k \in 0..L |-> IF k = 0 THEN first ELSE Wrap(f[k - 1] + unzigzag(steps[k]))]
           step == [k \in 1..L |-> [x \in (0..(Word - 1)) |-> Wrap(x + unzigzag(steps[k]))]]
<1>0. L \in Nat
  OBVIOUS
<1>1. first \in (0..(Word - 1))
  BY <1>b
<1>2. Steps(step, L, (0..(Word - 1)))
  <2>1. \A k \in 1..L : \A x \in (0..(Word - 1)) : Wrap(x + unzigzag(steps[k])) \in (0..(Word - 1))
    <3> SUFFICES ASSUME NEW k \in 1..L, NEW x \in 0..(Word - 1) PROVE Wrap(x + unzigzag(steps[k])) \in 0..(Word - 1)
      OBVIOUS
    <3>1. unzigzag(steps[k]) \in Int /\ x \in Int
      BY <1>a, WordIs
    <3>2. x + unzigzag(steps[k]) \in Int
      BY <3>1
    <3> QED BY <3>2, WrapIs
  <2> HIDE DEF L
  <2> QED BY <2>1 DEF Steps
<1>3. PICK c : Course(c, L, (0..(Word - 1)), first, step)
  <2> HIDE DEF L, first, step
  <2> QED BY <1>0, <1>1, <1>2, Recursion
<1>4. Rec(c)
  <2> HIDE DEF first, L
  <2>1. c \in [0..L -> (0..(Word - 1))] /\ c[0] = first /\ \A i \in 1..L : c[i] = step[i][c[i - 1]]
    BY <1>3 DEF Course
  <2>2. \A i \in 1..L : i - 1 \in 0..L /\ c[i - 1] \in (0..(Word - 1))
    BY <1>0, <2>1
  <2>3. \A k \in 1..L : c[k] = Wrap(c[k - 1] + unzigzag(steps[k]))
    BY <2>1, <2>2
  <2>4. \A k \in 0..L : k # 0 => k \in 1..L
    BY <1>0
  <2> HIDE DEF step
  <2>5. c = [k \in 0..L |-> c[k]]
    BY <2>1
  <2>6. \A k \in 0..L : c[k] = IF k = 0 THEN first ELSE Wrap(c[k - 1] + unzigzag(steps[k]))
    BY <2>1, <2>3, <2>4
  <2> QED BY <2>5, <2>6
<1> DEFINE f == CHOOSE f : Rec(f)
<1>5. Rec(f)
  <2> HIDE DEF Rec
  <2> QED BY <1>4
<1>6. Summed(base, steps, n) = [i \in 1..n |-> f[i - 1]]
  BY DEF Summed
<1> HIDE DEF f, first, L
<1>7. /\ f = [k \in 0..L |-> f[k]] /\ f[0] = first
      /\ \A k \in 1..L : f[k] = Wrap(f[k - 1] + unzigzag(steps[k]))
  <2>1. 0 \in 0..L /\ \A k \in 1..L : k \in 0..L /\ k # 0
    BY <1>0
  <2>2. \A k \in 0..L : f[k] = IF k = 0 THEN first ELSE Wrap(f[k - 1] + unzigzag(steps[k]))
    BY <1>5
  <2>3. DOMAIN f = 0..L
    BY <1>5
  <2>4. f = [k \in 0..L |-> f[k]]
    BY <1>5, <2>3
  <2> QED BY <2>1, <2>2, <2>4
<1>8. Course(f, L, (0..(Word - 1)), first, step)
  <2>1. \A i \in 1..L : f[i - 1] \in (0..(Word - 1)) => f[i] = step[i][f[i - 1]]
    BY <1>7
  <2> HIDE DEF step
  <2> QED BY <1>0, <1>1, <1>2, <1>7, <2>1, CourseFits
<1>9. \A k \in 0..L : f[k] \in (0..(Word - 1))
  BY <1>8 DEF Course
<1> DEFINE G == {k \in Nat : k \in 0..(n - 1) => f[k] = vals[k + 1]}
<1>10. L = n - 1 /\ n - 1 \in Nat
  BY DEF L
<1>11. 0 \in G
  BY <1>7, <1>10 DEF first, base
<1>12. \A k \in 0..(n - 1) : k \in G /\ k < n - 1 => k + 1 \in G
  <2> SUFFICES ASSUME NEW k \in 0..(n - 1), k \in G, k < n - 1 PROVE f[k + 1] = vals[(k + 1) + 1]
    OBVIOUS
  <2>1. k + 1 \in 1..(n - 1) /\ (k + 1) - 1 = k /\ k + 1 \in 1..n /\ (k + 1) + 1 \in 1..n /\ k \in Nat
    OBVIOUS
  <2>2. f[k] = vals[k + 1]
    OBVIOUS
  <2>3. f[k + 1] = Wrap(f[k] + unzigzag(steps[k + 1]))
    BY <1>7, <1>10, <2>1
  <2>4. unzigzag(steps[k + 1]) = Wrap(vals[(k + 1) + 1] - vals[k + 1])
    BY <2>1
  <2>5. Wrap(vals[k + 1] + Wrap(vals[(k + 1) + 1] - vals[k + 1])) = vals[(k + 1) + 1]
    BY <1>w, <2>1, StepBack
  <2> QED BY <2>2, <2>3, <2>4, <2>5
<1> HIDE DEF G
<1>13. \A k \in 0..(n - 1) : k \in G
  BY <1>10, <1>11, <1>12, Climb
<1>14. \A i \in 1..n : f[i - 1] = vals[i]
  <2> SUFFICES ASSUME NEW i \in 1..n PROVE f[i - 1] = vals[i]
    OBVIOUS
  <2>1. i - 1 \in 0..(n - 1) /\ (i - 1) + 1 = i /\ i - 1 \in Nat
    OBVIOUS
  <2> QED BY <1>13, <2>1 DEF G
<1>15. vals = [i \in 1..n |-> vals[i]]
  BY DEF Words
<1>16. [i \in 1..n |-> f[i - 1]] = vals
  BY <1>14, <1>15
<1> QED BY <1>6, <1>16 DEF base

LEMMA SummedNone ==
  \A base, steps : Summed(base, steps, 0) = <<>>
<1>1. \A base, steps : Summed(base, steps, 0) \in [1..0 -> {0}]
  BY DEF Summed
<1> QED BY <1>1

LEMMA NoneIs ==
  ASSUME NEW vals, Words(vals, 0)
  PROVE  vals = <<>>
<1>1. vals \in Seq(0..(Word - 1)) /\ Len(vals) = 0
  BY WordsSeq
<1> QED BY <1>1

LEMMA DeltaBack ==
  ASSUME NEW n \in Nat, NEW vals, Words(vals, n)
  PROVE  decodeDelta(encodeDelta(vals).payload, n, encodeDelta(vals).base) = {vals}
<1> DEFINE d == Deltas(vals)
           b == Base(vals)
<1>1. encodeDelta(vals).base = b /\ encodeDelta(vals).payload = [ints |-> d, bits |-> <<>>]
  BY DEF encodeDelta, Payload
<1> HIDE DEF d, b
<1>2. ASSUME ~(n > Len(d) + 1), Summed(b, d, n) = vals
      PROVE  decodeDelta([ints |-> d, bits |-> <<>>], n, b) = {vals}
  BY <1>2 DEF decodeDelta
<1>3. CASE n = 0
  <2>1. vals = <<>> /\ Summed(b, d, n) = <<>>
    BY <1>3, NoneIs, SummedNone
  <2>2. Len(d) = 0
    <3>1. Len(vals) = 0
      BY <2>1
    <3>2. d = [i \in 1..(0 - 1) |-> zigzag(Wrap(vals[i + 1] - vals[i]))]
      BY <3>1 DEF d, Deltas
    <3>3. d \in [1..0 -> {0}]
      BY <3>2
    <3> QED BY <3>3
  <2> QED BY <1>1, <1>2, <1>3, <2>1, <2>2
<1>4. CASE n > 0
  <2>1. /\ Len(d) = n - 1
        /\ \A i \in 1..(n - 1) : unzigzag(d[i]) = Wrap(vals[i + 1] - vals[i])
    BY <1>4, DeltasIs DEF d
  <2>2. Summed(vals[1], d, n) = vals
    BY <1>4, <2>1, SummedBack
  <2>3. b = vals[1]
    <3>1. Len(vals) = n
      BY WordsSeq
    <3>2. vals # <<>>
      BY <1>4, <3>1
    <3> QED BY <3>2 DEF b, Base
  <2>4. ~(n > Len(d) + 1)
    BY <2>1
  <2> QED BY <1>1, <1>2, <2>2, <2>3, <2>4
<1> QED BY <1>3, <1>4

LEMMA DeltaFORBack ==
  ASSUME NEW n \in Nat, NEW vals, Words(vals, n)
  PROVE  decodeDeltaFOR(encodeDeltaFOR(vals).payload, n, encodeDeltaFOR(vals).base) = {vals}
<1> DEFINE d == Deltas(vals)
           b == Base(vals)
           w == FrameWidth(d)
           lo == Least(d)
           pack == bitpack(Residuals(d), w)
           payload == [ints |-> <<w, lo>>, bits |-> pack]
<1>1. encodeDeltaFOR(vals).base = b /\ encodeDeltaFOR(vals).payload = payload
  BY DEF encodeDeltaFOR, Payload
<1>2. payload.ints[1] = w /\ payload.ints[2] = lo /\ payload.bits = pack
  OBVIOUS
<1>3. CASE n = 0
  <2>1. vals = <<>>
    BY <1>3, NoneIs
  <2> HIDE DEF payload
  <2>2. decodeDeltaFOR(payload, n, b) = {<<>>}
    BY <1>3 DEF decodeDeltaFOR
  <2> QED BY <1>1, <2>1, <2>2
<1>4. CASE n > 0
  <2> DEFINE res == bitunpack(pack, n - 1, w)
             steps == [i \in 1..(n - 1) |-> Wrap(res[i] + lo)]
  <2>1. /\ Words(d, n - 1)
        /\ \A i \in 1..(n - 1) : unzigzag(d[i]) = Wrap(vals[i + 1] - vals[i])
    BY <1>4, DeltasIs
  <2>2. n - 1 \in Nat
    BY <1>4
  <2>3. steps = d
    <3> HIDE DEF d
    <3> QED BY <2>1, <2>2, Rebased
  <2>4. Summed(vals[1], d, n) = vals
    <3> HIDE DEF d
    <3> QED BY <1>4, <2>1, SummedBack
  <2>5. b = vals[1]
    <3>1. Len(vals) = n
      BY WordsSeq
    <3>2. vals # <<>>
      BY <1>4, <3>1
    <3> QED BY <3>2 DEF Base
  <2> HIDE DEF d, b, w, lo, pack
  <2>6. decodeDeltaFOR(payload, n, b) = {Summed(b, steps, n)}
    <3>1. n # 0
      BY <1>4
    <3> HIDE DEF payload
    <3> QED BY <1>2, <3>1 DEF decodeDeltaFOR
  <2> QED BY <1>1, <2>3, <2>4, <2>5, <2>6
<1> QED BY <1>3, <1>4

-----------------------------------------------------------------------------
(* Dictionary. *)

\* Each value once, in a list no longer than the values.
LEMMA DistinctIs ==
  ASSUME NEW S, NEW n \in Nat, NEW vals \in Seq(S), Len(vals) = n
  PROVE  Distinct(vals) \in Seq(S) /\ Len(Distinct(vals)) <= n /\ Range(Distinct(vals)) = Range(vals)
<1>a. Len(vals) \in Nat /\ \A k \in 1..Len(vals) : vals[k] \in S
  OBVIOUS
<1> DEFINE L == Len(vals)
           first == <<>>
           Rec(f) == f = [k \in 0..L |-> IF k = 0 THEN first ELSE IF vals[k] \in Range(f[k - 1]) THEN f[k - 1] ELSE Append(f[k - 1], vals[k])]
           step == [k \in 1..L |-> [x \in Seq(S) |-> IF vals[k] \in Range(x) THEN x ELSE Append(x, vals[k])]]
<1>0. L \in Nat
  BY <1>a
<1>1. first \in Seq(S)
  OBVIOUS
<1>2. Steps(step, L, Seq(S))
  <2>1. \A k \in 1..L : \A x \in Seq(S) : (IF vals[k] \in Range(x) THEN x ELSE Append(x, vals[k])) \in Seq(S)
    <3>1. \A k \in 1..L : vals[k] \in S
      BY <1>a
    <3>2. \A x \in Seq(S) : \A v \in S : Append(x, v) \in Seq(S)
      OBVIOUS
    <3> HIDE DEF L
    <3> QED BY <3>1, <3>2
  <2> HIDE DEF L
  <2> QED BY <2>1 DEF Steps
<1>3. PICK c : Course(c, L, Seq(S), first, step)
  <2> HIDE DEF L, first, step
  <2> QED BY <1>0, <1>1, <1>2, Recursion
<1>4. Rec(c)
  <2> HIDE DEF first, L
  <2>1. c \in [0..L -> Seq(S)] /\ c[0] = first /\ \A i \in 1..L : c[i] = step[i][c[i - 1]]
    BY <1>3 DEF Course
  <2>2. \A i \in 1..L : i - 1 \in 0..L /\ c[i - 1] \in Seq(S)
    BY <1>0, <2>1
  <2>3. \A k \in 1..L : c[k] = IF vals[k] \in Range(c[k - 1]) THEN c[k - 1] ELSE Append(c[k - 1], vals[k])
    BY <2>1, <2>2
  <2>4. \A k \in 0..L : k # 0 => k \in 1..L
    BY <1>0
  <2> HIDE DEF step
  <2>5. c = [k \in 0..L |-> c[k]]
    BY <2>1
  <2>6. \A k \in 0..L : c[k] = IF k = 0 THEN first ELSE IF vals[k] \in Range(c[k - 1]) THEN c[k - 1] ELSE Append(c[k - 1], vals[k])
    BY <2>1, <2>3, <2>4
  <2> QED BY <2>5, <2>6
<1> DEFINE f == CHOOSE f : Rec(f)
<1>5. Rec(f)
  <2> HIDE DEF Rec
  <2> QED BY <1>4
<1>6. Distinct(vals) = f[L]
  BY DEF Distinct, L
<1> HIDE DEF f, first, L
<1>7. /\ f = [k \in 0..L |-> f[k]] /\ f[0] = first
      /\ \A k \in 1..L : f[k] = IF vals[k] \in Range(f[k - 1]) THEN f[k - 1] ELSE Append(f[k - 1], vals[k])
  <2>1. 0 \in 0..L /\ \A k \in 1..L : k \in 0..L /\ k # 0
    BY <1>0
  <2>2. \A k \in 0..L : f[k] = IF k = 0 THEN first ELSE IF vals[k] \in Range(f[k - 1]) THEN f[k - 1] ELSE Append(f[k - 1], vals[k])
    BY <1>5
  <2>3. DOMAIN f = 0..L
    BY <1>5
  <2>4. f = [k \in 0..L |-> f[k]]
    BY <1>5, <2>3
  <2> QED BY <2>1, <2>2, <2>4
<1>8. Course(f, L, Seq(S), first, step)
  <2>1. \A i \in 1..L : f[i - 1] \in Seq(S) => f[i] = step[i][f[i - 1]]
    BY <1>7
  <2> HIDE DEF step
  <2> QED BY <1>0, <1>1, <1>2, <1>7, <2>1, CourseFits
<1>9. \A k \in 0..L : f[k] \in Seq(S)
  BY <1>8 DEF Course
<1> DEFINE G == {k \in Nat : k \in 0..n => Len(f[k]) <= k /\ Range(f[k]) = {vals[j] : j \in 1..k}}
<1>10. L = n
  BY DEF L
<1>11. 0 \in G
  <2>1. f[0] = <<>>
    BY <1>7 DEF first
  <2>2. Len(f[0]) = 0 /\ Range(f[0]) = {}
    BY <2>1 DEF Range
  <2> QED BY <2>2
<1>12. \A k \in 0..n : k \in G /\ k < n => k + 1 \in G
  <2> SUFFICES ASSUME NEW k \in 0..n, k \in G, k < n PROVE k + 1 \in G
    OBVIOUS
  <2>1. k + 1 \in 1..n /\ (k + 1) - 1 = k /\ k \in Nat /\ k \in 0..n
    OBVIOUS
  <2>2. Len(f[k]) <= k /\ Range(f[k]) = {vals[j] : j \in 1..k} /\ f[k] \in Seq(S)
    BY <1>9, <1>10, <2>1
  <2>3. f[k + 1] = IF vals[k + 1] \in Range(f[k]) THEN f[k] ELSE Append(f[k], vals[k + 1])
    BY <1>7, <1>10, <2>1
  <2>4. {vals[j] : j \in 1..(k + 1)} = {vals[j] : j \in 1..k} \cup {vals[k + 1]}
    <3>1. \A j : j \in 1..(k + 1) <=> (j \in 1..k \/ j = k + 1)
      OBVIOUS
    <3> QED BY <3>1
  <2>5. vals[k + 1] \in S
    BY <1>a, <1>10, <2>1 DEF L
  <2>6. CASE vals[k + 1] \in Range(f[k])
    <3>1. f[k + 1] = f[k] /\ Len(f[k]) \in Nat
      BY <2>2, <2>3, <2>6
    <3>2. Len(f[k + 1]) <= k + 1
      BY <2>2, <3>1
    <3>3. Range(f[k + 1]) = {vals[j] : j \in 1..(k + 1)}
      BY <2>2, <2>4, <2>6, <3>1
    <3> QED BY <3>2, <3>3
  <2>7. CASE vals[k + 1] \notin Range(f[k])
    <3>1. f[k + 1] = Append(f[k], vals[k + 1])
      BY <2>3, <2>7
    <3>2. Len(f[k + 1]) = Len(f[k]) + 1 /\ Len(f[k]) \in Nat
      BY <2>2, <2>5, <3>1
    <3>3. Range(f[k + 1]) = Range(f[k]) \cup {vals[k + 1]}
      BY <2>2, <2>5, <3>1, RangeAppend
    <3>4. Len(f[k + 1]) <= k + 1
      BY <2>2, <3>2
    <3>5. Range(f[k + 1]) = {vals[j] : j \in 1..(k + 1)}
      BY <2>2, <2>4, <3>3
    <3> QED BY <3>4, <3>5
  <2> QED BY <2>6, <2>7
<1> HIDE DEF G
<1>13. \A k \in 0..n : k \in G
  BY <1>11, <1>12, Climb
<1>14. n \in 0..n /\ n \in G
  BY <1>13
<1>15. Len(f[n]) <= n /\ Range(f[n]) = {vals[j] : j \in 1..n} /\ f[n] \in Seq(S)
  BY <1>9, <1>10, <1>14 DEF G
<1>16. Range(vals) = {vals[j] : j \in 1..n}
  BY DEF Range
<1> QED BY <1>6, <1>10, <1>15, <1>16

LEMMA DictBack ==
  ASSUME NEW n \in Nat, n < Word, NEW vals, Words(vals, n)
  PROVE  decodeDict(encodeDict(vals), n) = {vals}
<1> DEFINE S == 0..(Word - 1)
           dict == Distinct(vals)
           Code(v) == CHOOSE c \in DOMAIN dict : dict[c] = v
           codes == [i \in DOMAIN vals |-> Code(vals[i]) - 1]
           size == Len(dict)
           cw == CodeWidth(size)
           bits == bitpack(codes, cw)
           ints == <<size>> \o dict \o <<cw>>
           payload == [ints |-> ints, bits |-> bits]
<1>1. vals \in Seq(S) /\ Len(vals) = n /\ DOMAIN vals = 1..n
  BY WordsSeq
<1>2. encodeDict(vals) = payload
  BY DEF encodeDict, Payload
<1>3. payload.ints = ints /\ payload.bits = bits
  OBVIOUS
<1> HIDE DEF payload
<1>4. CASE n = 0
  <2>1. vals = <<>>
    BY <1>4, NoneIs
  <2>2. decodeDict(payload, n) = {<<>>}
    BY <1>4 DEF decodeDict
  <2> QED BY <1>2, <2>1, <2>2
<1>5. CASE n > 0
  <2>1. dict \in Seq(S) /\ size <= n /\ Range(dict) = Range(vals)
    <3> HIDE DEF S
    <3> QED BY <1>1, DistinctIs
  <2>2. size \in Nat /\ DOMAIN dict = 1..size
    BY <2>1
  <2>3. \A i \in 1..n : Code(vals[i]) \in 1..size /\ dict[Code(vals[i])] = vals[i]
    <3> SUFFICES ASSUME NEW i \in 1..n PROVE Code(vals[i]) \in 1..size /\ dict[Code(vals[i])] = vals[i]
      OBVIOUS
    <3>1. vals[i] \in Range(vals)
      BY <1>1 DEF Range
    <3>2. \E c \in DOMAIN dict : dict[c] = vals[i]
      BY <2>1, <3>1 DEF Range
    <3> HIDE DEF dict
    <3>3. Code(vals[i]) \in DOMAIN dict /\ dict[Code(vals[i])] = vals[i]
      BY <3>2
    <3> HIDE DEF Code, size
    <3> QED BY <2>2, <3>3
  <2> HIDE DEF dict, Code, size, S
  <2>4. size > 0 /\ size < Word /\ Word \in Nat
    <3>1. 1 \in 1..n
      BY <1>5
    <3>2. Code(vals[1]) \in 1..size
      BY <2>3, <3>1
    <3> QED BY <2>1, <2>2, <3>2, WordIs
  <2>5. cw \in 0..WordBits /\ size - 1 < 2^cw
    <3>1. CASE size > 1
      <4>1. size - 1 \in 0..(Word - 1)
        BY <2>2, <2>4
      <4>2. cw = bitWidth(size - 1)
        BY <3>1 DEF CodeWidth
      <4> QED BY <4>1, <4>2, BitWidthIs
    <3>2. CASE ~(size > 1)
      <4>1. cw = 0 /\ size - 1 = 0
        BY <2>2, <2>4, <3>2 DEF CodeWidth
      <4> HIDE DEF cw
      <4> QED BY <4>1, WordAssumption
    <3> QED BY <3>1, <3>2
  <2> HIDE DEF cw
  <2>6. FitsIn(codes, n, cw)
    <3>1. codes = [i \in 1..n |-> codes[i]] /\ \A i \in 1..n : codes[i] = Code(vals[i]) - 1
      BY <1>1
    <3> HIDE DEF codes
    <3> DEFINE V == 2^cw
    <3>2. V \in Nat /\ size - 1 < V
      BY <2>5, PowersGrow
    <3> HIDE DEF V
    <3>3. \A i \in 1..n : codes[i] \in Nat /\ codes[i] < V
      BY <2>2, <2>3, <3>1, <3>2
    <3>4. \A i \in 1..n : codes[i] \in Nat /\ codes[i] < 2^cw
      BY <3>3 DEF V
    <3> QED BY <3>1, <3>4 DEF FitsIn
  <2>7. /\ Len(ints) = size + 2 /\ ints[1] = size /\ ints[size + 2] = cw /\ SubSeq(ints, 2, size + 1) = dict
    <3> DEFINE a == <<size>> \o dict
    <3>1. <<size>> \in Seq(Int) /\ dict \in Seq(Int) /\ <<cw>> \in Seq(Int)
      <4>1. cw \in Int
        BY <2>5, WordAssumption
      <4>2. dict \in [1..size -> Int]
        <5>1. \A i \in 1..size : dict[i] \in S /\ S \subseteq Int
          BY <2>1, <2>2, <2>4 DEF S, size
        <5>2. dict = [i \in 1..size |-> dict[i]]
          BY <2>1, <2>2
        <5> QED BY <5>1, <5>2
      <4> QED BY <2>2, <4>1, <4>2
    <3>2. Len(<<size>>) = 1 /\ Len(dict) = size /\ Len(<<cw>>) = 1 /\ <<size>>[1] = size /\ <<cw>>[1] = cw
      BY DEF size
    <3>3. a \in Seq(Int) /\ Len(a) = size + 1 /\ a[1] = size /\ \A i \in 1..size : a[1 + i] = dict[i]
      BY <2>2, <3>1, <3>2
    <3> HIDE DEF a
    <3>4. ints = a \o <<cw>>
      BY DEF a
    <3>5. /\ ints \in Seq(Int) /\ Len(ints) = size + 2 /\ ints[size + 2] = cw
          /\ \A i \in 1..(size + 1) : ints[i] = a[i]
      <4> HIDE DEF ints
      <4>1. (size + 1) + 1 = size + 2
        BY <2>2
      <4> QED BY <2>2, <3>1, <3>2, <3>3, <3>4, <4>1
    <3> HIDE DEF ints
    <3>6. ints[1] = size
      BY <2>2, <3>3, <3>5
    <3>7. SubSeq(ints, 2, size + 1) = [i \in 1..size |-> ints[1 + i]]
      <4>1. /\ 2 \in Nat /\ size + 1 \in Nat /\ 1 <= 2 /\ 2 <= (size + 1) + 1 /\ size + 1 <= Len(ints)
            /\ ((size + 1) - 2) + 1 = size /\ 2 - 1 = 1
        BY <2>2, <3>5
      <4>2. SubSeq(ints, 2, size + 1) = [i \in 1..(((size + 1) - 2) + 1) |-> ints[(2 - 1) + i]]
        BY <3>5, <4>1, PartIs
      <4> QED BY <4>1, <4>2
    <3>8. \A i \in 1..size : ints[1 + i] = dict[i]
      <4>1. \A i \in 1..size : 1 + i \in 1..(size + 1)
        BY <2>2
      <4> QED BY <3>3, <3>5, <4>1
    <3>9. dict = [i \in 1..size |-> dict[i]]
      BY <2>1, <2>2
    <3> QED BY <3>5, <3>6, <3>7, <3>8, <3>9
  <2>8. bitunpack(bits, n, cw) = codes
    <3> HIDE DEF codes
    <3> QED BY <2>5, <2>6, Unpacked
  <2>9. \A i \in 1..n : codes[i] = Code(vals[i]) - 1
    BY <1>1
  <2> HIDE DEF ints, bits, codes
  <2>10. \A i \in 1..n : ~(codes[i] >= size) /\ dict[codes[i] + 1] = vals[i]
    <3> SUFFICES ASSUME NEW i \in 1..n PROVE ~(codes[i] >= size) /\ dict[codes[i] + 1] = vals[i]
      OBVIOUS
    <3>1. Code(vals[i]) \in 1..size /\ dict[Code(vals[i])] = vals[i] /\ codes[i] = Code(vals[i]) - 1
      BY <2>3, <2>9
    <3>2. codes[i] + 1 = Code(vals[i]) /\ ~(codes[i] >= size)
      BY <2>2, <3>1
    <3> QED BY <3>1, <3>2
  <2>11. decodeDict(payload, n) = {[i \in 1..n |-> dict[codes[i] + 1]]}
    <3>1. n # 0
      BY <1>5
    <3>2. decodeDict(payload, n) = IF \E i \in 1..n : codes[i] >= size THEN {}
                                   ELSE {[i \in 1..n |-> dict[codes[i] + 1]]}
      BY <1>3, <2>7, <2>8, <3>1 DEF decodeDict
    <3> QED BY <2>10, <3>2
  <2>12. [i \in 1..n |-> dict[codes[i] + 1]] = vals
    <3>1. vals = [i \in 1..n |-> vals[i]]
      BY DEF Words
    <3> QED BY <2>10, <3>1
  <2> QED BY <1>2, <2>11, <2>12
<1> QED BY <1>4, <1>5

-----------------------------------------------------------------------------
(* Runs. *)

\* v, q times.
Times(v, q) == [k \in 1..q |-> v]

LEMMA TimesIs ==
  ASSUME NEW S, NEW v \in S, NEW q \in Nat
  PROVE  /\ Times(v, q) \in Seq(S) /\ Len(Times(v, q)) = q
         /\ Times(v, q + 1) = Append(Times(v, q), v)
         /\ Append(<<>>, v) = Times(v, 1)
<1>1. \A m \in Nat : Times(v, m) \in Seq(S) /\ Len(Times(v, m)) = m /\ \A i \in 1..m : Times(v, m)[i] = v
  <2> SUFFICES ASSUME NEW m \in Nat
               PROVE  Times(v, m) \in Seq(S) /\ Len(Times(v, m)) = m /\ \A i \in 1..m : Times(v, m)[i] = v
    OBVIOUS
  <2>1. Times(v, m) \in [1..m -> S] /\ \A i \in 1..m : Times(v, m)[i] = v
    BY DEF Times
  <2> QED BY <2>1
<1>2. ASSUME NEW m \in Nat PROVE Times(v, m + 1) = Append(Times(v, m), v)
  <2> DEFINE a == Times(v, m)
             b == Times(v, m + 1)
             c == Append(a, v)
  <2>1. /\ a \in Seq(S) /\ Len(a) = m /\ (\A i \in 1..m : a[i] = v)
        /\ b \in Seq(S) /\ Len(b) = m + 1 /\ (\A i \in 1..(m + 1) : b[i] = v)
    <3>1. m + 1 \in Nat
      OBVIOUS
    <3> QED BY <1>1, <3>1
  <2> HIDE DEF a, b
  <2>2. c \in Seq(S) /\ Len(c) = m + 1 /\ (\A i \in 1..m : c[i] = a[i]) /\ c[m + 1] = v
    BY <2>1, AppendIs
  <2> HIDE DEF c
  <2>3. \A i \in 1..(m + 1) : b[i] = c[i]
    BY <2>1, <2>2
  <2>4. b = c
    BY <2>1, <2>2, <2>3, SameList
  <2> QED BY <2>4 DEF a, b, c
<1>3. Times(v, 0) = <<>>
  <2>1. Times(v, 0) \in Seq(S) /\ Len(Times(v, 0)) = 0
    BY <1>1
  <2> QED BY <2>1
<1>4. 0 \in Nat /\ 0 + 1 = 1
  OBVIOUS
<1>5. Times(v, 0 + 1) = Append(Times(v, 0), v)
  BY <1>2, <1>4, Zenon
<1>6. Times(v, 1) = Append(<<>>, v)
  BY <1>3, <1>4, <1>5, Zenon
<1> QED BY <1>1, <1>2, <1>6

\* The next step of Runs.
Grow(done, vals, i) ==
  IF i > 1 /\ vals[i] = vals[i - 1] THEN [done EXCEPT ![Len(done)] = <<vals[i], done[Len(done)][2] + 1>>]
  ELSE Append(done, <<vals[i], 1>>)

LEMMA GrowTyped ==
  ASSUME NEW S, NEW vals, NEW i, vals[i] \in S, NEW done \in Seq(S \X Nat)
  PROVE  Grow(done, vals, i) \in Seq(S \X Nat)
<1> DEFINE R == S \X Nat
           m == Len(done)
           e == <<vals[i], done[m][2] + 1>>
<1>1. Append(done, <<vals[i], 1>>) \in Seq(R)
  OBVIOUS
<1>2. [done EXCEPT ![m] = e] \in Seq(R)
  <2>1. CASE m = 0
    <3>1. m \notin DOMAIN done
      BY <2>1
    <3>2. [done EXCEPT ![m] = e] = done
      <4> HIDE DEF m, e
      <4>1. done = [j \in DOMAIN done |-> done[j]]
        OBVIOUS
      <4> QED BY <3>1, <4>1
    <3> QED BY <3>2
  <2>2. CASE m > 0
    <3>1. m \in 1..m /\ DOMAIN done = 1..m
      BY <2>2
    <3>2. done[m] \in R
      BY <3>1
    <3>3. e \in R
      <4>1. done[m][2] \in Nat
        BY <3>2
      <4> QED BY <4>1
    <3>4. m \in 1..Len(done)
      BY <3>1
    <3> HIDE DEF R, e, m
    <3> QED BY <3>3, <3>4, ReplacedIs DEF R
  <2> QED BY <2>1, <2>2
<1> HIDE DEF R, m, e
<1>3. Grow(done, vals, i) = [done EXCEPT ![m] = e] \/ Grow(done, vals, i) = Append(done, <<vals[i], 1>>)
  BY DEF Grow, m, e
<1> QED BY <1>1, <1>2, <1>3 DEF R

LEMMA TimesLonger ==
  ASSUME NEW S, NEW a \in Seq(S), NEW v \in S, NEW q \in Nat
  PROVE  Append(a \o Times(v, q), v) = a \o Times(v, q + 1)
<1>1. PICK b : b = Times(v, q)
  OBVIOUS
<1>2. b \in Seq(S) /\ Times(v, q + 1) = Append(b, v)
  BY <1>1, TimesIs
<1>3. AppendsLast(a, b, v)
  <2>1. b \in Seq(S)
    BY <1>2
  <2> QED BY <2>1, AppendLast, Zenon
<1> QED BY <1>1, <1>2, <1>3 DEF AppendsLast

\* out[r] is what the first r runs stand for.
Unrolls(runs, out, S) ==
  /\ out \in [0..Len(runs) -> Seq(S)] /\ out[0] = <<>>
  /\ \A r \in 1..Len(runs) : out[r] = out[r - 1] \o Times(runs[r][1], runs[r][2])

LEMMA RunStarts ==
  ASSUME NEW S, NEW runs \in Seq(S \X Nat), NEW out, Unrolls(runs, out, S), NEW v \in S
  PROVE  \E more : /\ Unrolls(Append(runs, <<v, 1>>), more, S)
                   /\ more[Len(runs) + 1] = Append(out[Len(runs)], v)
<1> DEFINE m == Len(runs)
           x == Append(out[m], v)
           next == Append(runs, <<v, 1>>)
           more == [r \in 0..(m + 1) |-> IF r <= m THEN out[r] ELSE x]
<1>1. /\ m \in Nat /\ out \in [0..m -> Seq(S)] /\ out[0] = <<>>
      /\ \A r \in 1..m : out[r] = out[r - 1] \o Times(runs[r][1], runs[r][2])
  <2>1. Len(runs) \in Nat
    OBVIOUS
  <2>2. /\ out \in [0..Len(runs) -> Seq(S)] /\ out[0] = <<>>
        /\ \A r \in 1..Len(runs) : out[r] = out[r - 1] \o Times(runs[r][1], runs[r][2])
    BY Zenon DEF Unrolls
  <2> QED BY <2>1, <2>2, Zenon DEF m
<1>2. /\ Len(next) = m + 1 /\ next[m + 1] = <<v, 1>> /\ \A r \in 1..m : next[r] = runs[r]
  OBVIOUS
<1>3. out[m] \in Seq(S) /\ x \in Seq(S)
  BY <1>1
<1>4. x = out[m] \o Times(v, 1)
  <2>1. out[m] \o <<>> = out[m] /\ <<>> \in Seq(S)
    BY <1>3
  <2>2. Append(out[m] \o <<>>, v) = out[m] \o Append(<<>>, v)
    <3>1. AppendsLast(out[m], <<>>, v)
      BY <1>3, <2>1, AppendLast, Zenon
    <3> QED BY <3>1, Zenon DEF AppendsLast
  <2>3. Append(<<>>, v) = Times(v, 1)
    BY TimesIs
  <2> QED BY <2>1, <2>2, <2>3
<1> HIDE DEF x, m, next
<1>5. /\ more \in [0..(m + 1) -> Seq(S)] /\ more[m + 1] = x
      /\ \A r \in 0..m : more[r] = out[r]
  <2>1. \A r \in 0..(m + 1) : r <= m => r \in 0..m
    BY <1>1
  <2> QED BY <1>1, <1>3, <2>1
<1> HIDE DEF more
<1>6. more[0] = <<>>
  BY <1>1, <1>5
<1>7. \A r \in 1..(m + 1) : more[r] = more[r - 1] \o Times(next[r][1], next[r][2])
  <2> SUFFICES ASSUME NEW r \in 1..(m + 1) PROVE more[r] = more[r - 1] \o Times(next[r][1], next[r][2])
    OBVIOUS
  <2>1. CASE r = m + 1
    <3>1. r - 1 = m /\ m \in 0..m
      BY <1>1, <2>1
    <3>2. more[r] = x /\ more[r - 1] = out[m]
      BY <1>5, <2>1, <3>1
    <3>3. next[r][2] = 1 /\ next[r][1] = v
      BY <1>2, <2>1
    <3> QED BY <1>4, <3>2, <3>3
  <2>2. CASE r # m + 1
    <3>1. r \in 1..m /\ r \in 0..m /\ r - 1 \in 0..m
      BY <1>1, <2>2
    <3>2. more[r] = out[r] /\ more[r - 1] = out[r - 1] /\ next[r] = runs[r]
      BY <1>2, <1>5, <3>1
    <3> QED BY <1>1, <3>1, <3>2
  <2> QED BY <2>1, <2>2
<1>8. Unrolls(next, more, S)
  BY <1>2, <1>5, <1>6, <1>7 DEF Unrolls
<1> QED BY <1>5, <1>8 DEF x, m, next

\* more unrolls runs with its last run, of v, one longer.
Lengthens(runs, out, more, v, S) ==
  /\ Unrolls([runs EXCEPT ![Len(runs)] = <<v, runs[Len(runs)][2] + 1>>], more, S)
  /\ more[Len(runs)] = Append(out[Len(runs)], v)

LEMMA RunGrows ==
  ASSUME NEW S, NEW runs \in Seq(S \X Nat), NEW out, Unrolls(runs, out, S), NEW v \in S,
         Len(runs) > 0, runs[Len(runs)][1] = v
  PROVE  \E more : Lengthens(runs, out, more, v, S)
<1> SUFFICES \E more : /\ Unrolls([runs EXCEPT ![Len(runs)] = <<v, runs[Len(runs)][2] + 1>>], more, S)
                       /\ more[Len(runs)] = Append(out[Len(runs)], v)
  BY Zenon DEF Lengthens
<1> DEFINE m == Len(runs)
           q == runs[m][2]
           x == Append(out[m], v)
           e == <<v, q + 1>>
           next == [runs EXCEPT ![m] = e]
           more == [out EXCEPT ![m] = x]
<1>1. /\ m \in Nat /\ m > 0 /\ out \in [0..m -> Seq(S)] /\ out[0] = <<>>
      /\ \A r \in 1..m : out[r] = out[r - 1] \o Times(runs[r][1], runs[r][2])
  <2>1. Len(runs) \in Nat
    OBVIOUS
  <2>2. /\ out \in [0..Len(runs) -> Seq(S)] /\ out[0] = <<>>
        /\ \A r \in 1..Len(runs) : out[r] = out[r - 1] \o Times(runs[r][1], runs[r][2])
    BY Zenon DEF Unrolls
  <2> QED BY <2>1, <2>2, Zenon DEF m
<1>2. runs \in [1..m -> S \X Nat] /\ runs[m] \in S \X Nat /\ q \in Nat
  BY <1>1
<1>3. e[1] = v /\ e[2] = q + 1 /\ e \in S \X Nat
  BY <1>2
<1>4. out[m] \in Seq(S) /\ x \in Seq(S) /\ out[m - 1] \in Seq(S) /\ out[m] = out[m - 1] \o Times(v, q)
  <2>1. m \in 0..m /\ m - 1 \in 0..m /\ m \in 1..m
    BY <1>1
  <2>2. out[m] \in Seq(S) /\ out[m - 1] \in Seq(S)
    BY <1>1, <2>1
  <2>3. out[m] = out[m - 1] \o Times(runs[m][1], runs[m][2])
    BY <1>1, <2>1
  <2>4. x \in Seq(S)
    BY <2>2
  <2> QED BY <2>2, <2>3, <2>4
<1> HIDE DEF e, q
<1>5. x = out[m - 1] \o Times(v, q + 1)
  <2>1. PICK a : a = out[m - 1]
    OBVIOUS
  <2>2. a \in Seq(S) /\ x = Append(a \o Times(v, q), v)
    BY <1>4, <2>1
  <2> HIDE DEF x
  <2>3. a \in Seq(S) /\ q \in Nat
    BY <1>2, <2>2
  <2>4. Append(a \o Times(v, q), v) = a \o Times(v, q + 1)
    BY <2>3, TimesLonger
  <2> QED BY <2>1, <2>2, <2>4
<1>6. Len(next) = m /\ next[m] = e /\ \A r \in 1..m : r # m => next[r] = runs[r]
  BY <1>1, <1>2
<1> HIDE DEF x, m, next
<1>7. /\ more \in [0..m -> Seq(S)] /\ more[m] = x
      /\ \A r \in 0..m : r # m => more[r] = out[r]
  BY <1>1, <1>4
<1> HIDE DEF more
<1>8. more[0] = <<>>
  BY <1>1, <1>7
<1>9. \A r \in 1..m : more[r] = more[r - 1] \o Times(next[r][1], next[r][2])
  <2> SUFFICES ASSUME NEW r \in 1..m PROVE more[r] = more[r - 1] \o Times(next[r][1], next[r][2])
    OBVIOUS
  <2>0. r - 1 \in 0..m /\ r - 1 # m /\ r \in 0..m /\ more[r - 1] = out[r - 1]
    <3>1. r - 1 \in 0..m /\ r - 1 # m /\ r \in 0..m
      BY <1>1
    <3> QED BY <1>7, <3>1
  <2>1. CASE r = m
    <3>1. next[r][2] = q + 1 /\ next[r][1] = v
      BY <1>3, <1>6, <2>1
    <3> QED BY <1>5, <1>7, <2>0, <2>1, <3>1
  <2>2. CASE r # m
    <3>2. more[r] = out[r] /\ next[r] = runs[r]
      BY <1>6, <1>7, <2>0, <2>2
    <3> QED BY <1>1, <2>0, <3>2
  <2> QED BY <2>1, <2>2
<1>10. Unrolls(next, more, S)
  BY <1>6, <1>7, <1>8, <1>9 DEF Unrolls
<1> QED BY <1>7, <1>10 DEF x, m, next, e, q

\* The runs of vals stand for vals.
LEMMA RunsUnroll ==
  ASSUME NEW S, NEW n \in Nat, NEW vals \in Seq(S), Len(vals) = n
  PROVE  /\ Runs(vals) \in Seq(S \X Nat)
         /\ \E out : Unrolls(Runs(vals), out, S) /\ out[Len(Runs(vals))] = vals
<1>a. Len(vals) \in Nat /\ \A k \in 1..Len(vals) : vals[k] \in S
  OBVIOUS
<1> DEFINE L == Len(vals)
           first == <<>>
           Rec(f) == f = [k \in 0..L |-> IF k = 0 THEN first ELSE Grow(f[k - 1], vals, k)]
           step == [k \in 1..L |-> [x \in Seq(S \X Nat) |-> Grow(x, vals, k)]]
<1>0. L \in Nat
  BY <1>a
<1>1. first \in Seq(S \X Nat)
  OBVIOUS
<1>2. Steps(step, L, Seq(S \X Nat))
  <2>1. \A k \in 1..L : \A x \in Seq(S \X Nat) : (Grow(x, vals, k)) \in Seq(S \X Nat)
    <3>1. \A k \in 1..L : vals[k] \in S
      BY <1>a
    <3> HIDE DEF L
    <3> QED BY <3>1, GrowTyped
  <2> HIDE DEF L
  <2> QED BY <2>1 DEF Steps
<1>3. PICK c : Course(c, L, Seq(S \X Nat), first, step)
  <2> HIDE DEF L, first, step
  <2> QED BY <1>0, <1>1, <1>2, Recursion
<1>4. Rec(c)
  <2> HIDE DEF first, L
  <2>1. c \in [0..L -> Seq(S \X Nat)] /\ c[0] = first /\ \A i \in 1..L : c[i] = step[i][c[i - 1]]
    BY <1>3 DEF Course
  <2>2. \A i \in 1..L : i - 1 \in 0..L /\ c[i - 1] \in Seq(S \X Nat)
    BY <1>0, <2>1
  <2>3. \A k \in 1..L : c[k] = Grow(c[k - 1], vals, k)
    BY <2>1, <2>2
  <2>4. \A k \in 0..L : k # 0 => k \in 1..L
    BY <1>0
  <2> HIDE DEF step
  <2>5. c = [k \in 0..L |-> c[k]]
    BY <2>1
  <2>6. \A k \in 0..L : c[k] = IF k = 0 THEN first ELSE Grow(c[k - 1], vals, k)
    BY <2>1, <2>3, <2>4
  <2> QED BY <2>5, <2>6
<1> DEFINE f == CHOOSE f : Rec(f)
<1>5. Rec(f)
  <2> HIDE DEF Rec
  <2> QED BY <1>4
<1>6. Runs(vals) = f[L]
  BY DEF Runs, L, Grow
<1> HIDE DEF f, first, L
<1>7. /\ f = [k \in 0..L |-> f[k]] /\ f[0] = first
      /\ \A k \in 1..L : f[k] = Grow(f[k - 1], vals, k)
  <2>1. 0 \in 0..L /\ \A k \in 1..L : k \in 0..L /\ k # 0
    BY <1>0
  <2>2. \A k \in 0..L : f[k] = IF k = 0 THEN first ELSE Grow(f[k - 1], vals, k)
    BY <1>5
  <2>3. DOMAIN f = 0..L
    BY <1>5
  <2>4. f = [k \in 0..L |-> f[k]]
    BY <1>5, <2>3
  <2> QED BY <2>1, <2>2, <2>4
<1>8. Course(f, L, Seq(S \X Nat), first, step)
  <2>1. \A i \in 1..L : f[i - 1] \in Seq(S \X Nat) => f[i] = step[i][f[i - 1]]
    BY <1>7
  <2> HIDE DEF step
  <2> QED BY <1>0, <1>1, <1>2, <1>7, <2>1, CourseFits
<1>9. \A k \in 0..L : f[k] \in Seq(S \X Nat)
  BY <1>8 DEF Course
<1> DEFINE Upto(i) == [j \in 1..i |-> vals[j]]
           G == {i \in Nat : i \in 0..n =>
                   /\ \E out : Unrolls(f[i], out, S) /\ out[Len(f[i])] = Upto(i)
                   /\ i > 0 => Len(f[i]) > 0 /\ f[i][Len(f[i])][1] = vals[i]}
<1>10. L = n
  BY DEF L
<1>11. 0 \in G
  <2> DEFINE out == [r \in 0..0 |-> <<>>]
  <2>1. f[0] = <<>> /\ Len(f[0]) = 0
    BY <1>7 DEF first
  <2>2. out \in [0..0 -> Seq(S)] /\ out[0] = <<>>
    OBVIOUS
  <2>3. Unrolls(<<>>, out, S)
    BY <2>2 DEF Unrolls
  <2>4. Upto(0) = <<>>
    <3>1. Upto(0) \in [1..0 -> S]
      OBVIOUS
    <3> QED BY <3>1
  <2> HIDE DEF out, Upto
  <2>5. \E o : Unrolls(f[0], o, S) /\ o[Len(f[0])] = Upto(0)
    BY <2>1, <2>2, <2>3, <2>4
  <2> QED BY <2>5
<1>12. \A i \in 0..n : i \in G /\ i < n => i + 1 \in G
  <2> SUFFICES ASSUME NEW i \in 0..n, i \in G, i < n PROVE i + 1 \in G
    OBVIOUS
  <2>1. i + 1 \in 1..n /\ (i + 1) - 1 = i /\ i \in Nat /\ i \in 0..n /\ i + 1 \in 0..n
    OBVIOUS
  <2> DEFINE v == vals[i + 1]
             done == f[i]
             next == f[i + 1]
             m == Len(done)
  <2>2. PICK out : Unrolls(done, out, S) /\ out[m] = Upto(i)
    BY <2>1
  <2>3. i > 0 => m > 0 /\ done[m][1] = vals[i]
    BY <2>1
  <2>4. v \in S /\ done \in Seq(S \X Nat) /\ m \in Nat
    BY <1>9, <1>10, <1>a, <2>1 DEF L
  <2>5. next = Grow(done, vals, i + 1)
    BY <1>7, <1>10, <2>1
  <2>6. Append(Upto(i), v) = Upto(i + 1)
    <3>1. Upto(i) \in Seq(S) /\ Len(Upto(i)) = i /\ Upto(i + 1) \in Seq(S) /\ Len(Upto(i + 1)) = i + 1
      <4>1. \A j \in 1..i : j \in 1..n
        BY <2>1
      <4>2. \A j \in 1..(i + 1) : j \in 1..n
        BY <2>1
      <4>3. Upto(i) \in [1..i -> S] /\ Upto(i + 1) \in [1..(i + 1) -> S]
        BY <1>a, <4>1, <4>2
      <4> QED BY <2>1, <4>3
    <3>2. \A j \in 1..(i + 1) : Append(Upto(i), v)[j] = Upto(i + 1)[j]
      BY <2>1, <3>1
    <3> HIDE DEF Upto, v
    <3>3. Append(Upto(i), v) \in Seq(S) /\ Len(Append(Upto(i), v)) = i + 1
      BY <2>4, <3>1, AppendIs
    <3> QED BY <2>1, <3>1, <3>2, <3>3, SameList
  <2> HIDE DEF G, v, done, next, m, Upto
  <2>7. CASE i + 1 > 1 /\ v = vals[i]
    <3> DEFINE e == <<v, done[m][2] + 1>>
    <3>1. i > 0 /\ m > 0 /\ done[m][1] = v
      BY <2>1, <2>3, <2>7
    <3>2. next = [done EXCEPT ![m] = e]
      BY <2>1, <2>5, <2>7 DEF Grow, m, v
    <3>3. PICK more : Unrolls([done EXCEPT ![m] = e], more, S) /\ more[m] = Append(out[m], v)
      <4>1. Unrolls(done, out, S) /\ done \in Seq(S \X Nat) /\ v \in S /\ Len(done) > 0 /\ done[Len(done)][1] = v
        BY <2>2, <2>4, <3>1 DEF m
      <4>2. \E more : Lengthens(done, out, more, v, S)
        BY <4>1, RunGrows, Zenon
      <4> QED BY <4>2, Zenon DEF m, e, Lengthens
    <3>4. Len(next) = m /\ next[m] = e /\ e[1] = v
      <4> HIDE DEF e
      <4>1. Len(next) = m /\ next[m] = e
        BY <2>4, <3>1, <3>2 DEF m
      <4> QED BY <4>1 DEF e
    <3>5. Unrolls(next, more, S) /\ more[Len(next)] = Upto(i + 1)
      BY <2>2, <2>6, <3>2, <3>3, <3>4
    <3>6. Len(next) > 0 /\ next[Len(next)][1] = v
      BY <3>1, <3>4
    <3> QED BY <2>1, <3>5, <3>6 DEF G, v, next
  <2>8. CASE ~(i + 1 > 1 /\ v = vals[i])
    <3>1. next = Append(done, <<v, 1>>)
      BY <2>1, <2>5, <2>8 DEF Grow, v
    <3>2. PICK more : Unrolls(Append(done, <<v, 1>>), more, S) /\ more[m + 1] = Append(out[m], v)
      BY <2>2, <2>4, RunStarts DEF m
    <3>3. Len(next) = m + 1 /\ next[m + 1] = <<v, 1>> /\ <<v, 1>>[1] = v
      BY <2>4, <3>1 DEF m
    <3>4. Unrolls(next, more, S) /\ more[Len(next)] = Upto(i + 1)
      BY <2>2, <2>6, <3>1, <3>2, <3>3
    <3>5. Len(next) > 0 /\ next[Len(next)][1] = v
      BY <2>4, <3>3
    <3> QED BY <2>1, <3>4, <3>5 DEF G, v, next
  <2> QED BY <2>7, <2>8
<1> HIDE DEF G
<1>13. \A i \in 0..n : i \in G
  BY <1>11, <1>12, Climb
<1>14. n \in 0..n /\ n \in G /\ n \in Nat
  BY <1>13
<1>15. Upto(n) = vals
  OBVIOUS
<1>16. \E out : Unrolls(f[n], out, S) /\ out[Len(f[n])] = Upto(n)
  BY <1>14 DEF G
<1>17. f[n] \in Seq(S \X Nat)
  BY <1>9, <1>10, <1>14
<1> HIDE DEF Upto
<1> QED BY <1>6, <1>10, <1>15, <1>16, <1>17

LEMMA RLEBack ==
  ASSUME NEW n \in Nat, NEW vals, Words(vals, n)
  PROVE  decodeRLE(encodeRLE(vals), n) = {vals}
<1> DEFINE S == 0..(Word - 1)
           runs == Runs(vals)
           size == Len(runs)
           payload == encodeRLE(vals)
           in == [p \in 1..(2 * size + 1) |-> IF p = 1 THEN size ELSE runs[p \div 2][(p % 2) + 1]]
<1>d. vals \in Seq(S) /\ Len(vals) = n
  BY WordsSeq
<1> HIDE DEF S
<1>e. runs \in Seq(S \X Nat) /\ \E out : Unrolls(runs, out, S) /\ out[size] = vals
  BY <1>d, RunsUnroll
<1>f. PICK out : Unrolls(runs, out, S) /\ out[size] = vals
  BY <1>e
<1>a. size \in Nat
  BY <1>e
<1>c. payload.ints = in /\ in[1] = size
  <2>1. payload.ints = in
    BY DEF encodeRLE, Payload
  <2>2. 1 \in 1..(2 * size + 1)
    BY <1>a
  <2> HIDE DEF size
  <2> QED BY <2>1, <2>2
<1>g. \A r \in 1..size : in[2 * r + 1] = runs[r][2] /\ in[2 * r] = runs[r][1]
  <2> HIDE DEF runs, size
  <2> SUFFICES ASSUME NEW r \in 1..size PROVE in[2 * r + 1] = runs[r][2] /\ in[2 * r] = runs[r][1]
    OBVIOUS
  <2>1. /\ 2 * r + 1 \in 1..(2 * size + 1) /\ 2 * r \in 1..(2 * size + 1) /\ 2 * r + 1 # 1 /\ 2 * r # 1
        /\ (2 * r + 1) \div 2 = r /\ (2 * r + 1) % 2 = 1 /\ (2 * r) \div 2 = r /\ (2 * r) % 2 = 0
    BY <1>a
  <2>2. in[2 * r + 1] = runs[(2 * r + 1) \div 2][((2 * r + 1) % 2) + 1]
    BY <2>1
  <2>3. in[2 * r] = runs[(2 * r) \div 2][((2 * r) % 2) + 1]
    BY <2>1
  <2>4. in[2 * r + 1] = runs[r][1 + 1] /\ in[2 * r] = runs[r][0 + 1]
    <3> HIDE DEF in
    <3> QED BY <2>1, <2>2, <2>3
  <2> HIDE DEF in
  <2>5. 1 + 1 = 2 /\ 0 + 1 = 1
    OBVIOUS
  <2> QED BY <2>4, <2>5
<1>b. \A r \in 1..size : in[2 * r + 1] \in Nat /\ in[2 * r] \in S
  <2>1. \A r \in 1..size : runs[r] \in S \X Nat
    BY <1>e
  <2>2. \A r \in 1..size : runs[r][2] \in Nat /\ runs[r][1] \in S
    BY <2>1
  <2> HIDE DEF in
  <2> QED BY <1>g, <2>2
<1> HIDE DEF in, payload, size, runs
<1> DEFINE L == size
           first == <<>>
           Rec(f) == f = [r \in 0..L |-> IF r = 0 THEN first ELSE f[r - 1] \o Times(in[2 * r], in[2 * r + 1])]
           step == [r \in 1..L |-> [x \in Seq(S) |-> x \o Times(in[2 * r], in[2 * r + 1])]]
<1>0. L \in Nat
  BY <1>a
<1>1. first \in Seq(S)
  OBVIOUS
<1>2. Steps(step, L, Seq(S))
  <2>1. \A r \in 1..L : \A x \in Seq(S) : (x \o Times(in[2 * r], in[2 * r + 1])) \in Seq(S)
    <3>1. \A r \in 1..size : in[2 * r + 1] \in Nat /\ in[2 * r] \in S
      BY <1>b
    <3>2. \A r \in 1..size : Times(in[2 * r], in[2 * r + 1]) \in Seq(S)
      BY <3>1, TimesIs
    <3> QED BY <3>2
  <2> HIDE DEF L
  <2> QED BY <2>1 DEF Steps
<1>3. PICK c : Course(c, L, Seq(S), first, step)
  <2> HIDE DEF L, first, step
  <2> QED BY <1>0, <1>1, <1>2, Recursion
<1>4. Rec(c)
  <2> HIDE DEF first, L
  <2>1. c \in [0..L -> Seq(S)] /\ c[0] = first /\ \A i \in 1..L : c[i] = step[i][c[i - 1]]
    BY <1>3 DEF Course
  <2>2. \A i \in 1..L : i - 1 \in 0..L /\ c[i - 1] \in Seq(S)
    BY <1>0, <2>1
  <2>3. \A r \in 1..L : c[r] = c[r - 1] \o Times(in[2 * r], in[2 * r + 1])
    BY <2>1, <2>2
  <2>4. \A r \in 0..L : r # 0 => r \in 1..L
    BY <1>0
  <2> HIDE DEF step
  <2>5. c = [r \in 0..L |-> c[r]]
    BY <2>1
  <2>6. \A r \in 0..L : c[r] = IF r = 0 THEN first ELSE c[r - 1] \o Times(in[2 * r], in[2 * r + 1])
    BY <2>1, <2>3, <2>4
  <2> QED BY <2>5, <2>6
<1> DEFINE f == CHOOSE f : Rec(f)
<1>5. Rec(f)
  <2> HIDE DEF Rec
  <2> QED BY <1>4
<1>6. decodeRLE(payload, n) = IF Len(f[size]) = n THEN {f[size]} ELSE {}
  BY <1>c DEF decodeRLE, Times
<1> HIDE DEF f, first, L
<1>7. /\ f = [r \in 0..L |-> f[r]] /\ f[0] = first
      /\ \A r \in 1..L : f[r] = f[r - 1] \o Times(in[2 * r], in[2 * r + 1])
  <2>1. 0 \in 0..L /\ \A r \in 1..L : r \in 0..L /\ r # 0
    BY <1>0
  <2>2. \A r \in 0..L : f[r] = IF r = 0 THEN first ELSE f[r - 1] \o Times(in[2 * r], in[2 * r + 1])
    BY <1>5
  <2>3. DOMAIN f = 0..L
    BY <1>5
  <2>4. f = [r \in 0..L |-> f[r]]
    BY <1>5, <2>3
  <2> QED BY <2>1, <2>2, <2>4
<1>8. Course(f, L, Seq(S), first, step)
  <2>1. \A i \in 1..L : f[i - 1] \in Seq(S) => f[i] = step[i][f[i - 1]]
    BY <1>7
  <2> HIDE DEF step
  <2> QED BY <1>0, <1>1, <1>2, <1>7, <2>1, CourseFits
<1>9. \A r \in 0..L : f[r] \in Seq(S)
  BY <1>8 DEF Course
<1>10. L = size
  BY DEF L
<1>11. /\ out[0] = <<>>
       /\ \A r \in 1..size : out[r] = out[r - 1] \o Times(runs[r][1], runs[r][2])
  BY <1>f DEF Unrolls, size
<1> DEFINE G == {r \in Nat : r \in 0..size => f[r] = out[r]}
<1>12. 0 \in G
  BY <1>7, <1>11 DEF first
<1>13. \A r \in 0..size : r \in G /\ r < size => r + 1 \in G
  <2> SUFFICES ASSUME NEW r \in 0..size, r \in G, r < size PROVE f[r + 1] = out[r + 1]
    BY <1>a
  <2>1. r + 1 \in 1..size /\ (r + 1) - 1 = r /\ f[r] = out[r]
    BY <1>a
  <2>2. f[r + 1] = f[r] \o Times(in[2 * (r + 1)], in[2 * (r + 1) + 1])
    BY <1>7, <1>10, <2>1
  <2>3. out[r + 1] = out[r] \o Times(runs[r + 1][1], runs[r + 1][2])
    BY <1>11, <2>1
  <2>4. in[2 * (r + 1) + 1] = runs[r + 1][2] /\ in[2 * (r + 1)] = runs[r + 1][1]
    BY <1>g, <2>1
  <2> QED BY <2>1, <2>2, <2>3, <2>4
<1> HIDE DEF G
<1>14. \A r \in 0..size : r \in G
  BY <1>a, <1>12, <1>13, Climb
<1>15. f[size] = vals
  <2>1. size \in 0..size
    BY <1>a
  <2> QED BY <1>a, <1>f, <1>14, <2>1 DEF G
<1> QED BY <1>6, <1>15, <1>d DEF payload

-----------------------------------------------------------------------------
(* Every encoding. *)

\* What a page reads back of the n words of a column, packed with enc.
ReadBack(enc, vals) ==
  decodeValues(enc, encodeValues(enc, vals).payload, Len(vals), encodeValues(enc, vals).base)

\* A page loses nothing: whatever the encoding the planner picks, the decoder
\* accepts what the encoder of encoding.go wrote for a column of words and
\* returns that column, for every column shorter than a word can count.
THEOREM CodecLossless ==
  \A enc \in Encodings, vals \in Seq(0..(Word - 1)) : Len(vals) < Word => ReadBack(enc, vals) = {vals}
<1> SUFFICES ASSUME NEW enc \in Encodings, NEW vals \in Seq(0..(Word - 1)), Len(vals) < Word
             PROVE  ReadBack(enc, vals) = {vals}
  OBVIOUS
<1>1. PICK n : n = Len(vals)
  OBVIOUS
<1>2. n \in Nat /\ n < Word /\ Words(vals, n)
  BY <1>1, WordIs DEF Words
<1>3. ReadBack(enc, vals) = decodeValues(enc, encodeValues(enc, vals).payload, n, encodeValues(enc, vals).base)
  BY <1>1 DEF ReadBack
<1>4. CASE enc = "raw"
  <2>1. encodeValues("raw", vals) = [base |-> 0, payload |-> [ints |-> vals, bits |-> <<>>]]
    BY DEF encodeValues, Payload
  <2>2. encodeValues("raw", vals).payload.ints = vals
    BY <2>1
  <2> QED BY <1>3, <1>4, <2>2 DEF decodeValues
<1>5. CASE enc = "rle"
  <2>1. encodeValues("rle", vals).payload = encodeRLE(vals)
    BY DEF encodeValues
  <2>2. decodeRLE(encodeRLE(vals), n) = {vals}
    BY <1>2, RLEBack
  <2> QED BY <1>3, <1>5, <2>1, <2>2 DEF decodeValues
<1>6. CASE enc = "dict"
  <2>1. encodeValues("dict", vals).payload = encodeDict(vals)
    BY DEF encodeValues
  <2>2. decodeDict(encodeDict(vals), n) = {vals}
    BY <1>2, DictBack
  <2> QED BY <1>3, <1>6, <2>1, <2>2 DEF decodeValues
<1>7. CASE enc = "delta"
  <2>1. encodeValues("delta", vals) = encodeDelta(vals)
    BY DEF encodeValues
  <2>2. decodeDelta(encodeDelta(vals).payload, n, encodeDelta(vals).base) = {vals}
    BY <1>2, DeltaBack
  <2> QED BY <1>3, <1>7, <2>1, <2>2 DEF decodeValues
<1>8. CASE enc = "for"
  <2>1. encodeValues("for", vals) = encodeFOR(vals)
    BY DEF encodeValues
  <2>2. decodeFOR(encodeFOR(vals).payload, n, encodeFOR(vals).base) = {vals}
    BY <1>2, FORBack
  <2> QED BY <1>3, <1>8, <2>1, <2>2 DEF decodeValues
<1>9. CASE enc = "deltafor"
  <2>1. encodeValues("deltafor", vals) = encodeDeltaFOR(vals)
    BY DEF encodeValues
  <2>2. decodeDeltaFOR(encodeDeltaFOR(vals).payload, n, encodeDeltaFOR(vals).base) = {vals}
    BY <1>2, DeltaFORBack
  <2> QED BY <1>3, <1>9, <2>1, <2>2 DEF decodeValues
<1> QED BY <1>4, <1>5, <1>6, <1>7, <1>8, <1>9 DEF Encodings

-----------------------------------------------------------------------------
(* The wire body of a discovery batch. *)

\* The running sums of a column of words.
LEMMA TotalsRun ==
  ASSUME NEW n \in Nat, NEW d \in [1..n -> 0..(Word - 1)]
  PROVE  /\ Totals(d) = [i \in 1..n |-> Totals(d)[i]]
         /\ n > 0 => Totals(d)[1] = d[1]
         /\ \A i \in 2..n : Totals(d)[i - 1] \in 0..(Word - 1) /\ Totals(d)[i] = Wrap(Totals(d)[i - 1] + d[i])
<1> DEFINE L == Len(d)
           first == 0
           Rec(f) == f = [k \in 0..L |-> IF k = 0 THEN first ELSE Wrap(f[k - 1] + d[k])]
           step == [k \in 1..L |-> [x \in (0..(Word - 1)) |-> Wrap(x + d[k])]]
<1>0. L \in Nat
  OBVIOUS
<1>1. first \in (0..(Word - 1))
  BY WordIs
<1>2. Steps(step, L, (0..(Word - 1)))
  <2>1. \A k \in 1..L : \A x \in (0..(Word - 1)) : Wrap(x + d[k]) \in (0..(Word - 1))
    <3> SUFFICES ASSUME NEW k \in 1..L, NEW x \in 0..(Word - 1) PROVE Wrap(x + d[k]) \in 0..(Word - 1)
      OBVIOUS
    <3>1. d[k] \in 0..(Word - 1) /\ Word \in Nat
      BY WordIs
    <3>2. x + d[k] \in Int
      BY <3>1
    <3> QED BY <3>2, WrapIs
  <2> HIDE DEF L
  <2> QED BY <2>1 DEF Steps
<1>3. PICK c : Course(c, L, (0..(Word - 1)), first, step)
  <2> HIDE DEF L, first, step
  <2> QED BY <1>0, <1>1, <1>2, Recursion
<1>4. Rec(c)
  <2> HIDE DEF first, L
  <2>1. c \in [0..L -> (0..(Word - 1))] /\ c[0] = first /\ \A i \in 1..L : c[i] = step[i][c[i - 1]]
    BY <1>3 DEF Course
  <2>2. \A i \in 1..L : i - 1 \in 0..L /\ c[i - 1] \in (0..(Word - 1))
    BY <1>0, <2>1
  <2>3. \A k \in 1..L : c[k] = Wrap(c[k - 1] + d[k])
    BY <2>1, <2>2
  <2>4. \A k \in 0..L : k # 0 => k \in 1..L
    BY <1>0
  <2> HIDE DEF step
  <2>5. c = [k \in 0..L |-> c[k]]
    BY <2>1
  <2>6. \A k \in 0..L : c[k] = IF k = 0 THEN first ELSE Wrap(c[k - 1] + d[k])
    BY <2>1, <2>3, <2>4
  <2> QED BY <2>5, <2>6
<1> DEFINE f == CHOOSE f : Rec(f)
<1>5. Rec(f)
  <2> HIDE DEF Rec
  <2> QED BY <1>4
<1>6. Totals(d) = [i \in DOMAIN d |-> f[i]]
  BY DEF Totals
<1> HIDE DEF f, first, L
<1>7. /\ f = [k \in 0..L |-> f[k]] /\ f[0] = first
      /\ \A k \in 1..L : f[k] = Wrap(f[k - 1] + d[k])
  <2>1. 0 \in 0..L /\ \A k \in 1..L : k \in 0..L /\ k # 0
    BY <1>0
  <2>2. \A k \in 0..L : f[k] = IF k = 0 THEN first ELSE Wrap(f[k - 1] + d[k])
    BY <1>5
  <2>3. DOMAIN f = 0..L
    BY <1>5
  <2>4. f = [k \in 0..L |-> f[k]]
    BY <1>5, <2>3
  <2> QED BY <2>1, <2>2, <2>4
<1>8. Course(f, L, (0..(Word - 1)), first, step)
  <2>1. \A i \in 1..L : f[i - 1] \in (0..(Word - 1)) => f[i] = step[i][f[i - 1]]
    BY <1>7
  <2> HIDE DEF step
  <2> QED BY <1>0, <1>1, <1>2, <1>7, <2>1, CourseFits
<1>9. \A k \in 0..L : f[k] \in (0..(Word - 1))
  BY <1>8 DEF Course
<1>10. Len(d) = n /\ DOMAIN d = 1..n
  OBVIOUS
<1>11. L = n
  BY <1>10 DEF L
<1>12. \A i \in 1..n : i \in 0..L
  BY <1>11
<1>13. Totals(d) = [i \in 1..n |-> f[i]]
  BY <1>6, <1>10
<1>14. ASSUME n > 0 PROVE f[1] = d[1]
  <2>1. 1 \in 1..n /\ 1 - 1 = 0 /\ d[1] \in 0..(Word - 1)
    BY <1>14
  <2>2. f[1] = Wrap(0 + d[1])
    BY <1>7, <1>11, <2>1 DEF first
  <2>3. 0 + d[1] = d[1] /\ Wrap(d[1]) = d[1]
    BY <2>1, WordIs, WrapIs
  <2> QED BY <2>2, <2>3
<1>15. \A i \in 2..n : i \in 1..n /\ i - 1 \in 1..n /\ i - 1 \in 0..n
  OBVIOUS
<1>16. \A i \in 2..n : f[i - 1] \in 0..(Word - 1) /\ f[i] = Wrap(f[i - 1] + d[i])
  BY <1>7, <1>9, <1>11, <1>15
<1> QED BY <1>13, <1>14, <1>15, <1>16

LEMMA UpBack ==
  ASSUME NEW n \in Nat, NEW col \in [1..n -> 0..(Word - 1)]
  PROVE  UpDeltas(col) \in [1..n -> 0..(Word - 1)] /\ Totals(UpDeltas(col)) = col
<1> DEFINE d == UpDeltas(col)
           t == Totals(d)
<1>1. Word \in Nat /\ Word > 0 /\ DOMAIN col = 1..n
  BY WordIs
<1>2. \A i \in 1..n : d[i] = Wrap(col[i] - (IF i = 1 THEN 0 ELSE col[i - 1])) /\ d = [j \in 1..n |-> d[j]]
  BY <1>1 DEF UpDeltas
<1>3. \A i \in 2..n : i \in 1..n /\ i - 1 \in 1..n /\ i # 1
  OBVIOUS
<1>4. ASSUME n > 0 PROVE d[1] = col[1]
  <2>1. 1 \in 1..n /\ col[1] \in 0..(Word - 1) /\ col[1] - 0 = col[1]
    BY <1>1, <1>4
  <2> QED BY <1>1, <1>2, <2>1, WrapIs
<1>5. \A i \in 2..n : d[i] = Wrap(col[i] - col[i - 1])
  BY <1>2, <1>3
<1>6. \A i \in 1..n : d[i] \in 0..(Word - 1)
  <2> SUFFICES ASSUME NEW i \in 1..n PROVE d[i] \in 0..(Word - 1)
    OBVIOUS
  <2>1. CASE i = 1
    BY <1>4, <2>1
  <2>2. CASE i # 1
    <3>1. i \in 2..n
      BY <2>2
    <3>2. col[i] \in 0..(Word - 1) /\ col[i - 1] \in 0..(Word - 1)
      BY <1>3, <3>1
    <3>3. col[i] - col[i - 1] \in Int
      BY <1>1, <3>2
    <3> QED BY <1>5, <3>1, <3>3, WrapIs
  <2> QED BY <2>1, <2>2
<1>7. d \in [1..n -> 0..(Word - 1)]
  <2>1. d = [j \in 1..n |-> d[j]]
    BY <1>1 DEF UpDeltas
  <2> HIDE DEF d
  <2> QED BY <1>6, <2>1
<1> HIDE DEF d
<1>8. /\ t = [i \in 1..n |-> t[i]]
      /\ n > 0 => t[1] = d[1]
      /\ \A i \in 2..n : t[i - 1] \in 0..(Word - 1) /\ t[i] = Wrap(t[i - 1] + d[i])
  BY <1>7, TotalsRun
<1> HIDE DEF t
<1> DEFINE G == {i \in Nat : i \in 1..n => t[i] = col[i]}
<1>9. 0 \in G
  OBVIOUS
<1>10. \A i \in 0..n : i \in G /\ i < n => i + 1 \in G
  <2> SUFFICES ASSUME NEW i \in 0..n, i \in G, i < n PROVE t[i + 1] = col[i + 1]
    OBVIOUS
  <2>1. CASE i = 0
    BY <2>1, <1>4, <1>8
  <2>2. CASE i > 0
    <3>1. i + 1 \in 2..n /\ (i + 1) - 1 = i /\ i \in 1..n /\ i + 1 \in 1..n
      BY <2>2
    <3>2. t[i] = col[i] /\ col[i] \in 0..(Word - 1) /\ col[i + 1] \in 0..(Word - 1)
      BY <3>1
    <3>3. t[i + 1] = Wrap(col[i] + Wrap(col[i + 1] - col[i]))
      BY <1>5, <1>8, <3>1, <3>2
    <3> QED BY <3>2, <3>3, StepBack
  <2> QED BY <2>1, <2>2
<1> HIDE DEF G
<1>11. \A i \in 0..n : i \in G
  BY <1>9, <1>10, Climb
<1>12. \A i \in 1..n : t[i] = col[i]
  BY <1>11 DEF G
<1>13. t = col
  BY <1>8, <1>12
<1> QED BY <1>7, <1>13 DEF d, t

LEMMA ZigBack ==
  ASSUME NEW n \in Nat, NEW col \in [1..n -> 0..(Word - 1)]
  PROVE  DOMAIN ZigDeltas(col) = 1..n /\ ZigTotals(ZigDeltas(col)) = col
<1> DEFINE z == ZigDeltas(col)
           d == UpDeltas(col)
<1>1. d \in [1..n -> 0..(Word - 1)] /\ Totals(d) = col
  BY UpBack
<1>2. DOMAIN z = 1..n
  BY DEF ZigDeltas
<1>3. \A i \in 1..n : z[i] = zigzag(Signed(d[i]))
  BY DEF ZigDeltas, UpDeltas
<1>4. \A i \in 1..n : unzigzag(z[i]) = d[i]
  <2> SUFFICES ASSUME NEW i \in 1..n PROVE unzigzag(z[i]) = d[i]
    OBVIOUS
  <2> HIDE DEF d, z
  <2>1. d[i] \in 0..(Word - 1)
    BY <1>1
  <2> QED BY <1>3, <2>1, ZigzagBack
<1> HIDE DEF d, z
<1>5. [i \in DOMAIN z |-> unzigzag(z[i])] = d
  BY <1>1, <1>2, <1>4
<1>6. ZigTotals(z) = col
  BY <1>1, <1>5 DEF ZigTotals
<1> QED BY <1>2, <1>6 DEF z

\* Nine columns of n rows each.
Nine(cols, n) == \A k \in 1..9 : cols[k] = [i \in 1..n |-> cols[k][i]]

\* What a body holds where.
Laid(body, b, cols, n) ==
  /\ Len(body) = 10 * n + 4 /\ body[1] = n /\ body[9 * n + 4] = n
  /\ \A k \in 1..9 : \A i \in 1..n : body[1 + (k - 1) * n + i] = cols[k][i]
  /\ \A i \in 1..n : body[9 * n + 4 + i] = b[i].url

LEMMA PlacesIn ==
  ASSUME NEW n \in Nat, n > 0, NEW k \in 1..9, NEW i \in 1..n
  PROVE  /\ (k - 1) * n \in Nat /\ (k - 1) * n + i \in 1..(9 * n)
         /\ (((k - 1) * n + i) - 1) \div n = k - 1
         /\ (((k - 1) * n + i) - 1) % n = i - 1
<1>1. (k - 1) * n \in Nat /\ (9 - k) * n \in Nat
  BY SMT
<1>2. (k - 1) * n + (9 - k) * n = 8 * n
  BY SMT
<1>3. (k - 1) * n + i \in 1..(9 * n)
  <2> DEFINE x == (k - 1) * n
             y == (9 - k) * n
  <2> HIDE DEF x, y
  <2>1. x \in Nat /\ y \in Nat /\ x + y = 8 * n
    BY <1>1, <1>2 DEF x, y
  <2>2. x + i \in 1..(9 * n)
    BY <2>1
  <2> QED BY <2>2 DEF x
<1>4. ((k - 1) * n + i) - 1 = n * (k - 1) + (i - 1) /\ ((k - 1) * n + i) - 1 \in Int
  BY <1>1
<1>5. k - 1 \in Int /\ i - 1 \in Int /\ 0 <= i - 1 /\ i - 1 < n
  OBVIOUS
<1>6. (((k - 1) * n + i) - 1) % n = i - 1 /\ (((k - 1) * n + i) - 1) \div n = k - 1
  <2> DEFINE a == ((k - 1) * n + i) - 1
             q == k - 1
  <2>1. a \in Int /\ a = n * q + (i - 1) /\ q \in Int
    BY <1>4, <1>5
  <2> HIDE DEF a, q
  <2>2. a % n = i - 1 /\ a \div n = q
    BY <1>5, <2>1, DivisionOf
  <2> QED BY <2>2 DEF a, q
<1> QED BY <1>1, <1>3, <1>6

LEMMA BodyLaid ==
  ASSUME NEW n \in Nat, n > 0, NEW b, b = [i \in 1..n |-> b[i]], NEW cols, Nine(cols, n)
  PROVE  Laid(WireBody(b, cols), b, cols, n) /\ \E U : WireBody(b, cols) \in Seq(U)
<1> DEFINE s2 == [p \in 1..(9 * n) |-> cols[((p - 1) \div n) + 1][((p - 1) % n) + 1]]
           s4 == Column(b, "url")
           U == {n, 1, "table"} \cup {s2[p] : p \in 1..(9 * n)} \cup {s4[i] : i \in 1..n}
           s1 == <<n>>
           s3 == <<1, "table", n>>
           body == WireBody(b, cols)
<1>1. DOMAIN b = 1..n
  OBVIOUS
<1>2. Len(b) = n
  <2>1. b \in Seq({b[i] : i \in 1..n}) /\ Len(b) = n
    <3> DEFINE S == {b[i] : i \in 1..n}
    <3>1. \A k \in 1..n : b[k] \in S
      OBVIOUS
    <3> HIDE DEF S
    <3>2. b \in Seq(S) /\ Len(b) = n
      BY <3>1, ListIs
    <3> QED BY <3>2 DEF S
  <2> QED BY <2>1
<1>3. body = ((s1 \o s2) \o s3) \o s4
  BY <1>2 DEF WireBody
<1>4. /\ s2 = [p \in 1..(9 * n) |-> s2[p]] /\ \A p \in 1..(9 * n) : s2[p] \in U
      /\ s4 = [p \in 1..n |-> s4[p]] /\ \A p \in 1..n : s4[p] \in U
      /\ n \in U /\ 1 \in U /\ "table" \in U
  BY <1>1 DEF Column
<1>5. \A i \in 1..n : s4[i] = b[i].url
  BY <1>1 DEF Column
<1>6. \A k \in 1..9 : \A i \in 1..n : s2[(k - 1) * n + i] = cols[k][i]
  <2> SUFFICES ASSUME NEW k \in 1..9, NEW i \in 1..n PROVE s2[(k - 1) * n + i] = cols[k][i]
    OBVIOUS
  <2> DEFINE p == (k - 1) * n + i
  <2>1. p \in 1..(9 * n) /\ (p - 1) \div n = k - 1 /\ (p - 1) % n = i - 1
    BY PlacesIn
  <2> HIDE DEF p
  <2>2. s2[p] = cols[((p - 1) \div n) + 1][((p - 1) % n) + 1]
    BY <2>1
  <2>3. (k - 1) + 1 = k /\ (i - 1) + 1 = i
    OBVIOUS
  <2>4. s2[p] = cols[(k - 1) + 1][(i - 1) + 1]
    BY <2>1, <2>2
  <2> HIDE DEF s2
  <2>5. s2[p] = cols[k][i]
    BY <2>3, <2>4
  <2> QED BY <2>5 DEF p
<1> HIDE DEF s2, s4, U
<1>7. s2 \in Seq(U) /\ Len(s2) = 9 * n /\ s4 \in Seq(U) /\ Len(s4) = n
  <2>1. 9 * n \in Nat
    OBVIOUS
  <2>2. s2 \in Seq(U) /\ Len(s2) = 9 * n
    BY <1>4, <2>1, ListIs
  <2>3. s4 \in Seq(U) /\ Len(s4) = n
    BY <1>4, ListIs
  <2> QED BY <2>2, <2>3
<1>8. s1 \in Seq(U) /\ Len(s1) = 1 /\ s1[1] = n
  BY <1>4
<1>9. s3 \in Seq(U) /\ Len(s3) = 3 /\ s3[3] = n
  BY <1>4
<1> HIDE DEF s1, s3
<1> DEFINE t2 == s1 \o s2
           t3 == t2 \o s3
<1>10. /\ t2 \in Seq(U) /\ Len(t2) = 9 * n + 1
       /\ t2[1] = n
       /\ \A p \in 1..(9 * n) : t2[1 + p] = s2[p]
  <2>1. /\ t2 \in Seq(U) /\ Len(t2) = Len(s1) + Len(s2)
        /\ \A i \in 1..Len(s1) : t2[i] = s1[i]
        /\ \A i \in 1..Len(s2) : t2[Len(s1) + i] = s2[i]
    <3>1. s1 \in Seq(U) /\ s2 \in Seq(U)
      BY <1>7, <1>8
    <3> QED BY <3>1, Joined
  <2> HIDE DEF t2
  <2> QED BY <2>1, <1>7, <1>8
<1> HIDE DEF t2
<1>11. /\ t3 \in Seq(U) /\ Len(t3) = 9 * n + 4
       /\ t3[9 * n + 4] = n
       /\ \A p \in 1..(9 * n + 1) : t3[p] = t2[p]
  <2>1. /\ t3 \in Seq(U) /\ Len(t3) = Len(t2) + Len(s3)
        /\ \A i \in 1..Len(t2) : t3[i] = t2[i]
        /\ \A i \in 1..Len(s3) : t3[Len(t2) + i] = s3[i]
    <3>1. t2 \in Seq(U) /\ s3 \in Seq(U)
      BY <1>9, <1>10
    <3> QED BY <3>1, Joined
  <2> HIDE DEF t3
  <2>2. (9 * n + 1) + 3 = 9 * n + 4 /\ 3 \in 1..3
    OBVIOUS
  <2>3. t3[(9 * n + 1) + 3] = s3[3]
    BY <2>1, <2>2, <1>9, <1>10
  <2> QED BY <2>1, <2>2, <2>3, <1>9, <1>10
<1> HIDE DEF t3
<1>12. /\ body \in Seq(U) /\ Len(body) = 10 * n + 4
       /\ \A p \in 1..(9 * n + 4) : body[p] = t3[p]
       /\ \A i \in 1..n : body[9 * n + 4 + i] = s4[i]
  <2>0. body = t3 \o s4
    BY <1>3 DEF t3, t2
  <2>1. /\ body \in Seq(U) /\ Len(body) = Len(t3) + Len(s4)
        /\ \A i \in 1..Len(t3) : body[i] = t3[i]
        /\ \A i \in 1..Len(s4) : body[Len(t3) + i] = s4[i]
    <3>1. t3 \in Seq(U) /\ s4 \in Seq(U)
      BY <1>7, <1>11
    <3> HIDE DEF body
    <3> QED BY <2>0, <3>1, Joined
  <2> HIDE DEF body
  <2> QED BY <2>1, <1>7, <1>11
<1> HIDE DEF body
<1>13. body[1] = n /\ body[9 * n + 4] = n
  <2>1. 1 \in 1..(9 * n + 4) /\ 1 \in 1..(9 * n + 1) /\ 9 * n + 4 \in 1..(9 * n + 4)
    OBVIOUS
  <2> QED BY <2>1, <1>10, <1>11, <1>12
<1>14. ASSUME NEW k \in 1..9, NEW i \in 1..n PROVE body[1 + (k - 1) * n + i] = cols[k][i]
  <2> DEFINE p == (k - 1) * n + i
             x == (k - 1) * n
  <2>1. p \in 1..(9 * n) /\ x \in Nat
    BY PlacesIn
  <2>2. 1 + (k - 1) * n + i = 1 + p
    <3>1. p = x + i
      OBVIOUS
    <3>2. 1 + x + i = 1 + (x + i)
      <4> HIDE DEF x
      <4> QED BY <2>1
    <3> QED BY <3>1, <3>2
  <2>3. s2[p] = cols[k][i]
    BY <1>6
  <2> HIDE DEF p
  <2>4. 1 + p \in 1..(9 * n + 4) /\ 1 + p \in 1..(9 * n + 1)
    BY <2>1
  <2>5. \A q : q = 1 + p => body[q] = cols[k][i]
    <3>1. body[1 + p] = t3[1 + p]
      BY <2>4, <1>12
    <3>2. t3[1 + p] = t2[1 + p]
      BY <2>4, <1>11
    <3>3. t2[1 + p] = s2[p]
      BY <2>1, <1>10
    <3> QED BY <3>1, <3>2, <3>3, <2>3, Zenon
  <2> QED BY <2>2, <2>5, Zenon
<1>15. \A i \in 1..n : body[9 * n + 4 + i] = b[i].url
  BY <1>5, <1>12
<1>16. Laid(body, b, cols, n)
  BY <1>12, <1>13, <1>14, <1>15 DEF Laid
<1> QED BY <1>12, <1>16 DEF body

\* What the decoder reads a column from.
LEMMA ColumnRead ==
  ASSUME NEW n \in Nat, n > 0, NEW U, NEW c \in Seq(U), Len(c) = 9 * n, NEW k \in 1..9
  PROVE  SubSeq(c, (k - 1) * n + 1, k * n) = [i \in 1..n |-> c[(k - 1) * n + i]]
<1> DEFINE x == (k - 1) * n
           y == (9 - k) * n
<1>1. x \in Nat /\ y \in Nat /\ x + n = k * n /\ (x + n) + y = 9 * n
  BY SMT
<1> HIDE DEF x, y
<1>2. SubSeq(c, x + 1, x + n) = [i \in 1..(((x + n) - (x + 1)) + 1) |-> c[((x + 1) - 1) + i]]
  <2>1. x + 1 \in Nat /\ x + n \in Nat /\ 1 <= x + 1 /\ x + 1 <= (x + n) + 1 /\ x + n <= Len(c)
    BY <1>1
  <2> QED BY <2>1, PartIs
<1>3. ((x + n) - (x + 1)) + 1 = n /\ (x + 1) - 1 = x
  BY <1>1
<1>4. SubSeq(c, x + 1, x + n) = [i \in 1..n |-> c[x + i]]
  BY <1>2, <1>3
<1> QED BY <1>1, <1>4 DEF x

\* A row of a batch, whatever its plain fields are.
RowOf(r) ==
  [host |-> r.host, path |-> r.path, depth |-> r.depth, source |-> r.source, from |-> r.from,
   weight |-> r.weight, anchor |-> r.anchor, at |-> r.at, url |-> r.url]
Batched(b, n) ==
  /\ b = [i \in 1..n |-> b[i]]
  /\ \A i \in 1..n :
       /\ b[i] = RowOf(b[i])
       /\ b[i].host \in 0..(Word - 1) /\ b[i].path \in 0..(Word - 1)
       /\ b[i].from \in 0..(Word - 1) /\ b[i].at \in 0..(Word - 1)

LEMMA ColumnsIs ==
  ASSUME NEW b, NEW n \in Nat, n < Word, Batched(b, n)
  PROVE  /\ Nine(Columns(b), n)
         /\ Totals(Columns(b)[1]) = Column(b, "host") /\ ZigTotals(Columns(b)[2]) = Column(b, "path")
         /\ Columns(b)[3] = Column(b, "depth") /\ Columns(b)[4] = Column(b, "source")
         /\ ZigTotals(Columns(b)[5]) = Column(b, "from") /\ Columns(b)[6] = Column(b, "weight")
         /\ Columns(b)[7] = Column(b, "anchor") /\ ZigTotals(Columns(b)[8]) = Column(b, "at")
         /\ Totals(Columns(b)[9]) = [i \in 1..n |-> i]
<1> DEFINE ids == [i \in DOMAIN b |-> i]
<1>1. DOMAIN b = 1..n
  BY DEF Batched
<1>2. /\ Column(b, "host") \in [1..n -> 0..(Word - 1)] /\ Column(b, "path") \in [1..n -> 0..(Word - 1)]
      /\ Column(b, "from") \in [1..n -> 0..(Word - 1)] /\ Column(b, "at") \in [1..n -> 0..(Word - 1)]
  BY <1>1 DEF Batched, Column
<1>3. ids \in [1..n -> 0..(Word - 1)] /\ ids = [i \in 1..n |-> i]
  <2>1. \A i \in 1..n : i \in 0..(Word - 1)
    BY WordIs
  <2> QED BY <1>1, <2>1
<1>4. \A f : DOMAIN Column(b, f) = 1..n /\ Column(b, f) = [i \in 1..n |-> Column(b, f)[i]]
  BY <1>1 DEF Column
<1> DEFINE c1 == UpDeltas(Column(b, "host"))
           c2 == ZigDeltas(Column(b, "path"))
           c5 == ZigDeltas(Column(b, "from"))
           c8 == ZigDeltas(Column(b, "at"))
           c9 == UpDeltas(ids)
<1>5. c1 \in [1..n -> 0..(Word - 1)] /\ Totals(c1) = Column(b, "host")
  BY <1>2, UpBack
<1>6. c9 \in [1..n -> 0..(Word - 1)] /\ Totals(c9) = ids
  <2> HIDE DEF ids
  <2> QED BY <1>3, UpBack
<1>7. DOMAIN c2 = 1..n /\ ZigTotals(c2) = Column(b, "path")
  BY <1>2, ZigBack
<1>8. DOMAIN c5 = 1..n /\ ZigTotals(c5) = Column(b, "from")
  BY <1>2, ZigBack
<1>9. DOMAIN c8 = 1..n /\ ZigTotals(c8) = Column(b, "at")
  BY <1>2, ZigBack
<1>10. c2 = [i \in 1..n |-> c2[i]] /\ c5 = [i \in 1..n |-> c5[i]] /\ c8 = [i \in 1..n |-> c8[i]]
  BY <1>4 DEF ZigDeltas
<1>11. c1 = [i \in 1..n |-> c1[i]] /\ c9 = [i \in 1..n |-> c9[i]]
  <2> HIDE DEF c1, c9
  <2> QED BY <1>5, <1>6
<1> DEFINE C == Columns(b)
<1>12. /\ C[1] = c1 /\ C[2] = c2 /\ C[3] = Column(b, "depth") /\ C[4] = Column(b, "source")
       /\ C[5] = c5 /\ C[6] = Column(b, "weight") /\ C[7] = Column(b, "anchor") /\ C[8] = c8 /\ C[9] = c9
  BY DEF Columns
<1> HIDE DEF C, c1, c2, c5, c8, c9, ids
<1>13. Nine(C, n)
  <2> SUFFICES ASSUME NEW k \in 1..9 PROVE C[k] = [i \in 1..n |-> C[k][i]]
    BY DEF Nine
  <2>1. k = 1 \/ k = 2 \/ k = 3 \/ k = 4 \/ k = 5 \/ k = 6 \/ k = 7 \/ k = 8 \/ k = 9
    OBVIOUS
  <2>2. CASE k \in {1, 9}
    BY <2>2, <1>11, <1>12
  <2>3. CASE k \in {2, 5, 8}
    BY <2>3, <1>10, <1>12
  <2>4. CASE k \in {3, 4, 6, 7}
    BY <2>4, <1>4, <1>12
  <2> QED BY <2>1, <2>2, <2>3, <2>4
<1> QED BY <1>3, <1>5, <1>6, <1>7, <1>8, <1>9, <1>12, <1>13 DEF C

\* c and urls are the columns and the spans of b.
Holds9(c, urls, b, n) ==
  /\ \A k \in 1..9 : \A i \in 1..n : c[(k - 1) * n + i] = Columns(b)[k][i]
  /\ \A i \in 1..n : urls[i] = b[i].url

\* The columns read back are the rows.
LEMMA RowsRead ==
  ASSUME NEW b, NEW n \in Nat, n > 0, n < Word, Batched(b, n), NEW U, NEW c \in Seq(U), Len(c) = 9 * n,
         NEW urls, Holds9(c, urls, b, n)
  PROVE  RowsOf(n, c, urls) = b
<1>0. /\ \A k \in 1..9 : \A i \in 1..n : c[(k - 1) * n + i] = Columns(b)[k][i]
      /\ \A i \in 1..n : urls[i] = b[i].url
  BY DEF Holds9
<1> DEFINE Col(k) == SubSeq(c, (k - 1) * n + 1, k * n)
           C == Columns(b)
<1>1. /\ Nine(C, n)
      /\ Totals(C[1]) = Column(b, "host") /\ ZigTotals(C[2]) = Column(b, "path")
      /\ C[3] = Column(b, "depth") /\ C[4] = Column(b, "source")
      /\ ZigTotals(C[5]) = Column(b, "from") /\ C[6] = Column(b, "weight")
      /\ C[7] = Column(b, "anchor") /\ ZigTotals(C[8]) = Column(b, "at")
      /\ Totals(C[9]) = [i \in 1..n |-> i]
  BY ColumnsIs
<1>2. ASSUME NEW k \in 1..9 PROVE Col(k) = C[k]
  <2>1. Col(k) = [i \in 1..n |-> c[(k - 1) * n + i]]
    BY ColumnRead
  <2>2. C[k] = [i \in 1..n |-> C[k][i]]
    BY <1>1 DEF Nine
  <2>3. \A i \in 1..n : c[(k - 1) * n + i] = C[k][i]
    BY <1>0
  <2> HIDE DEF Col, C
  <2> QED BY <2>1, <2>2, <2>3
<1>3. \A i \in 1..n :
        /\ Column(b, "host")[i] = b[i].host /\ Column(b, "path")[i] = b[i].path
        /\ Column(b, "depth")[i] = b[i].depth /\ Column(b, "source")[i] = b[i].source
        /\ Column(b, "from")[i] = b[i].from /\ Column(b, "weight")[i] = b[i].weight
        /\ Column(b, "anchor")[i] = b[i].anchor /\ Column(b, "at")[i] = b[i].at
  BY DEF Batched, Column
<1>4. RowsOf(n, c, urls) =
        [i \in 1..n |-> [host |-> Totals(Col(1))[i], path |-> ZigTotals(Col(2))[i], depth |-> Col(3)[i],
                         source |-> Col(4)[i], from |-> ZigTotals(Col(5))[i], weight |-> Col(6)[i],
                         anchor |-> Col(7)[i], at |-> ZigTotals(Col(8))[i],
                         url |-> urls[Totals(Col(9))[i]]]]
  BY DEF RowsOf
<1>5. /\ Col(1) = C[1] /\ Col(2) = C[2] /\ Col(3) = C[3] /\ Col(4) = C[4] /\ Col(5) = C[5]
      /\ Col(6) = C[6] /\ Col(7) = C[7] /\ Col(8) = C[8] /\ Col(9) = C[9]
  <2> HIDE DEF Col, C
  <2> QED BY <1>2
<1> HIDE DEF Col, C
<1> DEFINE R(i) == [host |-> Totals(Col(1))[i], path |-> ZigTotals(Col(2))[i], depth |-> Col(3)[i],
                         source |-> Col(4)[i], from |-> ZigTotals(Col(5))[i], weight |-> Col(6)[i],
                         anchor |-> Col(7)[i], at |-> ZigTotals(Col(8))[i],
                         url |-> urls[Totals(Col(9))[i]]]
<1>6. ASSUME NEW i \in 1..n PROVE R(i) = b[i]
  <2>1. Totals(Col(9))[i] = i
    BY <1>1, <1>5
  <2>2. /\ Totals(Col(1))[i] = b[i].host /\ ZigTotals(Col(2))[i] = b[i].path
        /\ Col(3)[i] = b[i].depth /\ Col(4)[i] = b[i].source
        /\ ZigTotals(Col(5))[i] = b[i].from /\ Col(6)[i] = b[i].weight
        /\ Col(7)[i] = b[i].anchor /\ ZigTotals(Col(8))[i] = b[i].at
    <3>1. /\ Totals(Col(1)) = Column(b, "host") /\ ZigTotals(Col(2)) = Column(b, "path")
          /\ Col(3) = Column(b, "depth") /\ Col(4) = Column(b, "source")
          /\ ZigTotals(Col(5)) = Column(b, "from") /\ Col(6) = Column(b, "weight")
          /\ Col(7) = Column(b, "anchor") /\ ZigTotals(Col(8)) = Column(b, "at")
      BY <1>1, <1>5, Zenon
    <3>2. /\ Column(b, "host")[i] = b[i].host /\ Column(b, "path")[i] = b[i].path
          /\ Column(b, "depth")[i] = b[i].depth /\ Column(b, "source")[i] = b[i].source
          /\ Column(b, "from")[i] = b[i].from /\ Column(b, "weight")[i] = b[i].weight
          /\ Column(b, "anchor")[i] = b[i].anchor /\ Column(b, "at")[i] = b[i].at
      BY <1>3
    <3> QED BY <3>1, <3>2, Zenon
  <2>3. urls[Totals(Col(9))[i]] = b[i].url
    BY <1>0, <2>1
  <2>4. b[i] = RowOf(b[i])
    BY DEF Batched
  <2> QED BY <2>2, <2>3, <2>4 DEF RowOf
<1>7. RowsOf(n, c, urls) = [i \in 1..n |-> R(i)]
  BY <1>4
<1> HIDE DEF R
<1>8. b = [i \in 1..n |-> b[i]]
  BY DEF Batched
<1> QED BY <1>6, <1>7, <1>8

\* A body cut after m elements.
LEMMA CutIs ==
  ASSUME NEW U, NEW body \in Seq(U), NEW m \in Nat
  PROVE  /\ m >= Len(body) => Cut(body, m) = body
         /\ m < Len(body) =>
              /\ Cut(body, m) \in Seq(U) /\ Len(Cut(body, m)) = m
              /\ \A i \in 1..m : Cut(body, m)[i] = body[i]
<1>1. ASSUME m >= Len(body) PROVE Cut(body, m) = body
  <2>1. Cut(body, m) = SubSeq(body, 1, Len(body))
    BY <1>1 DEF Cut
  <2> QED BY <2>1
<1>2. ASSUME m < Len(body)
      PROVE  Cut(body, m) \in Seq(U) /\ Len(Cut(body, m)) = m /\ \A i \in 1..m : Cut(body, m)[i] = body[i]
  <2>1. Cut(body, m) = SubSeq(body, 1, m)
    BY <1>2 DEF Cut
  <2>2. 1 <= m + 1 /\ m <= Len(body) /\ (m - 1) + 1 = m
    BY <1>2
  <2>3. /\ SubSeq(body, 1, m) \in Seq(U) /\ Len(SubSeq(body, 1, m)) = (m - 1) + 1
        /\ \A i \in 1..((m - 1) + 1) : SubSeq(body, 1, m)[i] = body[(1 - 1) + i]
    BY <2>2, PartIs
  <2>4. \A i \in 1..m : (1 - 1) + i = i
    OBVIOUS
  <2> QED BY <2>1, <2>2, <2>3, <2>4
<1> QED BY <1>1, <1>2

\* A body that was laid out whole decodes to its rows.
LEMMA WholeDecodes ==
  ASSUME NEW b, NEW n \in Nat, n > 0, n < Word, Batched(b, n), NEW U, NEW body \in Seq(U),
         Laid(body, b, Columns(b), n)
  PROVE  DecodeBatch(body) = {b}
<1> DEFINE c == SubSeq(body, 2, 9 * n + 1)
           t == SubSeq(body, 9 * n + 2, 9 * n + 4)
           u == SubSeq(body, 9 * n + 5, 10 * n + 4)
<1>1. /\ Len(body) = 10 * n + 4 /\ body[1] = n /\ body[9 * n + 4] = n
      /\ \A k \in 1..9 : \A i \in 1..n : body[1 + (k - 1) * n + i] = Columns(b)[k][i]
      /\ \A i \in 1..n : body[9 * n + 4 + i] = b[i].url
  BY DEF Laid
<1>z. Len(body) = 10 * n + 4
  BY <1>1
<1>2. c \in Seq(U) /\ Len(c) = 9 * n /\ \A i \in 1..(9 * n) : c[i] = body[1 + i]
  <2>1. 9 * n + 1 \in Nat /\ 2 <= (9 * n + 1) + 1 /\ 9 * n + 1 <= Len(body) /\ ((9 * n + 1) - 2) + 1 = 9 * n
        /\ 2 - 1 = 1
    BY <1>z
  <2>2. PICK hi \in Nat : hi = 9 * n + 1
    BY <2>1
  <2>3. 2 <= hi + 1 /\ hi <= Len(body) /\ (hi - 2) + 1 = 9 * n
    BY <2>1, <2>2
  <2>4. Stretch(body, 2, hi, U)
    <3>1. 2 \in Nat /\ 1 <= 2 /\ hi \in Nat /\ 2 <= hi + 1 /\ hi <= Len(body)
      BY <2>3
    <3> QED BY <3>1, PartOf, Zenon
  <2>5. /\ c \in Seq(U) /\ Len(c) = (hi - 2) + 1
        /\ \A i \in 1..((hi - 2) + 1) : c[i] = body[(2 - 1) + i]
    BY <2>2, <2>4, Zenon DEF Stretch
  <2> HIDE DEF c
  <2> QED BY <2>1, <2>3, <2>5
<1>3. t[3] = n
  <2>1. /\ 9 * n + 2 \in Nat /\ 9 * n + 4 \in Nat /\ 1 <= 9 * n + 2 /\ 9 * n + 2 <= (9 * n + 4) + 1
        /\ 9 * n + 4 <= Len(body) /\ ((9 * n + 4) - (9 * n + 2)) + 1 = 3 /\ 3 \in 1..3
        /\ ((9 * n + 2) - 1) + 3 = 9 * n + 4
    BY <1>z
  <2>2. PICK lo \in Nat, hi \in Nat : lo = 9 * n + 2 /\ hi = 9 * n + 4
    BY <2>1
  <2>3. 1 <= lo /\ lo <= hi + 1 /\ hi <= Len(body)
    BY <2>1, <2>2
  <2>4. Stretch(body, lo, hi, U)
    BY <2>3, PartOf, Zenon
  <2>5. \A i \in 1..((hi - lo) + 1) : t[i] = body[(lo - 1) + i]
    BY <2>2, <2>4, Zenon DEF Stretch
  <2>6. 3 \in 1..((hi - lo) + 1) /\ (lo - 1) + 3 = 9 * n + 4
    BY <2>1, <2>2
  <2> HIDE DEF t
  <2>7. t[3] = body[9 * n + 4]
    BY <2>5, <2>6
  <2> QED BY <1>1, <2>7
<1>4. \A i \in 1..n : u[i] = b[i].url
  <2>1. /\ 9 * n + 5 \in Nat /\ 10 * n + 4 \in Nat /\ 1 <= 9 * n + 5 /\ 9 * n + 5 <= (10 * n + 4) + 1
        /\ 10 * n + 4 <= Len(body) /\ ((10 * n + 4) - (9 * n + 5)) + 1 = n
        /\ (9 * n + 5) - 1 = 9 * n + 4
    BY <1>z
  <2>2. PICK lo \in Nat, hi \in Nat : lo = 9 * n + 5 /\ hi = 10 * n + 4
    BY <2>1
  <2>3. 1 <= lo /\ lo <= hi + 1 /\ hi <= Len(body)
    BY <2>1, <2>2
  <2>4. Stretch(body, lo, hi, U)
    BY <2>3, PartOf, Zenon
  <2>5. \A i \in 1..((hi - lo) + 1) : u[i] = body[(lo - 1) + i]
    BY <2>2, <2>4, Zenon DEF Stretch
  <2>6. (hi - lo) + 1 = n /\ lo - 1 = 9 * n + 4
    BY <2>1, <2>2
  <2> HIDE DEF u
  <2>7. \A i \in 1..n : u[i] = body[9 * n + 4 + i]
    BY <2>5, <2>6
  <2> QED BY <1>1, <2>7
<1>5. ReadFrom(body, 2, 9 * n) = {c} /\ ReadFrom(body, 9 * n + 2, 3) = {t} /\ ReadFrom(body, 9 * n + 5, n) = {u}
  <2>1. /\ 2 + 9 * n - 1 = 9 * n + 1 /\ ~(9 * n + 1 > Len(body))
        /\ 9 * n + 2 + 3 - 1 = 9 * n + 4 /\ ~(9 * n + 4 > Len(body))
        /\ 9 * n + 5 + n - 1 = 10 * n + 4 /\ ~(10 * n + 4 > Len(body))
    BY <1>1
  <2>2. ReadFrom(body, 2, 9 * n) = {SubSeq(body, 2, 9 * n + 1)}
    BY <2>1 DEF ReadFrom
  <2>3. ReadFrom(body, 9 * n + 2, 3) = {SubSeq(body, 9 * n + 2, 9 * n + 4)}
    BY <2>1 DEF ReadFrom
  <2>4. ReadFrom(body, 9 * n + 5, n) = {SubSeq(body, 9 * n + 5, 10 * n + 4)}
    BY <2>1 DEF ReadFrom
  <2> QED BY <2>2, <2>3, <2>4
<1> HIDE DEF c, t, u
<1>6. \A k \in 1..9 : \A i \in 1..n : c[(k - 1) * n + i] = Columns(b)[k][i]
  <2> SUFFICES ASSUME NEW k \in 1..9, NEW i \in 1..n PROVE c[(k - 1) * n + i] = Columns(b)[k][i]
    OBVIOUS
  <2> DEFINE x == (k - 1) * n
  <2>1. x \in Nat /\ x + i \in 1..(9 * n)
    BY PlacesIn
  <2>2. body[1 + x + i] = Columns(b)[k][i]
    BY <1>1
  <2> HIDE DEF x
  <2>3. 1 + x + i = 1 + (x + i)
    BY <2>1
  <2>4. c[x + i] = Columns(b)[k][i]
    BY <1>2, <2>1, <2>2, <2>3
  <2> QED BY <2>4 DEF x
<1>7. RowsOf(n, c, u) = b
  <2>1. c \in Seq(U) /\ Len(c) = 9 * n
    BY <1>2
  <2>2. Holds9(c, u, b, n)
    BY <1>4, <1>6 DEF Holds9
  <2> QED BY <2>1, <2>2, RowsRead
<1>8. body # <<>> /\ ~(body[1] > Len(body))
  BY <1>1
<1>9. DecodeBatch(body) =
        UNION {UNION {{RowsOf(n, cols, urls) : urls \in ReadFrom(body, 9 * n + 5, tail[3])}
                      : tail \in ReadFrom(body, 9 * n + 2, 3)}
               : cols \in ReadFrom(body, 2, 9 * n)}
  BY <1>1, <1>8 DEF DecodeBatch
<1> DEFINE Inner(cols, tail) == {RowsOf(n, cols, urls) : urls \in ReadFrom(body, 9 * n + 5, tail[3])}
           Outer(cols) == UNION {Inner(cols, tail) : tail \in ReadFrom(body, 9 * n + 2, 3)}
<1>10. Inner(c, t) = {b}
  BY <1>3, <1>5, <1>7
<1>11. DecodeBatch(body) = UNION {Outer(cols) : cols \in ReadFrom(body, 2, 9 * n)}
  BY <1>9
<1>12. Outer(c) = {b}
  <2> HIDE DEF Inner
  <2>1. Outer(c) = UNION {Inner(c, tail) : tail \in {t}}
    BY <1>5
  <2> QED BY <2>1, <1>10
<1> HIDE DEF Outer
<1>13. DecodeBatch(body) = UNION {Outer(cols) : cols \in {c}}
  BY <1>5, <1>11
<1> QED BY <1>12, <1>13

\* A body cut short is refused.
LEMMA CutRefused ==
  ASSUME NEW n \in Nat, n > 0, NEW U, NEW d \in Seq(U), Len(d) > 0, Len(d) < 10 * n + 4, d[1] = n,
         Len(d) >= 9 * n + 4 => d[9 * n + 4] = n
  PROVE  DecodeBatch(d) = {}
<1> DEFINE m == Len(d)
           Inner(cols, tail) == {RowsOf(n, cols, urls) : urls \in ReadFrom(d, 9 * n + 5, tail[3])}
           Outer(cols) == UNION {Inner(cols, tail) : tail \in ReadFrom(d, 9 * n + 2, 3)}
<1>1. d # <<>> /\ m \in Nat
  OBVIOUS
<1>2. CASE n > m
  BY <1>1, <1>2 DEF DecodeBatch
<1>3. CASE ~(n > m)
  <2>1. DecodeBatch(d) = UNION {Outer(cols) : cols \in ReadFrom(d, 2, 9 * n)}
    BY <1>1, <1>3 DEF DecodeBatch
  <2>2. CASE 9 * n + 1 > m
    <3>1. 2 + 9 * n - 1 = 9 * n + 1
      OBVIOUS
    <3>2. ReadFrom(d, 2, 9 * n) = {}
      BY <2>2, <3>1 DEF ReadFrom
    <3> HIDE DEF Outer
    <3> QED BY <2>1, <3>2
  <2>3. CASE ~(9 * n + 4 > m)
    <3>1. 9 * n + 2 + 3 - 1 = 9 * n + 4
      OBVIOUS
    <3> DEFINE t == SubSeq(d, 9 * n + 2, 9 * n + 4)
    <3>2. ReadFrom(d, 9 * n + 2, 3) = {t}
      BY <2>3, <3>1 DEF ReadFrom
    <3>3. t[3] = n
      <4>1. /\ 9 * n + 2 \in Nat /\ 9 * n + 4 \in Nat /\ 1 <= 9 * n + 2 /\ 9 * n + 2 <= (9 * n + 4) + 1
            /\ 9 * n + 4 <= Len(d) /\ ((9 * n + 4) - (9 * n + 2)) + 1 = 3 /\ 3 \in 1..3
            /\ ((9 * n + 2) - 1) + 3 = 9 * n + 4
        BY <1>1, <2>3
      <4>2. \A i \in 1..(((9 * n + 4) - (9 * n + 2)) + 1) : t[i] = d[((9 * n + 2) - 1) + i]
        BY <4>1, PartIs
      <4> HIDE DEF t
      <4> QED BY <4>1, <4>2
    <3> HIDE DEF t
    <3>4. ReadFrom(d, 9 * n + 5, n) = {}
      <4>1. 9 * n + 5 + n - 1 = 10 * n + 4 /\ 10 * n + 4 > Len(d)
        BY <1>1
      <4> QED BY <4>1 DEF ReadFrom
    <3>5. \A cols : Inner(cols, t) = {}
      BY <3>3, <3>4
    <3>6. \A cols : Outer(cols) = {}
      <4> HIDE DEF Inner
      <4> SUFFICES ASSUME NEW cols PROVE Outer(cols) = {}
        OBVIOUS
      <4>1. Outer(cols) = UNION {Inner(cols, tail) : tail \in {t}}
        BY <3>2
      <4>2. Inner(cols, t) = {}
        BY <3>5
      <4> QED BY <4>1, <4>2
    <3> HIDE DEF Outer
    <3> QED BY <2>1, <3>6
  <2>4. CASE ~(9 * n + 1 > m) /\ 9 * n + 4 > m
    <3>1. 9 * n + 2 + 3 - 1 = 9 * n + 4
      OBVIOUS
    <3>2. ReadFrom(d, 9 * n + 2, 3) = {}
      BY <2>4, <3>1 DEF ReadFrom
    <3>3. \A cols : Outer(cols) = {}
      <4> HIDE DEF Inner
      <4> QED BY <3>2
    <3> HIDE DEF Outer
    <3> QED BY <2>1, <3>3
  <2> QED BY <2>2, <2>3, <2>4
<1> QED BY <1>2, <1>3

\* The number of places of s that hold r; reordering keeps it.
Places(s, r) == Cardinality({i \in DOMAIN s : s[i] = r})

LEMMA OrderCounts ==
  ASSUME NEW n \in Nat, NEW rows, DOMAIN rows = 1..n, NEW p \in Bijection(1..n, 1..n),
         NEW b, DOMAIN b = 1..n, \A i \in 1..n : b[i] = rows[p[i]], NEW r
  PROVE  Places(b, r) = Places(rows, r)
<1> DEFINE S == {i \in 1..n : b[i] = r}
           T == {i \in 1..n : rows[i] = r}
           f == [i \in S |-> p[i]]
<1>1. /\ p \in [1..n -> 1..n] /\ \A i, j \in 1..n : p[i] = p[j] => i = j
      /\ \A k \in 1..n : \E i \in 1..n : p[i] = k
  BY DEF Bijection, Injection, Surjection, IsInjective
<1>2. \A i \in 1..n : b[i] = rows[p[i]]
  OBVIOUS
<1>3. f \in [S -> T]
  BY <1>1, <1>2
<1>4. \A i, j \in S : f[i] = f[j] => i = j
  BY <1>1
<1>5. \A k \in T : \E i \in S : f[i] = k
  <2> SUFFICES ASSUME NEW k \in T PROVE \E i \in S : f[i] = k
    OBVIOUS
  <2>1. PICK i \in 1..n : p[i] = k
    BY <1>1
  <2>2. i \in S
    BY <1>2, <2>1
  <2> QED BY <2>1, <2>2
<1>6. IsFiniteSet(S)
  <2>1. S \subseteq 1..n
    OBVIOUS
  <2>2. IsFiniteSet(1..n)
    <3>1. 1 \in Int /\ n \in Int
      OBVIOUS
    <3> QED BY <3>1, FS_Interval
  <2> HIDE DEF S
  <2> QED BY <2>1, <2>2, FS_Subset
<1>7. S = {i \in DOMAIN b : b[i] = r} /\ T = {i \in DOMAIN rows : rows[i] = r}
  OBVIOUS
<1> HIDE DEF S, T, f
<1>8. f \in Bijection(S, T)
  BY <1>3, <1>4, <1>5 DEF Bijection, Injection, Surjection, IsInjective
<1>9. ExistsBijection(S, T)
  BY <1>8 DEF ExistsBijection
<1>10. Cardinality(T) = Cardinality(S)
  BY <1>6, <1>9, FS_Bijection
<1> QED BY <1>7, <1>10 DEF Places

LEMMA DiscoveryIs ==
  ASSUME NEW r \in Discoveries
  PROVE  /\ r = RowOf(r)
         /\ r.host \in 0..(Word - 1) /\ r.path \in 0..(Word - 1)
         /\ r.from \in 0..(Word - 1) /\ r.at \in 0..(Word - 1)
  BY DEF Discoveries, RowOf

\* The bodies a batch is sent as.
Sent(body, rows, n) ==
  \E b, p : /\ p \in Bijection(1..n, 1..n) /\ b = [i \in 1..n |-> rows[p[i]]]
            /\ Batched(b, n) /\ Laid(body, b, Columns(b), n) /\ \E U : body \in Seq(U)

LEMMA BodiesSent ==
  ASSUME NEW rows \in Seq(Discoveries), Len(rows) < Word, rows # <<>>, NEW body \in EncodeBatch(rows)
  PROVE  Len(rows) \in Nat /\ Len(rows) > 0 /\ Sent(body, rows, Len(rows))
<1> DEFINE n == Len(rows)
<1>1. n \in Nat /\ n > 0 /\ DOMAIN rows = 1..n /\ rows \in [1..n -> Discoveries]
  OBVIOUS
<1>2. PICK b \in KeyOrders(rows) : body = WireBody(b, Columns(b))
  BY DEF EncodeBatch
<1> HIDE DEF n
<1>3. PICK p \in Bijection(1..n, 1..n) : b = [i \in 1..n |-> rows[p[i]]]
  BY <1>1, <1>2 DEF KeyOrders
<1>4. Batched(b, n)
  <2>1. \A i \in 1..n : p[i] \in 1..n
    BY DEF Bijection, Injection
  <2>2. \A i \in 1..n : b[i] \in Discoveries
    BY <1>1, <1>3, <2>1
  <2>3. \A i \in 1..n :
          /\ b[i] = RowOf(b[i])
          /\ b[i].host \in 0..(Word - 1) /\ b[i].path \in 0..(Word - 1)
          /\ b[i].from \in 0..(Word - 1) /\ b[i].at \in 0..(Word - 1)
    BY <2>2, DiscoveryIs
  <2>4. b = [i \in 1..n |-> b[i]]
    BY <1>3
  <2> QED BY <2>3, <2>4 DEF Batched
<1>5. Nine(Columns(b), n)
  <2>1. n < Word
    BY DEF n
  <2> QED BY <1>1, <1>4, <2>1, ColumnsIs
<1>6. b = [i \in 1..n |-> b[i]]
  BY <1>3
<1>7. Laid(body, b, Columns(b), n) /\ \E U : body \in Seq(U)
  BY <1>1, <1>2, <1>5, <1>6, BodyLaid
<1>8. Sent(body, rows, n)
  BY <1>3, <1>4, <1>7 DEF Sent
<1> QED BY <1>1, <1>8 DEF n

\* What a body of the batch decodes to, cut after m elements.
LEMMA SentWhole ==
  ASSUME NEW rows, NEW n \in Nat, n > 0, n < Word, DOMAIN rows = 1..n, NEW body, Sent(body, rows, n),
         NEW m \in Nat, m > 0
  PROVE  /\ Len(body) = 10 * n + 4
         /\ m < 10 * n + 4 => DecodeBatch(Cut(body, m)) = {}
         /\ m >= 10 * n + 4 => \E got \in DecodeBatch(Cut(body, m)) : \A r :
              Cardinality({i \in DOMAIN got : got[i] = r}) = Cardinality({i \in DOMAIN rows : rows[i] = r})
<1>1. PICK b, p : /\ p \in Bijection(1..n, 1..n) /\ b = [i \in 1..n |-> rows[p[i]]]
                  /\ Batched(b, n) /\ Laid(body, b, Columns(b), n) /\ \E U : body \in Seq(U)
  BY DEF Sent
<1>2. PICK U : body \in Seq(U)
  BY <1>1
<1>3. Len(body) = 10 * n + 4 /\ body[1] = n /\ body[9 * n + 4] = n
  BY <1>1 DEF Laid
<1>4. ASSUME m < 10 * n + 4 PROVE DecodeBatch(Cut(body, m)) = {}
  <2> DEFINE d == Cut(body, m)
  <2>1. m < Len(body)
    BY <1>3, <1>4
  <2>2. d \in Seq(U) /\ Len(d) = m /\ \A i \in 1..m : d[i] = body[i]
    BY <1>2, <2>1, CutIs
  <2> HIDE DEF d
  <2>3. 1 \in 1..m /\ (m >= 9 * n + 4 => 9 * n + 4 \in 1..m)
    OBVIOUS
  <2>4. d[1] = n /\ (Len(d) >= 9 * n + 4 => d[9 * n + 4] = n) /\ Len(d) > 0 /\ Len(d) < 10 * n + 4
    BY <1>3, <1>4, <2>2, <2>3
  <2>5. d \in Seq(U)
    BY <2>2
  <2>6. DecodeBatch(d) = {}
    BY <2>4, <2>5, CutRefused
  <2> QED BY <2>6 DEF d
<1>5. ASSUME m >= 10 * n + 4
      PROVE  \E got \in DecodeBatch(Cut(body, m)) : \A r :
               Cardinality({i \in DOMAIN got : got[i] = r}) = Cardinality({i \in DOMAIN rows : rows[i] = r})
  <2>1. m >= Len(body)
    BY <1>3, <1>5
  <2>2. Cut(body, m) = body
    BY <1>2, <2>1, CutIs
  <2>3. DecodeBatch(body) = {b}
    BY <1>1, <1>2, WholeDecodes
  <2>4. \A r : Cardinality({i \in DOMAIN b : b[i] = r}) = Cardinality({i \in DOMAIN rows : rows[i] = r})
    <3> SUFFICES ASSUME NEW r
                 PROVE  Cardinality({i \in DOMAIN b : b[i] = r}) = Cardinality({i \in DOMAIN rows : rows[i] = r})
      OBVIOUS
    <3>1. /\ p \in Bijection(1..n, 1..n) /\ DOMAIN b = 1..n /\ DOMAIN rows = 1..n
          /\ \A i \in 1..n : b[i] = rows[p[i]]
      BY <1>1
    <3>2. Places(b, r) = Places(rows, r)
      BY <3>1, OrderCounts
    <3> QED BY <3>2 DEF Places
  <2>5. b \in DecodeBatch(Cut(body, m))
    BY <2>2, <2>3
  <2> QED BY <2>4, <2>5
<1> QED BY <1>3, <1>4, <1>5

\* The batch that was called with is whole.
BatchInv == call \in Calls /\ BatchWhole

LEMMA ShipKeepsWhole ==
  ASSUME call \in Calls, call' = call, ShipBatch
  PROVE  BatchWhole'
<1> DEFINE rows == call.rows
           m == call.cut
           n == Len(rows)
<1>1. call.kind = "batch" /\ rows \in Seq(Discoveries) /\ n < Word /\ m \in Nat
  BY RulesAssumption DEF ShipBatch
<1>2. PICK body \in EncodeBatch(rows) : answer' = {DecodeBatch(Cut(body, m))}
  BY DEF ShipBatch
<1> DEFINE a == DecodeBatch(Cut(body, m))
<1> SUFFICES ASSUME m > 0
             PROVE  IF \E x \in EncodeBatch(rows) : m < Len(x) THEN a = {}
                    ELSE \E got \in a : \A r \in Range(got) \cup Range(rows) :
                           Cardinality({i \in DOMAIN got : got[i] = r})
                           = Cardinality({i \in DOMAIN rows : rows[i] = r})
  BY <1>2 DEF BatchWhole
<1>3. CASE rows = <<>>
  <2>1. EncodeBatch(rows) = {<<>>} /\ body = <<>>
    BY <1>2, <1>3 DEF EncodeBatch
  <2>2. ~(\E x \in EncodeBatch(rows) : m < Len(x))
    BY <1>1, <2>1
  <2>3. a = {<<>>}
    <3>1. Cut(<<>>, m) = <<>>
      <4>1. <<>> \in Seq(Nat) /\ m >= Len(<<>>)
        BY <1>1
      <4> QED BY <1>1, <4>1, CutIs
    <3> QED BY <2>1, <3>1 DEF DecodeBatch
  <2> QED BY <1>3, <2>2, <2>3
<1>4. CASE rows # <<>>
  <2>1. n \in Nat /\ n > 0 /\ \A x \in EncodeBatch(rows) : Sent(x, rows, n)
    <3> HIDE DEF rows
    <3> QED BY <1>1, <1>2, <1>4, BodiesSent
  <2>2. DOMAIN rows = 1..n
    BY <1>1
  <2> HIDE DEF rows, m, n
  <2>3. \A x \in EncodeBatch(rows) : Len(x) = 10 * n + 4
    BY <1>1, <2>1, <2>2, SentWhole
  <2>4. /\ m < 10 * n + 4 => a = {}
        /\ m >= 10 * n + 4 => \E got \in a : \A r :
              Cardinality({i \in DOMAIN got : got[i] = r}) = Cardinality({i \in DOMAIN rows : rows[i] = r})
    BY <1>1, <1>2, <2>1, <2>2, SentWhole
  <2> HIDE DEF a
  <2>5. CASE m < 10 * n + 4
    BY <1>2, <2>3, <2>4, <2>5
  <2>6. CASE ~(m < 10 * n + 4)
    <3>1. ~(\E x \in EncodeBatch(rows) : m < Len(x)) /\ m >= 10 * n + 4
      BY <1>1, <2>1, <2>3, <2>6
    <3>2. PICK got \in a : \A r :
              Cardinality({i \in DOMAIN got : got[i] = r}) = Cardinality({i \in DOMAIN rows : rows[i] = r})
      BY <2>4, <3>1
    <3> QED BY <3>1, <3>2
  <2> QED BY <2>5, <2>6
<1> QED BY <1>3, <1>4

\* A discovery batch survives the wire whole or not at all
\* (src/distribute/batch.go, EncodeBatch and DecodeBatch): whatever rows it
\* holds, in whatever order the unstable sort leaves rows of one key, the
\* body decodes to the same rows, and a body cut short is refused.
THEOREM BatchHolds == RulesSpec => []BatchWhole
<1>1. RulesInit => BatchInv
  BY DEF RulesInit, BatchInv, BatchWhole
<1>2. BatchInv /\ [RulesNext]_ruleVars => BatchInv'
  <2> SUFFICES ASSUME BatchInv, [RulesNext]_ruleVars PROVE BatchInv'
    OBVIOUS
  <2>1. call \in Calls
    BY DEF BatchInv
  <2>2. CASE UNCHANGED ruleVars
    <3>1. call' = call /\ answer' = answer
      BY <2>2 DEF ruleVars
    <3>2. BatchWhole' <=> BatchWhole
      BY <3>1 DEF BatchWhole
    <3> QED BY <3>1, <3>2 DEF BatchInv
  <2>3. CASE RulesNext /\ ShipBatch
    <3>1. call' = call
      BY <2>3 DEF RulesNext
    <3>2. BatchWhole'
      BY <2>1, <2>3, <3>1, ShipKeepsWhole
    <3> QED BY <2>1, <3>1, <3>2 DEF BatchInv
  <2>4. CASE RulesNext /\ (MatchPath \/ ParseRobots \/ CanonPair)
    <3>1. call' = call /\ call.kind # "batch"
      BY <2>4 DEF RulesNext, MatchPath, ParseRobots, CanonPair
    <3> QED BY <2>1, <3>1 DEF BatchInv, BatchWhole
  <2> QED BY <2>2, <2>3, <2>4 DEF RulesNext
<1>3. BatchInv => BatchWhole
  BY DEF BatchInv
<1> QED BY <1>1, <1>2, <1>3, PTL DEF RulesSpec

-----------------------------------------------------------------------------
(* The manifest: what a clean CoverageGap is worth. *)

\* A manifest as BuildManifest leaves it: entries with a range of host keys,
\* by range start.
Manifest(m) ==
  /\ Len(m) \in Nat /\ DOMAIN m = 1..Len(m)
  /\ \A k \in DOMAIN m : m[k].lo \in Keys /\ m[k].hi \in Keys
  /\ \A k \in 2..Len(m) : m[k - 1].lo <= m[k].lo

\* CoverageGap passes the epoch's entries, one of which ends at the last key.
Tiled(m, epoch) ==
  /\ CoverageGap(m, epoch) = {}
  /\ Cardinality({k \in OfEpoch(m, epoch) : m[k].hi = MaxKey}) = 1

\* The first and the last entry of a clean epoch are at the ends of the key
\* space, and each other one starts where the one before it ends.
LEMMA CleanTiles ==
  ASSUME NEW m, Manifest(m), NEW epoch, Tiled(m, epoch),
         NEW own, own = OfEpoch(m, epoch)
  PROVE  /\ own # {} /\ m[Max(own)].hi = MaxKey
         /\ \A k \in own : {j \in own : j < k} = {} => m[k].lo = 0
         /\ \A k \in own : {j \in own : j < k} # {} => m[k].lo = m[Max({j \in own : j < k})].hi + 1
<1>0. Len(m) \in Nat /\ DOMAIN m = 1..Len(m)
  BY DEF Manifest
<1>1. PICK n \in Nat : n = Len(m) /\ DOMAIN m = 1..n
  BY <1>0, Zenon
<1>2. /\ MaxKey \in Nat /\ own \in SUBSET (1..n)
      /\ \A k \in 1..n : m[k].lo \in 0..MaxKey /\ m[k].hi \in 0..MaxKey
  BY <1>1, FormatAssumption DEF Manifest, Keys, OfEpoch
<1>3. /\ own # {} /\ Next1(m[Max(own)]) = 0
      /\ {k \in own : m[k].lo # Wanted(m, epoch, k)} = {}
  BY DEF CoverageGap, Tiled
<1>4. \A k \in own : m[k].lo = Wanted(m, epoch, k)
  BY <1>3
<1>5. \A x \in 0..MaxKey : (x + 1) % (MaxKey + 1) = IF x = MaxKey THEN 0 ELSE x + 1
  <2> SUFFICES ASSUME NEW x \in 0..MaxKey
               PROVE  (x + 1) % (MaxKey + 1) = IF x = MaxKey THEN 0 ELSE x + 1
    OBVIOUS
  <2>1. PICK y, d : y = x + 1 /\ d = MaxKey + 1
    OBVIOUS
  <2>2. y \in Nat /\ d \in Nat /\ d > 0 /\ y <= d /\ (x = MaxKey <=> y = d)
    BY <1>2, <2>1
  <2>3. \A z \in Nat : z > 0 => z % z = 0
    BY Z3
  <2>4. y < d => y % d = y
    BY <2>2, Z3
  <2> QED BY <2>1, <2>2, <2>3, <2>4
<1>6. \A k \in own : Next1(m[k]) = IF m[k].hi = MaxKey THEN 0 ELSE m[k].hi + 1
  BY <1>2, <1>5 DEF Next1
<1>7. PICK z : z = Max(own) /\ z \in own /\ \A y \in own : y <= z
  BY <1>2, <1>3, GreatestUpto
<1>8. m[z].hi = MaxKey
  BY <1>2, <1>3, <1>6, <1>7
<1>9. \A k \in own : m[k].hi = MaxKey => k = z
  <2>1. PICK E : E = {k \in own : m[k].hi = MaxKey}
    OBVIOUS
  <2>2. z \in E /\ E \in SUBSET (1..n) /\ IsFiniteSet(1..n) /\ Cardinality(E) = 1
    BY <1>2, <1>7, <1>8, <2>1, FS_Interval DEF Tiled
  <2>3. IsFiniteSet(E)
    BY <2>2, FS_Subset
  <2>4. \E x : E = {x}
    BY <2>2, <2>3, FS_Singleton
  <2>5. E = {z}
    BY <2>2, <2>4
  <2> QED BY <2>1, <2>5
<1>10. ASSUME NEW k \in own, {j \in own : j < k} = {} PROVE m[k].lo = 0
  BY <1>4, <1>10 DEF Wanted
<1>11. ASSUME NEW k \in own, {j \in own : j < k} # {}
       PROVE  m[k].lo = m[Max({j \in own : j < k})].hi + 1
  <2>1. PICK T : T = {j \in own : j < k}
    OBVIOUS
  <2>2. PICK t : t = Max(T) /\ t \in T
    BY <1>2, <1>11, <2>1, GreatestUpto
  <2>3. m[k].lo = Next1(m[t])
    BY <1>4, <1>11, <2>1, <2>2 DEF Wanted
  <2>4. t \in own /\ t < k /\ k <= z /\ t \in 1..n /\ k \in 1..n /\ z \in 1..n
    BY <1>2, <1>7, <2>1, <2>2
  <2>5. t # z
    BY <2>4
  <2> QED BY <1>6, <1>9, <2>1, <2>2, <2>3, <2>4, <2>5
<1> QED BY <1>3, <1>7, <1>8, <1>10, <1>11

\* An entry of a clean epoch that is not the last has a next one, which
\* starts one key after its end.
LEMMA CleanNext ==
  ASSUME NEW m, Manifest(m), NEW epoch, Tiled(m, epoch),
         NEW own, own = OfEpoch(m, epoch), NEW k \in own, NEW u \in own, k < u
  PROVE  \E s \in own : k < s /\ s <= u /\ m[s].lo = m[k].hi + 1
<1>0. Len(m) \in Nat /\ DOMAIN m = 1..Len(m)
  BY DEF Manifest
<1>1. PICK n \in Nat : n = Len(m) /\ DOMAIN m = 1..n
  BY <1>0, Zenon
<1>2. own \in SUBSET (1..n)
  BY <1>1 DEF OfEpoch
<1>3. PICK A : A = {j \in own : k < j}
  OBVIOUS
<1>4. A \in SUBSET Nat /\ u \in A
  BY <1>2, <1>3
<1>5. PICK s \in A : \A y \in A : s <= y
  BY <1>4, LeastNat
<1>6. PICK T : T = {j \in own : j < s}
  OBVIOUS
<1>7. s \in own /\ k < s /\ s <= u /\ k \in T /\ T \in SUBSET (1..n)
  BY <1>2, <1>3, <1>4, <1>5, <1>6
<1>8. PICK t : t = Max(T) /\ t \in T /\ \A y \in T : y <= t
  BY <1>7, GreatestUpto
<1>9. t = k
  <2>1. t \in own /\ t < s /\ k <= t /\ t \in 1..n /\ k \in 1..n /\ s \in 1..n
    BY <1>2, <1>6, <1>7, <1>8
  <2>2. t \notin A
    BY <1>5, <2>1
  <2> QED BY <1>3, <2>1, <2>2
<1>10. m[s].lo = m[Max(T)].hi + 1
  BY <1>6, <1>7, CleanTiles
<1> QED BY <1>7, <1>8, <1>9, <1>10

\* When CoverageGap passes an epoch, with one of its entries ending at the
\* last key, every host key is in exactly one entry of that epoch; when the
\* manifest has no other epoch, Route returns that entry.  For any number of
\* files, epochs and keys (src/format/manifest.go:102, 131).
THEOREM CoverageRoutes ==
  ASSUME NEW m, Manifest(m), NEW epoch, Tiled(m, epoch), NEW hk \in Keys
  PROVE  \E k \in OfEpoch(m, epoch) :
           /\ {j \in OfEpoch(m, epoch) : m[j].lo <= hk /\ hk <= m[j].hi} = {k}
           /\ OfEpoch(m, epoch) = DOMAIN m => Route(m, hk) = {m[k]}
<1>0. Len(m) \in Nat /\ DOMAIN m = 1..Len(m)
  BY DEF Manifest
<1>1a. PICK n \in Nat : n = Len(m) /\ DOMAIN m = 1..n
  BY <1>0, Zenon
<1>1b. PICK own : own = OfEpoch(m, epoch)
  OBVIOUS
<1>1. n = Len(m) /\ DOMAIN m = 1..n /\ own = OfEpoch(m, epoch)
  BY <1>1a, <1>1b
<1>2. /\ hk \in 0..MaxKey /\ MaxKey \in Nat /\ own \in SUBSET (1..n)
      /\ \A k \in 1..n : m[k].lo \in 0..MaxKey /\ m[k].hi \in 0..MaxKey
      /\ \A k \in 2..n : m[k - 1].lo <= m[k].lo
  BY <1>1, FormatAssumption DEF Manifest, Keys, OfEpoch
<1>2a. \A k \in own : k \in Nat /\ k \in 1..n
  BY <1>2
<1>3. /\ own # {} /\ m[Max(own)].hi = MaxKey
      /\ \A k \in own : {j \in own : j < k} = {} => m[k].lo = 0
  BY <1>1, CleanTiles
<1>4. \A k \in 1..n : \A p \in k..n : m[k].lo <= m[p].lo
  <2>1. PICK v : v = [k \in 1..n |-> m[k].lo]
    OBVIOUS
  <2>2. \A k \in 1..n : v[k] \in Nat /\ v[k] = m[k].lo
    BY <1>2, <2>1
  <2>3. \A k \in 2..n : v[k - 1] <= v[k]
    <3> SUFFICES ASSUME NEW k \in 2..n PROVE v[k - 1] <= v[k]
      OBVIOUS
    <3>1. k \in 1..n /\ k - 1 \in 1..n
      OBVIOUS
    <3> QED BY <1>2, <2>2, <3>1
  <2>4. \A k \in 1..n : \A p \in k..n : v[k] <= v[p]
    BY <2>2, <2>3, Ascends
  <2> QED BY <2>2, <2>4
<1>5. PICK a \in own : \A y \in own : a <= y
  <2>1. own \in SUBSET Nat
    BY <1>2
  <2> QED BY <1>3, <2>1, LeastNat
<1>6. m[a].lo = 0
  <2>1. \A j \in own : a \in Nat /\ j \in Nat /\ a <= j
    BY <1>2a, <1>5
  <2>2. \A j \in own : ~(j < a)
    BY <2>1
  <2>3. {j \in own : j < a} = {}
    BY <2>2
  <2> QED BY <1>3, <2>3
<1>7. PICK below : below = {k \in own : m[k].lo <= hk}
  OBVIOUS
<1>8. a \in below /\ below \in SUBSET (1..n)
  <2>1. m[a].lo <= hk
    BY <1>2, <1>6
  <2>2. below \subseteq own
    BY <1>7
  <2> QED BY <1>2, <1>5, <1>7, <2>1, <2>2
<1>9. PICK b : b = Max(below) /\ b \in below /\ \A y \in below : y <= b
  BY <1>8, GreatestUpto
<1>10. PICK z : z = Max(own) /\ z \in own /\ \A y \in own : y <= z
  BY <1>2, <1>3, GreatestUpto
<1>11. b \in own /\ b \in 1..n /\ z \in 1..n /\ m[b].lo <= hk /\ b <= z
  BY <1>2, <1>7, <1>9, <1>10
<1>12. hk <= m[b].hi
  <2>1. CASE b = z
    BY <1>2, <1>3, <1>10, <2>1
  <2>2. CASE b # z
    <3>1. b < z
      BY <1>11, <2>2
    <3>2. \E s \in own : b < s /\ s <= z /\ m[s].lo = m[b].hi + 1
      <4>1. z \in own /\ b \in own /\ b < z
        BY <1>10, <1>11, <3>1
      <4> QED BY <1>1b, <4>1, CleanNext
    <3>2a. PICK s \in own : b < s /\ m[s].lo = m[b].hi + 1
      BY <3>2
    <3>3a. s \in Nat /\ b \in Nat /\ s \in 1..n
      BY <1>2a, <1>11
    <3>3. s \in 1..n /\ ~(s <= b)
      BY <3>2a, <3>3a
    <3>4. ~(m[s].lo <= hk)
      BY <1>7, <1>9, <3>3
    <3>5. PICK x \in Nat, y \in Nat : x = m[b].hi /\ y = m[s].lo
      BY <1>2, <1>11, <3>3
    <3> QED BY <1>2, <3>2a, <3>4, <3>5
  <2> QED BY <2>1, <2>2
<1>13. ASSUME NEW j \in own, m[j].lo <= hk, hk <= m[j].hi PROVE j = b
  <2>1. j \in 1..n /\ j <= b
    BY <1>2, <1>7, <1>9, <1>13
  <2> SUFFICES ASSUME j < b PROVE FALSE
    BY <1>11, <2>1
  <2>2. PICK s \in own : j < s /\ s <= b /\ m[s].lo = m[j].hi + 1
    BY <1>1, <1>11, CleanNext
  <2>3a. s \in Nat /\ b \in Nat /\ s \in 1..n /\ b \in 1..n
    BY <1>2a, <1>11
  <2>3. s \in 1..n /\ b \in s..n
    BY <2>2, <2>3a
  <2>4. m[s].lo <= m[b].lo
    BY <1>4, <2>3
  <2>5. PICK x \in Nat, y \in Nat, w \in Nat : x = m[j].hi /\ y = m[s].lo /\ w = m[b].lo
    BY <1>2, <1>11, <2>1, <2>3
  <2> QED BY <1>2, <1>11, <1>13, <2>2, <2>4, <2>5
<1>14. {j \in own : m[j].lo <= hk /\ hk <= m[j].hi} = {b}
  BY <1>11, <1>12, <1>13
<1>15. own = DOMAIN m => Route(m, hk) = {m[b]}
  <2> SUFFICES ASSUME own = DOMAIN m PROVE Route(m, hk) = {m[b]}
    OBVIOUS
  <2>1. below = {k \in DOMAIN m : m[k].lo <= hk} /\ below # {}
    BY <1>7, <1>8
  <2>2. Route(m, hk) = {e \in {m[b]} : hk <= e.hi}
    BY <1>9, <2>1 DEF Route
  <2> QED BY <1>12, <2>2
<1> QED BY <1>1, <1>11, <1>14, <1>15

-----------------------------------------------------------------------------
(* Pages: a column cut into pages and read back. *)

\* The cuts of n values are the stretches between ends e.
Cuts(cuts, N, e, n) ==
  /\ N \in Nat /\ e \in [0..N -> 0..n] /\ e[0] = 0 /\ e[N] = n
  /\ \A p \in 1..N : e[p - 1] <= e[p]
  /\ cuts = [p \in 1..N |-> <<e[p - 1] + 1, e[p]>>]

LEMMA LesserIs ==
  ASSUME NEW a \in Nat, NEW b \in Nat
  PROVE  Min({a, b}) = IF a <= b THEN a ELSE b
<1>1. CASE a <= b
  <2>1. Min({a, b}) = a
    <3>1. a \in {a, b} /\ {a, b} \in SUBSET Nat /\ \A y \in {a, b} : a <= y
      BY <1>1
    <3> QED BY <3>1, MinIs
  <2> QED BY <2>1, <1>1
<1>2. CASE ~(a <= b)
  <2>1. Min({a, b}) = b
    <3>1. b \in {a, b} /\ {a, b} \in SUBSET Nat /\ \A y \in {a, b} : b <= y
      BY <1>2
    <3> QED BY <3>1, MinIs
  <2> QED BY <2>1, <1>2
<1> QED BY <1>1, <1>2

LEMMA CutsTile ==
  ASSUME NEW n \in Nat, NEW m \in Nat
  PROVE  \E N, e : Cuts(splitColumn(n, m), N, e, n)
<1>1. CASE m = 0 \/ n <= m
  <2> DEFINE e == [p \in 0..1 |-> IF p = 0 THEN 0 ELSE n]
  <2>1. splitColumn(n, m) = <<<<1, n>>>>
    BY <1>1 DEF splitColumn
  <2>2. e \in [0..1 -> 0..n] /\ e[0] = 0 /\ e[1] = n
    OBVIOUS
  <2>3. \A p \in 1..1 : p = 1
    OBVIOUS
  <2> HIDE DEF e
  <2>4. <<<<1, n>>>> = [p \in 1..1 |-> <<e[p - 1] + 1, e[p]>>]
    BY <2>2, <2>3
  <2>5. 1 \in Nat /\ 0 \in 0..n /\ 0 <= n
    OBVIOUS
  <2>6. Cuts(splitColumn(n, m), 1, e, n)
    BY <2>1, <2>2, <2>3, <2>4, <2>5 DEF Cuts
  <2> QED BY <2>6, Zenon
<1>2. CASE ~(m = 0 \/ n <= m)
  <2> DEFINE x == (n + m) - 1
             N == x \div m
             e == [p \in 0..N |-> Min({p * m, n})]
  <2>1. m > 0 /\ n > m /\ x \in Nat
    BY <1>2
  <2>2. n + m - 1 = x
    OBVIOUS
  <2>3. splitColumn(n, m) = [p \in 1..N |-> <<(p - 1) * m + 1, Min({p * m, n})>>]
    BY <1>2, <2>2 DEF splitColumn
  <2>4. x = m * N + (x % m) /\ x % m \in Nat /\ x % m < m /\ N \in Int
    <3> HIDE DEF x
    <3> QED BY <2>1, DivisionIs
  <2>5. N \in Nat /\ N > 0 /\ m * N >= n /\ m * (N - 1) <= n - 1
    <3> HIDE DEF N
    <3>1. m * (N - 1) = m * N - m
      BY <2>4
    <3>2. m * N \in Int
      BY <2>4
    <3>3. m * N >= n /\ m * N - m <= n - 1
      <4> DEFINE y == m * N
                 z == x % m
      <4>1. x = y + z /\ z \in Nat /\ z < m /\ y \in Int /\ x = (n + m) - 1
        BY <2>4, <3>2
      <4> HIDE DEF y, z, x
      <4>2. y >= n /\ y - m <= n - 1
        BY <4>1
      <4> QED BY <4>2 DEF y
    <3>4. N > 0
      <4>1. CASE N <= 0
        <5>1. m * N <= 0
          BY <4>1, <2>4
        <5>2. PICK y \in Int : y = m * N /\ y <= 0 /\ y >= n
          BY <5>1, <3>2, <3>3
        <5> QED BY <5>2, <2>1
      <4> QED BY <4>1, <2>4
    <3> QED BY <2>4, <3>1, <3>3, <3>4
  <2> HIDE DEF N, x
  <2>6. \A p \in 0..N : p * m \in Nat /\ e[p] = (IF p * m <= n THEN p * m ELSE n)
    <3>1. \A p \in 0..N : p * m \in Nat
      BY <2>5
    <3> QED BY <3>1, LesserIs
  <2>7. \A p \in 1..N : (p - 1) * m \in Nat /\ (p - 1) * m <= n - 1 /\ p * m = (p - 1) * m + m
    <3> SUFFICES ASSUME NEW p \in 1..N PROVE (p - 1) * m \in Nat /\ (p - 1) * m <= n - 1 /\ p * m = (p - 1) * m + m
      OBVIOUS
    <3>1. (p - 1) * m \in Nat /\ p * m = (p - 1) * m + m
      BY <2>5
    <3>2. (p - 1) * m <= m * (N - 1)
      <4>1. p - 1 \in Nat /\ N - 1 \in Nat /\ p - 1 <= N - 1
        BY <2>5
      <4>2. PICK d \in Nat : N - 1 = (p - 1) + d
        <5>1. (N - 1) - (p - 1) \in Nat /\ N - 1 = (p - 1) + ((N - 1) - (p - 1))
          BY <4>1
        <5> QED BY <5>1
      <4>3. m * (N - 1) = m * (p - 1) + m * d
        BY <4>1, <4>2
      <4>4. m * d \in Nat /\ m * (p - 1) = (p - 1) * m
        BY <4>1
      <4> QED BY <4>3, <4>4, <3>1
    <3> QED BY <3>1, <3>2, <2>5
  <2>8. e \in [0..N -> 0..n]
    BY <2>6
  <2>9. e[0] = 0 /\ e[N] = n
    <3>1. 0 \in 0..N /\ N \in 0..N /\ 0 * m = 0 /\ N * m = m * N
      BY <2>5
    <3>2. e[0] = (IF 0 * m <= n THEN 0 * m ELSE n)
      BY <3>1, <2>6
    <3>3. e[N] = (IF N * m <= n THEN N * m ELSE n)
      BY <3>1, <2>6
    <3> HIDE DEF e
    <3>4. PICK y \in Nat : y = m * N /\ y >= n
      BY <2>5
    <3> QED BY <3>1, <3>2, <3>3, <3>4
  <2>10. \A p \in 1..N : p - 1 \in 0..N /\ p \in 0..N /\ e[p - 1] = (p - 1) * m /\ e[p - 1] <= e[p]
    <3> SUFFICES ASSUME NEW p \in 1..N
                 PROVE  p - 1 \in 0..N /\ p \in 0..N /\ e[p - 1] = (p - 1) * m /\ e[p - 1] <= e[p]
      OBVIOUS
    <3>1. p - 1 \in 0..N /\ p \in 0..N
      BY <2>5
    <3> DEFINE a == (p - 1) * m
               b == p * m
    <3>2. a \in Nat /\ a <= n - 1 /\ b = a + m
      BY <2>7
    <3>3. e[p - 1] = (IF a <= n THEN a ELSE n) /\ e[p] = (IF b <= n THEN b ELSE n)
      BY <2>6, <3>1
    <3> HIDE DEF a, b, e
    <3>4. e[p - 1] = a /\ e[p - 1] <= e[p]
      BY <3>2, <3>3
    <3> QED BY <3>1, <3>4 DEF a
  <2>11. splitColumn(n, m) = [p \in 1..N |-> <<e[p - 1] + 1, e[p]>>]
    BY <2>3, <2>10
  <2> HIDE DEF e
  <2>12. Cuts(splitColumn(n, m), N, e, n)
    BY <2>5, <2>8, <2>9, <2>10, <2>11, Zenon DEF Cuts
  <2> QED BY <2>12, Zenon
<1> QED BY <1>1, <1>2

\* A column: n values that fit the width.
InWidth(vals, n, width) ==
  vals = [i \in 1..n |-> vals[i]] /\ \A i \in 1..n : vals[i] \in 0..(Word - 1) /\ vals[i] < 2^width

LEMMA PageBack ==
  ASSUME NEW c, c.enc \in Encodings, c.width \in 0..WordBits, NEW n \in Nat, n < Word,
         NEW vals, InWidth(vals, n, c.width), NEW first, NEW W
  PROVE  decodePagePayload(buildColumnPage(c, vals, first, W), c.width) = {vals}
<1> DEFINE enc == IF c.enc \in W THEN c.enc ELSE "raw"
           pg == buildColumnPage(c, vals, first, W)
<1>1. enc \in Encodings
  BY DEF Encodings
<1>2. vals \in Seq(0..(Word - 1)) /\ Len(vals) = n /\ DOMAIN vals = 1..n
  <2>1. Words(vals, n)
    BY DEF InWidth, Words
  <2> QED BY <2>1, WordsSeq
<1>3. ReadBack(enc, vals) = {vals}
  <2> HIDE DEF enc
  <2> QED BY <1>1, <1>2, CodecLossless
<1>4. pg.enc = enc /\ pg.payload = encodeValues(enc, vals).payload /\ pg.n = Len(vals)
      /\ pg.base = encodeValues(enc, vals).base
  BY DEF buildColumnPage
<1>5. decodeValues(pg.enc, pg.payload, pg.n, pg.base) = {vals}
  <2> HIDE DEF enc, pg
  <2> QED BY <1>3, <1>4 DEF ReadBack
<1>6. writeValues(vals, c.width) = vals
  <2>1. 2^c.width \in Nat /\ 2^c.width > 0
    BY PowersGrow
  <2>2. \A i \in 1..n : vals[i] % 2^c.width = vals[i]
    <3> SUFFICES ASSUME NEW i \in 1..n PROVE vals[i] % 2^c.width = vals[i]
      OBVIOUS
    <3>1. vals[i] \in Int /\ 0 <= vals[i] /\ vals[i] < 2^c.width
      BY WordIs DEF InWidth
    <3>2. PICK V \in Nat : V = 2^c.width /\ V > 0
      BY <2>1
    <3>3. PICK a \in Int : a = vals[i] /\ 0 <= a /\ a < V
      BY <3>1, <3>2
    <3>4. a = V * 0 + a
      BY <3>3
    <3>5. a % V = a
      BY <3>2, <3>3, <3>4, DivisionOf
    <3> QED BY <3>2, <3>3, <3>5
  <2>3. [i \in 1..n |-> vals[i] % 2^c.width] = [i \in 1..n |-> vals[i]]
    BY <2>2
  <2>4. writeValues(vals, c.width) = [i \in 1..n |-> vals[i] % 2^c.width]
    BY <1>2 DEF writeValues
  <2> QED BY <2>3, <2>4 DEF InWidth
<1> HIDE DEF pg
<1>7. decodePagePayload(pg, c.width) = {IF pg.enc = "raw" THEN v ELSE writeValues(v, c.width) : v \in {vals}}
  BY <1>5 DEF decodePagePayload
<1> QED BY <1>6, <1>7 DEF pg

\* The N pages read back as the parts, and pre[p] is the first p of them.
PagesRead(pages, N, w, part, S) ==
  \A p \in 1..N : part[p] \in Seq(S) /\ decodePagePayload(pages[p], w) = {part[p]}
PagePrefixes(pre, part, N, S) ==
  /\ pre \in [0..N -> Seq(S)] /\ pre[0] = <<>>
  /\ \A p \in 1..N : pre[p] = pre[p - 1] \o part[p]

\* Pages that read back as parts glue to their whole.
LEMMA GluedTo ==
  ASSUME NEW S, NEW N \in Nat, NEW pages, Len(pages) = N, NEW w, NEW part,
         PagesRead(pages, N, w, part, S), NEW pre, PagePrefixes(pre, part, N, S)
  PROVE  decodeColumnRegion(pages, w) = {pre[N]}
<1>a. /\ \A p \in 1..N : part[p] \in Seq(S) /\ decodePagePayload(pages[p], w) = {part[p]}
      /\ pre \in [0..N -> Seq(S)] /\ pre[0] = <<>>
      /\ \A p \in 1..N : pre[p] = pre[p - 1] \o part[p]
  BY DEF PagesRead, PagePrefixes
<1> DEFINE Q == SUBSET Seq(S)
<1>b. {<<>>} \in Q /\ \A k \in 1..N : \A x \in Q : Glued(x, pages[k], w) \in Q
  <2> SUFFICES ASSUME NEW k \in 1..N, NEW x \in Q PROVE Glued(x, pages[k], w) \in Q
    OBVIOUS
  <2>1. PICK y : y \in Seq(S) /\ decodePagePayload(pages[k], w) = {y}
    BY <1>a
  <2>2. Glued(x, pages[k], w) = {u \o v : u \in x, v \in {y}}
    BY <2>1 DEF Glued
  <2>3. \A u \in Seq(S) : u \o y \in Seq(S)
    BY <2>1
  <2>4. \A z \in Glued(x, pages[k], w) : \E u \in x : z = u \o y
    BY <2>2
  <2> QED BY <2>3, <2>4
<1> HIDE DEF Q
<1> DEFINE L == Len(pages)
           first == {<<>>}
           Rec(f) == f = [k \in 0..L |-> IF k = 0 THEN first ELSE Glued(f[k - 1], pages[k], w)]
           step == [k \in 1..L |-> [x \in Q |-> Glued(x, pages[k], w)]]
<1>0. L \in Nat
  OBVIOUS
<1>1. first \in Q
  BY <1>b
<1>2. Steps(step, L, Q)
  <2>1. \A k \in 1..L : \A x \in Q : (Glued(x, pages[k], w)) \in Q
    BY <1>b
  <2> HIDE DEF L
  <2> QED BY <2>1 DEF Steps
<1>3. PICK c : Course(c, L, Q, first, step)
  <2> HIDE DEF L, first, step
  <2> QED BY <1>0, <1>1, <1>2, Recursion
<1>4. Rec(c)
  <2> HIDE DEF first, L
  <2>1. c \in [0..L -> Q] /\ c[0] = first /\ \A i \in 1..L : c[i] = step[i][c[i - 1]]
    BY <1>3 DEF Course
  <2>2. \A i \in 1..L : i - 1 \in 0..L /\ c[i - 1] \in Q
    BY <1>0, <2>1
  <2>3. \A k \in 1..L : c[k] = Glued(c[k - 1], pages[k], w)
    BY <2>1, <2>2
  <2>4. \A k \in 0..L : k # 0 => k \in 1..L
    BY <1>0
  <2> HIDE DEF step
  <2>5. c = [k \in 0..L |-> c[k]]
    BY <2>1
  <2>6. \A k \in 0..L : c[k] = IF k = 0 THEN first ELSE Glued(c[k - 1], pages[k], w)
    BY <2>1, <2>3, <2>4
  <2> QED BY <2>5, <2>6
<1> DEFINE f == CHOOSE f : Rec(f)
<1>5. Rec(f)
  <2> HIDE DEF Rec
  <2> QED BY <1>4
<1>6. decodeColumnRegion(pages, w) = f[L]
  BY DEF decodeColumnRegion, L, first
<1> HIDE DEF f, first, L
<1>7. /\ f = [k \in 0..L |-> f[k]] /\ f[0] = first
      /\ \A k \in 1..L : f[k] = Glued(f[k - 1], pages[k], w)
  <2>1. 0 \in 0..L /\ \A k \in 1..L : k \in 0..L /\ k # 0
    BY <1>0
  <2>2. \A k \in 0..L : f[k] = IF k = 0 THEN first ELSE Glued(f[k - 1], pages[k], w)
    BY <1>5
  <2>3. DOMAIN f = 0..L
    BY <1>5
  <2>4. f = [k \in 0..L |-> f[k]]
    BY <1>5, <2>3
  <2> QED BY <2>1, <2>2, <2>4
<1>8. Course(f, L, Q, first, step)
  <2>1. \A i \in 1..L : f[i - 1] \in Q => f[i] = step[i][f[i - 1]]
    BY <1>7
  <2> HIDE DEF step
  <2> QED BY <1>0, <1>1, <1>2, <1>7, <2>1, CourseFits
<1>9. \A k \in 0..L : f[k] \in Q
  BY <1>8 DEF Course
<1> DEFINE G == {k \in Nat : k \in 0..N => f[k] = {pre[k]}}
<1>10. L = N
  BY DEF L
<1>11. 0 \in G
  BY <1>7, <1>a DEF first
<1>12. \A k \in 0..N : k \in G /\ k < N => k + 1 \in G
  <2> SUFFICES ASSUME NEW k \in 0..N, k \in G, k < N PROVE k + 1 \in G
    OBVIOUS
  <2>1. k + 1 \in 1..N /\ (k + 1) - 1 = k /\ k \in 0..N /\ k + 1 \in Nat
    OBVIOUS
  <2>2. f[k] = {pre[k]}
    OBVIOUS
  <2>3. f[k + 1] = Glued(f[k], pages[k + 1], w)
    <3>1. f[k + 1] = Glued(f[(k + 1) - 1], pages[k + 1], w)
      BY <2>1, <1>7, <1>10
    <3> QED BY <2>1, <3>1
  <2>4. PICK y : y = part[k + 1] /\ decodePagePayload(pages[k + 1], w) = {y}
    BY <2>1, <1>a
  <2>5. Glued({pre[k]}, pages[k + 1], w) = {pre[k] \o y}
    BY <2>4 DEF Glued
  <2>6. pre[k + 1] = pre[k] \o part[k + 1]
    <3>1. pre[k + 1] = pre[(k + 1) - 1] \o part[k + 1]
      BY <2>1, <1>a
    <3> QED BY <2>1, <3>1
  <2>7. f[k + 1] = {pre[k + 1]}
    BY <2>2, <2>3, <2>4, <2>5, <2>6, Zenon
  <2> QED BY <2>1, <2>7
<1>13. N \in G
  <2> HIDE DEF G
  <2>1. \A k \in 0..N : k \in G
    BY <1>11, <1>12, Climb
  <2> QED BY <2>1
<1> QED BY <1>6, <1>10, <1>13

\* A prefix and the stretch after it.
LEMMA PrefixGrows ==
  ASSUME NEW S, NEW s \in Seq(S), NEW a \in Nat, NEW b \in Nat, a <= b, b <= Len(s)
  PROVE  SubSeq(s, 1, b) = SubSeq(s, 1, a) \o SubSeq(s, a + 1, b)
<1>1. /\ SubSeq(s, 1, b) \in Seq(S) /\ Len(SubSeq(s, 1, b)) = b
      /\ \A i \in 1..b : SubSeq(s, 1, b)[i] = s[i]
  <2>1. Stretch(s, 1, b, S)
    BY PartOf
  <2> QED BY <2>1 DEF Stretch
<1>2. /\ SubSeq(s, 1, a) \in Seq(S) /\ Len(SubSeq(s, 1, a)) = a
      /\ \A i \in 1..a : SubSeq(s, 1, a)[i] = s[i]
  <2>1. Stretch(s, 1, a, S)
    BY PartOf
  <2> QED BY <2>1 DEF Stretch
<1>3. /\ SubSeq(s, a + 1, b) \in Seq(S) /\ Len(SubSeq(s, a + 1, b)) = b - a
      /\ \A i \in 1..(b - a) : SubSeq(s, a + 1, b)[i] = s[a + i]
  <2>1. Stretch(s, a + 1, b, S)
    BY PartOf
  <2>2. (b - (a + 1)) + 1 = b - a /\ (a + 1) - 1 = a
    OBVIOUS
  <2> QED BY <2>1, <2>2 DEF Stretch
<1> DEFINE x == SubSeq(s, 1, b)
           y == SubSeq(s, 1, a)
           z == SubSeq(s, a + 1, b)
<1>4. /\ x \in Seq(S) /\ Len(x) = b /\ \A i \in 1..b : x[i] = s[i]
      /\ y \in Seq(S) /\ Len(y) = a /\ \A i \in 1..a : y[i] = s[i]
      /\ z \in Seq(S) /\ Len(z) = b - a /\ \A i \in 1..(b - a) : z[i] = s[a + i]
  BY <1>1, <1>2, <1>3
<1> HIDE DEF x, y, z
<1>5. /\ y \o z \in Seq(S) /\ Len(y \o z) = Len(y) + Len(z)
      /\ \A i \in 1..Len(y) : (y \o z)[i] = y[i]
      /\ \A i \in 1..Len(z) : (y \o z)[Len(y) + i] = z[i]
  <2>1. y \in Seq(S) /\ z \in Seq(S)
    BY <1>4
  <2> QED BY <2>1, Joined
<1>6. x = y \o z
  <2>1. Len(x) = Len(y \o z)
    BY <1>4, <1>5
  <2>2. \A i \in 1..Len(x) : x[i] = (y \o z)[i]
    <3> SUFFICES ASSUME NEW i \in 1..b PROVE x[i] = (y \o z)[i]
      BY <1>4
    <3>0. i <= a \/ i > a
      OBVIOUS
    <3>1. CASE i <= a
      BY <3>1, <1>4, <1>5
    <3>2. CASE i > a
      <4>1. i - a \in 1..(b - a) /\ a + (i - a) = i
        BY <3>2
      <4>2. (y \o z)[a + (i - a)] = z[i - a]
        BY <4>1, <1>4, <1>5
      <4>3. z[i - a] = s[a + (i - a)]
        BY <4>1, <1>4
      <4> QED BY <4>1, <4>2, <4>3, <1>4
    <3> QED BY <3>0, <3>1, <3>2, Zenon
  <2>3. x \in Seq(S) /\ y \o z \in Seq(S)
    BY <1>4, <1>5
  <2> QED BY <2>1, <2>2, <2>3, SameList
<1> QED BY <1>6 DEF x, y, z

LEMMA PrefixEnds ==
  ASSUME NEW S, NEW s \in Seq(S)
  PROVE  SubSeq(s, 1, 0) = <<>> /\ SubSeq(s, 1, Len(s)) = s
<1>1. Stretch(s, 1, 0, S) /\ Stretch(s, 1, Len(s), S)
  BY PartOf
<1>2. Len(SubSeq(s, 1, 0)) = 0 /\ SubSeq(s, 1, 0) \in Seq(S)
  BY <1>1 DEF Stretch
<1>3. SubSeq(s, 1, Len(s)) \in Seq(S) /\ Len(SubSeq(s, 1, Len(s))) = Len(s)
      /\ \A i \in 1..Len(s) : SubSeq(s, 1, Len(s))[i] = s[i]
  BY <1>1 DEF Stretch
<1>4. SubSeq(s, 1, Len(s)) = s
  BY <1>3, SameList
<1> QED BY <1>2, <1>4

\* However a column is cut into pages and packed, it reads back.
LEMMA ColumnBack ==
  ASSUME NEW c, c.enc \in Encodings, c.width \in 0..WordBits, NEW n \in Nat, n < Word,
         NEW vals, InWidth(vals, n, c.width), NEW m \in Nat, NEW W
  PROVE  decodeColumnRegion(encodeColumn(c, vals, m, W), c.width) = {vals}
<1> DEFINE U == 0..(Word - 1)
<1>1. vals \in Seq(U) /\ Len(vals) = n /\ DOMAIN vals = 1..n
  <2>1. Words(vals, n)
    BY DEF InWidth, Words
  <2> QED BY <2>1, WordsSeq
<1>2. PICK N, e : Cuts(splitColumn(n, m), N, e, n)
  BY CutsTile
<1> DEFINE part == [p \in 1..N |-> SubSeq(vals, e[p - 1] + 1, e[p])]
           pre == [p \in 0..N |-> SubSeq(vals, 1, e[p])]
           pages == encodeColumn(c, vals, m, W)
<1>3. /\ N \in Nat /\ e \in [0..N -> 0..n] /\ e[0] = 0 /\ e[N] = n
      /\ \A p \in 1..N : e[p - 1] <= e[p]
  BY <1>2 DEF Cuts
<1>4. \A p \in 0..N : e[p] \in Nat /\ e[p] <= n
  BY <1>3
<1>5. \A p \in 1..N : p - 1 \in 0..N /\ p \in 0..N
  BY <1>3
<1> HIDE DEF U
<1>6. pages = [p \in 1..N |-> buildColumnPage(c, part[p], e[p - 1], W)]
  <2> DEFINE cuts == splitColumn(Len(vals), m)
  <2>1. DOMAIN cuts = 1..N /\ \A p \in 1..N : cuts[p][1] = e[p - 1] + 1 /\ cuts[p][2] = e[p]
    BY <1>1, <1>2 DEF Cuts
  <2>2. \A p \in 1..N : (e[p - 1] + 1) - 1 = e[p - 1]
    BY <1>4, <1>5
  <2>3. pages = [p \in DOMAIN cuts |->
                   buildColumnPage(c, SubSeq(vals, cuts[p][1], cuts[p][2]), cuts[p][1] - 1, W)]
    BY DEF encodeColumn
  <2> HIDE DEF cuts, pages
  <2> QED BY <2>1, <2>2, <2>3
<1>7. \A p \in 1..N : part[p] \in Seq(U) /\ decodePagePayload(pages[p], c.width) = {part[p]}
  <2> SUFFICES ASSUME NEW p \in 1..N
               PROVE  part[p] \in Seq(U) /\ decodePagePayload(pages[p], c.width) = {part[p]}
    OBVIOUS
  <2>1. PICK a \in Nat, b \in Nat : a = e[p - 1] /\ b = e[p] /\ a <= b /\ b <= n
    BY <1>3, <1>4, <1>5
  <2>2. part[p] = SubSeq(vals, a + 1, b)
    BY <2>1
  <2>3. Stretch(vals, a + 1, b, U)
    <3>1. a + 1 \in Nat /\ 1 <= a + 1 /\ a + 1 <= b + 1 /\ b <= Len(vals)
      BY <1>1, <2>1
    <3> QED BY <1>1, <3>1, PartOf
  <2>4. (b - (a + 1)) + 1 = b - a /\ (a + 1) - 1 = a /\ b - a \in Nat /\ b - a <= n
    BY <2>1
  <2> DEFINE v == SubSeq(vals, a + 1, b)
  <2>5. v \in Seq(U) /\ Len(v) = b - a /\ \A i \in 1..(b - a) : v[i] = vals[a + i]
    BY <2>3, <2>4 DEF Stretch
  <2> HIDE DEF v
  <2>6. InWidth(v, b - a, c.width)
    <3>1. v = [i \in 1..(b - a) |-> v[i]]
      BY <2>5
    <3>2. \A i \in 1..(b - a) : a + i \in 1..n
      BY <2>1
    <3>3. \A i \in 1..n : vals[i] \in 0..(Word - 1) /\ vals[i] < 2^c.width
      BY DEF InWidth
    <3>4. \A i \in 1..(b - a) : v[i] \in 0..(Word - 1) /\ v[i] < 2^c.width
      BY <2>5, <3>2, <3>3
    <3> QED BY <3>1, <3>4 DEF InWidth
  <2>7. b - a < Word
    BY <2>4, WordIs
  <2>8. decodePagePayload(buildColumnPage(c, v, a, W), c.width) = {v}
    BY <2>4, <2>6, <2>7, PageBack
  <2>9. pages[p] = buildColumnPage(c, v, a, W)
    BY <1>6, <2>1, <2>2 DEF v
  <2> QED BY <2>2, <2>5, <2>8, <2>9 DEF v
<1>8. pre \in [0..N -> Seq(U)]
  <2>1. \A p \in 0..N : SubSeq(vals, 1, e[p]) \in Seq(U)
    <3> SUFFICES ASSUME NEW p \in 0..N PROVE SubSeq(vals, 1, e[p]) \in Seq(U)
      OBVIOUS
    <3>1. PICK b \in Nat : b = e[p] /\ b <= Len(vals)
      BY <1>1, <1>4
    <3>2. Stretch(vals, 1, b, U)
      BY <1>1, <3>1, PartOf
    <3> QED BY <3>1, <3>2 DEF Stretch
  <2> QED BY <2>1
<1>9. pre[0] = <<>> /\ pre[N] = vals
  BY <1>1, <1>3, PrefixEnds
<1>10. \A p \in 1..N : pre[p] = pre[p - 1] \o part[p]
  <2> SUFFICES ASSUME NEW p \in 1..N PROVE pre[p] = pre[p - 1] \o part[p]
    OBVIOUS
  <2>1. PICK a \in Nat, b \in Nat : a = e[p - 1] /\ b = e[p] /\ a <= b /\ b <= Len(vals)
    BY <1>1, <1>3, <1>4, <1>5
  <2>2. SubSeq(vals, 1, b) = SubSeq(vals, 1, a) \o SubSeq(vals, a + 1, b)
    BY <1>1, <2>1, PrefixGrows
  <2> QED BY <1>5, <2>1, <2>2
<1>11. Len(pages) = N
  BY <1>3, <1>6
<1> HIDE DEF part, pre, pages
<1>12. decodeColumnRegion(pages, c.width) = {pre[N]}
  <2>1. PagesRead(pages, N, c.width, part, U) /\ PagePrefixes(pre, part, N, U)
    BY <1>7, <1>8, <1>9, <1>10, Zenon DEF PagesRead, PagePrefixes
  <2>2. N \in Nat /\ Len(pages) = N
    BY <1>3, <1>11
  <2>3. PICK w : w = c.width
    OBVIOUS
  <2>4. PagesRead(pages, N, w, part, U)
    BY <2>1, <2>3
  <2>5. decodeColumnRegion(pages, w) = {pre[N]}
    BY <2>1, <2>2, <2>4, GluedTo
  <2> QED BY <2>3, <2>5
<1> QED BY <1>9, <1>12 DEF pages

-----------------------------------------------------------------------------
(* Rows. *)

\* n rows of the columns cols, each value within its column's width.
Tabled(cols, recs, n) ==
  /\ recs = [i \in 1..n |-> recs[i]]
  /\ \A i \in 1..n :
       /\ recs[i] = [c \in DOMAIN cols |-> recs[i][c]]
       /\ \A c \in DOMAIN cols : recs[i][c] \in 0..(Word - 1) /\ recs[i][c] < 2^cols[c].width

Encodable(cols) == \A c \in DOMAIN cols : cols[c].enc \in Encodings /\ cols[c].width \in 0..WordBits

LEMMA RowsBack ==
  ASSUME NEW cols, Encodable(cols),
         NEW n \in Nat, n < Word, NEW recs, Tabled(cols, recs, n), NEW m \in Nat, NEW W
  PROVE  RowsFromColumns(cols, encodeColumnRegion(cols, recs, m, W), n) = {recs}
<1> DEFINE region == encodeColumnRegion(cols, recs, m, W)
           Vals(c) == [i \in 1..n |-> recs[i][c]]
           got == [c \in DOMAIN cols |-> decodeColumnRegion(region[c], cols[c].width)]
<1>1. DOMAIN recs = 1..n
  BY DEF Tabled
<1>2. \A c \in DOMAIN cols : region[c] = encodeColumn(cols[c], Vals(c), m, W)
  BY <1>1 DEF encodeColumnRegion
<1>3. \A c \in DOMAIN cols : got[c] = {Vals(c)}
  <2> SUFFICES ASSUME NEW c \in DOMAIN cols PROVE got[c] = {Vals(c)}
    OBVIOUS
  <2>1. InWidth(Vals(c), n, cols[c].width)
    BY DEF InWidth, Tabled
  <2>2. PICK k : k = cols[c]
    OBVIOUS
  <2>3. k.enc \in Encodings /\ k.width \in 0..WordBits /\ InWidth(Vals(c), n, k.width)
    BY <2>1, <2>2 DEF Encodable
  <2> HIDE DEF Vals
  <2>4. decodeColumnRegion(encodeColumn(k, Vals(c), m, W), k.width) = {Vals(c)}
    BY <2>3, ColumnBack
  <2> QED BY <1>2, <2>2, <2>4
<1> HIDE DEF got, region
<1>4. RowsFromColumns(cols, region, n) =
        IF \E c \in DOMAIN cols : got[c] = {} THEN {}
        ELSE {[i \in 1..n |-> [c \in DOMAIN cols |-> (CHOOSE v \in got[c] : TRUE)[i]]]}
  BY DEF RowsFromColumns, got
<1>5. ~\E c \in DOMAIN cols : got[c] = {}
  BY <1>3
<1>6. \A c \in DOMAIN cols : (CHOOSE v \in got[c] : TRUE) = Vals(c)
  <2> SUFFICES ASSUME NEW c \in DOMAIN cols PROVE (CHOOSE v \in got[c] : TRUE) = Vals(c)
    OBVIOUS
  <2> HIDE DEF Vals
  <2>1. (CHOOSE v \in {Vals(c)} : TRUE) \in {Vals(c)}
    OBVIOUS
  <2> QED BY <1>3, <2>1
<1>7. [i \in 1..n |-> [c \in DOMAIN cols |-> (CHOOSE v \in got[c] : TRUE)[i]]]
       = [i \in 1..n |-> [c \in DOMAIN cols |-> recs[i][c]]]
  <2>1. \A i \in 1..n : \A c \in DOMAIN cols : Vals(c)[i] = recs[i][c]
    OBVIOUS
  <2> HIDE DEF Vals
  <2>2. \A i \in 1..n : \A c \in DOMAIN cols : (CHOOSE v \in got[c] : TRUE)[i] = recs[i][c]
    BY <1>6, <2>1, Zenon
  <2>3. \A i \in 1..n : [c \in DOMAIN cols |-> (CHOOSE v \in got[c] : TRUE)[i]] = [c \in DOMAIN cols |-> recs[i][c]]
    BY <2>2, Zenon
  <2> QED BY <2>3, Zenon
<1>8. [i \in 1..n |-> [c \in DOMAIN cols |-> recs[i][c]]] = recs
  BY DEF Tabled
<1> QED BY <1>4, <1>5, <1>7, <1>8 DEF region

LEMMA ColumnsFit == Encodable(URLColumns) /\ Encodable(HostColumns)
<1>1. 3 \in 0..WordBits /\ WordBits - 1 \in 0..WordBits /\ WordBits \in 0..WordBits
  BY WordAssumption
<1>2. \A c \in DOMAIN URLColumns : URLColumns[c].enc \in Encodings /\ URLColumns[c].width \in {3, WordBits, WordBits - 1}
  BY DEF URLColumns, Encodings
<1>3. \A c \in DOMAIN HostColumns : HostColumns[c].enc \in Encodings /\ HostColumns[c].width = WordBits
  BY DEF HostColumns, Encodings
<1> QED BY <1>1, <1>2, <1>3 DEF Encodable

\* What a partition is after it was written and opened again: the same, but
\* for the wheel, asked for when the file has one, and the page cap.
Reopened(p) ==
  [id |-> p.id, lo |-> p.lo, hi |-> p.hi, urls |-> p.urls, hosts |-> p.hosts, strings |-> p.strings,
   sched |-> (IF p.sched THEN encodeScheduleRegion(p.urls) ELSE {}) # {}, maxRows |-> 0]

\* A partition whose tables fit their columns.
Storable(p) ==
  /\ Len(p.urls) \in Nat /\ Len(p.urls) < Word /\ Tabled(URLColumns, p.urls, Len(p.urls))
  /\ Len(p.hosts) \in Nat /\ Len(p.hosts) < Word /\ Tabled(HostColumns, p.hosts, Len(p.hosts))
  /\ p.maxRows \in Nat

\* A file loses nothing: whatever pages the writer cut and whatever encodings
\* it packed them in, Decode of what Encode wrote for a partition is that
\* partition (src/format/file.go).
THEOREM FileLossless ==
  ASSUME NEW p, Storable(p), NEW W, NEW f \in Encode(p, W)
  PROVE  Decode(f) = {Reopened(p)}
<1>1. sortedURLs(p.urls) /\ sortedHosts(p.hosts)
  BY DEF Encode
<1>2. /\ f.id = p.id /\ f.lo = p.lo /\ f.hi = p.hi /\ f.nURL = Len(p.urls) /\ f.nHost = Len(p.hosts)
      /\ f.urlDir = encodeColumnRegion(URLColumns, p.urls, p.maxRows, W)
      /\ f.hostDir = encodeColumnRegion(HostColumns, p.hosts, p.maxRows, W)
      /\ f.sched = (IF p.sched THEN encodeScheduleRegion(p.urls) ELSE {}) /\ f.blob = p.strings
  BY <1>1 DEF Encode
<1>3. RowsFromColumns(URLColumns, f.urlDir, f.nURL) = {p.urls}
  <2>1. PICK n \in Nat : n = Len(p.urls) /\ n < Word /\ Tabled(URLColumns, p.urls, n)
    BY DEF Storable
  <2>2. PICK m \in Nat : m = p.maxRows
    BY DEF Storable
  <2>3. PICK recs : recs = p.urls
    OBVIOUS
  <2>4. Tabled(URLColumns, recs, n)
    BY <2>1, <2>3
  <2>5. RowsFromColumns(URLColumns, encodeColumnRegion(URLColumns, recs, m, W), n) = {recs}
    BY <2>1, <2>4, ColumnsFit, RowsBack
  <2> QED BY <1>2, <2>1, <2>2, <2>3, <2>5
<1>4. RowsFromColumns(HostColumns, f.hostDir, f.nHost) = {p.hosts}
  <2>1. PICK n \in Nat : n = Len(p.hosts) /\ n < Word /\ Tabled(HostColumns, p.hosts, n)
    BY DEF Storable
  <2>2. PICK m \in Nat : m = p.maxRows
    BY DEF Storable
  <2>3. PICK recs : recs = p.hosts
    OBVIOUS
  <2>4. Tabled(HostColumns, recs, n)
    BY <2>1, <2>3
  <2>5. RowsFromColumns(HostColumns, encodeColumnRegion(HostColumns, recs, m, W), n) = {recs}
    BY <2>1, <2>4, ColumnsFit, RowsBack
  <2> QED BY <1>2, <2>1, <2>2, <2>3, <2>5
<1> DEFINE Filed(us, hs) ==
             [id |-> f.id, lo |-> f.lo, hi |-> f.hi, urls |-> us, hosts |-> hs,
              strings |-> f.blob, sched |-> f.sched # {}, maxRows |-> 0]
<1>5. Decode(f) = {q \in {Filed(us, hs) : us \in {p.urls}, hs \in {p.hosts}} : sortedURLs(q.urls)}
  BY <1>3, <1>4 DEF Decode
<1>6. {Filed(us, hs) : us \in {p.urls}, hs \in {p.hosts}} = {Filed(p.urls, p.hosts)}
  <2> HIDE DEF Filed
  <2> QED OBVIOUS
<1>7. Filed(p.urls, p.hosts) = Reopened(p)
  BY <1>2 DEF Reopened
<1>8. sortedURLs(Reopened(p).urls)
  BY <1>1 DEF Reopened
<1> HIDE DEF Filed
<1>9. Decode(f) = {q \in {Reopened(p)} : sortedURLs(q.urls)}
  BY <1>5, <1>6, <1>7
<1> QED BY <1>8, <1>9

-----------------------------------------------------------------------------
(* Selections and rearrangements of a list. *)

\* t is the elements of s[1..n] that are in T, each once, at the places e.
Embeds(t, s, n, T, e) ==
  /\ Len(t) \in Nat /\ t = [j \in 1..Len(t) |-> t[j]]
  /\ e \in [1..Len(t) -> 1..n] /\ \A j, k \in 1..Len(t) : j # k => e[j] # e[k]
  /\ \A j \in 1..Len(t) : t[j] = s[e[j]] /\ t[j] \in T
  /\ \A i \in 1..n : s[i] \in T => \E j \in 1..Len(t) : e[j] = i

LEMMA EmbedsNone ==
  ASSUME NEW s, NEW T
  PROVE  \E e : Embeds(<<>>, s, 0, T, e)
<1>1. Len(<<>>) = 0 /\ <<>> = [j \in 1..0 |-> <<>>[j]] /\ 1..0 = {}
  OBVIOUS
<1>2. Embeds(<<>>, s, 0, T, [j \in 1..0 |-> 0])
  BY <1>1 DEF Embeds
<1> QED BY <1>2

LEMMA EmbedsSkips ==
  ASSUME NEW t, NEW s, NEW n \in Nat, NEW T, NEW e, Embeds(t, s, n, T, e), s[n + 1] \notin T
  PROVE  Embeds(t, s, n + 1, T, e)
<1>1. \A i \in 1..n : i \in 1..(n + 1)
  OBVIOUS
<1>2. e \in [1..Len(t) -> 1..(n + 1)]
  BY <1>1 DEF Embeds
<1>3. \A i \in 1..(n + 1) : i \in 1..n \/ i = n + 1
  OBVIOUS
<1> QED BY <1>2, <1>3 DEF Embeds

\* u is t with s[n + 1] put in at place k.
LEMMA EmbedsOne ==
  ASSUME NEW t, NEW s, NEW n \in Nat, NEW T, NEW e, Embeds(t, s, n, T, e), s[n + 1] \in T,
         NEW k \in 1..(Len(t) + 1), NEW u, Len(u) = Len(t) + 1, u = [j \in 1..(Len(t) + 1) |-> u[j]],
         \A j \in 1..(Len(t) + 1) : j < k => u[j] = t[j],
         u[k] = s[n + 1],
         \A j \in 1..(Len(t) + 1) : j > k => u[j] = t[j - 1]
  PROVE  \E d : Embeds(u, s, n + 1, T, d)
<1>1. PICK L \in Nat : L = Len(t)
  BY DEF Embeds
<1>2. /\ e \in [1..L -> 1..n] /\ \A j, i \in 1..L : j # i => e[j] # e[i]
      /\ \A j \in 1..L : t[j] = s[e[j]] /\ t[j] \in T
      /\ \A i \in 1..n : s[i] \in T => \E j \in 1..L : e[j] = i
  BY <1>1, Zenon DEF Embeds
<1> DEFINE d == [j \in 1..(L + 1) |-> IF j < k THEN e[j] ELSE IF j = k THEN n + 1 ELSE e[j - 1]]
<1>3. k \in 1..(L + 1)
  BY <1>1
<1>4. \A j \in 1..(L + 1) : /\ j < k => j \in 1..L /\ d[j] = e[j]
                            /\ j = k => d[j] = n + 1
                            /\ j > k => j - 1 \in 1..L /\ d[j] = e[j - 1]
  BY <1>1, <1>3
<1>5. \A j \in 1..L : e[j] \in 1..(n + 1) /\ e[j] # n + 1
  BY <1>2
<1>6. \A j \in 1..(L + 1) : j < k \/ j = k \/ j > k
  BY <1>1, <1>3
<1>7. d \in [1..(L + 1) -> 1..(n + 1)]
  <2>1. \A j \in 1..(L + 1) : d[j] \in 1..(n + 1)
    BY <1>4, <1>5, <1>6
  <2> QED BY <2>1
<1> HIDE DEF d
<1>8. \A j, i \in 1..(L + 1) : j # i => d[j] # d[i]
  <2> SUFFICES ASSUME NEW j \in 1..(L + 1), NEW i \in 1..(L + 1), j < i PROVE d[j] # d[i]
    BY <1>1
  <2>1. CASE i < k
    <3>1. j < k
      BY <2>1, <1>1, <1>3
    <3> QED BY <2>1, <3>1, <1>2, <1>4
  <2>2. CASE i = k
    BY <2>2, <1>4, <1>5
  <2>3. CASE i > k
    <3>1. CASE j < k
      <4>1. j # i - 1
        BY <3>1, <2>3, <1>1, <1>3
      <4> QED BY <2>3, <3>1, <4>1, <1>2, <1>4
    <3>2. CASE j = k
      BY <2>3, <3>2, <1>4, <1>5
    <3>3. CASE j > k
      <4>1. j - 1 # i - 1
        BY <1>1
      <4> QED BY <2>3, <3>3, <4>1, <1>2, <1>4
    <3> QED BY <3>1, <3>2, <3>3, <1>6
  <2> QED BY <2>1, <2>2, <2>3, <1>6
<1>9. \A j \in 1..(L + 1) : u[j] = s[d[j]] /\ u[j] \in T
  <2> SUFFICES ASSUME NEW j \in 1..(L + 1) PROVE u[j] = s[d[j]] /\ u[j] \in T
    OBVIOUS
  <2>1. CASE j < k
    BY <2>1, <1>1, <1>2, <1>4
  <2>2. CASE j = k
    BY <2>2, <1>4
  <2>3. CASE j > k
    BY <2>3, <1>1, <1>2, <1>4
  <2> QED BY <2>1, <2>2, <2>3, <1>6
<1>10. \A i \in 1..(n + 1) : s[i] \in T => \E j \in 1..(L + 1) : d[j] = i
  <2> SUFFICES ASSUME NEW i \in 1..(n + 1), s[i] \in T PROVE \E j \in 1..(L + 1) : d[j] = i
    OBVIOUS
  <2>1. CASE i = n + 1
    BY <2>1, <1>3, <1>4
  <2>2. CASE i # n + 1
    <3>1. i \in 1..n
      BY <2>2
    <3>2. PICK j \in 1..L : e[j] = i
      BY <3>1, <1>2
    <3>3. j \in 1..(L + 1) /\ j + 1 \in 1..(L + 1) /\ (j + 1) - 1 = j
      BY <1>1
    <3>4. CASE j < k
      BY <3>2, <3>3, <3>4, <1>4
    <3>5. CASE ~(j < k)
      <4>1. j + 1 > k
        BY <3>5, <1>1, <1>3
      <4>2. d[j + 1] = e[(j + 1) - 1]
        BY <3>3, <4>1, <1>4
      <4>3. d[j + 1] = i
        BY <3>2, <3>3, <4>2
      <4> QED BY <3>3, <4>3
    <3> QED BY <3>4, <3>5
  <2> QED BY <2>1, <2>2
<1>11. Len(u) = L + 1 /\ L + 1 \in Nat /\ u = [j \in 1..(L + 1) |-> u[j]]
  BY <1>1
<1>12. Embeds(u, s, n + 1, T, d)
  BY <1>7, <1>8, <1>9, <1>10, <1>11 DEF Embeds
<1> QED BY <1>12

\* What an embedding is worth.
Selects(t, s, T) == \E e : Embeds(t, s, Len(s), T, e)

LEMMA PickSelects ==
  ASSUME NEW X, NEW s \in Seq(X), NEW T
  PROVE  Pick(s, T) \in Seq(X) /\ Selects(Pick(s, T), s, T)
<1>a. Len(s) \in Nat /\ \A k \in 1..Len(s) : s[k] \in X
  OBVIOUS
<1> DEFINE L == Len(s)
           first == <<>>
           Rec(f) == f = [k \in 0..L |-> IF k = 0 THEN first ELSE IF s[k] \in T THEN Append(f[k - 1], s[k]) ELSE f[k - 1]]
           step == [k \in 1..L |-> [x \in Seq(X) |-> IF s[k] \in T THEN Append(x, s[k]) ELSE x]]
<1>0. L \in Nat
  BY <1>a
<1>1. first \in Seq(X)
  OBVIOUS
<1>2. Steps(step, L, Seq(X))
  <2>1. \A k \in 1..L : \A x \in Seq(X) : (IF s[k] \in T THEN Append(x, s[k]) ELSE x) \in Seq(X)
    <3>1. \A k \in 1..L : s[k] \in X
      BY <1>a
    <3>2. \A x \in Seq(X) : \A v \in X : Append(x, v) \in Seq(X)
      OBVIOUS
    <3> HIDE DEF L
    <3> QED BY <3>1, <3>2
  <2> HIDE DEF L
  <2> QED BY <2>1 DEF Steps
<1>3. PICK c : Course(c, L, Seq(X), first, step)
  <2> HIDE DEF L, first, step
  <2> QED BY <1>0, <1>1, <1>2, Recursion
<1>4. Rec(c)
  <2> HIDE DEF first, L
  <2>1. c \in [0..L -> Seq(X)] /\ c[0] = first /\ \A i \in 1..L : c[i] = step[i][c[i - 1]]
    BY <1>3 DEF Course
  <2>2. \A i \in 1..L : i - 1 \in 0..L /\ c[i - 1] \in Seq(X)
    BY <1>0, <2>1
  <2>3. \A k \in 1..L : c[k] = IF s[k] \in T THEN Append(c[k - 1], s[k]) ELSE c[k - 1]
    BY <2>1, <2>2
  <2>4. \A k \in 0..L : k # 0 => k \in 1..L
    BY <1>0
  <2> HIDE DEF step
  <2>5. c = [k \in 0..L |-> c[k]]
    BY <2>1
  <2>6. \A k \in 0..L : c[k] = IF k = 0 THEN first ELSE IF s[k] \in T THEN Append(c[k - 1], s[k]) ELSE c[k - 1]
    BY <2>1, <2>3, <2>4
  <2> QED BY <2>5, <2>6
<1> DEFINE f == CHOOSE f : Rec(f)
<1>5. Rec(f)
  <2> HIDE DEF Rec
  <2> QED BY <1>4
<1>6. Pick(s, T) = f[L]
  BY DEF Pick, L
<1> HIDE DEF f, first, L
<1>7. /\ f = [k \in 0..L |-> f[k]] /\ f[0] = first
      /\ \A k \in 1..L : f[k] = IF s[k] \in T THEN Append(f[k - 1], s[k]) ELSE f[k - 1]
  <2>1. 0 \in 0..L /\ \A k \in 1..L : k \in 0..L /\ k # 0
    BY <1>0
  <2>2. \A k \in 0..L : f[k] = IF k = 0 THEN first ELSE IF s[k] \in T THEN Append(f[k - 1], s[k]) ELSE f[k - 1]
    BY <1>5
  <2>3. DOMAIN f = 0..L
    BY <1>5
  <2>4. f = [k \in 0..L |-> f[k]]
    BY <1>5, <2>3
  <2> QED BY <2>1, <2>2, <2>4
<1>8. Course(f, L, Seq(X), first, step)
  <2>1. \A i \in 1..L : f[i - 1] \in Seq(X) => f[i] = step[i][f[i - 1]]
    BY <1>7
  <2> HIDE DEF step
  <2> QED BY <1>0, <1>1, <1>2, <1>7, <2>1, CourseFits
<1>9. \A k \in 0..L : f[k] \in Seq(X)
  BY <1>8 DEF Course
<1> DEFINE G == {k \in Nat : k \in 0..L => \E e : Embeds(f[k], s, k, T, e)}
<1>11. 0 \in G
  <2>1. f[0] = <<>>
    BY <1>7 DEF first
  <2>2. \E e : Embeds(f[0], s, 0, T, e)
    BY <2>1, EmbedsNone
  <2> QED BY <2>2
<1>12. \A k \in 0..L : k \in G /\ k < L => k + 1 \in G
  <2> SUFFICES ASSUME NEW k \in 0..L, k \in G, k < L PROVE k + 1 \in G
    OBVIOUS
  <2>1. k + 1 \in 1..L /\ (k + 1) - 1 = k /\ k \in 0..L /\ k + 1 \in Nat /\ k \in Nat
    BY <1>0
  <2>2. PICK e : Embeds(f[k], s, k, T, e)
    BY <2>1
  <2>3. f[k + 1] = IF s[k + 1] \in T THEN Append(f[k], s[k + 1]) ELSE f[k]
    <3>1. f[k + 1] = IF s[k + 1] \in T THEN Append(f[(k + 1) - 1], s[k + 1]) ELSE f[(k + 1) - 1]
      BY <2>1, <1>7
    <3> QED BY <2>1, <3>1
  <2>4. CASE s[k + 1] \notin T
    <3>1. Embeds(f[k], s, k + 1, T, e)
      BY <2>1, <2>2, <2>4, EmbedsSkips
    <3>2. f[k + 1] = f[k]
      BY <2>3, <2>4
    <3>3. \E d : Embeds(f[k + 1], s, k + 1, T, d)
      BY <3>1, <3>2
    <3> QED BY <2>1, <3>3
  <2>5. CASE s[k + 1] \in T
    <3>1. PICK t : t = f[k] /\ t \in Seq(X)
      BY <2>1, <1>9
    <3>2. PICK v : v = s[k + 1] /\ v \in X
      BY <2>1, <1>a DEF L
    <3> DEFINE u == Append(t, v)
    <3>3. /\ u \in Seq(X) /\ Len(u) = Len(t) + 1
          /\ \A i \in 1..Len(t) : u[i] = t[i]
          /\ u[Len(t) + 1] = v
      BY <3>1, <3>2, AppendIs
    <3> HIDE DEF u
    <3>4. PICK m \in Nat : m = Len(t)
      BY <3>1
    <3>5. m + 1 \in 1..(m + 1) /\ \A j \in 1..(m + 1) : ~(j > m + 1) /\ (j < m + 1 => j \in 1..m)
      OBVIOUS
    <3>6. u = [j \in 1..(m + 1) |-> u[j]]
      BY <3>3, <3>4
    <3>7. \E d : Embeds(u, s, k + 1, T, d)
      <4>1. /\ Embeds(t, s, k, T, e) /\ s[k + 1] \in T /\ Len(t) + 1 \in 1..(Len(t) + 1)
            /\ Len(u) = Len(t) + 1 /\ u = [j \in 1..(Len(t) + 1) |-> u[j]]
            /\ \A j \in 1..(Len(t) + 1) : j < Len(t) + 1 => u[j] = t[j]
            /\ u[Len(t) + 1] = s[k + 1]
            /\ \A j \in 1..(Len(t) + 1) : j > Len(t) + 1 => u[j] = t[j - 1]
        BY <2>2, <2>5, <3>1, <3>2, <3>3, <3>4, <3>5, <3>6
      <4> QED BY <2>1, <4>1, EmbedsOne
    <3>8. f[k + 1] = u
      BY <2>3, <2>5, <3>1, <3>2 DEF u
    <3> QED BY <2>1, <3>7, <3>8
  <2> QED BY <2>4, <2>5
<1>13. \E e : Embeds(f[L], s, L, T, e)
  <2>1. L \in G
    <3> HIDE DEF G
    <3>1. \A k \in 0..L : k \in G
      BY <1>0, <1>11, <1>12, Climb
    <3> QED BY <1>0, <3>1
  <2> QED BY <2>1, <1>0
<1>14. f[L] \in Seq(X)
  BY <1>0, <1>9
<1> QED BY <1>6, <1>13, <1>14 DEF Selects, L

-----------------------------------------------------------------------------
(* sort.Slice. *)

HasPut(u, s, k, x, X) ==
  /\ u \in Seq(X) /\ Len(u) = Len(s) + 1
  /\ \A j \in 1..(Len(s) + 1) : j < k => u[j] = s[j]
  /\ u[k] = x
  /\ \A j \in 1..(Len(s) + 1) : j > k => u[j] = s[j - 1]

LEMMA InsertIs ==
  ASSUME NEW X, NEW s \in Seq(X), NEW x \in X, NEW k \in 1..(Len(s) + 1), NEW u, u = InsertAt(s, k, x)
  PROVE  HasPut(u, s, k, x, X)
<1>1. PICK L \in Nat : L = Len(s)
  OBVIOUS
<1>2. k \in Nat /\ 1 <= k /\ k <= L + 1 /\ k - 1 \in Nat
  BY <1>1
<1> DEFINE a == SubSeq(s, 1, k - 1)
           b == <<x>>
           c == SubSeq(s, k, L)
           d == a \o b
<1>3. /\ a \in Seq(X) /\ Len(a) = k - 1 /\ \A j \in 1..(k - 1) : a[j] = s[j]
  <2>1. Stretch(s, 1, k - 1, X)
    BY <1>1, <1>2, PartOf
  <2>2. ((k - 1) - 1) + 1 = k - 1
    BY <1>2
  <2> QED BY <1>2, <2>1, <2>2 DEF Stretch
<1>4. /\ c \in Seq(X) /\ Len(c) = (L - k) + 1 /\ \A j \in 1..((L - k) + 1) : c[j] = s[(k - 1) + j]
  <2>1. Stretch(s, k, L, X)
    BY <1>1, <1>2, PartOf
  <2> QED BY <2>1 DEF Stretch
<1>5. b \in Seq(X) /\ Len(b) = 1 /\ b[1] = x
  OBVIOUS
<1>6. u = d \o c
  BY <1>1 DEF InsertAt
<1> HIDE DEF a, b, c
<1>7. d \in Seq(X) /\ Len(d) = k /\ (\A j \in 1..(k - 1) : d[j] = a[j]) /\ d[k] = x
  <2>1. /\ d \in Seq(X) /\ Len(d) = Len(a) + Len(b)
        /\ \A i \in 1..Len(a) : d[i] = a[i]
        /\ \A i \in 1..Len(b) : d[Len(a) + i] = b[i]
    <3>1. a \in Seq(X) /\ b \in Seq(X)
      BY <1>3, <1>5
    <3> QED BY <3>1, Joined
  <2> HIDE DEF d
  <2>2. (k - 1) + 1 = k /\ 1 \in 1..1
    BY <1>2
  <2>3. d[(k - 1) + 1] = b[1]
    BY <1>3, <1>5, <2>1, <2>2
  <2> QED BY <1>3, <1>5, <2>1, <2>2, <2>3
<1> HIDE DEF d
<1>8. /\ u \in Seq(X) /\ Len(u) = Len(d) + Len(c)
      /\ \A i \in 1..Len(d) : u[i] = d[i]
      /\ \A i \in 1..Len(c) : u[Len(d) + i] = c[i]
  <2>1. d \in Seq(X) /\ c \in Seq(X)
    BY <1>4, <1>7
  <2>2. /\ d \o c \in Seq(X) /\ Len(d \o c) = Len(d) + Len(c)
        /\ \A i \in 1..Len(d) : (d \o c)[i] = d[i]
        /\ \A i \in 1..Len(c) : (d \o c)[Len(d) + i] = c[i]
    BY <2>1, Joined
  <2> QED BY <1>6, <2>2
<1>9. Len(u) = L + 1
  BY <1>2, <1>4, <1>7, <1>8
<1>10. u[k] = x
  BY <1>2, <1>7, <1>8
<1>11. \A j \in 1..(L + 1) : j < k => u[j] = s[j]
  BY <1>2, <1>3, <1>7, <1>8
<1>12. \A j \in 1..(L + 1) : j > k => u[j] = s[j - 1]
  <2> SUFFICES ASSUME NEW j \in 1..(L + 1), j > k PROVE u[j] = s[j - 1]
    OBVIOUS
  <2>1. j - k \in 1..((L - k) + 1) /\ k + (j - k) = j /\ (k - 1) + (j - k) = j - 1
    BY <1>2
  <2>2. u[k + (j - k)] = c[j - k]
    BY <2>1, <1>4, <1>7, <1>8
  <2>3. c[j - k] = s[(k - 1) + (j - k)]
    BY <2>1, <1>4
  <2> QED BY <2>1, <2>2, <2>3
<1> QED BY <1>1, <1>8, <1>9, <1>10, <1>11, <1>12 DEF HasPut

\* Lists of the first n of s in some order.
Placed(t, s, n, X) == t \in Seq(X) /\ \E e : Embeds(t, s, n, X, e)

\* Whatever a sort that inserts makes of s arranges it.
LEMMA InsertArranges ==
  ASSUME NEW X, NEW s \in Seq(X), NEW n \in 0..(Len(s) - 1), NEW S, \A t \in S : Placed(t, s, n, X),
         NEW u \in Inserted(S, s[n + 1])
  PROVE  Placed(u, s, n + 1, X)
<1>1. n \in Nat /\ n + 1 \in 1..Len(s) /\ s[n + 1] \in X
  OBVIOUS
<1>2. PICK v : v = s[n + 1] /\ v \in X
  BY <1>1
<1>3. PICK t \in S : u \in {InsertAt(t, k, v) : k \in 1..(Len(t) + 1)}
  BY <1>2 DEF Inserted
<1>4. PICK k \in 1..(Len(t) + 1) : u = InsertAt(t, k, v)
  BY <1>3
<1>5. t \in Seq(X) /\ \E e : Embeds(t, s, n, X, e)
  BY DEF Placed
<1>6. PICK e : Embeds(t, s, n, X, e)
  BY <1>5
<1>7. /\ u \in Seq(X) /\ Len(u) = Len(t) + 1
      /\ \A j \in 1..(Len(t) + 1) : j < k => u[j] = t[j]
      /\ u[k] = v
      /\ \A j \in 1..(Len(t) + 1) : j > k => u[j] = t[j - 1]
  <2>1. t \in Seq(X) /\ v \in X /\ u = InsertAt(t, k, v)
    BY <1>2, <1>4, <1>5
  <2>2. HasPut(u, t, k, v, X)
    BY <2>1, InsertIs
  <2> QED BY <2>2 DEF HasPut
<1>8. u = [j \in 1..(Len(t) + 1) |-> u[j]]
  BY <1>7
<1>9. u[k] = s[n + 1] /\ s[n + 1] \in X
  BY <1>2, <1>7
<1>10. \E d : Embeds(u, s, n + 1, X, d)
  BY <1>1, <1>6, <1>7, <1>8, <1>9, EmbedsOne
<1> QED BY <1>7, <1>10 DEF Placed

LEMMA SortURLs ==
  ASSUME NEW X, NEW s \in Seq(X), NEW u \in SliceSort(s, sortedURLs)
  PROVE  Placed(u, s, Len(s), X)
<1>a. Len(s) \in Nat /\ \A k \in 1..Len(s) : s[k] \in X
  OBVIOUS
<1> DEFINE Q == SUBSET Seq(X)
           HeldBy(t) == sortedURLs(t)
           Put(y, i) == {t \in Inserted(y, s[i]) : HeldBy(t)}
<1>b. {<<>>} \in Q /\ \A k \in 1..Len(s) : \A y \in Q : Put(y, k) \in Q
  <2> SUFFICES ASSUME NEW k \in 1..Len(s), NEW y \in Q PROVE Put(y, k) \in Q
    OBVIOUS
  <2> HIDE DEF HeldBy
  <2>1. \A t \in Inserted(y, s[k]) : t \in Seq(X)
    <3> SUFFICES ASSUME NEW t \in Inserted(y, s[k]) PROVE t \in Seq(X)
      OBVIOUS
    <3>1. PICK v : v = s[k] /\ v \in X
      BY <1>a
    <3>2. PICK r \in y : t \in {InsertAt(r, j, v) : j \in 1..(Len(r) + 1)}
      BY <3>1 DEF Inserted
    <3>3. PICK j \in 1..(Len(r) + 1) : t = InsertAt(r, j, v)
      BY <3>2
    <3>4. r \in Seq(X)
      OBVIOUS
    <3>5. HasPut(t, r, j, v, X)
      BY <3>1, <3>3, <3>4, InsertIs
    <3> QED BY <3>5 DEF HasPut
  <2> QED BY <2>1
<1> HIDE DEF Q, Put
<1> DEFINE L == Len(s)
           first == {<<>>}
           Rec(f) == f = [k \in 0..L |-> IF k = 0 THEN first ELSE Put(f[k - 1], k)]
           step == [k \in 1..L |-> [x \in Q |-> Put(x, k)]]
<1>0. L \in Nat
  BY <1>a
<1>1. first \in Q
  BY <1>b
<1>2. Steps(step, L, Q)
  <2>1. \A k \in 1..L : \A x \in Q : (Put(x, k)) \in Q
    BY <1>b
  <2> HIDE DEF L
  <2> QED BY <2>1 DEF Steps
<1>3. PICK c : Course(c, L, Q, first, step)
  <2> HIDE DEF L, first, step
  <2> QED BY <1>0, <1>1, <1>2, Recursion
<1>4. Rec(c)
  <2> HIDE DEF first, L
  <2>1. c \in [0..L -> Q] /\ c[0] = first /\ \A i \in 1..L : c[i] = step[i][c[i - 1]]
    BY <1>3 DEF Course
  <2>2. \A i \in 1..L : i - 1 \in 0..L /\ c[i - 1] \in Q
    BY <1>0, <2>1
  <2>3. \A k \in 1..L : c[k] = Put(c[k - 1], k)
    BY <2>1, <2>2
  <2>4. \A k \in 0..L : k # 0 => k \in 1..L
    BY <1>0
  <2> HIDE DEF step
  <2>5. c = [k \in 0..L |-> c[k]]
    BY <2>1
  <2>6. \A k \in 0..L : c[k] = IF k = 0 THEN first ELSE Put(c[k - 1], k)
    BY <2>1, <2>3, <2>4
  <2> QED BY <2>5, <2>6
<1> DEFINE f == CHOOSE f : Rec(f)
<1>5. Rec(f)
  <2> HIDE DEF Rec
  <2> QED BY <1>4
<1>6. SliceSort(s, sortedURLs) = f[L]
  BY DEF SliceSort, L, first, Put, HeldBy
<1> HIDE DEF f, first, L
<1>7. /\ f = [k \in 0..L |-> f[k]] /\ f[0] = first
      /\ \A k \in 1..L : f[k] = Put(f[k - 1], k)
  <2>1. 0 \in 0..L /\ \A k \in 1..L : k \in 0..L /\ k # 0
    BY <1>0
  <2>2. \A k \in 0..L : f[k] = IF k = 0 THEN first ELSE Put(f[k - 1], k)
    BY <1>5
  <2>3. DOMAIN f = 0..L
    BY <1>5
  <2>4. f = [k \in 0..L |-> f[k]]
    BY <1>5, <2>3
  <2> QED BY <2>1, <2>2, <2>4
<1>8. Course(f, L, Q, first, step)
  <2>1. \A i \in 1..L : f[i - 1] \in Q => f[i] = step[i][f[i - 1]]
    BY <1>7
  <2> HIDE DEF step
  <2> QED BY <1>0, <1>1, <1>2, <1>7, <2>1, CourseFits
<1>9. \A k \in 0..L : f[k] \in Q
  BY <1>8 DEF Course
<1> DEFINE G == {k \in Nat : k \in 0..L => \A t \in f[k] : Placed(t, s, k, X)}
<1>11. 0 \in G
  <2>1. f[0] = {<<>>}
    BY <1>7 DEF first
  <2>2. Placed(<<>>, s, 0, X)
    BY EmbedsNone DEF Placed
  <2> QED BY <2>1, <2>2
<1>12. \A k \in 0..L : k \in G /\ k < L => k + 1 \in G
  <2> SUFFICES ASSUME NEW k \in 0..L, k \in G, k < L PROVE k + 1 \in G
    OBVIOUS
  <2>1. k + 1 \in 1..L /\ (k + 1) - 1 = k /\ k \in 0..L /\ k + 1 \in Nat /\ k \in Nat
    BY <1>0
  <2>2. \A t \in f[k] : Placed(t, s, k, X)
    BY <2>1
  <2>3. f[k + 1] = Put(f[k], k + 1)
    <3>1. f[k + 1] = Put(f[(k + 1) - 1], k + 1)
      BY <2>1, <1>7
    <3> QED BY <2>1, <3>1
  <2>4. \A t \in f[k + 1] : t \in Inserted(f[k], s[k + 1])
    BY <2>3 DEF Put
  <2>5. k \in 0..(Len(s) - 1)
    BY <1>a DEF L
  <2>6. PICK S : S = f[k]
    OBVIOUS
  <2>7. \A t \in S : Placed(t, s, k, X)
    BY <2>2, <2>6
  <2>8. ASSUME NEW t \in f[k + 1] PROVE Placed(t, s, k + 1, X)
    <3>1. t \in Inserted(S, s[k + 1])
      BY <2>4, <2>6
    <3> QED BY <2>5, <2>7, <3>1, InsertArranges
  <2> QED BY <2>1, <2>8
<1>13. \A t \in f[L] : Placed(t, s, L, X)
  <2>1. L \in G
    <3> HIDE DEF G
    <3>1. \A k \in 0..L : k \in G
      BY <1>0, <1>11, <1>12, Climb
    <3> QED BY <1>0, <3>1
  <2> QED BY <2>1, <1>0
<1> QED BY <1>6, <1>13 DEF L

LEMMA SortHosts ==
  ASSUME NEW X, NEW s \in Seq(X), NEW u \in SliceSort(s, sortedHosts)
  PROVE  Placed(u, s, Len(s), X)
<1>a. Len(s) \in Nat /\ \A k \in 1..Len(s) : s[k] \in X
  OBVIOUS
<1> DEFINE Q == SUBSET Seq(X)
           HeldBy(t) == sortedHosts(t)
           Put(y, i) == {t \in Inserted(y, s[i]) : HeldBy(t)}
<1>b. {<<>>} \in Q /\ \A k \in 1..Len(s) : \A y \in Q : Put(y, k) \in Q
  <2> SUFFICES ASSUME NEW k \in 1..Len(s), NEW y \in Q PROVE Put(y, k) \in Q
    OBVIOUS
  <2> HIDE DEF HeldBy
  <2>1. \A t \in Inserted(y, s[k]) : t \in Seq(X)
    <3> SUFFICES ASSUME NEW t \in Inserted(y, s[k]) PROVE t \in Seq(X)
      OBVIOUS
    <3>1. PICK v : v = s[k] /\ v \in X
      BY <1>a
    <3>2. PICK r \in y : t \in {InsertAt(r, j, v) : j \in 1..(Len(r) + 1)}
      BY <3>1 DEF Inserted
    <3>3. PICK j \in 1..(Len(r) + 1) : t = InsertAt(r, j, v)
      BY <3>2
    <3>4. r \in Seq(X)
      OBVIOUS
    <3>5. HasPut(t, r, j, v, X)
      BY <3>1, <3>3, <3>4, InsertIs
    <3> QED BY <3>5 DEF HasPut
  <2> QED BY <2>1
<1> HIDE DEF Q, Put
<1> DEFINE L == Len(s)
           first == {<<>>}
           Rec(f) == f = [k \in 0..L |-> IF k = 0 THEN first ELSE Put(f[k - 1], k)]
           step == [k \in 1..L |-> [x \in Q |-> Put(x, k)]]
<1>0. L \in Nat
  BY <1>a
<1>1. first \in Q
  BY <1>b
<1>2. Steps(step, L, Q)
  <2>1. \A k \in 1..L : \A x \in Q : (Put(x, k)) \in Q
    BY <1>b
  <2> HIDE DEF L
  <2> QED BY <2>1 DEF Steps
<1>3. PICK c : Course(c, L, Q, first, step)
  <2> HIDE DEF L, first, step
  <2> QED BY <1>0, <1>1, <1>2, Recursion
<1>4. Rec(c)
  <2> HIDE DEF first, L
  <2>1. c \in [0..L -> Q] /\ c[0] = first /\ \A i \in 1..L : c[i] = step[i][c[i - 1]]
    BY <1>3 DEF Course
  <2>2. \A i \in 1..L : i - 1 \in 0..L /\ c[i - 1] \in Q
    BY <1>0, <2>1
  <2>3. \A k \in 1..L : c[k] = Put(c[k - 1], k)
    BY <2>1, <2>2
  <2>4. \A k \in 0..L : k # 0 => k \in 1..L
    BY <1>0
  <2> HIDE DEF step
  <2>5. c = [k \in 0..L |-> c[k]]
    BY <2>1
  <2>6. \A k \in 0..L : c[k] = IF k = 0 THEN first ELSE Put(c[k - 1], k)
    BY <2>1, <2>3, <2>4
  <2> QED BY <2>5, <2>6
<1> DEFINE f == CHOOSE f : Rec(f)
<1>5. Rec(f)
  <2> HIDE DEF Rec
  <2> QED BY <1>4
<1>6. SliceSort(s, sortedHosts) = f[L]
  BY DEF SliceSort, L, first, Put, HeldBy
<1> HIDE DEF f, first, L
<1>7. /\ f = [k \in 0..L |-> f[k]] /\ f[0] = first
      /\ \A k \in 1..L : f[k] = Put(f[k - 1], k)
  <2>1. 0 \in 0..L /\ \A k \in 1..L : k \in 0..L /\ k # 0
    BY <1>0
  <2>2. \A k \in 0..L : f[k] = IF k = 0 THEN first ELSE Put(f[k - 1], k)
    BY <1>5
  <2>3. DOMAIN f = 0..L
    BY <1>5
  <2>4. f = [k \in 0..L |-> f[k]]
    BY <1>5, <2>3
  <2> QED BY <2>1, <2>2, <2>4
<1>8. Course(f, L, Q, first, step)
  <2>1. \A i \in 1..L : f[i - 1] \in Q => f[i] = step[i][f[i - 1]]
    BY <1>7
  <2> HIDE DEF step
  <2> QED BY <1>0, <1>1, <1>2, <1>7, <2>1, CourseFits
<1>9. \A k \in 0..L : f[k] \in Q
  BY <1>8 DEF Course
<1> DEFINE G == {k \in Nat : k \in 0..L => \A t \in f[k] : Placed(t, s, k, X)}
<1>11. 0 \in G
  <2>1. f[0] = {<<>>}
    BY <1>7 DEF first
  <2>2. Placed(<<>>, s, 0, X)
    BY EmbedsNone DEF Placed
  <2> QED BY <2>1, <2>2
<1>12. \A k \in 0..L : k \in G /\ k < L => k + 1 \in G
  <2> SUFFICES ASSUME NEW k \in 0..L, k \in G, k < L PROVE k + 1 \in G
    OBVIOUS
  <2>1. k + 1 \in 1..L /\ (k + 1) - 1 = k /\ k \in 0..L /\ k + 1 \in Nat /\ k \in Nat
    BY <1>0
  <2>2. \A t \in f[k] : Placed(t, s, k, X)
    BY <2>1
  <2>3. f[k + 1] = Put(f[k], k + 1)
    <3>1. f[k + 1] = Put(f[(k + 1) - 1], k + 1)
      BY <2>1, <1>7
    <3> QED BY <2>1, <3>1
  <2>4. \A t \in f[k + 1] : t \in Inserted(f[k], s[k + 1])
    BY <2>3 DEF Put
  <2>5. k \in 0..(Len(s) - 1)
    BY <1>a DEF L
  <2>6. PICK S : S = f[k]
    OBVIOUS
  <2>7. \A t \in S : Placed(t, s, k, X)
    BY <2>2, <2>6
  <2>8. ASSUME NEW t \in f[k + 1] PROVE Placed(t, s, k + 1, X)
    <3>1. t \in Inserted(S, s[k + 1])
      BY <2>4, <2>6
    <3> QED BY <2>5, <2>7, <3>1, InsertArranges
  <2> QED BY <2>1, <2>8
<1>13. \A t \in f[L] : Placed(t, s, L, X)
  <2>1. L \in G
    <3> HIDE DEF G
    <3>1. \A k \in 0..L : k \in G
      BY <1>0, <1>11, <1>12, Climb
    <3> QED BY <1>0, <3>1
  <2> QED BY <2>1, <1>0
<1> QED BY <1>6, <1>13 DEF L

-----------------------------------------------------------------------------
(* The tables of a partition. *)

URLRows(n) ==
  [host : Keys, path : 0..(Word - 1), status : 0..7, due : 0..(Half - 1), count : 0..(Half - 1), ref : 1..n]
HostRows(n) == [host : Keys, ref : 1..n]

\* A row with its string in place of the reference.
Resolved(r, strings) ==
  [host |-> r.host, path |-> r.path, status |-> r.status, due |-> r.due, count |-> r.count,
   span |-> arenaRead(strings, r.ref)]

\* Rows that fit their columns, refer to a string and have a key each.
URLsSound(urls, strings) ==
  /\ urls \in Seq(URLRows(Len(strings)))
  /\ \A i, j \in 1..Len(urls) : i # j => KeyOf(urls[i]) # KeyOf(urls[j])

\* Host records, one for a host, that refer to its name.
HostsSound(hosts, strings) ==
  /\ hosts \in Seq(HostRows(Len(strings)))
  /\ \A i \in 1..Len(hosts) : strings[hosts[i].ref] = FullName(hosts[i].host)
  /\ \A i, j \in 1..Len(hosts) : i # j => hosts[i].host # hosts[j].host

HostsOf(hosts) == {hosts[j].host : j \in 1..Len(hosts)}

\* Every row is beside its host's record.
Homed(urls, hosts) == \A i \in 1..Len(urls) : urls[i].host \in HostsOf(hosts)

Sound(p) ==
  /\ p.strings \in Seq(Int) /\ URLsSound(p.urls, p.strings) /\ HostsSound(p.hosts, p.strings)
  /\ Homed(p.urls, p.hosts)

LEMMA RowsAre ==
  ASSUME NEW p, NEW X, p.urls \in Seq(X), NEW x
  PROVE  x \in ResolvedURLs(p) <=> \E i \in 1..Len(p.urls) : x = Resolved(p.urls[i], p.strings)
<1>1. DOMAIN p.urls = 1..Len(p.urls)
  OBVIOUS
<1>2. ResolvedURLs(p) = {Resolved(r, p.strings) : r \in Range(p.urls)}
  BY DEF ResolvedURLs, Resolved
<1>3. Range(p.urls) = {p.urls[i] : i \in 1..Len(p.urls)}
  BY <1>1 DEF Range
<1> QED BY <1>2, <1>3

LEMMA RowTyped ==
  ASSUME NEW n, NEW r \in URLRows(n)
  PROVE  /\ r = [host |-> r.host, path |-> r.path, status |-> r.status, due |-> r.due,
                 count |-> r.count, ref |-> r.ref]
         /\ r.host \in Keys /\ r.path \in 0..(Word - 1) /\ r.status \in 0..7
         /\ r.due \in 0..(Half - 1) /\ r.count \in 0..(Half - 1) /\ r.ref \in 1..n
  BY DEF URLRows

LEMMA HostTyped ==
  ASSUME NEW n, NEW r \in HostRows(n)
  PROVE  r = [host |-> r.host, ref |-> r.ref] /\ r.host \in Keys /\ r.ref \in 1..n
  BY DEF HostRows

LEMMA SmallPowers == 2^3 = 8 /\ 2^WordBits = Word /\ 2^(WordBits - 1) = Half
<1>1. 0 \in 0..WordBits /\ 1 \in 0..WordBits /\ 2 \in 0..WordBits
  BY WordAssumption
<1>2. 2^0 = 1
  BY WordAssumption
<1>3. 2^(0 + 1) = 2 * 2^0 /\ 2^(1 + 1) = 2 * 2^1 /\ 2^(2 + 1) = 2 * 2^2
  BY <1>1, WordAssumption
<1>4. 0 + 1 = 1 /\ 1 + 1 = 2 /\ 2 + 1 = 3
  OBVIOUS
<1>5. 2^1 = 2 * 2^0 /\ 2^2 = 2 * 2^1 /\ 2^3 = 2 * 2^2
  BY <1>3, <1>4
<1>6. 2^1 = 2 /\ 2^2 = 4 /\ 2^3 = 8
  BY <1>2, <1>5
<1> QED BY <1>6 DEF Word, Half

\* A word has at least 3 bits.
LEMMA WordAtLeast == Word >= 8
<1> DEFINE G == {w \in Nat : w + 3 \in 0..WordBits => 2^(w + 3) >= 8}
<1>1. PICK n \in Nat : n + 3 = WordBits
  <2>1. WordBits - 3 \in Nat /\ (WordBits - 3) + 3 = WordBits
    BY WordAssumption
  <2> QED BY <2>1
<1>2. 0 \in G
  BY SmallPowers
<1>3. \A w \in 0..n : w \in G /\ w < n => w + 1 \in G
  <2> SUFFICES ASSUME NEW w \in 0..n, w \in G, w < n PROVE w + 1 \in G
    OBVIOUS
  <2>1. w + 3 \in 0..WordBits /\ (w + 1) + 3 = (w + 3) + 1
    BY <1>1
  <2>2. PICK a \in Nat : a = 2^(w + 3) /\ a >= 8
    BY <2>1, PowersGrow
  <2>3. 2^((w + 3) + 1) = 2 * a
    BY <2>1, <2>2, PowersGrow
  <2>4. 2^((w + 1) + 3) >= 8
    BY <2>1, <2>2, <2>3
  <2> QED BY <2>4
<1>4. n \in G
  <2> HIDE DEF G
  <2> QED BY <1>2, <1>3, Climb
<1>5. 2^(n + 3) >= 8
  BY <1>1, <1>4
<1> QED BY <1>1, <1>5 DEF Word

\* Sound tables of less than a word's rows fit their columns.
LEMMA SoundStorable ==
  ASSUME NEW p, Sound(p), Len(p.urls) < Word, Len(p.hosts) < Word, Len(p.strings) < Word, p.maxRows \in Nat
  PROVE  Storable(p)
<1>1. PICK m \in Nat : m = Len(p.strings) /\ m < Word
  BY DEF Sound
<1>2. p.urls \in Seq(URLRows(m)) /\ p.hosts \in Seq(HostRows(m))
  BY <1>1 DEF Sound, URLsSound, HostsSound
<1>3. \A k \in Keys : k \in 0..(Word - 1)
  BY CollectionAssumption, FormatAssumption, WordIs DEF Keys
<1>4. \A k \in 1..m : k \in 0..(Word - 1)
  BY <1>1, WordIs
<1>5. \A k \in 0..7 : k \in 0..(Word - 1) /\ k < 8
  <2>1. Word >= 8
    BY WordAtLeast
  <2> QED BY <2>1, WordIs
<1>6. \A k \in 0..(Half - 1) : k \in 0..(Word - 1) /\ k < Half
  BY WordIs
<1>7. \A k \in 0..(Word - 1) : k < Word
  BY WordIs
<1>8. Tabled(URLColumns, p.urls, Len(p.urls))
  <2> DEFINE n == Len(p.urls)
             names == {"host", "path", "status", "due", "count", "ref"}
  <2>1. p.urls = [i \in 1..n |-> p.urls[i]]
    BY <1>2
  <2>2. DOMAIN URLColumns = names
    BY DEF URLColumns
  <2>3. ASSUME NEW i \in 1..n
        PROVE  /\ p.urls[i] = [c \in names |-> p.urls[i][c]]
               /\ \A c \in names : p.urls[i][c] \in 0..(Word - 1) /\ p.urls[i][c] < 2^URLColumns[c].width
    <3>1. PICK r \in URLRows(m) : r = p.urls[i]
      BY <1>2
    <3>2. /\ r = [host |-> r.host, path |-> r.path, status |-> r.status, due |-> r.due,
                  count |-> r.count, ref |-> r.ref]
          /\ r.host \in Keys /\ r.path \in 0..(Word - 1) /\ r.status \in 0..7
          /\ r.due \in 0..(Half - 1) /\ r.count \in 0..(Half - 1) /\ r.ref \in 1..m
      BY RowTyped
    <3>3. r = [c \in names |-> r[c]]
      BY <3>2
    <3>4. /\ URLColumns["host"].width = WordBits /\ URLColumns["path"].width = WordBits
          /\ URLColumns["status"].width = 3 /\ URLColumns["due"].width = WordBits - 1
          /\ URLColumns["count"].width = WordBits - 1 /\ URLColumns["ref"].width = WordBits
      BY DEF URLColumns
    <3>5. r["host"] \in 0..(Word - 1) /\ r["host"] < 2^URLColumns["host"].width
      BY <3>2, <3>4, <1>3, <1>7, SmallPowers
    <3>6. r["path"] \in 0..(Word - 1) /\ r["path"] < 2^URLColumns["path"].width
      BY <3>2, <3>4, <1>7, SmallPowers
    <3>7. r["status"] \in 0..(Word - 1) /\ r["status"] < 2^URLColumns["status"].width
      BY <3>2, <3>4, <1>5, SmallPowers
    <3>8. r["due"] \in 0..(Word - 1) /\ r["due"] < 2^URLColumns["due"].width
      BY <3>2, <3>4, <1>6, SmallPowers
    <3>9. r["count"] \in 0..(Word - 1) /\ r["count"] < 2^URLColumns["count"].width
      BY <3>2, <3>4, <1>6, SmallPowers
    <3>10. r["ref"] \in 0..(Word - 1) /\ r["ref"] < 2^URLColumns["ref"].width
      BY <3>2, <3>4, <1>4, <1>7, SmallPowers
    <3>11. \A c \in names : r[c] \in 0..(Word - 1) /\ r[c] < 2^URLColumns[c].width
      <4> SUFFICES ASSUME NEW c \in names PROVE r[c] \in 0..(Word - 1) /\ r[c] < 2^URLColumns[c].width
        OBVIOUS
      <4> QED BY <3>5, <3>6, <3>7, <3>8, <3>9, <3>10, Zenon
    <3> HIDE DEF names
    <3> QED BY <3>1, <3>3, <3>11
  <2> HIDE DEF names, n
  <2>4. Tabled(URLColumns, p.urls, n)
    BY <2>1, <2>2, <2>3 DEF Tabled
  <2> QED BY <2>4 DEF n
<1>9. Tabled(HostColumns, p.hosts, Len(p.hosts))
  <2> DEFINE n == Len(p.hosts)
             names == {"host", "ref"}
  <2>1. p.hosts = [i \in 1..n |-> p.hosts[i]]
    BY <1>2
  <2>2. DOMAIN HostColumns = names
    BY DEF HostColumns
  <2>3. ASSUME NEW i \in 1..n
        PROVE  /\ p.hosts[i] = [c \in names |-> p.hosts[i][c]]
               /\ \A c \in names : p.hosts[i][c] \in 0..(Word - 1) /\ p.hosts[i][c] < 2^HostColumns[c].width
    <3>1. PICK r \in HostRows(m) : r = p.hosts[i]
      BY <1>2
    <3>2. r = [host |-> r.host, ref |-> r.ref] /\ r.host \in Keys /\ r.ref \in 1..m
      BY HostTyped
    <3>3. r = [c \in names |-> r[c]]
      BY <3>2
    <3>4. HostColumns["host"].width = WordBits /\ HostColumns["ref"].width = WordBits
      BY DEF HostColumns
    <3>5. r["host"] \in 0..(Word - 1) /\ r["host"] < 2^HostColumns["host"].width
      BY <3>2, <3>4, <1>3, <1>7, SmallPowers
    <3>6. r["ref"] \in 0..(Word - 1) /\ r["ref"] < 2^HostColumns["ref"].width
      BY <3>2, <3>4, <1>4, <1>7, SmallPowers
    <3>7. \A c \in names : r[c] \in 0..(Word - 1) /\ r[c] < 2^HostColumns[c].width
      <4> SUFFICES ASSUME NEW c \in names PROVE r[c] \in 0..(Word - 1) /\ r[c] < 2^HostColumns[c].width
        OBVIOUS
      <4> QED BY <3>5, <3>6, Zenon
    <3> HIDE DEF names
    <3> QED BY <3>1, <3>3, <3>7
  <2> HIDE DEF names, n
  <2>4. Tabled(HostColumns, p.hosts, n)
    BY <2>1, <2>2, <2>3 DEF Tabled
  <2> QED BY <2>4 DEF n
<1>10. Len(p.urls) \in Nat /\ Len(p.hosts) \in Nat
  BY <1>2
<1> QED BY <1>8, <1>9, <1>10 DEF Storable

-----------------------------------------------------------------------------
(* Selections of tables. *)

LEMMA InjectsShort ==
  ASSUME NEW n \in Nat, NEW T, IsFiniteSet(T), NEW f \in [1..n -> T],
         \A i, j \in 1..n : i # j => f[i] # f[j]
  PROVE  n <= Cardinality(T)
<1>1. f \in Injection(1..n, T)
  BY DEF Injection, IsInjective
<1>2. Cardinality(1..n) = n
  <2>1. 1 \in Int /\ n \in Int
    OBVIOUS
  <2>2. Cardinality(1..n) = IF 1 > n THEN 0 ELSE n - 1 + 1
    BY <2>1, FS_Interval
  <2> QED BY <2>2
<1> QED BY <1>1, <1>2, FS_Injection

LEMMA SelectsShorter ==
  ASSUME NEW t, NEW s, Len(s) \in Nat, NEW T, Selects(t, s, T)
  PROVE  Len(t) \in Nat /\ Len(t) <= Len(s)
<1>1. PICK e : Embeds(t, s, Len(s), T, e)
  BY DEF Selects
<1>2. PICK n \in Nat : n = Len(t)
  BY <1>1 DEF Embeds
<1>3. PICK m \in Nat : m = Len(s)
  OBVIOUS
<1>4. e \in [1..n -> 1..m] /\ \A i, j \in 1..n : i # j => e[i] # e[j]
  BY <1>1, <1>2, <1>3, Zenon DEF Embeds
<1>5. IsFiniteSet(1..m) /\ Cardinality(1..m) = m
  <2>1. 1 \in Int /\ m \in Int
    OBVIOUS
  <2>2. IsFiniteSet(1..m) /\ Cardinality(1..m) = IF 1 > m THEN 0 ELSE m - 1 + 1
    BY <2>1, FS_Interval
  <2> QED BY <2>2
<1>6. n <= Cardinality(1..m)
  BY <1>4, <1>5, InjectsShort
<1> QED BY <1>2, <1>3, <1>5, <1>6

\* The elements a selection has.
Among(t, s, T) ==
  /\ \A j \in 1..Len(t) : \E i \in 1..Len(s) : t[j] = s[i] /\ s[i] \in T
  /\ \A i \in 1..Len(s) : s[i] \in T => \E j \in 1..Len(t) : t[j] = s[i]

LEMMA SelectsHas ==
  ASSUME NEW X, NEW s \in Seq(X), NEW t, NEW T, Selects(t, s, T)
  PROVE  t \in Seq(X) /\ Among(t, s, T)
<1>1. PICK e : Embeds(t, s, Len(s), T, e)
  BY DEF Selects
<1>2. PICK n \in Nat : n = Len(t)
  BY <1>1 DEF Embeds
<1>3. /\ t = [j \in 1..n |-> t[j]] /\ e \in [1..n -> 1..Len(s)]
      /\ \A j \in 1..n : t[j] = s[e[j]] /\ t[j] \in T
      /\ \A i \in 1..Len(s) : s[i] \in T => \E j \in 1..n : e[j] = i
  BY <1>1, <1>2, Zenon DEF Embeds
<1>4. \A j \in 1..n : e[j] \in 1..Len(s) /\ s[e[j]] \in X
  BY <1>3
<1>5. t \in Seq(X)
  <2>1. \A j \in 1..n : t[j] \in X
    BY <1>3, <1>4
  <2> QED BY <1>3, <2>1, ListIs
<1>6. \A j \in 1..n : \E i \in 1..Len(s) : t[j] = s[i] /\ s[i] \in T
  BY <1>3, <1>4
<1>7. \A i \in 1..Len(s) : s[i] \in T => \E j \in 1..n : t[j] = s[i]
  BY <1>3
<1> QED BY <1>2, <1>5, <1>6, <1>7 DEF Among

LEMMA SelectURLs ==
  ASSUME NEW s, NEW strings, URLsSound(s, strings), NEW t, NEW T, Selects(t, s, T)
  PROVE  URLsSound(t, strings)
<1>1. PICK e : Embeds(t, s, Len(s), T, e)
  BY DEF Selects
<1>2. /\ e \in [1..Len(t) -> 1..Len(s)] /\ \A j, k \in 1..Len(t) : j # k => e[j] # e[k]
      /\ \A j \in 1..Len(t) : t[j] = s[e[j]]
  BY <1>1, Zenon DEF Embeds
<1>3. s \in Seq(URLRows(Len(strings))) /\ \A i, j \in 1..Len(s) : i # j => KeyOf(s[i]) # KeyOf(s[j])
  BY DEF URLsSound
<1>4. t \in Seq(URLRows(Len(strings)))
  BY <1>3, SelectsHas
<1>5. ASSUME NEW i \in 1..Len(t), NEW j \in 1..Len(t), i # j PROVE KeyOf(t[i]) # KeyOf(t[j])
  <2>1. e[i] \in 1..Len(s) /\ e[j] \in 1..Len(s) /\ e[i] # e[j]
    BY <1>2, <1>5
  <2>2. KeyOf(s[e[i]]) # KeyOf(s[e[j]])
    BY <2>1, <1>3, Zenon
  <2> QED BY <2>2, <1>2
<1> QED BY <1>4, <1>5 DEF URLsSound

LEMMA SelectHosts ==
  ASSUME NEW s, NEW strings, HostsSound(s, strings), NEW t, NEW T, Selects(t, s, T)
  PROVE  HostsSound(t, strings)
<1>1. PICK e : Embeds(t, s, Len(s), T, e)
  BY DEF Selects
<1>2. /\ e \in [1..Len(t) -> 1..Len(s)] /\ \A j, k \in 1..Len(t) : j # k => e[j] # e[k]
      /\ \A j \in 1..Len(t) : t[j] = s[e[j]]
  BY <1>1, Zenon DEF Embeds
<1>3. /\ s \in Seq(HostRows(Len(strings))) /\ \A i, j \in 1..Len(s) : i # j => s[i].host # s[j].host
      /\ \A i \in 1..Len(s) : strings[s[i].ref] = FullName(s[i].host)
  BY DEF HostsSound
<1>4. t \in Seq(HostRows(Len(strings)))
  BY <1>3, SelectsHas
<1>5. ASSUME NEW i \in 1..Len(t), NEW j \in 1..Len(t), i # j PROVE t[i].host # t[j].host
  <2>1. e[i] \in 1..Len(s) /\ e[j] \in 1..Len(s) /\ e[i] # e[j]
    BY <1>2, <1>5
  <2>2. s[e[i]].host # s[e[j]].host
    BY <2>1, <1>3, Zenon
  <2> QED BY <2>2, <1>2
<1>6. \A i \in 1..Len(t) : strings[t[i].ref] = FullName(t[i].host)
  BY <1>2, <1>3
<1> QED BY <1>4, <1>5, <1>6 DEF HostsSound

-----------------------------------------------------------------------------
(* Rewriting the arena. *)

\* recs refer to n strings.
RefsIn(recs, n) == Len(recs) \in Nat /\ recs = [i \in 1..Len(recs) |-> recs[i]] /\ \A i \in 1..Len(recs) : recs[i].ref \in 1..n

Covers(recs, src, arena) == \A i \in 1..Len(recs) : src[recs[i].ref] \in Range(arena)

LEMMA ReferencedIs ==
  ASSUME NEW src \in Seq(Int), NEW recs, RefsIn(recs, Len(src))
  PROVE  /\ Referenced(recs, src) \in Seq(Int) /\ Len(Referenced(recs, src)) <= Len(recs)
         /\ Covers(recs, src, Referenced(recs, src))
<1>1. PICK n \in Nat : n = Len(recs)
  BY DEF RefsIn
<1>2. DOMAIN recs = 1..n /\ \A i \in 1..n : recs[i].ref \in 1..Len(src)
  BY <1>1 DEF RefsIn
<1> DEFINE refs == [i \in 1..n |-> recs[i].ref]
           hit == Pick(refs, DOMAIN src)
           out == Referenced(recs, src)
<1>3. DOMAIN src = 1..Len(src) /\ Len(src) \in Nat /\ \A k \in 1..Len(src) : src[k] \in Int
  OBVIOUS
<1>4. out = [i \in DOMAIN hit |-> src[hit[i]]]
  BY <1>2 DEF Referenced
<1>5. refs \in Seq(1..Len(src)) /\ Len(refs) = n
  <2>1. refs = [k \in 1..n |-> refs[k]] /\ \A k \in 1..n : refs[k] \in 1..Len(src)
    BY <1>2
  <2> HIDE DEF refs
  <2> QED BY <2>1, ListIs
<1>6. \A i \in 1..n : refs[i] = recs[i].ref
  OBVIOUS
<1> HIDE DEF refs, out
<1>7. hit \in Seq(1..Len(src)) /\ Selects(hit, refs, DOMAIN src)
  BY <1>5, PickSelects
<1> HIDE DEF hit
<1>8. /\ \A i \in 1..Len(refs) : refs[i] \in DOMAIN src => \E j \in 1..Len(hit) : hit[j] = refs[i]
  <2>1. Among(hit, refs, DOMAIN src)
    BY <1>5, <1>7, SelectsHas
  <2> QED BY <2>1 DEF Among
<1>9. Len(hit) \in Nat /\ Len(hit) <= n
  BY <1>5, <1>7, SelectsShorter
<1>10. PICK m \in Nat : m = Len(hit) /\ DOMAIN hit = 1..m /\ \A j \in 1..m : hit[j] \in 1..Len(src)
  BY <1>7
<1>11. out = [i \in 1..m |-> out[i]] /\ \A i \in 1..m : out[i] = src[hit[i]] /\ out[i] \in Int
  BY <1>3, <1>4, <1>10
<1>12. out \in Seq(Int) /\ Len(out) = m /\ DOMAIN out = 1..m
  BY <1>11, ListIs
<1>13. ASSUME NEW i \in 1..n PROVE src[recs[i].ref] \in Range(out)
  <2>1. PICK j \in 1..m : hit[j] = recs[i].ref
    BY <1>2, <1>3, <1>5, <1>6, <1>8, <1>10
  <2>2. out[j] = src[recs[i].ref]
    BY <1>11, <2>1
  <2> QED BY <1>12, <2>2 DEF Range
<1> QED BY <1>1, <1>9, <1>10, <1>12, <1>13 DEF Covers, out

Repointed(out, recs, src, arena) ==
  /\ out = [i \in 1..Len(recs) |-> out[i]]
  /\ \A i \in 1..Len(recs) : \E k \in 1..Len(arena) :
       out[i] = [recs[i] EXCEPT !.ref = k] /\ arena[k] = src[recs[i].ref]

\* The copied references: one of the new arena for each, to the same string.
LEMMA CopiedIs ==
  ASSUME NEW src \in Seq(Int), NEW recs, RefsIn(recs, Len(src)), NEW arena \in Seq(Int), Covers(recs, src, arena)
  PROVE  Repointed(Copied(recs, src, arena), recs, src, arena)
<1>1. PICK n \in Nat : n = Len(recs)
  BY DEF RefsIn
<1>2. DOMAIN recs = 1..n /\ \A i \in 1..n : recs[i].ref \in 1..Len(src)
  BY <1>1 DEF RefsIn
<1>3. DOMAIN src = 1..Len(src) /\ DOMAIN arena = 1..Len(arena)
  OBVIOUS
<1> DEFINE out == Copied(recs, src, arena)
           New(i) == IF arenaRead(src, recs[i].ref) = {} THEN 0
                     ELSE CHOOSE k \in DOMAIN arena : arena[k] = src[recs[i].ref]
<1>4. out = [i \in 1..n |-> [recs[i] EXCEPT !.ref = New(i)]]
  BY <1>2 DEF Copied
<1>5. ASSUME NEW i \in 1..n PROVE New(i) \in 1..Len(arena) /\ arena[New(i)] = src[recs[i].ref]
  <2>1. src[recs[i].ref] \in Range(arena)
    BY <1>1 DEF Covers
  <2>2. \E k \in DOMAIN arena : arena[k] = src[recs[i].ref]
    BY <2>1 DEF Range
  <2>3. arenaRead(src, recs[i].ref) # {}
    BY <1>2, <1>3 DEF arenaRead
  <2>4. New(i) = CHOOSE k \in DOMAIN arena : arena[k] = src[recs[i].ref]
    BY <2>3
  <2> HIDE DEF New
  <2>5. New(i) \in DOMAIN arena /\ arena[New(i)] = src[recs[i].ref]
    BY <2>2, <2>4
  <2> QED BY <1>3, <2>5
<1> HIDE DEF New, out
<1>6. out = [i \in 1..n |-> out[i]]
  BY <1>4
<1>7. \A i \in 1..n : out[i] = [recs[i] EXCEPT !.ref = New(i)]
  BY <1>4
<1> QED BY <1>1, <1>5, <1>6, <1>7 DEF out, Repointed

SameURLs(a, ar, b, br) == Len(a) = Len(b) /\ \A i \in 1..Len(b) : Resolved(a[i], ar) = Resolved(b[i], br)
SameHosts(a, b) == Len(a) = Len(b) /\ \A i \in 1..Len(b) : a[i].host = b[i].host

LEMMA RefSet ==
  ASSUME NEW r, r = [host |-> r.host, path |-> r.path, status |-> r.status, due |-> r.due,
                     count |-> r.count, ref |-> r.ref], NEW k
  PROVE  [r EXCEPT !.ref = k] = [host |-> r.host, path |-> r.path, status |-> r.status, due |-> r.due,
                                 count |-> r.count, ref |-> k]
  OBVIOUS

LEMMA CopyURLs ==
  ASSUME NEW src \in Seq(Int), NEW urls, URLsSound(urls, src), NEW arena \in Seq(Int), Covers(urls, src, arena)
  PROVE  URLsSound(Copied(urls, src, arena), arena) /\ SameURLs(Copied(urls, src, arena), arena, urls, src)
<1>1. urls \in Seq(URLRows(Len(src))) /\ \A i, j \in 1..Len(urls) : i # j => KeyOf(urls[i]) # KeyOf(urls[j])
  BY DEF URLsSound
<1>2. PICK n \in Nat : n = Len(urls)
  BY <1>1
<1>3. \A i \in 1..n : urls[i] \in URLRows(Len(src))
  BY <1>1, <1>2
<1>4. RefsIn(urls, Len(src))
  <2>1. \A i \in 1..n : urls[i].ref \in 1..Len(src)
    BY <1>3, RowTyped
  <2> QED BY <1>1, <1>2, <2>1 DEF RefsIn
<1> DEFINE out == Copied(urls, src, arena)
<1>5. /\ out = [i \in 1..Len(urls) |-> out[i]]
      /\ \A i \in 1..Len(urls) : \E k \in 1..Len(arena) :
            out[i] = [urls[i] EXCEPT !.ref = k] /\ arena[k] = src[urls[i].ref]
  <2>1. Repointed(out, urls, src, arena)
    BY <1>4, CopiedIs
  <2> QED BY <2>1 DEF Repointed
<1> HIDE DEF out
<1>6. ASSUME NEW i \in 1..n
      PROVE  out[i] \in URLRows(Len(arena)) /\ KeyOf(out[i]) = KeyOf(urls[i])
             /\ Resolved(out[i], arena) = Resolved(urls[i], src)
  <2>1. PICK k \in 1..Len(arena) : out[i] = [urls[i] EXCEPT !.ref = k] /\ arena[k] = src[urls[i].ref]
    BY <1>2, <1>5
  <2>2. PICK r : r = urls[i] /\ r \in URLRows(Len(src))
    BY <1>3
  <2>3. /\ r = [host |-> r.host, path |-> r.path, status |-> r.status, due |-> r.due,
                count |-> r.count, ref |-> r.ref]
        /\ r.host \in Keys /\ r.path \in 0..(Word - 1) /\ r.status \in 0..7
        /\ r.due \in 0..(Half - 1) /\ r.count \in 0..(Half - 1) /\ r.ref \in 1..Len(src)
    BY <2>2, RowTyped
  <2>4. [r EXCEPT !.ref = k] = [host |-> r.host, path |-> r.path, status |-> r.status, due |-> r.due,
                                count |-> r.count, ref |-> k]
    <3>1. r = [host |-> r.host, path |-> r.path, status |-> r.status, due |-> r.due,
               count |-> r.count, ref |-> r.ref]
      BY <2>3
    <3> QED BY <3>1, RefSet
  <2>5. PICK q : q = out[i] /\ q = [host |-> r.host, path |-> r.path, status |-> r.status, due |-> r.due,
                                    count |-> r.count, ref |-> k]
    BY <2>1, <2>2, <2>4
  <2>6. q \in URLRows(Len(arena))
    BY <2>3, <2>5 DEF URLRows
  <2>7. KeyOf(q) = KeyOf(r)
    BY <2>5 DEF KeyOf
  <2>8. arenaRead(arena, k) = {arena[k]} /\ arenaRead(src, r.ref) = {src[r.ref]}
    BY <2>3 DEF arenaRead
  <2>9. arenaRead(arena, k) = arenaRead(src, r.ref)
    BY <2>1, <2>2, <2>8
  <2>10. Resolved(q, arena) = Resolved(r, src)
    BY <2>5, <2>9 DEF Resolved
  <2> QED BY <2>2, <2>5, <2>6, <2>7, <2>10
<1>7. out \in Seq(URLRows(Len(arena))) /\ Len(out) = n
  <2>1. out = [i \in 1..n |-> out[i]] /\ \A i \in 1..n : out[i] \in URLRows(Len(arena))
    BY <1>2, <1>5, <1>6
  <2> QED BY <2>1, ListIs
<1>8. \A i, j \in 1..n : i # j => KeyOf(out[i]) # KeyOf(out[j])
  BY <1>1, <1>2, <1>6
<1>9. URLsSound(out, arena)
  BY <1>7, <1>8 DEF URLsSound
<1>10. SameURLs(out, arena, urls, src)
  BY <1>2, <1>6, <1>7 DEF SameURLs
<1> QED BY <1>9, <1>10 DEF out

LEMMA CopyHosts ==
  ASSUME NEW src \in Seq(Int), NEW hosts, HostsSound(hosts, src), NEW arena \in Seq(Int), Covers(hosts, src, arena)
  PROVE  HostsSound(Copied(hosts, src, arena), arena) /\ SameHosts(Copied(hosts, src, arena), hosts)
<1>1. /\ hosts \in Seq(HostRows(Len(src))) /\ \A i, j \in 1..Len(hosts) : i # j => hosts[i].host # hosts[j].host
      /\ \A i \in 1..Len(hosts) : src[hosts[i].ref] = FullName(hosts[i].host)
  BY DEF HostsSound
<1>2. PICK n \in Nat : n = Len(hosts)
  BY <1>1
<1>3. \A i \in 1..n : hosts[i] \in HostRows(Len(src))
  BY <1>1, <1>2
<1>4. RefsIn(hosts, Len(src))
  <2>1. \A i \in 1..n : hosts[i].ref \in 1..Len(src)
    BY <1>3, HostTyped
  <2> QED BY <1>1, <1>2, <2>1 DEF RefsIn
<1> DEFINE out == Copied(hosts, src, arena)
<1>5. /\ out = [i \in 1..Len(hosts) |-> out[i]]
      /\ \A i \in 1..Len(hosts) : \E k \in 1..Len(arena) :
            out[i] = [hosts[i] EXCEPT !.ref = k] /\ arena[k] = src[hosts[i].ref]
  <2>1. Repointed(out, hosts, src, arena)
    BY <1>4, CopiedIs
  <2> QED BY <2>1 DEF Repointed
<1> HIDE DEF out
<1>6. ASSUME NEW i \in 1..n
      PROVE  out[i] \in HostRows(Len(arena)) /\ out[i].host = hosts[i].host
             /\ arena[out[i].ref] = FullName(out[i].host)
  <2>1. PICK k \in 1..Len(arena) : out[i] = [hosts[i] EXCEPT !.ref = k] /\ arena[k] = src[hosts[i].ref]
    BY <1>2, <1>5
  <2>2. PICK r : r = hosts[i] /\ r \in HostRows(Len(src))
    BY <1>3
  <2>3. r = [host |-> r.host, ref |-> r.ref] /\ r.host \in Keys /\ r.ref \in 1..Len(src)
    BY <2>2, HostTyped
  <2>4. [r EXCEPT !.ref = k] = [host |-> r.host, ref |-> k]
    BY <2>3
  <2>5. PICK q : q = out[i] /\ q = [host |-> r.host, ref |-> k]
    BY <2>1, <2>2, <2>4
  <2>6. q \in HostRows(Len(arena))
    BY <2>3, <2>5 DEF HostRows
  <2>7. q.host = r.host /\ q.ref = k
    BY <2>5
  <2>8. arena[k] = FullName(r.host)
    BY <1>1, <1>2, <2>1, <2>2
  <2> QED BY <2>2, <2>5, <2>6, <2>7, <2>8
<1>7. out \in Seq(HostRows(Len(arena))) /\ Len(out) = n
  <2>1. out = [i \in 1..n |-> out[i]] /\ \A i \in 1..n : out[i] \in HostRows(Len(arena))
    BY <1>2, <1>5, <1>6
  <2> QED BY <2>1, ListIs
<1>8. ASSUME NEW i \in 1..n, NEW j \in 1..n, i # j PROVE out[i].host # out[j].host
  <2>1. out[i].host = hosts[i].host /\ out[j].host = hosts[j].host
    BY <1>6
  <2>2. hosts[i].host # hosts[j].host
    BY <1>1, <1>2, <1>8
  <2> QED BY <2>1, <2>2
<1>9. HostsSound(out, arena)
  BY <1>6, <1>7, <1>8 DEF HostsSound
<1>10. SameHosts(out, hosts)
  BY <1>2, <1>6, <1>7 DEF SameHosts
<1> QED BY <1>9, <1>10 DEF out

-----------------------------------------------------------------------------
(* Tables joined. *)

RowSet(urls, strings) == {Resolved(urls[i], strings) : i \in 1..Len(urls)}

LEMMA RowsOfPart ==
  ASSUME NEW p, Sound(p)
  PROVE  ResolvedURLs(p) = RowSet(p.urls, p.strings)
<1>1. p.urls \in Seq(URLRows(Len(p.strings)))
  BY DEF Sound, URLsSound
<1>2. DOMAIN p.urls = 1..Len(p.urls)
  BY <1>1
<1>3. ResolvedURLs(p) = {Resolved(r, p.strings) : r \in Range(p.urls)}
  BY DEF ResolvedURLs, Resolved
<1>4. Range(p.urls) = {p.urls[i] : i \in 1..Len(p.urls)}
  BY <1>2 DEF Range
<1> QED BY <1>3, <1>4 DEF RowSet

\* Every row of a table of a row set, and the other way round.
LEMMA ResolvedKeeps ==
  ASSUME NEW r, NEW strings
  PROVE  /\ Resolved(r, strings).host = r.host /\ Resolved(r, strings).status = r.status
         /\ KeyOf(Resolved(r, strings)) = KeyOf(r)
  BY DEF Resolved, KeyOf

LEMMA SameRows ==
  ASSUME NEW a, NEW ar, NEW b, NEW br, SameURLs(a, ar, b, br)
  PROVE  RowSet(a, ar) = RowSet(b, br) /\ \A i \in 1..Len(b) : a[i].host = b[i].host
<1>1. RowSet(a, ar) = RowSet(b, br)
  BY DEF SameURLs, RowSet
<1>2. ASSUME NEW i \in 1..Len(b) PROVE a[i].host = b[i].host
  <2>1. Resolved(a[i], ar) = Resolved(b[i], br)
    BY DEF SameURLs
  <2> QED BY <2>1, ResolvedKeeps
<1> QED BY <1>1, <1>2

LEMMA SameHostSet ==
  ASSUME NEW a, NEW b, SameHosts(a, b)
  PROVE  HostsOf(a) = HostsOf(b)
  BY DEF SameHosts, HostsOf

\* Splitting 1..(n + m).
Halved(u, a, b) ==
  /\ Len(a) \in Nat /\ Len(b) \in Nat /\ Len(u) = Len(a) + Len(b)
  /\ \A i \in 1..Len(a) : i \in 1..Len(u) /\ u[i] = a[i]
  /\ \A i \in 1..Len(b) : Len(a) + i \in 1..Len(u) /\ u[Len(a) + i] = b[i]
  /\ \A i \in 1..Len(u) : i \in 1..Len(a) \/ (i - Len(a) \in 1..Len(b) /\ u[i] = b[i - Len(a)])

LEMMA JoinHalves ==
  ASSUME NEW S, NEW a \in Seq(S), NEW b \in Seq(S)
  PROVE  a \o b \in Seq(S) /\ Halved(a \o b, a, b)
<1> DEFINE u == a \o b
<1>1. /\ u \in Seq(S) /\ Len(u) = Len(a) + Len(b)
      /\ \A i \in 1..Len(a) : u[i] = a[i]
      /\ \A i \in 1..Len(b) : u[Len(a) + i] = b[i]
  BY Joined
<1> HIDE DEF u
<1>2. PICK n \in Nat, m \in Nat : n = Len(a) /\ m = Len(b)
  OBVIOUS
<1>3. \A i \in 1..n : i \in 1..(n + m)
  OBVIOUS
<1>4. \A i \in 1..m : n + i \in 1..(n + m)
  OBVIOUS
<1>5. ASSUME NEW i \in 1..(n + m) PROVE i \in 1..n \/ (i - n \in 1..m /\ u[i] = b[i - n])
  <2>1. CASE i <= n
    BY <2>1
  <2>2. CASE ~(i <= n)
    <3>1. i - n \in 1..m /\ n + (i - n) = i
      BY <2>2
    <3>2. u[n + (i - n)] = b[i - n]
      BY <1>1, <1>2, <3>1
    <3> QED BY <3>1, <3>2
  <2> QED BY <2>1, <2>2
<1>6. Halved(u, a, b)
  BY <1>1, <1>2, <1>3, <1>4, <1>5 DEF Halved
<1> QED BY <1>1, <1>6 DEF u

LEMMA JoinRange ==
  ASSUME NEW S, NEW a \in Seq(S), NEW b \in Seq(S)
  PROVE  Range(a) \subseteq Range(a \o b) /\ Range(b) \subseteq Range(a \o b)
<1> DEFINE u == a \o b
<1>1. u \in Seq(S) /\ Halved(u, a, b)
  BY JoinHalves
<1> HIDE DEF u
<1>2. DOMAIN u = 1..Len(u) /\ DOMAIN a = 1..Len(a) /\ DOMAIN b = 1..Len(b)
  BY <1>1
<1>3. \A i \in 1..Len(a) : a[i] \in Range(u)
  BY <1>1, <1>2 DEF Halved, Range
<1>4. \A i \in 1..Len(b) : b[i] \in Range(u)
  <2> SUFFICES ASSUME NEW i \in 1..Len(b) PROVE b[i] \in Range(u)
    OBVIOUS
  <2>1. PICK k : k = Len(a) + i /\ k \in 1..Len(u) /\ u[k] = b[i]
    BY <1>1 DEF Halved
  <2> QED BY <1>2, <2>1 DEF Range
<1>5. Range(a) \subseteq Range(u) /\ Range(b) \subseteq Range(u)
  BY <1>2, <1>3, <1>4 DEF Range
<1> QED BY <1>5 DEF u

LEMMA JoinURLs ==
  ASSUME NEW a, NEW b, NEW strings, URLsSound(a, strings), URLsSound(b, strings),
         \A i \in 1..Len(a) : \A j \in 1..Len(b) : KeyOf(a[i]) # KeyOf(b[j])
  PROVE  URLsSound(a \o b, strings) /\ RowSet(a \o b, strings) = RowSet(a, strings) \cup RowSet(b, strings)
<1> DEFINE X == URLRows(Len(strings))
           u == a \o b
<1>1. /\ a \in Seq(X) /\ \A i, j \in 1..Len(a) : i # j => KeyOf(a[i]) # KeyOf(a[j])
      /\ b \in Seq(X) /\ \A i, j \in 1..Len(b) : i # j => KeyOf(b[i]) # KeyOf(b[j])
  BY DEF URLsSound
<1> HIDE DEF X
<1>2. u \in Seq(X) /\ Halved(u, a, b)
  BY <1>1, JoinHalves
<1> HIDE DEF u
<1>3. PICK n \in Nat, m \in Nat : n = Len(a) /\ m = Len(b) /\ Len(u) = n + m
  BY <1>2 DEF Halved
<1>4. \A i \in 1..Len(a) : \A j \in 1..Len(b) : KeyOf(a[i]) # KeyOf(b[j])
  OBVIOUS
<1>5. ASSUME NEW i \in 1..(n + m), NEW j \in 1..(n + m), i # j PROVE KeyOf(u[i]) # KeyOf(u[j])
  <2>1. i \in 1..n \/ (i - n \in 1..m /\ u[i] = b[i - n])
    BY <1>2, <1>3 DEF Halved
  <2>2. j \in 1..n \/ (j - n \in 1..m /\ u[j] = b[j - n])
    BY <1>2, <1>3 DEF Halved
  <2>3. i \in 1..n => u[i] = a[i]
    BY <1>2, <1>3 DEF Halved
  <2>4. j \in 1..n => u[j] = a[j]
    BY <1>2, <1>3 DEF Halved
  <2>5. i - n # j - n
    BY <1>5
  <2>6. CASE i \in 1..n /\ j \in 1..n
    BY <2>3, <2>4, <2>6, <1>1, <1>3, <1>5
  <2>7. CASE i \in 1..n /\ j \notin 1..n
    BY <2>2, <2>3, <2>7, <1>3, <1>4
  <2>8. CASE i \notin 1..n /\ j \in 1..n
    <3>1. PICK k \in 1..m : u[i] = b[k]
      BY <2>1, <2>8
    <3>2. KeyOf(a[j]) # KeyOf(b[k])
      BY <2>8, <1>3, <1>4
    <3> QED BY <2>4, <2>8, <3>1, <3>2
  <2>9. CASE i \notin 1..n /\ j \notin 1..n
    <3>1. i - n \in 1..m /\ u[i] = b[i - n] /\ j - n \in 1..m /\ u[j] = b[j - n]
      BY <2>1, <2>2, <2>9
    <3>2. PICK k \in 1..m, l \in 1..m : k = i - n /\ l = j - n /\ k # l
      BY <2>5, <3>1
    <3>3. KeyOf(b[k]) # KeyOf(b[l])
      BY <3>2, <1>1, <1>3
    <3> QED BY <3>1, <3>2, <3>3
  <2> QED BY <2>6, <2>7, <2>8, <2>9
<1>6. URLsSound(u, strings)
  BY <1>2, <1>3, <1>5 DEF URLsSound, X
<1>7. \A x : x \in RowSet(u, strings) <=> x \in RowSet(a, strings) \/ x \in RowSet(b, strings)
  <2> TAKE x
  <2>1. ASSUME x \in RowSet(u, strings) PROVE x \in RowSet(a, strings) \/ x \in RowSet(b, strings)
    <3>1. PICK i \in 1..Len(u) : x = Resolved(u[i], strings)
      BY <2>1 DEF RowSet
    <3>2. i \in 1..Len(a) \/ (i - Len(a) \in 1..Len(b) /\ u[i] = b[i - Len(a)])
      BY <1>2 DEF Halved
    <3>3. CASE i \in 1..Len(a)
      <4>1. u[i] = a[i]
        BY <1>2, <3>3 DEF Halved
      <4> QED BY <3>1, <3>3, <4>1 DEF RowSet
    <3>4. CASE i - Len(a) \in 1..Len(b) /\ u[i] = b[i - Len(a)]
      <4>1. PICK k \in 1..Len(b) : u[i] = b[k]
        BY <3>4
      <4> QED BY <3>1, <4>1 DEF RowSet
    <3> QED BY <3>2, <3>3, <3>4
  <2>2. ASSUME x \in RowSet(a, strings) PROVE x \in RowSet(u, strings)
    <3>1. PICK i \in 1..Len(a) : x = Resolved(a[i], strings)
      BY <2>2 DEF RowSet
    <3>2. i \in 1..Len(u) /\ u[i] = a[i]
      BY <1>2 DEF Halved
    <3> QED BY <3>1, <3>2 DEF RowSet
  <2>3. ASSUME x \in RowSet(b, strings) PROVE x \in RowSet(u, strings)
    <3>1. PICK i \in 1..Len(b) : x = Resolved(b[i], strings)
      BY <2>3 DEF RowSet
    <3>2. PICK k : k \in 1..Len(u) /\ u[k] = b[i]
      BY <1>2 DEF Halved
    <3> QED BY <3>1, <3>2 DEF RowSet
  <2> QED BY <2>1, <2>2, <2>3
<1>8. RowSet(u, strings) = RowSet(a, strings) \cup RowSet(b, strings)
  BY <1>7
<1> QED BY <1>6, <1>8 DEF u

LEMMA JoinHosts ==
  ASSUME NEW a, NEW b, NEW strings, HostsSound(a, strings), HostsSound(b, strings),
         HostsOf(a) \cap HostsOf(b) = {}
  PROVE  HostsSound(a \o b, strings) /\ HostsOf(a \o b) = HostsOf(a) \cup HostsOf(b)
<1> DEFINE X == HostRows(Len(strings))
           u == a \o b
<1>1. /\ a \in Seq(X) /\ \A i, j \in 1..Len(a) : i # j => a[i].host # a[j].host
      /\ b \in Seq(X) /\ \A i, j \in 1..Len(b) : i # j => b[i].host # b[j].host
      /\ \A i \in 1..Len(a) : strings[a[i].ref] = FullName(a[i].host)
      /\ \A i \in 1..Len(b) : strings[b[i].ref] = FullName(b[i].host)
  BY DEF HostsSound
<1> HIDE DEF X
<1>2. u \in Seq(X) /\ Halved(u, a, b)
  BY <1>1, JoinHalves
<1> HIDE DEF u
<1>3. PICK n \in Nat, m \in Nat : n = Len(a) /\ m = Len(b) /\ Len(u) = n + m
  BY <1>2 DEF Halved
<1>4. \A i \in 1..Len(a) : \A j \in 1..Len(b) : a[i].host # b[j].host
  BY DEF HostsOf
<1>5. ASSUME NEW i \in 1..(n + m), NEW j \in 1..(n + m), i # j PROVE u[i].host # u[j].host
  <2>1. i \in 1..n \/ (i - n \in 1..m /\ u[i] = b[i - n])
    BY <1>2, <1>3 DEF Halved
  <2>2. j \in 1..n \/ (j - n \in 1..m /\ u[j] = b[j - n])
    BY <1>2, <1>3 DEF Halved
  <2>3. i \in 1..n => u[i] = a[i]
    BY <1>2, <1>3 DEF Halved
  <2>4. j \in 1..n => u[j] = a[j]
    BY <1>2, <1>3 DEF Halved
  <2>5. i - n # j - n
    BY <1>5
  <2>6. CASE i \in 1..n /\ j \in 1..n
    <3>1. a[i].host # a[j].host
      BY <2>6, <1>1, <1>3, <1>5
    <3> QED BY <2>3, <2>4, <2>6, <3>1
  <2>7. CASE i \in 1..n /\ j \notin 1..n
    <3>1. PICK k \in 1..m : u[j] = b[k]
      BY <2>2, <2>7
    <3>2. a[i].host # b[k].host
      BY <2>7, <1>3, <1>4
    <3> QED BY <2>3, <2>7, <3>1, <3>2
  <2>8. CASE i \notin 1..n /\ j \in 1..n
    <3>1. PICK k \in 1..m : u[i] = b[k]
      BY <2>1, <2>8
    <3>2. a[j].host # b[k].host
      BY <2>8, <1>3, <1>4
    <3> QED BY <2>4, <2>8, <3>1, <3>2
  <2>9. CASE i \notin 1..n /\ j \notin 1..n
    <3>1. i - n \in 1..m /\ u[i] = b[i - n] /\ j - n \in 1..m /\ u[j] = b[j - n]
      BY <2>1, <2>2, <2>9
    <3>2. PICK k \in 1..m, l \in 1..m : k = i - n /\ l = j - n /\ k # l
      BY <2>5, <3>1
    <3>3. b[k].host # b[l].host
      BY <3>2, <1>1, <1>3
    <3> QED BY <3>1, <3>2, <3>3
  <2> QED BY <2>6, <2>7, <2>8, <2>9
<1>a. ASSUME NEW i \in 1..Len(u)
      PROVE  (\E k \in 1..Len(a) : u[i] = a[k]) \/ (\E k \in 1..Len(b) : u[i] = b[k])
  <2>1. i \in 1..Len(a) \/ (i - Len(a) \in 1..Len(b) /\ u[i] = b[i - Len(a)])
    BY <1>2 DEF Halved
  <2>2. i \in 1..Len(a) => u[i] = a[i]
    BY <1>2 DEF Halved
  <2> QED BY <2>1, <2>2
<1>b. \A k \in 1..Len(a) : \E i \in 1..Len(u) : u[i] = a[k]
  BY <1>2 DEF Halved
<1>c. \A k \in 1..Len(b) : \E i \in 1..Len(u) : u[i] = b[k]
  BY <1>2 DEF Halved
<1>6. ASSUME NEW i \in 1..Len(u) PROVE strings[u[i].ref] = FullName(u[i].host)
  <2>1. CASE \E k \in 1..Len(a) : u[i] = a[k]
    <3>1. PICK k \in 1..Len(a) : u[i] = a[k]
      BY <2>1
    <3>2. strings[a[k].ref] = FullName(a[k].host)
      BY <1>1
    <3> QED BY <3>1, <3>2
  <2>2. CASE \E k \in 1..Len(b) : u[i] = b[k]
    <3>1. PICK k \in 1..Len(b) : u[i] = b[k]
      BY <2>2
    <3>2. strings[b[k].ref] = FullName(b[k].host)
      BY <1>1
    <3> QED BY <3>1, <3>2
  <2> QED BY <1>a, <2>1, <2>2
<1>7. HostsSound(u, strings)
  BY <1>2, <1>3, <1>5, <1>6 DEF HostsSound, X
<1>8. HostsOf(u) = HostsOf(a) \cup HostsOf(b)
  <2>1. \A x \in HostsOf(u) : x \in HostsOf(a) \/ x \in HostsOf(b)
    BY <1>a DEF HostsOf
  <2>2. \A x \in HostsOf(a) : x \in HostsOf(u)
    BY <1>b DEF HostsOf
  <2>3. \A x \in HostsOf(b) : x \in HostsOf(u)
    BY <1>c DEF HostsOf
  <2> QED BY <2>1, <2>2, <2>3
<1> QED BY <1>7, <1>8 DEF u

-----------------------------------------------------------------------------
(* Partitions rebuilt on a new arena. *)

\* The tables refer to strings that are there.
LEMMA SoundRefs ==
  ASSUME NEW strings,
         NEW urls, URLsSound(urls, strings), NEW hosts, HostsSound(hosts, strings)
  PROVE  RefsIn(urls, Len(strings)) /\ RefsIn(hosts, Len(strings))
<1>1. urls \in Seq(URLRows(Len(strings))) /\ hosts \in Seq(HostRows(Len(strings)))
  BY DEF URLsSound, HostsSound
<1>2. \A i \in 1..Len(urls) : urls[i] \in URLRows(Len(strings))
  BY <1>1
<1>3. \A i \in 1..Len(hosts) : hosts[i] \in HostRows(Len(strings))
  BY <1>1
<1>4. \A i \in 1..Len(urls) : urls[i].ref \in 1..Len(strings)
  BY <1>2, RowTyped
<1>5. \A i \in 1..Len(hosts) : hosts[i].ref \in 1..Len(strings)
  BY <1>3, HostTyped
<1>6. /\ Len(urls) \in Nat /\ urls = [i \in 1..Len(urls) |-> urls[i]]
      /\ Len(hosts) \in Nat /\ hosts = [i \in 1..Len(hosts) |-> hosts[i]]
  BY <1>1
<1> QED BY <1>4, <1>5, <1>6 DEF RefsIn

LEMMA CoversMore ==
  ASSUME NEW recs, NEW src, NEW a, NEW b, Covers(recs, src, a), Range(a) \subseteq Range(b)
  PROVE  Covers(recs, src, b)
  BY DEF Covers

\* The arena of four lists of spans.
LEMMA DictOf4 ==
  ASSUME NEW a \in Seq(Int), NEW b \in Seq(Int), NEW c \in Seq(Int), NEW d \in Seq(Int)
  PROVE  LET t == Dict(a \o b \o c \o d)
         IN /\ t \in Seq(Int) /\ Len(t) <= Len(a) + Len(b) + Len(c) + Len(d)
            /\ Range(a) \subseteq Range(t) /\ Range(b) \subseteq Range(t)
            /\ Range(c) \subseteq Range(t) /\ Range(d) \subseteq Range(t)
<1> DEFINE x == a \o b
           y == x \o c
           z == y \o d
           t == Dict(z)
<1>1. x \in Seq(Int) /\ Len(x) = Len(a) + Len(b) /\ Range(a) \subseteq Range(x) /\ Range(b) \subseteq Range(x)
  BY Joined, JoinRange
<1> HIDE DEF x
<1>2. y \in Seq(Int) /\ Len(y) = Len(x) + Len(c) /\ Range(x) \subseteq Range(y) /\ Range(c) \subseteq Range(y)
  BY <1>1, Joined, JoinRange
<1> HIDE DEF y
<1>3. z \in Seq(Int) /\ Len(z) = Len(y) + Len(d) /\ Range(y) \subseteq Range(z) /\ Range(d) \subseteq Range(z)
  BY <1>2, Joined, JoinRange
<1> HIDE DEF z
<1>4. t \in Seq(Int) /\ Len(t) <= Len(z) /\ Range(t) = Range(z)
  <2>1. PICK n \in Nat : n = Len(z)
    BY <1>3
  <2>2. Distinct(z) \in Seq(Int) /\ Len(Distinct(z)) <= n /\ Range(Distinct(z)) = Range(z)
    BY <1>3, <2>1, DistinctIs
  <2> QED BY <2>1, <2>2 DEF Dict
<1> HIDE DEF t
<1>5. Len(t) <= Len(a) + Len(b) + Len(c) + Len(d)
  <2>1. Len(a) \in Nat /\ Len(b) \in Nat /\ Len(c) \in Nat /\ Len(d) \in Nat /\ Len(t) \in Nat
    BY <1>4
  <2> QED BY <2>1, <1>1, <1>2, <1>3, <1>4
<1>6. /\ t \in Seq(Int) /\ Len(t) <= Len(a) + Len(b) + Len(c) + Len(d)
      /\ Range(a) \subseteq Range(t) /\ Range(b) \subseteq Range(t)
      /\ Range(c) \subseteq Range(t) /\ Range(d) \subseteq Range(t)
  BY <1>1, <1>2, <1>3, <1>4, <1>5
<1> QED BY <1>6 DEF t, z, y, x

LEMMA DictOf2 ==
  ASSUME NEW a \in Seq(Int), NEW b \in Seq(Int)
  PROVE  LET t == Dict(a \o b)
         IN /\ t \in Seq(Int) /\ Len(t) <= Len(a) + Len(b)
            /\ Range(a) \subseteq Range(t) /\ Range(b) \subseteq Range(t)
<1> DEFINE x == a \o b
           t == Dict(x)
<1>1. x \in Seq(Int) /\ Len(x) = Len(a) + Len(b) /\ Range(a) \subseteq Range(x) /\ Range(b) \subseteq Range(x)
  BY Joined, JoinRange
<1> HIDE DEF x
<1>4. t \in Seq(Int) /\ Len(t) <= Len(x) /\ Range(t) = Range(x)
  <2>1. PICK n \in Nat : n = Len(x)
    BY <1>1
  <2>2. Distinct(x) \in Seq(Int) /\ Len(Distinct(x)) <= n /\ Range(Distinct(x)) = Range(x)
    BY <1>1, <2>1, DistinctIs
  <2> QED BY <2>1, <2>2 DEF Dict
<1> HIDE DEF t
<1>6. /\ t \in Seq(Int) /\ Len(t) <= Len(a) + Len(b)
      /\ Range(a) \subseteq Range(t) /\ Range(b) \subseteq Range(t)
  BY <1>1, <1>4
<1> QED BY <1>6 DEF t, x

\* q holds the rows and the hosts of the tables us and hs, on its own arena.
Carries(q, us, hs, strings) ==
  /\ Sound(q) /\ Len(q.urls) = Len(us) /\ SameHosts(q.hosts, hs)
  /\ RowSet(q.urls, q.strings) = RowSet(us, strings) /\ HostsOf(q.hosts) = HostsOf(hs)
  /\ Len(q.strings) <= Len(us) + Len(hs)

LEMMA RebaseHolds ==
  ASSUME NEW strings \in Seq(Int), NEW us, URLsSound(us, strings), NEW hs, HostsSound(hs, strings),
         Homed(us, hs), NEW id, NEW lo, NEW hi, NEW q, q = rebaseArena(Plain(id, lo, hi, us, hs, strings))
  PROVE  Carries(q, us, hs, strings) /\ q.id = id /\ q.lo = lo /\ q.hi = hi /\ q.maxRows = 0
<1> DEFINE ru == Referenced(us, strings)
           rh == Referenced(hs, strings)
           arena == Dict(ru \o rh)
           cu == Copied(us, strings, arena)
           ch == Copied(hs, strings, arena)
<1>1. q = [id |-> id, lo |-> lo, hi |-> hi, urls |-> cu, hosts |-> ch,
           strings |-> arena, sched |-> FALSE, maxRows |-> 0]
  BY DEF rebaseArena, Plain
<1>2. RefsIn(us, Len(strings)) /\ RefsIn(hs, Len(strings))
  BY SoundRefs
<1> HIDE DEF cu, ch, arena
<1>3. ru \in Seq(Int) /\ Len(ru) <= Len(us) /\ Covers(us, strings, ru)
  BY <1>2, ReferencedIs
<1>4. rh \in Seq(Int) /\ Len(rh) <= Len(hs) /\ Covers(hs, strings, rh)
  BY <1>2, ReferencedIs
<1> HIDE DEF ru, rh
<1>5. /\ arena \in Seq(Int) /\ Len(arena) <= Len(ru) + Len(rh)
      /\ Range(ru) \subseteq Range(arena) /\ Range(rh) \subseteq Range(arena)
  BY <1>3, <1>4, DictOf2 DEF arena
<1>6. Covers(us, strings, arena) /\ Covers(hs, strings, arena)
  BY <1>3, <1>4, <1>5, CoversMore
<1>7. URLsSound(cu, arena) /\ SameURLs(cu, arena, us, strings)
  BY <1>5, <1>6, CopyURLs DEF cu
<1>8. HostsSound(ch, arena) /\ SameHosts(ch, hs)
  BY <1>5, <1>6, CopyHosts DEF ch
<1>9. RowSet(cu, arena) = RowSet(us, strings) /\ \A i \in 1..Len(us) : cu[i].host = us[i].host
  BY <1>7, SameRows
<1>10. HostsOf(ch) = HostsOf(hs)
  BY <1>8, SameHostSet
<1>11. Len(cu) = Len(us)
  BY <1>7 DEF SameURLs
<1>12. Homed(cu, ch)
  BY <1>9, <1>10, <1>11 DEF Homed
<1>13. Len(arena) <= Len(us) + Len(hs)
  <2>1. Len(us) \in Nat /\ Len(hs) \in Nat /\ Len(ru) \in Nat /\ Len(rh) \in Nat /\ Len(arena) \in Nat
    BY <1>2, <1>3, <1>4, <1>5 DEF RefsIn
  <2> QED BY <2>1, <1>3, <1>4, <1>5
<1>14. q.urls = cu /\ q.hosts = ch /\ q.strings = arena /\ q.id = id /\ q.lo = lo /\ q.hi = hi /\ q.maxRows = 0
  BY <1>1
<1>15. Sound(q)
  BY <1>5, <1>7, <1>8, <1>12, <1>14 DEF Sound
<1> QED BY <1>8, <1>9, <1>10, <1>11, <1>13, <1>14, <1>15 DEF Carries

-----------------------------------------------------------------------------
(* What the operations make of sound partitions. *)

\* The hosts are within the range the file states.
Ranged(q) == q.lo \in Keys /\ q.hi \in Keys /\ \A h \in HostsOf(q.hosts) : q.lo <= h /\ h <= q.hi

LEMMA HostsAreKeys ==
  ASSUME NEW hosts, NEW strings, HostsSound(hosts, strings)
  PROVE  HostsOf(hosts) \subseteq Keys
<1>1. hosts \in Seq(HostRows(Len(strings)))
  BY DEF HostsSound
<1>2. \A i \in 1..Len(hosts) : hosts[i] \in HostRows(Len(strings))
  BY <1>1
<1>3. \A i \in 1..Len(hosts) : hosts[i].host \in Keys
  BY <1>2, HostTyped
<1> QED BY <1>3 DEF HostsOf

\* The rows of the hosts H.
LEMMA OfHostsURLs ==
  ASSUME NEW urls, NEW strings, URLsSound(urls, strings), NEW H
  PROVE  /\ URLsSound(OfHosts(urls, H), strings)
         /\ RowSet(OfHosts(urls, H), strings) = {x \in RowSet(urls, strings) : x.host \in H}
         /\ \A i \in 1..Len(OfHosts(urls, H)) : OfHosts(urls, H)[i].host \in H
                                               /\ \E j \in 1..Len(urls) : OfHosts(urls, H)[i] = urls[j]
<1> DEFINE T == {r \in Range(urls) : r.host \in H}
           t == OfHosts(urls, H)
<1>1. urls \in Seq(URLRows(Len(strings)))
  BY DEF URLsSound
<1>2. Selects(t, urls, T)
  BY <1>1, PickSelects DEF OfHosts
<1>3. \A i \in 1..Len(urls) : urls[i] \in T <=> urls[i].host \in H
  BY <1>1 DEF Range
<1> HIDE DEF T, t
<1>4. URLsSound(t, strings)
  BY <1>2, SelectURLs
<1>5. Among(t, urls, T)
  BY <1>1, <1>2, SelectsHas
<1>6. /\ \A j \in 1..Len(t) : \E i \in 1..Len(urls) : t[j] = urls[i] /\ urls[i].host \in H
      /\ \A i \in 1..Len(urls) : urls[i].host \in H => \E j \in 1..Len(t) : t[j] = urls[i]
  BY <1>3, <1>5 DEF Among
<1>7. \A x \in RowSet(t, strings) : x \in RowSet(urls, strings) /\ x.host \in H
  <2> SUFFICES ASSUME NEW j \in 1..Len(t), NEW x, x = Resolved(t[j], strings)
               PROVE  x \in RowSet(urls, strings) /\ x.host \in H
    BY DEF RowSet
  <2>1. PICK i \in 1..Len(urls) : t[j] = urls[i] /\ urls[i].host \in H
    BY <1>6
  <2>2. x = Resolved(urls[i], strings)
    BY <2>1
  <2>3. x.host = urls[i].host
    BY <2>2, ResolvedKeeps
  <2> QED BY <2>1, <2>2, <2>3 DEF RowSet
<1>8. \A x \in RowSet(urls, strings) : x.host \in H => x \in RowSet(t, strings)
  <2> SUFFICES ASSUME NEW i \in 1..Len(urls), NEW x, x = Resolved(urls[i], strings), x.host \in H
               PROVE  x \in RowSet(t, strings)
    BY DEF RowSet
  <2>1. urls[i].host \in H
    BY ResolvedKeeps
  <2>2. PICK j \in 1..Len(t) : t[j] = urls[i]
    BY <1>6, <2>1
  <2> QED BY <2>2 DEF RowSet
<1>9. RowSet(t, strings) = {x \in RowSet(urls, strings) : x.host \in H}
  BY <1>7, <1>8
<1>10. \A i \in 1..Len(t) : t[i].host \in H /\ \E j \in 1..Len(urls) : t[i] = urls[j]
  BY <1>6
<1> QED BY <1>4, <1>9, <1>10 DEF t

LEMMA OfHostsHosts ==
  ASSUME NEW hosts, NEW strings, HostsSound(hosts, strings), NEW H
  PROVE  /\ HostsSound(OfHosts(hosts, H), strings)
         /\ HostsOf(OfHosts(hosts, H)) = HostsOf(hosts) \cap H
<1> DEFINE T == {r \in Range(hosts) : r.host \in H}
           t == OfHosts(hosts, H)
<1>1. hosts \in Seq(HostRows(Len(strings)))
  BY DEF HostsSound
<1>2. Selects(t, hosts, T)
  BY <1>1, PickSelects DEF OfHosts
<1>3. \A i \in 1..Len(hosts) : hosts[i] \in T <=> hosts[i].host \in H
  BY <1>1 DEF Range
<1> HIDE DEF T, t
<1>4. HostsSound(t, strings)
  BY <1>2, SelectHosts
<1>5. Among(t, hosts, T)
  BY <1>1, <1>2, SelectsHas
<1>6. /\ \A j \in 1..Len(t) : \E i \in 1..Len(hosts) : t[j] = hosts[i] /\ hosts[i].host \in H
      /\ \A i \in 1..Len(hosts) : hosts[i].host \in H => \E j \in 1..Len(t) : t[j] = hosts[i]
  BY <1>3, <1>5 DEF Among
<1>7. \A x \in HostsOf(t) : x \in HostsOf(hosts) /\ x \in H
  BY <1>6 DEF HostsOf
<1>8. \A x \in HostsOf(hosts) : x \in H => x \in HostsOf(t)
  <2> SUFFICES ASSUME NEW i \in 1..Len(hosts), hosts[i].host \in H PROVE hosts[i].host \in HostsOf(t)
    BY DEF HostsOf
  <2>1. PICK j \in 1..Len(t) : t[j] = hosts[i]
    BY <1>6
  <2> QED BY <2>1 DEF HostsOf
<1>9. HostsOf(t) = HostsOf(hosts) \cap H
  BY <1>7, <1>8
<1> QED BY <1>4, <1>9 DEF t

\* One side of a split or an extraction, before its range is set.
Side(p, H, q) ==
  /\ Sound(q) /\ q.maxRows = 0 /\ Len(q.strings) <= Len(q.urls) + Len(q.hosts)
  /\ RowSet(q.urls, q.strings) = {x \in RowSet(p.urls, p.strings) : x.host \in H}
  /\ HostsOf(q.hosts) = HostsOf(p.hosts) \cap H

LEMMA SideHolds ==
  ASSUME NEW p, Sound(p), NEW H, NEW id, NEW lo, NEW hi, NEW q,
         q = rebaseArena(Plain(id, lo, hi, OfHosts(p.urls, H), OfHosts(p.hosts, H), p.strings))
  PROVE  Side(p, H, q) /\ q.lo = lo /\ q.hi = hi /\ SameHosts(q.hosts, OfHosts(p.hosts, H))
<1> DEFINE us == OfHosts(p.urls, H)
           hs == OfHosts(p.hosts, H)
<1>1. PICK strings : strings = p.strings /\ strings \in Seq(Int)
  BY DEF Sound
<1>2. URLsSound(p.urls, strings) /\ HostsSound(p.hosts, strings) /\ Homed(p.urls, p.hosts)
  BY <1>1 DEF Sound
<1>3. /\ URLsSound(us, strings)
      /\ RowSet(us, strings) = {x \in RowSet(p.urls, strings) : x.host \in H}
      /\ \A i \in 1..Len(us) : us[i].host \in H /\ \E j \in 1..Len(p.urls) : us[i] = p.urls[j]
  BY <1>2, OfHostsURLs
<1>4. HostsSound(hs, strings) /\ HostsOf(hs) = HostsOf(p.hosts) \cap H
  BY <1>2, OfHostsHosts
<1> HIDE DEF us, hs
<1>5. Homed(us, hs)
  <2> SUFFICES ASSUME NEW i \in 1..Len(us) PROVE us[i].host \in HostsOf(hs)
    BY DEF Homed
  <2>1. PICK j \in 1..Len(p.urls) : us[i] = p.urls[j]
    BY <1>3
  <2>2. us[i].host \in HostsOf(p.hosts)
    BY <1>2, <2>1 DEF Homed
  <2> QED BY <1>3, <1>4, <2>2
<1>6. q = rebaseArena(Plain(id, lo, hi, us, hs, strings))
  BY <1>1 DEF us, hs
<1>7. Carries(q, us, hs, strings) /\ q.id = id /\ q.lo = lo /\ q.hi = hi /\ q.maxRows = 0
  BY <1>1, <1>3, <1>4, <1>5, <1>6, RebaseHolds
<1>8. Len(q.strings) <= Len(q.urls) + Len(q.hosts)
  BY <1>7 DEF Carries, SameHosts
<1>9. Side(p, H, q)
  BY <1>1, <1>3, <1>4, <1>7, <1>8 DEF Side, Carries
<1>10. SameHosts(q.hosts, hs)
  BY <1>7 DEF Carries
<1> QED BY <1>7, <1>9, <1>10 DEF hs

LEMMA SplitHolds ==
  ASSUME NEW p, Sound(p), Ranged(p), NEW at \in Keys, NEW below, below = {h \in Keys : h < at}
  PROVE  /\ Side(p, below, Split(p, at)[1]) /\ Ranged(Split(p, at)[1])
         /\ Side(p, Keys \ below, Split(p, at)[2]) /\ Ranged(Split(p, at)[2])
<1> DEFINE l == rebaseArena(Plain(p.id, p.lo, IF at = 0 THEN 0 ELSE at - 1,
                                  OfHosts(p.urls, below), OfHosts(p.hosts, below), p.strings))
           r == rebaseArena(Plain(p.id, at, p.hi, OfHosts(p.urls, Keys \ below),
                                  OfHosts(p.hosts, Keys \ below), p.strings))
<1>1. Split(p, at) = <<l, r>>
  BY DEF Split
<1>2. PICK end : end = (IF at = 0 THEN 0 ELSE at - 1)
  OBVIOUS
<1>3. Side(p, below, l) /\ l.lo = p.lo /\ l.hi = end
  <2>1. l = rebaseArena(Plain(p.id, p.lo, end, OfHosts(p.urls, below), OfHosts(p.hosts, below), p.strings))
    BY <1>2
  <2> HIDE DEF l
  <2> QED BY <2>1, SideHolds
<1>4. Side(p, Keys \ below, r) /\ r.lo = at /\ r.hi = p.hi
  <2> HIDE DEF r
  <2>1. r = rebaseArena(Plain(p.id, at, p.hi, OfHosts(p.urls, Keys \ below), OfHosts(p.hosts, Keys \ below), p.strings))
    BY DEF r
  <2> QED BY <2>1, SideHolds
<1> HIDE DEF l, r
<1>5. Keys \subseteq Nat /\ MaxKey \in Nat /\ end \in Keys /\ \A h \in Keys : h < at => h <= end
  BY <1>2, FormatAssumption DEF Keys
<1>6. Ranged(l)
  <2>1. HostsOf(l.hosts) = HostsOf(p.hosts) \cap below
    BY <1>3 DEF Side
  <2> QED BY <1>3, <1>5, <2>1 DEF Ranged
<1>7. Ranged(r)
  <2>1. HostsOf(r.hosts) = HostsOf(p.hosts) \cap (Keys \ below)
    BY <1>4 DEF Side
  <2>2. \A h \in Keys \ below : at <= h
    BY <1>5
  <2> QED BY <1>4, <2>1, <2>2 DEF Ranged
<1> QED BY <1>1, <1>3, <1>4, <1>6, <1>7

\* The range of a sorted host table.
LEMMA SortedRange ==
  ASSUME NEW hosts, NEW strings, HostsSound(hosts, strings), sortedHosts(hosts), hosts # <<>>
  PROVE  /\ hosts[1].host \in Keys /\ hosts[Len(hosts)].host \in Keys
         /\ \A h \in HostsOf(hosts) : hosts[1].host <= h /\ h <= hosts[Len(hosts)].host
<1>1. hosts \in Seq(HostRows(Len(strings)))
  BY DEF HostsSound
<1>2. PICK n \in Nat : n = Len(hosts) /\ n > 0
  BY <1>1
<1>3. \A i \in 1..n : hosts[i] \in HostRows(Len(strings))
  BY <1>1, <1>2
<1> DEFINE v == [i \in 1..n |-> hosts[i].host]
<1>4. \A i \in 1..n : v[i] \in Keys /\ v[i] = hosts[i].host
  BY <1>3, HostTyped
<1>5. \A i \in 1..n : v[i] \in Nat
  BY <1>4, FormatAssumption DEF Keys
<1>6. \A i \in 2..n : v[i - 1] <= v[i]
  <2> SUFFICES ASSUME NEW i \in 2..n PROVE v[i - 1] <= v[i]
    OBVIOUS
  <2>1. i \in 1..n /\ i - 1 \in 1..n
    BY <1>2
  <2>2. hosts[i].host >= hosts[i - 1].host
    BY <1>2 DEF sortedHosts
  <2> HIDE DEF v
  <2>3. v[i] >= v[i - 1]
    BY <1>4, <2>1, <2>2
  <2> QED BY <2>1, <2>3, <1>5
<1> HIDE DEF v
<1>7. \A i \in 1..n : \A k \in i..n : v[i] <= v[k]
  BY <1>5, <1>6, Ascends
<1>8. ASSUME NEW i \in 1..n PROVE v[1] <= v[i] /\ v[i] <= v[n]
  <2>1. 1 \in 1..n /\ i \in 1..n /\ n \in i..n
    BY <1>2
  <2> QED BY <1>7, <2>1
<1>9. 1 \in 1..n /\ n \in 1..n
  BY <1>2
<1>10. \A h \in HostsOf(hosts) : \E i \in 1..n : h = v[i]
  BY <1>2, <1>4 DEF HostsOf
<1> QED BY <1>2, <1>4, <1>8, <1>9, <1>10

LEMMA NoHosts ==
  ASSUME NEW hosts, hosts = <<>>
  PROVE  HostsOf(hosts) = {}
  BY DEF HostsOf

\* sortedHosts looks only at the hosts.
LEMMA SortedSame ==
  ASSUME NEW a, NEW b, SameHosts(a, b), Len(b) \in Nat, sortedHosts(a)
  PROVE  sortedHosts(b)
<1> SUFFICES ASSUME NEW i \in 2..Len(b) PROVE b[i].host >= b[i - 1].host
  BY DEF sortedHosts
<1>1. i \in 1..Len(b) /\ i - 1 \in 1..Len(b) /\ i \in 2..Len(a)
  BY DEF SameHosts
<1>2. a[i].host >= a[i - 1].host
  BY <1>1 DEF sortedHosts
<1> QED BY <1>1, <1>2 DEF SameHosts

LEMMA ExtractSide ==
  ASSUME NEW p, Sound(p), NEW H, NEW q,
         q = rebaseArena(hostRange(Plain(p.id, 0, 0, OfHosts(p.urls, H), OfHosts(p.hosts, H), p.strings)))
  PROVE  Side(p, H, q) /\ (sortedHosts(q.hosts) => Ranged(q))
<1> DEFINE us == OfHosts(p.urls, H)
           hs == OfHosts(p.hosts, H)
           lo == IF hs = <<>> THEN 0 ELSE hs[1].host
           hi == IF hs = <<>> THEN 0 ELSE hs[Len(hs)].host
<1>1. hostRange(Plain(p.id, 0, 0, us, hs, p.strings)) = Plain(p.id, lo, hi, us, hs, p.strings)
  <2> HIDE DEF us, hs
  <2>1. CASE hs = <<>>
    BY <2>1 DEF hostRange, Plain
  <2>2. CASE hs # <<>>
    BY <2>2 DEF hostRange, Plain
  <2> QED BY <2>1, <2>2
<1>2. q = rebaseArena(Plain(p.id, lo, hi, us, hs, p.strings))
  BY <1>1
<1>3. Side(p, H, q) /\ q.lo = lo /\ q.hi = hi /\ SameHosts(q.hosts, hs)
  <2> HIDE DEF lo, hi
  <2> QED BY <1>2, SideHolds
<1>4. PICK strings : strings = p.strings /\ HostsSound(hs, strings)
  BY OfHostsHosts DEF Sound
<1> HIDE DEF us, hs
<1>5. ASSUME sortedHosts(q.hosts) PROVE Ranged(q)
  <2>1. hs \in Seq(HostRows(Len(strings)))
    BY <1>4 DEF HostsSound
  <2>2. sortedHosts(hs)
    BY <1>3, <1>5, <2>1, SortedSame
  <2>3. HostsOf(q.hosts) = HostsOf(hs)
    BY <1>3, SameHostSet
  <2>4. CASE hs = <<>>
    <3>1. HostsOf(hs) = {}
      BY <2>4, NoHosts
    <3>2. 0 \in Keys
      BY FormatAssumption DEF Keys
    <3> QED BY <1>3, <2>3, <2>4, <3>1, <3>2 DEF Ranged
  <2>5. CASE hs # <<>>
    <3>1. /\ hs[1].host \in Keys /\ hs[Len(hs)].host \in Keys
          /\ \A h \in HostsOf(hs) : hs[1].host <= h /\ h <= hs[Len(hs)].host
      BY <1>4, <2>2, <2>5, SortedRange
    <3>2. q.lo = hs[1].host /\ q.hi = hs[Len(hs)].host
      BY <1>3, <2>5
    <3> QED BY <2>3, <3>1, <3>2 DEF Ranged
  <2> QED BY <2>4, <2>5
<1> QED BY <1>3, <1>5

LEMMA ExtractHolds ==
  ASSUME NEW p, Sound(p), NEW moving
  PROVE  /\ Side(p, moving, Extract(p, moving)[1])
         /\ sortedHosts(Extract(p, moving)[1].hosts) => Ranged(Extract(p, moving)[1])
         /\ Side(p, Keys \ moving, Extract(p, moving)[2])
         /\ sortedHosts(Extract(p, moving)[2].hosts) => Ranged(Extract(p, moving)[2])
<1> DEFINE Cut1(S) == rebaseArena(hostRange(Plain(p.id, 0, 0, OfHosts(p.urls, S), OfHosts(p.hosts, S), p.strings)))
<1>1. Extract(p, moving) = <<Cut1(moving), Cut1(Keys \ moving)>>
  BY DEF Extract
<1>2. \A S : Side(p, S, Cut1(S)) /\ (sortedHosts(Cut1(S).hosts) => Ranged(Cut1(S)))
  BY ExtractSide
<1> HIDE DEF Cut1
<1> QED BY <1>1, <1>2

LEMMA CompactHolds ==
  ASSUME NEW p, Sound(p), Ranged(p), NEW q, q = Compact(p)
  PROVE  /\ Sound(q) /\ Ranged(q) /\ q.maxRows = 0 /\ Len(q.strings) <= Len(q.urls) + Len(q.hosts)
         /\ RowSet(q.urls, q.strings) = {x \in RowSet(p.urls, p.strings) : x.status # StatusGone}
         /\ HostsOf(q.hosts) = HostsOf(p.hosts)
<1> DEFINE T == {r \in Range(p.urls) : r.status # StatusGone}
           us == Pick(p.urls, T)
<1>1. PICK strings : strings = p.strings /\ strings \in Seq(Int)
  BY DEF Sound
<1>2. PICK urls, hosts : /\ urls = p.urls /\ hosts = p.hosts
                         /\ URLsSound(urls, strings) /\ HostsSound(hosts, strings) /\ Homed(urls, hosts)
  BY <1>1 DEF Sound
<1>3. urls \in Seq(URLRows(Len(strings)))
  BY <1>2 DEF URLsSound
<1>4. Selects(us, urls, T)
  BY <1>2, <1>3, PickSelects
<1>5. \A i \in 1..Len(urls) : urls[i] \in T <=> urls[i].status # StatusGone
  BY <1>2, <1>3 DEF Range
<1>6. q = rebaseArena(Plain(p.id, p.lo, p.hi, us, hosts, strings))
  BY <1>1, <1>2 DEF Compact
<1> HIDE DEF T, us
<1>7. URLsSound(us, strings)
  BY <1>2, <1>4, SelectURLs
<1>8. Among(us, urls, T)
  BY <1>3, <1>4, SelectsHas
<1>9. /\ \A j \in 1..Len(us) : \E i \in 1..Len(urls) : us[j] = urls[i] /\ urls[i].status # StatusGone
      /\ \A i \in 1..Len(urls) : urls[i].status # StatusGone => \E j \in 1..Len(us) : us[j] = urls[i]
  BY <1>5, <1>8 DEF Among
<1>10. \A x \in RowSet(us, strings) : x \in RowSet(urls, strings) /\ x.status # StatusGone
  <2> SUFFICES ASSUME NEW j \in 1..Len(us), NEW x, x = Resolved(us[j], strings)
               PROVE  x \in RowSet(urls, strings) /\ x.status # StatusGone
    BY DEF RowSet
  <2>1. PICK i \in 1..Len(urls) : us[j] = urls[i] /\ urls[i].status # StatusGone
    BY <1>9
  <2>2. x = Resolved(urls[i], strings)
    BY <2>1
  <2>3. x.status = urls[i].status
    BY <2>2, ResolvedKeeps
  <2> QED BY <2>1, <2>2, <2>3 DEF RowSet
<1>11. \A x \in RowSet(urls, strings) : x.status # StatusGone => x \in RowSet(us, strings)
  <2> SUFFICES ASSUME NEW i \in 1..Len(urls), NEW x, x = Resolved(urls[i], strings), x.status # StatusGone
               PROVE  x \in RowSet(us, strings)
    BY DEF RowSet
  <2>1. urls[i].status # StatusGone
    BY ResolvedKeeps
  <2>2. PICK j \in 1..Len(us) : us[j] = urls[i]
    BY <1>9, <2>1
  <2> QED BY <2>2 DEF RowSet
<1>12. RowSet(us, strings) = {x \in RowSet(urls, strings) : x.status # StatusGone}
  BY <1>10, <1>11
<1>13. Homed(us, hosts)
  BY <1>2, <1>9 DEF Homed
<1>14. Carries(q, us, hosts, strings) /\ q.id = p.id /\ q.lo = p.lo /\ q.hi = p.hi /\ q.maxRows = 0
  BY <1>1, <1>2, <1>6, <1>7, <1>13, RebaseHolds
<1>15. Len(q.strings) <= Len(q.urls) + Len(q.hosts)
  BY <1>14 DEF Carries, SameHosts
<1>16. Ranged(q)
  BY <1>2, <1>14 DEF Ranged, Carries
<1> QED BY <1>1, <1>2, <1>12, <1>14, <1>15, <1>16 DEF Carries

\* The merge of two partitions, a before b.
MergeOf(a, b) ==
  LET arena == Dict(Referenced(a.urls, a.strings) \o Referenced(b.urls, b.strings)
                    \o Referenced(a.hosts, a.strings) \o Referenced(b.hosts, b.strings))
  IN Plain(a.id, a.lo, Max({a.hi, b.hi}),
           Copied(a.urls, a.strings, arena) \o Copied(b.urls, b.strings, arena),
           Copied(a.hosts, a.strings, arena) \o Copied(b.hosts, b.strings, arena), arena)

\* m holds what a and b hold.
HoldsBoth(m, a, b) ==
  /\ Sound(m) /\ m.maxRows = 0 /\ Len(m.strings) <= Len(m.urls) + Len(m.hosts)
  /\ RowSet(m.urls, m.strings) = RowSet(a.urls, a.strings) \cup RowSet(b.urls, b.strings)
  /\ HostsOf(m.hosts) = HostsOf(a.hosts) \cup HostsOf(b.hosts)

LEMMA GreaterKey ==
  ASSUME NEW x \in Keys, NEW y \in Keys
  PROVE  Max({x, y}) \in Keys /\ x <= Max({x, y}) /\ y <= Max({x, y})
<1>1. x \in Nat /\ y \in Nat
  BY FormatAssumption DEF Keys
<1>2. CASE x <= y
  <2>1. Max({x, y}) = y
    <3>1. y \in {x, y} /\ {x, y} \in SUBSET Nat /\ \A z \in {x, y} : z <= y
      BY <1>1, <1>2
    <3> QED BY <3>1, MaxIs
  <2> QED BY <1>1, <1>2, <2>1
<1>3. CASE ~(x <= y)
  <2>1. Max({x, y}) = x
    <3>1. x \in {x, y} /\ {x, y} \in SUBSET Nat /\ \A z \in {x, y} : z <= x
      BY <1>1, <1>3
    <3> QED BY <3>1, MaxIs
  <2> QED BY <1>1, <1>3, <2>1
<1> QED BY <1>2, <1>3

LEMMA MergeOrdered ==
  ASSUME NEW a, Sound(a), Ranged(a), NEW b, Sound(b), Ranged(b), a.lo <= b.lo,
         HostsOf(a.hosts) \cap HostsOf(b.hosts) = {}, NEW m, m = MergeOf(a, b)
  PROVE  HoldsBoth(m, a, b) /\ Ranged(m)
<1>1. PICK sa, au, ah : /\ sa = a.strings /\ au = a.urls /\ ah = a.hosts /\ sa \in Seq(Int)
                        /\ URLsSound(au, sa) /\ HostsSound(ah, sa) /\ Homed(au, ah)
  BY DEF Sound
<1>2. PICK bs, bu, bh : /\ bs = b.strings /\ bu = b.urls /\ bh = b.hosts /\ bs \in Seq(Int)
                        /\ URLsSound(bu, bs) /\ HostsSound(bh, bs) /\ Homed(bu, bh)
  BY DEF Sound
<1> DEFINE r1 == Referenced(au, sa)
           r2 == Referenced(bu, bs)
           r3 == Referenced(ah, sa)
           r4 == Referenced(bh, bs)
           arena == Dict(r1 \o r2 \o r3 \o r4)
           cau == Copied(au, sa, arena)
           cbu == Copied(bu, bs, arena)
           cah == Copied(ah, sa, arena)
           cbh == Copied(bh, bs, arena)
           top == Max({a.hi, b.hi})
<1>3. m = [id |-> a.id, lo |-> a.lo, hi |-> top, urls |-> cau \o cbu, hosts |-> cah \o cbh,
           strings |-> arena, sched |-> FALSE, maxRows |-> 0]
  BY <1>1, <1>2 DEF MergeOf, Plain
<1> HIDE DEF arena, cau, cbu, cah, cbh, top
<1>4. RefsIn(au, Len(sa)) /\ RefsIn(ah, Len(sa)) /\ RefsIn(bu, Len(bs)) /\ RefsIn(bh, Len(bs))
  BY <1>1, <1>2, SoundRefs
<1>5. /\ r1 \in Seq(Int) /\ Len(r1) <= Len(au) /\ Covers(au, sa, r1)
      /\ r3 \in Seq(Int) /\ Len(r3) <= Len(ah) /\ Covers(ah, sa, r3)
  BY <1>1, <1>4, ReferencedIs
<1>6. /\ r2 \in Seq(Int) /\ Len(r2) <= Len(bu) /\ Covers(bu, bs, r2)
      /\ r4 \in Seq(Int) /\ Len(r4) <= Len(bh) /\ Covers(bh, bs, r4)
  BY <1>2, <1>4, ReferencedIs
<1> HIDE DEF r1, r2, r3, r4
<1>7. /\ arena \in Seq(Int) /\ Len(arena) <= Len(r1) + Len(r2) + Len(r3) + Len(r4)
      /\ Range(r1) \subseteq Range(arena) /\ Range(r2) \subseteq Range(arena)
      /\ Range(r3) \subseteq Range(arena) /\ Range(r4) \subseteq Range(arena)
  BY <1>5, <1>6, DictOf4 DEF arena
<1>8. Covers(au, sa, arena) /\ Covers(bu, bs, arena) /\ Covers(ah, sa, arena) /\ Covers(bh, bs, arena)
  BY <1>5, <1>6, <1>7, CoversMore
<1>9. /\ URLsSound(cau, arena) /\ SameURLs(cau, arena, au, sa)
      /\ HostsSound(cah, arena) /\ SameHosts(cah, ah)
  BY <1>1, <1>7, <1>8, CopyURLs, CopyHosts DEF cau, cah
<1>10. /\ URLsSound(cbu, arena) /\ SameURLs(cbu, arena, bu, bs)
       /\ HostsSound(cbh, arena) /\ SameHosts(cbh, bh)
  BY <1>2, <1>7, <1>8, CopyURLs, CopyHosts DEF cbu, cbh
<1>11. RowSet(cau, arena) = RowSet(au, sa) /\ \A i \in 1..Len(au) : cau[i].host = au[i].host
  <2>1. PICK u, w : u = cau /\ w = arena
    OBVIOUS
  <2>2. SameURLs(u, w, au, sa)
    BY <1>9, <2>1
  <2>3. RowSet(u, w) = RowSet(au, sa) /\ \A i \in 1..Len(au) : u[i].host = au[i].host
    BY <2>2, SameRows
  <2> QED BY <2>1, <2>3
<1>12. RowSet(cbu, arena) = RowSet(bu, bs) /\ \A i \in 1..Len(bu) : cbu[i].host = bu[i].host
  BY <1>10, SameRows
<1>13. HostsOf(cah) = HostsOf(ah) /\ HostsOf(cbh) = HostsOf(bh)
  BY <1>9, <1>10, SameHostSet
<1>14. Len(cau) = Len(au) /\ Len(cbu) = Len(bu) /\ Len(cah) = Len(ah) /\ Len(cbh) = Len(bh)
  BY <1>9, <1>10 DEF SameURLs, SameHosts
<1>15. Homed(cau, cah) /\ Homed(cbu, cbh)
  BY <1>1, <1>2, <1>11, <1>12, <1>13, <1>14 DEF Homed
<1>16. HostsOf(cah) \cap HostsOf(cbh) = {}
  BY <1>1, <1>2, <1>13
<1>17. HostsSound(cah \o cbh, arena) /\ HostsOf(cah \o cbh) = HostsOf(cah) \cup HostsOf(cbh)
  BY <1>9, <1>10, <1>16, JoinHosts
<1>18. ASSUME NEW i \in 1..Len(cau), NEW j \in 1..Len(cbu) PROVE KeyOf(cau[i]) # KeyOf(cbu[j])
  <2>1. cau[i].host \in HostsOf(cah) /\ cbu[j].host \in HostsOf(cbh)
    BY <1>15 DEF Homed
  <2>2. cau[i].host # cbu[j].host
    BY <2>1, <1>16
  <2> QED BY <2>2 DEF KeyOf
<1>19. URLsSound(cau \o cbu, arena) /\ RowSet(cau \o cbu, arena) = RowSet(cau, arena) \cup RowSet(cbu, arena)
  BY <1>9, <1>10, <1>18, JoinURLs
<1> DEFINE U == cau \o cbu
           K == cah \o cbh
<1>20. Len(U) = Len(cau) + Len(cbu) /\ Homed(U, K)
  <2>1. cau \in Seq(URLRows(Len(arena))) /\ cbu \in Seq(URLRows(Len(arena)))
    BY <1>9, <1>10 DEF URLsSound
  <2>2. Halved(U, cau, cbu)
    BY <2>1, JoinHalves
  <2>3. HostsOf(K) = HostsOf(cah) \cup HostsOf(cbh)
    BY <1>17
  <2> HIDE DEF U, K
  <2>4. ASSUME NEW i \in 1..Len(U) PROVE U[i].host \in HostsOf(K)
    <3>1. i \in 1..Len(cau) \/ (i - Len(cau) \in 1..Len(cbu) /\ U[i] = cbu[i - Len(cau)])
      BY <2>2 DEF Halved
    <3>2. CASE i \in 1..Len(cau)
      <4>1. U[i] = cau[i] /\ cau[i].host \in HostsOf(cah)
        BY <3>2, <2>2, <1>15 DEF Halved, Homed
      <4> QED BY <4>1, <2>3
    <3>3. CASE i - Len(cau) \in 1..Len(cbu) /\ U[i] = cbu[i - Len(cau)]
      <4>1. PICK k \in 1..Len(cbu) : U[i] = cbu[k]
        BY <3>3
      <4>2. cbu[k].host \in HostsOf(cbh)
        BY <1>15 DEF Homed
      <4> QED BY <4>1, <4>2, <2>3
    <3> QED BY <3>1, <3>2, <3>3
  <2> QED BY <2>2, <2>4 DEF Halved, Homed
<1>21. Len(K) = Len(cah) + Len(cbh)
  <2>1. cah \in Seq(HostRows(Len(arena))) /\ cbh \in Seq(HostRows(Len(arena)))
    BY <1>9, <1>10 DEF HostsSound
  <2>2. Halved(K, cah, cbh)
    BY <2>1, JoinHalves
  <2> HIDE DEF K
  <2> QED BY <2>2 DEF Halved
<1> HIDE DEF U, K
<1>22. m.urls = U /\ m.hosts = K /\ m.strings = arena /\ m.lo = a.lo /\ m.hi = top /\ m.maxRows = 0
  BY <1>3 DEF U, K
<1>23. Len(arena) <= Len(U) + Len(K)
  <2>1. /\ Len(au) \in Nat /\ Len(bu) \in Nat /\ Len(ah) \in Nat /\ Len(bh) \in Nat
        /\ Len(r1) \in Nat /\ Len(r2) \in Nat /\ Len(r3) \in Nat /\ Len(r4) \in Nat /\ Len(arena) \in Nat
    BY <1>4, <1>5, <1>6, <1>7 DEF RefsIn
  <2> QED BY <2>1, <1>5, <1>6, <1>7, <1>14, <1>20, <1>21
<1>24. Sound(m)
  BY <1>7, <1>17, <1>19, <1>20, <1>22 DEF Sound, U, K
<1>25. HostsOf(K) = HostsOf(a.hosts) \cup HostsOf(b.hosts)
  BY <1>1, <1>2, <1>13, <1>17 DEF K
<1>26. RowSet(U, arena) = RowSet(a.urls, a.strings) \cup RowSet(b.urls, b.strings)
  BY <1>1, <1>2, <1>11, <1>12, <1>19 DEF U
<1>27. HoldsBoth(m, a, b)
  BY <1>22, <1>23, <1>24, <1>25, <1>26 DEF HoldsBoth
<1>28. Ranged(m)
  <2>1. top \in Keys /\ a.hi <= top /\ b.hi <= top
    BY GreaterKey DEF Ranged, top
  <2>2. Keys \subseteq Nat
    BY FormatAssumption DEF Keys
  <2>3. HostsOf(a.hosts) \subseteq Keys /\ HostsOf(b.hosts) \subseteq Keys
    BY <1>1, <1>2, HostsAreKeys
  <2>4. \A h \in HostsOf(a.hosts) : a.lo <= h /\ h <= top
    <3> SUFFICES ASSUME NEW h \in HostsOf(a.hosts) PROVE a.lo <= h /\ h <= top
      OBVIOUS
    <3>1. h \in Nat /\ a.hi \in Nat /\ top \in Nat /\ a.lo <= h /\ h <= a.hi
      BY <2>1, <2>2, <2>3 DEF Ranged
    <3> QED BY <3>1, <2>1
  <2>5. \A h \in HostsOf(b.hosts) : a.lo <= h /\ h <= top
    <3> SUFFICES ASSUME NEW h \in HostsOf(b.hosts) PROVE a.lo <= h /\ h <= top
      OBVIOUS
    <3>1. h \in Nat /\ b.hi \in Nat /\ top \in Nat /\ b.lo <= h /\ h <= b.hi /\ a.lo \in Nat /\ b.lo \in Nat
      BY <2>1, <2>2, <2>3 DEF Ranged
    <3> QED BY <3>1, <2>1
  <2>6. a.lo \in Keys
    BY DEF Ranged
  <2> QED BY <1>22, <1>25, <2>1, <2>4, <2>5, <2>6 DEF Ranged
<1> QED BY <1>27, <1>28

LEMMA MergeFile ==
  ASSUME NEW p, Sound(p), Ranged(p), NEW q, Sound(q), Ranged(q),
         HostsOf(p.hosts) \cap HostsOf(q.hosts) = {}, NEW m \in Merge(p, q)
  PROVE  HoldsBoth(m, p, q) /\ Ranged(m)
<1>1. p.lo \in Nat /\ q.lo \in Nat
  BY FormatAssumption DEF Ranged, Keys
<1>2. CASE q.lo < p.lo
  <2>1. m = MergeOf(q, p)
    BY <1>2 DEF Merge, MergeOf
  <2>2. q.lo <= p.lo
    BY <1>1, <1>2
  <2>3. HoldsBoth(m, q, p) /\ Ranged(m)
    BY <2>1, <2>2, MergeOrdered
  <2>4. HoldsBoth(m, p, q)
    BY <2>3 DEF HoldsBoth
  <2> QED BY <2>3, <2>4
<1>3. CASE ~(q.lo < p.lo)
  <2>1. m = MergeOf(p, q)
    BY <1>3 DEF Merge, MergeOf
  <2>2. p.lo <= q.lo
    BY <1>1, <1>3
  <2> QED BY <2>1, <2>2, MergeOrdered
<1> QED BY <1>2, <1>3

-----------------------------------------------------------------------------
(* A frontier's checkpoint. *)

LEMMA ArrangedSelects ==
  ASSUME NEW X, NEW s \in Seq(X), NEW t, Placed(t, s, Len(s), X)
  PROVE  /\ Selects(t, s, X)
         /\ \A j \in 1..Len(t) : \E i \in 1..Len(s) : t[j] = s[i]
         /\ \A i \in 1..Len(s) : \E j \in 1..Len(t) : t[j] = s[i]
<1>1. Selects(t, s, X)
  BY DEF Placed, Selects
<1>2. Among(t, s, X)
  BY <1>1, SelectsHas
<1>3. \A i \in 1..Len(s) : s[i] \in X
  OBVIOUS
<1> QED BY <1>1, <1>2, <1>3 DEF Among

LEMMA CheckpointHolds ==
  ASSUME NEW strings \in Seq(Int), NEW urls, URLsSound(urls, strings), NEW hosts, HostsSound(hosts, strings),
         Homed(urls, hosts), NEW id, NEW wheelOn, NEW cap, NEW c \in Checkpoint(id, urls, hosts, strings, wheelOn, cap)
  PROVE  /\ Sound(c) /\ c.strings = strings /\ c.maxRows = cap
         /\ RowSet(c.urls, c.strings) = RowSet(urls, strings) /\ HostsOf(c.hosts) = HostsOf(hosts)
         /\ sortedHosts(c.hosts) => Ranged(c)
<1>1. PICK us \in SliceSort(urls, sortedURLs), hs \in SliceSort(hosts, sortedHosts) :
        c = hostRange([id |-> id, lo |-> 0, hi |-> MaxKey, urls |-> us, hosts |-> hs,
                       strings |-> strings, sched |-> wheelOn, maxRows |-> cap])
  BY DEF Checkpoint
<1>2. urls \in Seq(URLRows(Len(strings))) /\ hosts \in Seq(HostRows(Len(strings)))
  BY DEF URLsSound, HostsSound
<1>3. Placed(us, urls, Len(urls), URLRows(Len(strings)))
  BY <1>2, SortURLs
<1>4. Placed(hs, hosts, Len(hosts), HostRows(Len(strings)))
  BY <1>2, SortHosts
<1>5. /\ Selects(us, urls, URLRows(Len(strings)))
      /\ \A j \in 1..Len(us) : \E i \in 1..Len(urls) : us[j] = urls[i]
      /\ \A i \in 1..Len(urls) : \E j \in 1..Len(us) : us[j] = urls[i]
  BY <1>2, <1>3, ArrangedSelects
<1>6. /\ Selects(hs, hosts, HostRows(Len(strings)))
      /\ \A j \in 1..Len(hs) : \E i \in 1..Len(hosts) : hs[j] = hosts[i]
      /\ \A i \in 1..Len(hosts) : \E j \in 1..Len(hs) : hs[j] = hosts[i]
  BY <1>2, <1>4, ArrangedSelects
<1>7. URLsSound(us, strings) /\ HostsSound(hs, strings)
  BY <1>5, <1>6, SelectURLs, SelectHosts
<1>8. RowSet(us, strings) = RowSet(urls, strings)
  <2>1. \A x \in RowSet(us, strings) : x \in RowSet(urls, strings)
    BY <1>5 DEF RowSet
  <2>2. \A x \in RowSet(urls, strings) : x \in RowSet(us, strings)
    <3> SUFFICES ASSUME NEW i \in 1..Len(urls) PROVE Resolved(urls[i], strings) \in RowSet(us, strings)
      BY DEF RowSet
    <3>1. PICK j \in 1..Len(us) : us[j] = urls[i]
      BY <1>5
    <3> QED BY <3>1 DEF RowSet
  <2> QED BY <2>1, <2>2
<1>9. HostsOf(hs) = HostsOf(hosts)
  <2>1. \A x \in HostsOf(hs) : x \in HostsOf(hosts)
    <3> SUFFICES ASSUME NEW j \in 1..Len(hs) PROVE hs[j].host \in HostsOf(hosts)
      BY DEF HostsOf
    <3>1. PICK i \in 1..Len(hosts) : hs[j] = hosts[i]
      BY <1>6
    <3> QED BY <3>1 DEF HostsOf
  <2>2. \A x \in HostsOf(hosts) : x \in HostsOf(hs)
    <3> SUFFICES ASSUME NEW i \in 1..Len(hosts) PROVE hosts[i].host \in HostsOf(hs)
      BY DEF HostsOf
    <3>1. PICK j \in 1..Len(hs) : hs[j] = hosts[i]
      BY <1>6
    <3> QED BY <3>1 DEF HostsOf
  <2> QED BY <2>1, <2>2
<1>10. Homed(us, hs)
  <2> SUFFICES ASSUME NEW j \in 1..Len(us) PROVE us[j].host \in HostsOf(hs)
    BY DEF Homed
  <2>1. PICK i \in 1..Len(urls) : us[j] = urls[i]
    BY <1>5
  <2>2. urls[i].host \in HostsOf(hosts)
    BY DEF Homed
  <2> QED BY <1>9, <2>1, <2>2
<1>11. /\ c.urls = us /\ c.hosts = hs /\ c.strings = strings /\ c.maxRows = cap
       /\ c.lo = (IF hs = <<>> THEN 0 ELSE hs[1].host)
       /\ c.hi = (IF hs = <<>> THEN MaxKey ELSE hs[Len(hs)].host)
  <2>1. CASE hs = <<>>
    BY <1>1, <2>1 DEF hostRange
  <2>2. CASE hs # <<>>
    BY <1>1, <2>2 DEF hostRange
  <2> QED BY <2>1, <2>2
<1>12. Sound(c)
  BY <1>7, <1>10, <1>11 DEF Sound
<1>13. ASSUME sortedHosts(hs) PROVE Ranged(c)
  <2>1. CASE hs = <<>>
    <3>1. HostsOf(hs) = {}
      BY <2>1, NoHosts
    <3>2. 0 \in Keys /\ MaxKey \in Keys
      BY FormatAssumption DEF Keys
    <3> QED BY <1>11, <2>1, <3>1, <3>2 DEF Ranged
  <2>2. CASE hs # <<>>
    <3>1. /\ hs[1].host \in Keys /\ hs[Len(hs)].host \in Keys
          /\ \A h \in HostsOf(hs) : hs[1].host <= h /\ h <= hs[Len(hs)].host
      BY <1>7, <1>13, <2>2, SortedRange
    <3>2. c.lo = hs[1].host /\ c.hi = hs[Len(hs)].host
      BY <1>11, <2>2
    <3> QED BY <1>11, <3>1, <3>2 DEF Ranged
  <2> QED BY <2>1, <2>2
<1> QED BY <1>8, <1>9, <1>11, <1>12, <1>13

\* An arena that grew reads the old references sa before.
Longer(more, strings) ==
  /\ strings \in Seq(Int) /\ more \in Seq(Int) /\ Len(strings) <= Len(more)
  /\ \A i \in 1..Len(strings) : more[i] = strings[i]

LEMMA LongerURLs ==
  ASSUME NEW strings, NEW more, Longer(more, strings), NEW urls, URLsSound(urls, strings)
  PROVE  URLsSound(urls, more) /\ RowSet(urls, more) = RowSet(urls, strings)
<1>1. PICK n \in Nat, m \in Nat : n = Len(strings) /\ m = Len(more) /\ n <= m
  BY DEF Longer
<1>2. \A i \in 1..n : i \in 1..m
  BY <1>1
<1>3. urls \in Seq(URLRows(n)) /\ \A i, j \in 1..Len(urls) : i # j => KeyOf(urls[i]) # KeyOf(urls[j])
  BY <1>1 DEF URLsSound
<1>4. \A r \in URLRows(n) : r \in URLRows(m)
  BY <1>2 DEF URLRows
<1>5. \A i \in 1..Len(urls) : urls[i] \in URLRows(n)
  BY <1>3
<1>6. urls \in Seq(URLRows(m))
  BY <1>3, <1>4
<1>7. URLsSound(urls, more)
  BY <1>1, <1>3, <1>6 DEF URLsSound
<1>8. ASSUME NEW i \in 1..Len(urls) PROVE Resolved(urls[i], more) = Resolved(urls[i], strings)
  <2>1. PICK r : r = urls[i] /\ r \in URLRows(n)
    BY <1>5
  <2>2. r.ref \in 1..n
    BY <2>1, RowTyped
  <2>3. r.ref \in DOMAIN strings /\ r.ref \in DOMAIN more /\ more[r.ref] = strings[r.ref]
    BY <1>1, <1>2, <2>2 DEF Longer
  <2>4. arenaRead(more, r.ref) = arenaRead(strings, r.ref)
    BY <2>3 DEF arenaRead
  <2> QED BY <2>1, <2>4 DEF Resolved
<1>9. RowSet(urls, more) = RowSet(urls, strings)
  BY <1>8 DEF RowSet
<1> QED BY <1>7, <1>9

LEMMA LongerHosts ==
  ASSUME NEW strings, NEW more, Longer(more, strings), NEW hosts, HostsSound(hosts, strings)
  PROVE  HostsSound(hosts, more)
<1>1. PICK n \in Nat, m \in Nat : n = Len(strings) /\ m = Len(more) /\ n <= m
  BY DEF Longer
<1>2. \A i \in 1..n : i \in 1..m
  BY <1>1
<1>3. /\ hosts \in Seq(HostRows(n)) /\ \A i, j \in 1..Len(hosts) : i # j => hosts[i].host # hosts[j].host
      /\ \A i \in 1..Len(hosts) : strings[hosts[i].ref] = FullName(hosts[i].host)
  BY <1>1 DEF HostsSound
<1>4. \A r \in HostRows(n) : r \in HostRows(m)
  BY <1>2 DEF HostRows
<1>5. \A i \in 1..Len(hosts) : hosts[i] \in HostRows(n)
  BY <1>3
<1>6. hosts \in Seq(HostRows(m))
  BY <1>3, <1>4
<1>7. ASSUME NEW i \in 1..Len(hosts) PROVE more[hosts[i].ref] = FullName(hosts[i].host)
  <2>1. hosts[i].ref \in 1..n
    BY <1>5, HostTyped
  <2>2. more[hosts[i].ref] = strings[hosts[i].ref]
    BY <1>1, <2>1 DEF Longer
  <2> QED BY <1>3, <2>2
<1> QED BY <1>1, <1>3, <1>6, <1>7 DEF HostsSound

-----------------------------------------------------------------------------
(* What the frontier does to the tables between two checkpoints. *)

\* A partition as Decode builds one.
IsPart(p) ==
  p = [id |-> p.id, lo |-> p.lo, hi |-> p.hi, urls |-> p.urls, hosts |-> p.hosts,
       strings |-> p.strings, sched |-> p.sched, maxRows |-> p.maxRows]

LEMMA OneRow ==
  ASSUME NEW r, NEW strings
  PROVE  RowSet(<<r>>, strings) = {Resolved(r, strings)} /\ Len(<<r>>) = 1 /\ <<r>>[1] = r
<1>1. Len(<<r>>) = 1 /\ <<r>>[1] = r
  OBVIOUS
<1>2. \A i : i \in 1..Len(<<r>>) <=> i = 1
  BY <1>1
<1> QED BY <1>1, <1>2 DEF RowSet

\* The rows of a partition that has one.
LEMMA OneRowPart ==
  ASSUME NEW g, IsPart(g), NEW r
  PROVE  ResolvedURLs([g EXCEPT !.urls = <<r>>]) = {Resolved(r, g.strings)}
<1>1. PICK q : q = [g EXCEPT !.urls = <<r>>]
  OBVIOUS
<1>2. q.urls = <<r>> /\ q.strings = g.strings
  BY <1>1 DEF IsPart
<1>3. Range(<<r>>) = {r}
  <2>1. DOMAIN <<r>> = {1} /\ <<r>>[1] = r
    OBVIOUS
  <2> QED BY <2>1 DEF Range
<1>4. ResolvedURLs(q) = {Resolved(r, g.strings)}
  BY <1>2, <1>3 DEF ResolvedURLs, Resolved
<1> QED BY <1>1, <1>4

\* The row new is row k of urls with verdict v, and refers to s at the end of more.
Renews(new, us, more, urls, strings, k, v, s) ==
  /\ new = [urls[k] EXCEPT !.status = v[1], !.due = v[2], !.ref = Len(strings) + 1]
  /\ us = [urls EXCEPT ![k] = new] /\ more = Append(strings, s)

LEMMA RecrawledIs ==
  ASSUME NEW p, IsPart(p), NEW k, NEW v, NEW s, NEW new,
         NEW us, NEW more, Renews(new, us, more, p.urls, p.strings, k, v, s), NEW g, g = Recrawled(p, k, v, s)
  PROVE  IsPart(g) /\ g.urls = us /\ g.hosts = p.hosts /\ g.strings = more /\ g.id = p.id
<1>1. PICK id, lo, hi, urls, hosts, strings, sched, cap :
        /\ p = [id |-> id, lo |-> lo, hi |-> hi, urls |-> urls, hosts |-> hosts,
                strings |-> strings, sched |-> sched, maxRows |-> cap]
        /\ urls = p.urls /\ strings = p.strings /\ id = p.id /\ lo = p.lo /\ hi = p.hi
        /\ hosts = p.hosts /\ sched = p.sched /\ cap = p.maxRows
  BY DEF IsPart
<1>2. Recrawled(p, k, v, s) = [[p EXCEPT !.strings = Append(strings, s)] EXCEPT !.urls = [urls EXCEPT ![k] = new]]
  BY <1>1 DEF Recrawled, Renews
<1>3. us = [urls EXCEPT ![k] = new] /\ more = Append(strings, s)
  BY <1>1 DEF Renews
<1>4. g = [id |-> id, lo |-> lo, hi |-> hi, urls |-> us, hosts |-> hosts,
           strings |-> more, sched |-> sched, maxRows |-> cap]
  BY <1>1, <1>2, <1>3
<1> QED BY <1>1, <1>4 DEF IsPart

\* The table us with row k put right, on an arena one string longer.
LEMMA RecrawledTable ==
  ASSUME NEW strings \in Seq(Int), NEW urls, URLsSound(urls, strings), NEW k \in 1..Len(urls),
         NEW v \in (0..7) \X (0..(Half - 1)), NEW s \in Int, NEW new,
         NEW us, NEW more, Renews(new, us, more, urls, strings, k, v, s)
  PROVE  /\ Longer(more, strings) /\ Len(more) = Len(strings) + 1
         /\ URLsSound(us, more) /\ Len(us) = Len(urls) /\ us[k] = new
         /\ \A i \in 1..Len(urls) : KeyOf(us[i]) = KeyOf(urls[i]) /\ us[i].host = urls[i].host
         /\ RowSet(us, more) = {x \in RowSet(urls, strings) : KeyOf(x) # KeyOf(new)} \cup {Resolved(new, more)}
<1>0. /\ new = [urls[k] EXCEPT !.status = v[1], !.due = v[2], !.ref = Len(strings) + 1]
      /\ us = [urls EXCEPT ![k] = new] /\ more = Append(strings, s)
  BY DEF Renews
<1>1. PICK n \in Nat : n = Len(strings)
  OBVIOUS
<1>2. Longer(more, strings) /\ Len(more) = n + 1
  BY <1>0, <1>1 DEF Longer
<1>3. URLsSound(urls, more) /\ RowSet(urls, more) = RowSet(urls, strings)
  BY <1>2, LongerURLs
<1>4. PICK m \in Nat : m = Len(urls)
  BY <1>3 DEF URLsSound
<1>5. /\ urls \in Seq(URLRows(n + 1)) /\ \A i, j \in 1..m : i # j => KeyOf(urls[i]) # KeyOf(urls[j])
  BY <1>2, <1>3, <1>4 DEF URLsSound
<1>6. \A i \in 1..m : urls[i] \in URLRows(n + 1)
  BY <1>4, <1>5
<1>7. /\ new \in URLRows(n + 1) /\ KeyOf(new) = KeyOf(urls[k]) /\ new.host = urls[k].host
  <2>1. PICK r : r = urls[k] /\ r \in URLRows(n + 1)
    BY <1>4, <1>6
  <2>2. /\ r = [host |-> r.host, path |-> r.path, status |-> r.status, due |-> r.due,
                count |-> r.count, ref |-> r.ref]
        /\ r.host \in Keys /\ r.path \in 0..(Word - 1) /\ r.status \in 0..7
        /\ r.due \in 0..(Half - 1) /\ r.count \in 0..(Half - 1) /\ r.ref \in 1..(n + 1)
    BY <2>1, RowTyped
  <2>3. v[1] \in 0..7 /\ v[2] \in 0..(Half - 1) /\ n + 1 \in 1..(n + 1)
    OBVIOUS
  <2>4. new = [r EXCEPT !.status = v[1], !.due = v[2], !.ref = n + 1]
    BY <1>0, <1>1, <2>1
  <2>5. new = [host |-> r.host, path |-> r.path, status |-> v[1], due |-> v[2],
               count |-> r.count, ref |-> n + 1]
    BY <2>2, <2>4
  <2>6. new \in URLRows(n + 1)
    BY <2>2, <2>3, <2>5 DEF URLRows
  <2> QED BY <2>1, <2>5, <2>6 DEF KeyOf
<1>8. /\ us \in Seq(URLRows(n + 1)) /\ Len(us) = m
      /\ \A i \in 1..m : us[i] = (IF i = k THEN new ELSE urls[i])
  BY <1>0, <1>4, <1>5, <1>7
<1>9. \A i \in 1..m : KeyOf(us[i]) = KeyOf(urls[i]) /\ us[i].host = urls[i].host
  BY <1>7, <1>8
<1>10. URLsSound(us, more)
  <2>1. \A i, j \in 1..m : i # j => KeyOf(us[i]) # KeyOf(us[j])
    BY <1>5, <1>9
  <2> QED BY <1>2, <1>8, <2>1 DEF URLsSound
<1>11. k \in 1..m /\ us[k] = new
  BY <1>4, <1>8
<1>12. RowSet(us, more) = {x \in RowSet(urls, more) : KeyOf(x) # KeyOf(new)} \cup {Resolved(new, more)}
  <2>1. ASSUME NEW x \in RowSet(us, more)
        PROVE  x \in {y \in RowSet(urls, more) : KeyOf(y) # KeyOf(new)} \cup {Resolved(new, more)}
    <3>1. PICK i \in 1..m : x = Resolved(us[i], more)
      BY <1>8 DEF RowSet
    <3>2. CASE i = k
      BY <3>1, <3>2, <1>11
    <3>3. CASE i # k
      <4>1. us[i] = urls[i] /\ KeyOf(urls[i]) # KeyOf(new)
        BY <3>3, <1>5, <1>7, <1>8, <1>11
      <4>2. x \in RowSet(urls, more)
        BY <3>1, <4>1, <1>4 DEF RowSet
      <4>3. KeyOf(x) = KeyOf(urls[i])
        BY <3>1, <4>1, ResolvedKeeps
      <4> QED BY <4>1, <4>2, <4>3
    <3> QED BY <3>2, <3>3
  <2>2. Resolved(new, more) \in RowSet(us, more)
    BY <1>8, <1>11 DEF RowSet
  <2>3. ASSUME NEW x \in RowSet(urls, more), KeyOf(x) # KeyOf(new) PROVE x \in RowSet(us, more)
    <3>1. PICK i \in 1..m : x = Resolved(urls[i], more)
      BY <1>4 DEF RowSet
    <3>2. KeyOf(x) = KeyOf(urls[i])
      BY <3>1, ResolvedKeeps
    <3>3. i # k
      BY <2>3, <3>2, <1>7
    <3>4. us[i] = urls[i]
      BY <3>3, <1>8
    <3> QED BY <3>1, <3>4, <1>8 DEF RowSet
  <2> QED BY <2>1, <2>2, <2>3
<1> QED BY <1>1, <1>2, <1>3, <1>4, <1>8, <1>9, <1>10, <1>11, <1>12

\* g is p with row k alone changed.
RecrawledTo(g, p, k) ==
  /\ Sound(g) /\ HostsOf(g.hosts) = HostsOf(p.hosts) /\ Len(g.strings) = Len(p.strings) + 1
  /\ KeyOf(g.urls[k]) = KeyOf(p.urls[k])
  /\ RowSet(g.urls, g.strings) =
       {x \in RowSet(p.urls, p.strings) : KeyOf(x) # KeyOf(g.urls[k])}
       \cup ResolvedURLs([g EXCEPT !.urls = <<g.urls[k]>>])

\* What a crawl of row k leaves: its row alone has changed.
LEMMA RecrawledHolds ==
  ASSUME NEW p, IsPart(p), Sound(p), NEW k \in 1..Len(p.urls),
         NEW v \in (0..7) \X (0..(Half - 1)), NEW s \in Int, NEW g, g = Recrawled(p, k, v, s)
  PROVE  RecrawledTo(g, p, k)
<1>1. PICK strings, urls, hosts : /\ strings = p.strings /\ urls = p.urls /\ hosts = p.hosts /\ strings \in Seq(Int)
                                  /\ URLsSound(urls, strings) /\ HostsSound(hosts, strings) /\ Homed(urls, hosts)
  BY DEF Sound
<1>2. PICK new, us, more : Renews(new, us, more, urls, strings, k, v, s)
  BY DEF Renews
<1>4. g.urls = us /\ g.hosts = hosts /\ g.strings = more /\ IsPart(g)
  <2>1. Renews(new, us, more, p.urls, p.strings, k, v, s)
    BY <1>1, <1>2
  <2>2. IsPart(g) /\ g.urls = us /\ g.hosts = p.hosts /\ g.strings = more
    BY <2>1, RecrawledIs
  <2> QED BY <1>1, <2>2
<1>5. k \in 1..Len(urls)
  BY <1>1
<1>6. /\ Longer(more, strings) /\ Len(more) = Len(strings) + 1
      /\ URLsSound(us, more) /\ Len(us) = Len(urls) /\ us[k] = new
      /\ \A i \in 1..Len(urls) : KeyOf(us[i]) = KeyOf(urls[i]) /\ us[i].host = urls[i].host
      /\ RowSet(us, more) = {x \in RowSet(urls, strings) : KeyOf(x) # KeyOf(new)} \cup {Resolved(new, more)}
  <2>1. strings \in Seq(Int) /\ URLsSound(urls, strings)
    BY <1>1
  <2> QED BY <1>2, <1>5, <2>1, RecrawledTable
<1>7. HostsSound(hosts, more)
  BY <1>1, <1>6, LongerHosts
<1>8. Homed(us, hosts)
  BY <1>1, <1>6 DEF Homed
<1>9. more \in Seq(Int)
  BY <1>6 DEF Longer
<1>10. Sound(g)
  BY <1>4, <1>6, <1>7, <1>8, <1>9 DEF Sound
<1>11. ResolvedURLs([g EXCEPT !.urls = <<new>>]) = {Resolved(new, more)}
  BY <1>4, OneRowPart
<1> QED BY <1>1, <1>4, <1>5, <1>6, <1>10, <1>11 DEF RecrawledTo

LEMMA OneURL ==
  ASSUME NEW r, NEW strings, r \in URLRows(Len(strings))
  PROVE  URLsSound(<<r>>, strings) /\ RowSet(<<r>>, strings) = {Resolved(r, strings)}
<1>1. Len(<<r>>) = 1 /\ <<r>>[1] = r /\ <<r>> \in Seq(URLRows(Len(strings)))
  OBVIOUS
<1>2. \A i, j \in 1..Len(<<r>>) : i = j
  BY <1>1
<1> QED BY <1>1, <1>2, OneRow DEF URLsSound

LEMMA OneHost ==
  ASSUME NEW r, NEW strings, r \in HostRows(Len(strings)), strings[r.ref] = FullName(r.host)
  PROVE  HostsSound(<<r>>, strings) /\ HostsOf(<<r>>) = {r.host}
<1>1. Len(<<r>>) = 1 /\ <<r>>[1] = r /\ <<r>> \in Seq(HostRows(Len(strings)))
  OBVIOUS
<1>2. \A i : i \in 1..Len(<<r>>) <=> i = 1
  BY <1>1
<1>3. HostsOf(<<r>>) = {r.host}
  BY <1>1, <1>2 DEF HostsOf
<1> QED BY <1>1, <1>2, <1>3 DEF HostsSound

LEMMA AppendJoins ==
  ASSUME NEW S, NEW s \in Seq(S), NEW x \in S
  PROVE  Append(s, x) = s \o <<x>>
  OBVIOUS

\* A found row, put in a table.
PutIn(row, r, n) ==
  row = [host |-> r.host, path |-> r.path, status |-> r.status, due |-> r.due, count |-> r.count, ref |-> n]

LEMMA FoundRow ==
  ASSUME NEW r, IsRow(r), NEW strings \in Seq(Int), NEW n \in 1..Len(strings), r.span = {strings[n]},
         NEW row, PutIn(row, r, n)
  PROVE  row \in URLRows(Len(strings)) /\ Resolved(row, strings) = r /\ KeyOf(row) = KeyOf(r) /\ row.host = r.host
<1>1. /\ r = [host |-> r.host, path |-> r.path, status |-> r.status, due |-> r.due,
              count |-> r.count, span |-> r.span]
      /\ r.host \in Keys /\ r.path \in 0..(Word - 1) /\ r.status \in 0..7
      /\ r.due \in 0..(Half - 1) /\ r.count \in 0..(Half - 1)
  BY SmallPowers DEF IsRow
<1>2. row = [host |-> r.host, path |-> r.path, status |-> r.status, due |-> r.due, count |-> r.count, ref |-> n]
  BY DEF PutIn
<1>3. row \in URLRows(Len(strings))
  BY <1>1, <1>2 DEF URLRows
<1>4. arenaRead(strings, n) = r.span
  BY DEF arenaRead
<1>5. Resolved(row, strings) = [host |-> r.host, path |-> r.path, status |-> r.status, due |-> r.due,
                                count |-> r.count, span |-> r.span]
  BY <1>2, <1>4 DEF Resolved
<1>6. KeyOf(row) = KeyOf(r) /\ row.host = r.host
  BY <1>2 DEF KeyOf
<1> QED BY <1>1, <1>3, <1>5, <1>6

\* g is p with the row added, its string x, and its host's record if it is new.
GrowsTo(g, p, r, x, row) ==
  /\ g.strings = p.strings \o <<x, FullName(r.host)>>
  /\ g.urls = Append(p.urls, row)
  /\ g.hosts = (IF \E h \in Range(p.hosts) : h.host = r.host THEN p.hosts
                ELSE Append(p.hosts, [host |-> r.host, ref |-> Len(p.strings) + 2]))

LEMMA GrownIs ==
  ASSUME NEW p, IsPart(p), NEW r, NEW g, g = Grown(p, r), NEW x, x = (CHOOSE s \in r.span : TRUE),
         NEW row, PutIn(row, r, Len(p.strings) + 1)
  PROVE  GrowsTo(g, p, r, x, row)
<1>1. PICK id, lo, hi, urls, hosts, strings, sched, cap :
        /\ p = [id |-> id, lo |-> lo, hi |-> hi, urls |-> urls, hosts |-> hosts,
                strings |-> strings, sched |-> sched, maxRows |-> cap]
        /\ urls = p.urls /\ strings = p.strings /\ hosts = p.hosts
  BY DEF IsPart
<1>2. PICK more, us, hs :
        /\ more = strings \o <<x, FullName(r.host)>> /\ us = Append(urls, row)
        /\ hs = (IF \E h \in Range(hosts) : h.host = r.host THEN hosts
                 ELSE Append(hosts, [host |-> r.host, ref |-> Len(strings) + 2]))
  OBVIOUS
<1>3. row = [host |-> r.host, path |-> r.path, status |-> r.status, due |-> r.due, count |-> r.count,
             ref |-> Len(strings) + 1]
  BY <1>1 DEF PutIn
<1>4. g = [[[p EXCEPT !.strings = more] EXCEPT !.urls = us] EXCEPT !.hosts = hs]
  BY <1>1, <1>2, <1>3 DEF Grown
<1>5. g.strings = more /\ g.urls = us /\ g.hosts = hs
  BY <1>1, <1>4
<1> QED BY <1>1, <1>2, <1>5 DEF GrowsTo

\* What a discovery leaves: the rows and the new one, beside its host.
LEMMA GrownHolds ==
  ASSUME NEW p, IsPart(p), Sound(p), NEW r, IsRow(r), \A y \in RowSet(p.urls, p.strings) : KeyOf(y) # KeyOf(r),
         NEW g, g = Grown(p, r)
  PROVE  /\ Sound(g) /\ Len(g.strings) = Len(p.strings) + 2
         /\ RowSet(g.urls, g.strings) = RowSet(p.urls, p.strings) \cup {r}
         /\ HostsOf(g.hosts) = HostsOf(p.hosts) \cup {r.host}
<1>1. PICK strings, urls, hosts : /\ strings = p.strings /\ urls = p.urls /\ hosts = p.hosts /\ strings \in Seq(Int)
                                  /\ URLsSound(urls, strings) /\ HostsSound(hosts, strings) /\ Homed(urls, hosts)
  BY DEF Sound
<1>2. PICK x \in Int : r.span = {x} /\ x = (CHOOSE s \in r.span : TRUE)
  <2>1. PICK x \in r.span : x \in Int /\ r.span = {x}
    BY DEF IsRow
  <2> QED BY <2>1
<1>3. PICK n \in Nat : n = Len(strings)
  BY <1>1
<1>4. PICK row : PutIn(row, r, n + 1)
  BY DEF PutIn
<1>5. PICK more : more = strings \o <<x, FullName(r.host)>>
  OBVIOUS
<1>6. r.host \in Keys /\ FullName(r.host) \in Int
  BY DEF IsRow, FullName, Keys
<1>7. /\ Longer(more, strings) /\ Len(more) = n + 2
      /\ more[n + 1] = x /\ more[n + 2] = FullName(r.host) /\ more \in Seq(Int)
  <2>1. PICK y \in Int : y = FullName(r.host)
    BY <1>6
  <2>2. strings \in Seq(Int) /\ more = strings \o <<x, y>>
    BY <1>1, <1>5, <2>1
  <2>3. <<x, y>> \in Seq(Int) /\ Len(<<x, y>>) = 2 /\ <<x, y>>[1] = x /\ <<x, y>>[2] = y
    OBVIOUS
  <2>4. more \in Seq(Int) /\ Len(more) = n + 2
    BY <1>3, <2>2, <2>3
  <2>5. \A i \in 1..n : more[i] = strings[i]
    BY <1>3, <2>2, <2>3
  <2>6. more[n + 1] = x /\ more[n + 2] = y
    BY <1>3, <2>2, <2>3
  <2>7. Len(strings) <= Len(more) /\ \A i \in 1..Len(strings) : more[i] = strings[i]
    BY <1>3, <2>4, <2>5
  <2>8. Longer(more, strings)
    BY <2>2, <2>4, <2>7 DEF Longer
  <2> QED BY <2>1, <2>4, <2>6, <2>8
<1>8. PICK hs : hs = (IF \E h \in Range(hosts) : h.host = r.host THEN hosts
                      ELSE Append(hosts, [host |-> r.host, ref |-> n + 2]))
  OBVIOUS
<1>9. g.strings = more /\ g.urls = Append(urls, row) /\ g.hosts = hs
  <2>1. PutIn(row, r, Len(p.strings) + 1)
    BY <1>1, <1>3, <1>4
  <2>2. GrowsTo(g, p, r, x, row)
    BY <1>2, <2>1, GrownIs
  <2> QED BY <1>1, <1>3, <1>5, <1>8, <2>2 DEF GrowsTo
<1>10. URLsSound(urls, more) /\ RowSet(urls, more) = RowSet(urls, strings)
  BY <1>1, <1>7, LongerURLs
<1>11. HostsSound(hosts, more)
  BY <1>1, <1>7, LongerHosts
<1>12. row \in URLRows(n + 2) /\ Resolved(row, more) = r /\ KeyOf(row) = KeyOf(r) /\ row.host = r.host
  <2>1. n + 1 \in 1..Len(more) /\ r.span = {more[n + 1]} /\ more \in Seq(Int)
    BY <1>2, <1>7
  <2>2. row \in URLRows(Len(more)) /\ Resolved(row, more) = r /\ KeyOf(row) = KeyOf(r) /\ row.host = r.host
    BY <1>4, <2>1, FoundRow
  <2> QED BY <1>7, <2>2
<1>13. URLsSound(<<row>>, more) /\ RowSet(<<row>>, more) = {r}
  BY <1>7, <1>12, OneURL
<1>14. g.urls = urls \o <<row>>
  <2>1. urls \in Seq(URLRows(n + 2))
    BY <1>7, <1>10 DEF URLsSound
  <2>2. Append(urls, row) = urls \o <<row>>
    BY <1>12, <2>1, AppendJoins
  <2> QED BY <1>9, <2>2
<1>15. ASSUME NEW i \in 1..Len(urls), NEW j \in 1..Len(<<row>>) PROVE KeyOf(urls[i]) # KeyOf(<<row>>[j])
  <2>1. <<row>>[j] = row
    BY OneRow
  <2>2. PICK y : y = Resolved(urls[i], strings) /\ y \in RowSet(urls, strings)
    BY DEF RowSet
  <2>3. KeyOf(y) = KeyOf(urls[i])
    BY <2>2, ResolvedKeeps
  <2>4. KeyOf(y) # KeyOf(r)
    BY <1>1, <2>2
  <2> QED BY <1>12, <2>1, <2>3, <2>4
<1>16. /\ URLsSound(urls \o <<row>>, more)
       /\ RowSet(urls \o <<row>>, more) = RowSet(urls, more) \cup RowSet(<<row>>, more)
  BY <1>10, <1>13, <1>15, JoinURLs
<1>17. URLsSound(g.urls, more) /\ RowSet(g.urls, more) = RowSet(urls, strings) \cup {r}
  BY <1>10, <1>13, <1>14, <1>16
<1>18. HostsSound(hs, more) /\ HostsOf(hs) = HostsOf(hosts) \cup {r.host}
  <2>0. hosts \in Seq(HostRows(n + 2))
    BY <1>7, <1>11 DEF HostsSound
  <2>1. (\E h \in Range(hosts) : h.host = r.host) <=> r.host \in HostsOf(hosts)
    BY <2>0 DEF Range, HostsOf
  <2>2. CASE r.host \in HostsOf(hosts)
    BY <1>8, <1>11, <2>1, <2>2
  <2>3. CASE r.host \notin HostsOf(hosts)
    <3>1. PICK h : h = [host |-> r.host, ref |-> n + 2]
      OBVIOUS
    <3>2. h \in HostRows(n + 2) /\ h.ref = n + 2 /\ h.host = r.host
      BY <1>6, <3>1 DEF HostRows
    <3>3. HostsSound(<<h>>, more) /\ HostsOf(<<h>>) = {r.host}
      BY <1>7, <3>2, OneHost
    <3>4. hs = hosts \o <<h>>
      BY <1>8, <2>0, <2>1, <2>3, <3>1, <3>2, AppendJoins
    <3>5. HostsOf(hosts) \cap HostsOf(<<h>>) = {}
      BY <2>3, <3>3
    <3>6. HostsSound(hosts \o <<h>>, more) /\ HostsOf(hosts \o <<h>>) = HostsOf(hosts) \cup HostsOf(<<h>>)
      BY <1>11, <3>3, <3>5, JoinHosts
    <3> QED BY <3>3, <3>4, <3>6
  <2> QED BY <2>2, <2>3
<1>19. Homed(g.urls, hs)
  <2> SUFFICES ASSUME NEW i \in 1..Len(g.urls) PROVE g.urls[i].host \in HostsOf(hs)
    BY DEF Homed
  <2>1. PICK y : y = Resolved(g.urls[i], more) /\ y \in RowSet(g.urls, more)
    BY DEF RowSet
  <2>2. y.host = g.urls[i].host
    BY <2>1, ResolvedKeeps
  <2>3. y \in RowSet(urls, strings) \/ y = r
    BY <1>17, <2>1
  <2>4. CASE y \in RowSet(urls, strings)
    <3>1. PICK j \in 1..Len(urls) : y = Resolved(urls[j], strings)
      BY <2>4 DEF RowSet
    <3>2. y.host = urls[j].host
      BY <3>1, ResolvedKeeps
    <3>3. urls[j].host \in HostsOf(hosts)
      BY <1>1 DEF Homed
    <3> QED BY <1>18, <2>2, <3>2, <3>3
  <2>5. CASE y = r
    BY <1>18, <2>2, <2>5
  <2> QED BY <2>3, <2>4, <2>5
<1>20. Sound(g)
  BY <1>7, <1>9, <1>17, <1>18, <1>19 DEF Sound
<1> QED BY <1>1, <1>3, <1>7, <1>9, <1>17, <1>18, <1>20

\* s lists the finite set S.
Lists(s, S) ==
  /\ Cardinality(S) \in Nat /\ s \in [1..Cardinality(S) -> S]
  /\ \A i, j \in 1..Cardinality(S) : i # j => s[i] # s[j]
  /\ \A x \in S : \E i \in 1..Cardinality(S) : s[i] = x

LEMMA InjectionLists ==
  ASSUME NEW S, IsFiniteSet(S), NEW s \in [1..Cardinality(S) -> S],
         \A i, j \in 1..Cardinality(S) : i # j => s[i] # s[j]
  PROVE  Lists(s, S)
<1>1. PICK n \in Nat : n = Cardinality(S)
  BY FS_CardinalityType
<1>2. s \in Injection(1..n, S)
  BY <1>1 DEF Injection, IsInjective
<1>3. Cardinality(1..n) = n
  <2>1. 1 \in Int /\ n \in Int
    OBVIOUS
  <2> QED BY <2>1, FS_Interval
<1>4. s \in Surjection(1..n, S)
  BY <1>1, <1>2, <1>3, FS_Injection
<1> QED BY <1>1, <1>4 DEF Lists, Surjection

LEMMA SetToSeqLists ==
  ASSUME NEW S, IsFiniteSet(S)
  PROVE  Lists(SetToSeq(S), S)
<1>1. PICK n \in Nat : n = Cardinality(S) /\ ExistsBijection(1..n, S)
  BY FS_CardinalityType
<1>2. PICK f : f \in Bijection(1..n, S)
  BY <1>1 DEF ExistsBijection
<1>3. f \in [1..n -> S] /\ IsInjective(f)
  BY <1>2 DEF Bijection, Injection
<1>4. PICK s : s = SetToSeq(S)
  OBVIOUS
<1>5. s \in [1..n -> S] /\ IsInjective(s)
  BY <1>1, <1>3, <1>4 DEF SetToSeq
<1>6. s \in [1..Cardinality(S) -> S] /\ \A i, j \in 1..Cardinality(S) : i # j => s[i] # s[j]
  BY <1>1, <1>5 DEF IsInjective
<1>7. Lists(s, S)
  BY <1>6, InjectionLists
<1> QED BY <1>4, <1>7

\* The hosts of a set of rows: no more than the rows.
HostsIn(S) == {r.host : r \in S}

LEMMA FewHosts ==
  ASSUME NEW S, IsFiniteSet(S), NEW H, H = HostsIn(S)
  PROVE  IsFiniteSet(H) /\ Cardinality(H) <= Cardinality(S)
<1>1. PICK f : f = [r \in S |-> r.host]
  OBVIOUS
<1>2. f \in Surjection(S, H)
  BY <1>1 DEF Surjection, HostsIn
<1> QED BY <1>2, FS_Surjection

\* The first file's tables, of the rows and hosts in the order rows and hosts.
FirstTables(rows, hosts, urls, hrecs, spans, n, m) ==
  /\ urls = [i \in 1..n |-> [host |-> rows[i].host, path |-> rows[i].path, status |-> rows[i].status,
                             due |-> rows[i].due, count |-> rows[i].count, ref |-> i]]
  /\ hrecs = [i \in 1..m |-> [host |-> hosts[i], ref |-> n + i]]
  /\ spans = [i \in 1..n |-> CHOOSE s \in rows[i].span : TRUE] \o [i \in 1..m |-> FullName(hosts[i])]

FirstIs(S, cap, wheelOn, rows, hosts, n, m) ==
  \E urls, hrecs, spans : /\ FirstTables(rows, hosts, urls, hrecs, spans, n, m)
                          /\ FirstFile(S, cap, wheelOn) = Checkpoint(1, urls, hrecs, spans, wheelOn, cap)

LEMMA FirstFileIs ==
  ASSUME NEW S, NEW rows, rows = SetToSeq(S), NEW hosts, hosts = SetToSeq({r.host : r \in S}),
         NEW n \in Nat, NEW m \in Nat, NEW X, rows \in [1..n -> X], NEW Y, hosts \in [1..m -> Y],
         NEW cap, NEW wheelOn
  PROVE  FirstIs(S, cap, wheelOn, rows, hosts, n, m)
<1> DEFINE rs == SetToSeq(S)
           hs == SetToSeq({r.host : r \in S})
           urls == [i \in DOMAIN rs |->
                      [host |-> rs[i].host, path |-> rs[i].path, status |-> rs[i].status,
                       due |-> rs[i].due, count |-> rs[i].count, ref |-> i]]
           hrecs == [i \in DOMAIN hs |-> [host |-> hs[i], ref |-> Len(rs) + i]]
           spans == [i \in DOMAIN rs |-> CHOOSE s \in rs[i].span : TRUE]
                    \o [i \in DOMAIN hs |-> FullName(hs[i])]
<1>1. FirstFile(S, cap, wheelOn) = Checkpoint(1, urls, hrecs, spans, wheelOn, cap)
  BY DEF FirstFile
<1> HIDE DEF rs, hs
<1>2. rs = rows /\ hs = hosts
  BY DEF rs, hs
<1>3. DOMAIN rs = 1..n /\ DOMAIN hs = 1..m /\ Len(rs) = n
  BY <1>2
<1>4. FirstTables(rs, hs, urls, hrecs, spans, n, m)
  BY <1>3 DEF FirstTables
<1> HIDE DEF urls, hrecs, spans
<1>5. FirstTables(rows, hosts, urls, hrecs, spans, n, m)
  BY <1>2, <1>4
<1> QED BY <1>1, <1>5 DEF FirstIs

IntList(A, n) == A = [i \in 1..n |-> A[i]] /\ \A i \in 1..n : A[i] \in Int

\* What the first file holds: the rows of S and a record of each host.
LEMMA FirstFileHolds ==
  ASSUME NEW S, IsFiniteSet(S), \A r \in S : IsRow(r), \A r, q \in S : KeyOf(r) = KeyOf(q) => r = q,
         NEW H, H = HostsIn(S), NEW cap, NEW wheelOn, NEW p \in FirstFile(S, cap, wheelOn)
  PROVE  /\ Sound(p) /\ p.maxRows = cap /\ RowSet(p.urls, p.strings) = S /\ HostsOf(p.hosts) = H
         /\ Len(p.strings) <= 2 * Cardinality(S) /\ (sortedHosts(p.hosts) => Ranged(p))
<1>1. IsFiniteSet(H) /\ Cardinality(H) <= Cardinality(S)
  BY FewHosts
<1>2. PICK rows, hosts : rows = SetToSeq(S) /\ hosts = SetToSeq(H)
  OBVIOUS
<1>3. Lists(rows, S) /\ Lists(hosts, H)
  BY <1>1, <1>2, SetToSeqLists
<1>4. PICK n \in Nat, m \in Nat : n = Cardinality(S) /\ m = Cardinality(H) /\ m <= n
  BY <1>1, <1>3 DEF Lists
<1>5. /\ rows \in [1..n -> S] /\ \A i, j \in 1..n : i # j => rows[i] # rows[j]
      /\ \A x \in S : \E i \in 1..n : rows[i] = x
      /\ hosts \in [1..m -> H] /\ \A i, j \in 1..m : i # j => hosts[i] # hosts[j]
      /\ \A x \in H : \E i \in 1..m : hosts[i] = x
  BY <1>3, <1>4 DEF Lists
<1>6. PICK urls, hrecs, spans : /\ FirstTables(rows, hosts, urls, hrecs, spans, n, m)
                                /\ FirstFile(S, cap, wheelOn) = Checkpoint(1, urls, hrecs, spans, wheelOn, cap)
  <2>1. rows = SetToSeq(S) /\ hosts = SetToSeq({r.host : r \in S})
    BY <1>2 DEF HostsIn
  <2>2. rows \in [1..n -> S] /\ hosts \in [1..m -> H]
    BY <1>5
  <2>3. FirstIs(S, cap, wheelOn, rows, hosts, n, m)
    BY <2>1, <2>2, FirstFileIs
  <2> QED BY <2>3 DEF FirstIs
<1>7. PICK A, B : /\ A = [i \in 1..n |-> CHOOSE s \in rows[i].span : TRUE] /\ B = [i \in 1..m |-> FullName(hosts[i])]
                  /\ spans = A \o B
  BY <1>6 DEF FirstTables
<1>8. ASSUME NEW i \in 1..n PROVE A[i] \in Int /\ rows[i].span = {A[i]}
  <2>1. IsRow(rows[i])
    BY <1>5
  <2>2. PICK x \in rows[i].span : x \in Int /\ rows[i].span = {x}
    BY <2>1 DEF IsRow
  <2>3. A[i] = CHOOSE s \in rows[i].span : TRUE
    BY <1>7
  <2> QED BY <2>2, <2>3
<1>9. \A h \in H : h \in Keys /\ FullName(h) \in Int
  <2>1. \A h \in H : h \in Keys
    BY DEF IsRow, HostsIn
  <2> QED BY <2>1 DEF FullName, Keys
<1>10. \A i \in 1..m : B[i] = FullName(hosts[i]) /\ B[i] \in Int
  BY <1>5, <1>7, <1>9
<1>11. /\ spans \in Seq(Int) /\ Len(spans) = n + m
       /\ (\A i \in 1..n : spans[i] = A[i]) /\ (\A j \in 1..m : spans[n + j] = B[j])
  <2>1. IntList(A, n) /\ IntList(B, m)
    BY <1>7, <1>8, <1>10 DEF IntList
  <2>2. spans = A \o B
    BY <1>7
  <2>3. A \in Seq(Int) /\ Len(A) = n /\ B \in Seq(Int) /\ Len(B) = m
    BY <2>1, ListIs DEF IntList
  <2>4. A \o B \in Seq(Int) /\ Halved(A \o B, A, B)
    BY <2>3, JoinHalves
  <2>5. spans \in Seq(Int) /\ Halved(spans, A, B)
    BY <2>2, <2>4
  <2> QED BY <2>3, <2>5 DEF Halved
<1>12. /\ urls = [i \in 1..n |-> urls[i]] /\ \A i \in 1..n : PutIn(urls[i], rows[i], i)
       /\ hrecs = [i \in 1..m |-> [host |-> hosts[i], ref |-> n + i]]
  BY <1>6 DEF FirstTables, PutIn
<1>13. ASSUME NEW i \in 1..n
       PROVE  urls[i] \in URLRows(n + m) /\ Resolved(urls[i], spans) = rows[i] /\ KeyOf(urls[i]) = KeyOf(rows[i])
              /\ urls[i].host = rows[i].host
  <2>1. IsRow(rows[i]) /\ i \in 1..Len(spans) /\ rows[i].span = {spans[i]} /\ PutIn(urls[i], rows[i], i)
    <3>1. IsRow(rows[i])
      BY <1>5
    <3>2. i \in 1..(n + m)
      OBVIOUS
    <3>3. spans[i] = A[i]
      BY <1>11
    <3>4. rows[i].span = {A[i]}
      BY <1>8
    <3> QED BY <1>11, <1>12, <3>1, <3>2, <3>3, <3>4
  <2>2. PICK r, row : r = rows[i] /\ row = urls[i]
    OBVIOUS
  <2>3. IsRow(r) /\ i \in 1..Len(spans) /\ r.span = {spans[i]} /\ PutIn(row, r, i) /\ spans \in Seq(Int)
    BY <1>11, <2>1, <2>2
  <2>4. row \in URLRows(Len(spans)) /\ Resolved(row, spans) = r /\ KeyOf(row) = KeyOf(r) /\ row.host = r.host
    BY <2>3, FoundRow
  <2> QED BY <1>11, <2>2, <2>4
<1>14. urls \in Seq(URLRows(n + m)) /\ Len(urls) = n
  BY <1>12, <1>13, ListIs
<1>15. URLsSound(urls, spans)
  <2>1. ASSUME NEW i \in 1..n, NEW j \in 1..n, i # j PROVE KeyOf(urls[i]) # KeyOf(urls[j])
    <3>1. rows[i] \in S /\ rows[j] \in S /\ rows[i] # rows[j]
      BY <1>5, <2>1
    <3>2. KeyOf(rows[i]) # KeyOf(rows[j])
      BY <3>1
    <3> QED BY <1>13, <3>2
  <2> QED BY <1>11, <1>14, <2>1 DEF URLsSound
<1>16. RowSet(urls, spans) = S
  <2>1. \A x \in RowSet(urls, spans) : x \in S
    BY <1>5, <1>13, <1>14 DEF RowSet
  <2>2. \A x \in S : x \in RowSet(urls, spans)
    <3> TAKE x \in S
    <3>1. PICK i \in 1..n : rows[i] = x
      BY <1>5
    <3>2. Resolved(urls[i], spans) = x
      BY <1>13, <3>1
    <3> QED BY <1>14, <3>2 DEF RowSet
  <2> QED BY <2>1, <2>2
<1>17. ASSUME NEW i \in 1..m
       PROVE  hrecs[i] \in HostRows(n + m) /\ hrecs[i].host = hosts[i] /\ spans[hrecs[i].ref] = FullName(hosts[i])
  <2>1. hrecs[i] = [host |-> hosts[i], ref |-> n + i]
    BY <1>12
  <2>2. hosts[i] \in Keys /\ n + i \in 1..(n + m)
    BY <1>5, <1>9
  <2>3. hrecs[i] \in HostRows(n + m) /\ hrecs[i].host = hosts[i] /\ hrecs[i].ref = n + i
    BY <2>1, <2>2 DEF HostRows
  <2> QED BY <1>10, <1>11, <2>3
<1>18. hrecs \in Seq(HostRows(n + m)) /\ Len(hrecs) = m
  <2>1. hrecs = [i \in 1..m |-> hrecs[i]]
    BY <1>12
  <2> QED BY <1>17, <2>1, ListIs
<1>19. HostsSound(hrecs, spans)
  <2>1. \A i \in 1..m : spans[hrecs[i].ref] = FullName(hrecs[i].host)
    BY <1>17
  <2>2. \A i, j \in 1..m : i # j => hrecs[i].host # hrecs[j].host
    BY <1>5, <1>17
  <2> QED BY <1>11, <1>18, <2>1, <2>2 DEF HostsSound
<1>20. HostsOf(hrecs) = H
  <2>1. \A x \in HostsOf(hrecs) : x \in H
    BY <1>5, <1>17, <1>18 DEF HostsOf
  <2>2. \A x \in H : x \in HostsOf(hrecs)
    <3> TAKE x \in H
    <3>1. PICK i \in 1..m : hosts[i] = x
      BY <1>5
    <3> QED BY <1>17, <1>18, <3>1 DEF HostsOf
  <2> QED BY <2>1, <2>2
<1>21. Homed(urls, hrecs)
  <2>1. \A i \in 1..n : urls[i].host \in H
    BY <1>5, <1>13 DEF HostsIn
  <2> QED BY <1>14, <1>20, <2>1 DEF Homed
<1>22. p \in Checkpoint(1, urls, hrecs, spans, wheelOn, cap)
  BY <1>6
<1>23. /\ Sound(p) /\ p.strings = spans /\ p.maxRows = cap
       /\ RowSet(p.urls, p.strings) = RowSet(urls, spans) /\ HostsOf(p.hosts) = HostsOf(hrecs)
       /\ sortedHosts(p.hosts) => Ranged(p)
  <2>1. spans \in Seq(Int)
    BY <1>11
  <2> QED BY <1>15, <1>19, <1>21, <1>22, <2>1, CheckpointHolds
<1>24. Len(p.strings) <= 2 * Cardinality(S)
  BY <1>4, <1>11, <1>23
<1> QED BY <1>16, <1>20, <1>23, <1>24

-----------------------------------------------------------------------------
(* The files of a collection. *)

\* The partition a file decodes to, its rows and its hosts.
Held(f) == CHOOSE p : p \in Decode(f)
Rows(f) == RowSet(Held(f).urls, Held(f).strings)
HostSet(f) == HostsOf(Held(f).hosts)
Spans(f) == Len(Held(f).strings)

\* A file that decodes to one partition, with sound tables, whose hosts are
\* in the range it states.
Good(f) ==
  /\ Decode(f) = {Held(f)} /\ IsPart(Held(f)) /\ Sound(Held(f)) /\ Ranged(Held(f))
  /\ f.nURL = Len(Held(f).urls) /\ f.lo = Held(f).lo /\ f.hi = Held(f).hi

LEMMA EncodedIs ==
  ASSUME NEW c, NEW W, NEW f \in Encode(c, W)
  PROVE  sortedHosts(c.hosts) /\ f.nURL = Len(c.urls) /\ f.lo = c.lo /\ f.hi = c.hi
<1>1. sortedURLs(c.urls) /\ sortedHosts(c.hosts)
  BY DEF Encode
<1>2. f.nURL = Len(c.urls) /\ f.lo = c.lo /\ f.hi = c.hi
  BY <1>1 DEF Encode
<1> QED BY <1>1, <1>2

\* A file made of sound tables.
LEMMA MakesGood ==
  ASSUME NEW c, Sound(c), c.maxRows \in Nat, sortedHosts(c.hosts) => Ranged(c),
         Len(c.urls) < Word, Len(c.hosts) < Word, Len(c.strings) < Word, NEW W, NEW f \in Encode(c, W)
  PROVE  /\ Good(f) /\ Rows(f) = RowSet(c.urls, c.strings) /\ HostSet(f) = HostsOf(c.hosts)
         /\ Spans(f) = Len(c.strings)
<1>1. Storable(c)
  BY SoundStorable
<1>2. Decode(f) = {Reopened(c)}
  BY <1>1, FileLossless
<1>3. PICK p : p = Reopened(c) /\ Decode(f) = {p}
  BY <1>2
<1>4. Held(f) = p
  BY <1>3 DEF Held
<1>5. /\ IsPart(p) /\ p.lo = c.lo /\ p.hi = c.hi /\ p.urls = c.urls /\ p.hosts = c.hosts /\ p.strings = c.strings
  BY <1>3 DEF Reopened, IsPart
<1>6. Sound(p)
  BY <1>5 DEF Sound
<1>7. sortedHosts(c.hosts) /\ f.nURL = Len(c.urls) /\ f.lo = c.lo /\ f.hi = c.hi
  BY EncodedIs
<1>8. Ranged(p)
  BY <1>5, <1>7 DEF Ranged
<1>9. Good(f)
  BY <1>3, <1>4, <1>5, <1>6, <1>7, <1>8 DEF Good
<1> QED BY <1>4, <1>5, <1>9 DEF Rows, HostSet, Spans

\* A table is as long as it has rows.
LEMMA URLsBounded ==
  ASSUME NEW urls, NEW strings, URLsSound(urls, strings), NEW R, IsFiniteSet(R), RowSet(urls, strings) \subseteq R
  PROVE  Len(urls) \in Nat /\ Len(urls) <= Cardinality(R)
<1>1. PICK n \in Nat : n = Len(urls) /\ \A i, j \in 1..n : i # j => KeyOf(urls[i]) # KeyOf(urls[j])
  BY DEF URLsSound
<1>2. PICK f : f = [i \in 1..n |-> Resolved(urls[i], strings)]
  OBVIOUS
<1>3. f \in [1..n -> R]
  <2>1. \A i \in 1..n : Resolved(urls[i], strings) \in R
    BY <1>1 DEF RowSet
  <2> QED BY <1>2, <2>1
<1>4. ASSUME NEW i \in 1..n, NEW j \in 1..n, i # j PROVE f[i] # f[j]
  <2>1. KeyOf(f[i]) = KeyOf(urls[i]) /\ KeyOf(f[j]) = KeyOf(urls[j])
    BY <1>2, ResolvedKeeps
  <2> QED BY <1>1, <1>4, <2>1
<1>5. n <= Cardinality(R)
  BY <1>3, <1>4, InjectsShort
<1> QED BY <1>1, <1>5

LEMMA HostsBounded ==
  ASSUME NEW hosts, NEW strings, HostsSound(hosts, strings), NEW H, IsFiniteSet(H), HostsOf(hosts) \subseteq H
  PROVE  Len(hosts) \in Nat /\ Len(hosts) <= Cardinality(H)
<1>1. PICK n \in Nat : n = Len(hosts) /\ \A i, j \in 1..n : i # j => hosts[i].host # hosts[j].host
  BY DEF HostsSound
<1>2. PICK f : f = [i \in 1..n |-> hosts[i].host]
  OBVIOUS
<1>3. f \in [1..n -> H]
  <2>1. \A i \in 1..n : hosts[i].host \in H
    BY <1>1 DEF HostsOf
  <2> QED BY <1>2, <2>1
<1>4. \A i, j \in 1..n : i # j => f[i] # f[j]
  BY <1>1, <1>2
<1>5. n <= Cardinality(H)
  BY <1>3, <1>4, InjectsShort
<1> QED BY <1>1, <1>5

\* rows and hosts R and H that a bound of b leaves room for.
Room(R, H, b) ==
  /\ b \in Nat /\ 2 * b < Word
  /\ IsFiniteSet(R) /\ Cardinality(R) <= b /\ IsFiniteSet(H) /\ Cardinality(H) <= b

\* A file made of sound tables of rows in R and hosts in H.
Filed(f, rows, hosts, H, b) ==
  Good(f) /\ Rows(f) = rows /\ HostSet(f) = hosts /\ hosts \subseteq H /\ Spans(f) \in Nat /\ Spans(f) <= 2 * b

LEMMA MakesFile ==
  ASSUME NEW R, NEW H, NEW b, Room(R, H, b), NEW c, Sound(c), c.maxRows \in Nat, sortedHosts(c.hosts) => Ranged(c),
         RowSet(c.urls, c.strings) \subseteq R, HostsOf(c.hosts) \subseteq H,
         Len(c.strings) <= Len(c.urls) + Len(c.hosts) \/ Len(c.strings) <= 2 * b,
         NEW W, NEW f \in Encode(c, W)
  PROVE  Filed(f, RowSet(c.urls, c.strings), HostsOf(c.hosts), H, b)
<1>1. /\ URLsSound(c.urls, c.strings) /\ HostsSound(c.hosts, c.strings) /\ Len(c.strings) \in Nat
  BY DEF Sound
<1>2. IsFiniteSet(R) /\ IsFiniteSet(H)
  BY DEF Room
<1>3. Len(c.urls) \in Nat /\ Len(c.urls) <= Cardinality(R)
  BY <1>1, <1>2, URLsBounded
<1>4. Len(c.hosts) \in Nat /\ Len(c.hosts) <= Cardinality(H)
  BY <1>1, <1>2, HostsBounded
<1>5. Cardinality(R) \in Nat /\ Cardinality(H) \in Nat
  BY <1>2, FS_CardinalityType
<1>6. b \in Nat /\ 2 * b < Word /\ Cardinality(R) <= b /\ Cardinality(H) <= b
  BY DEF Room
<1>7. Len(c.urls) < Word /\ Len(c.hosts) < Word /\ Len(c.strings) < Word /\ Len(c.strings) <= 2 * b
  <2>1. PICK u \in Nat, h \in Nat, k \in Nat, w \in Nat : u = Len(c.urls) /\ h = Len(c.hosts) /\ k = Len(c.strings) /\ w = Word
    BY <1>1, <1>3, <1>4, WordIs
  <2>2. u <= b /\ h <= b
    BY <1>3, <1>4, <1>5, <1>6, <2>1
  <2>3. k <= u + h \/ k <= 2 * b
    BY <2>1
  <2>4. u < w /\ h < w /\ k < w /\ k <= 2 * b
    <3>1. 2 * b < w /\ b \in Nat
      BY <1>6, <2>1
    <3> QED BY <2>2, <2>3, <3>1
  <2> QED BY <2>1, <2>4
<1>8. /\ Good(f) /\ Rows(f) = RowSet(c.urls, c.strings) /\ HostSet(f) = HostsOf(c.hosts)
      /\ Spans(f) = Len(c.strings)
  BY <1>7, MakesGood
<1> QED BY <1>1, <1>7, <1>8 DEF Filed

\* The files fs hold rows, the hosts H among them, within the bound b.
HeldBy(fs, rows, H, b) ==
  /\ Len(fs) \in Nat /\ fs = [i \in 1..Len(fs) |-> fs[i]] /\ Room(rows, H, b)
  /\ \A i \in 1..Len(fs) : Filed(fs[i], Rows(fs[i]), HostSet(fs[i]), H, b)
  /\ \A i, j \in 1..Len(fs) : i # j => HostSet(fs[i]) \cap HostSet(fs[j]) = {}
  /\ \A x : x \in rows <=> \E i \in 1..Len(fs) : x \in Rows(fs[i])

\* t is the files of fs that are not in S, e where they were.
Rest(t, fs, S, e) ==
  /\ Len(t) \in Nat /\ t = [j \in 1..Len(t) |-> t[j]]
  /\ e \in [1..Len(t) -> (1..Len(fs)) \ S] /\ \A j, k \in 1..Len(t) : j # k => e[j] # e[k]
  /\ \A j \in 1..Len(t) : t[j] = fs[e[j]]
  /\ \A i \in (1..Len(fs)) \ S : \E j \in 1..Len(t) : e[j] = i

LEMMA OthersAre ==
  ASSUME Len(files) \in Nat, files = [i \in 1..Len(files) |-> files[i]], NEW S
  PROVE  \E e : Rest(Others(S), files, S, e)
<1>1. PICK n \in Nat : n = Len(files) /\ DOMAIN files = 1..n
  OBVIOUS
<1>2. PICK all : all = [k \in DOMAIN files |-> k]
  OBVIOUS
<1>3. all \in Seq(1..n) /\ Len(all) = n /\ \A k \in 1..n : all[k] = k
  BY <1>1, <1>2
<1>4. PICK ids, T : ids = Pick(all, T) /\ T = DOMAIN files \ S
  OBVIOUS
<1>5. ids \in Seq(1..n) /\ Selects(ids, all, T)
  BY <1>3, <1>4, PickSelects
<1>6. PICK e : Embeds(ids, all, n, T, e)
  BY <1>3, <1>5 DEF Selects
<1>7. /\ Len(ids) \in Nat /\ ids = [j \in 1..Len(ids) |-> ids[j]]
      /\ e \in [1..Len(ids) -> 1..n] /\ \A j, k \in 1..Len(ids) : j # k => e[j] # e[k]
      /\ \A j \in 1..Len(ids) : ids[j] = all[e[j]] /\ ids[j] \in T
      /\ \A i \in 1..n : all[i] \in T => \E j \in 1..Len(ids) : e[j] = i
  BY <1>6 DEF Embeds
<1>8. PICK m \in Nat : m = Len(ids) /\ DOMAIN ids = 1..m
  BY <1>5
<1>9. ASSUME NEW j \in 1..m PROVE ids[j] = e[j] /\ e[j] \in (1..n) \ S
  <2>1. e[j] \in 1..n /\ ids[j] = all[e[j]] /\ ids[j] \in T
    BY <1>7, <1>8
  <2>2. all[e[j]] = e[j]
    BY <1>3, <2>1
  <2> QED BY <1>4, <2>1, <2>2
<1>10. Others(S) = [j \in DOMAIN ids |-> files[ids[j]]]
  BY <1>2, <1>4 DEF Others
<1>11. PICK t : t = Others(S)
  OBVIOUS
<1>12. t = [j \in 1..m |-> files[e[j]]]
  BY <1>8, <1>9, <1>10, <1>11
<1>13. Len(t) = m /\ t = [j \in 1..m |-> t[j]] /\ \A j \in 1..m : t[j] = files[e[j]]
  BY <1>12
<1>14. e \in [1..m -> (1..n) \ S]
  BY <1>7, <1>8, <1>9
<1>15. ASSUME NEW i \in (1..n) \ S PROVE \E j \in 1..m : e[j] = i
  <2>1. i \in 1..n /\ all[i] \in T
    BY <1>1, <1>3, <1>4
  <2> QED BY <1>7, <1>8, <2>1
<1>16. Rest(t, files, S, e)
  BY <1>1, <1>7, <1>8, <1>13, <1>14, <1>15 DEF Rest
<1> QED BY <1>11, <1>16

\* New files g for those of fs in S, with the hosts of the others left alone.
NewFiles(g, fs, S, H, b) ==
  /\ Len(g) \in Nat /\ g = [k \in 1..Len(g) |-> g[k]]
  /\ \A k \in 1..Len(g) : Filed(g[k], Rows(g[k]), HostSet(g[k]), H, b)
  /\ \A k, l \in 1..Len(g) : k # l => HostSet(g[k]) \cap HostSet(g[l]) = {}
  /\ \A k \in 1..Len(g) : \A j \in (1..Len(fs)) \ S : HostSet(g[k]) \cap HostSet(fs[j]) = {}

LEMMA MadeMore ==
  ASSUME NEW f, NEW r, NEW h, NEW H, NEW b \in Nat, Filed(f, r, h, H, b), NEW G, H \subseteq G, NEW d \in Nat, b <= d
  PROVE  Filed(f, r, h, G, d)
  BY DEF Filed

LEMMA Replaced ==
  ASSUME NEW fs, NEW rows, NEW H, NEW b, HeldBy(fs, rows, H, b),
         NEW S, NEW t, NEW e, Rest(t, fs, S, e),
         NEW more, NEW G, NEW d, Room(more, G, d), b <= d, H \subseteq G,
         NEW g, NewFiles(g, fs, S, G, d),
         \A x : x \in more <=> (\E j \in (1..Len(fs)) \ S : x \in Rows(fs[j])) \/ \E k \in 1..Len(g) : x \in Rows(g[k])
  PROVE  HeldBy(t \o g, more, G, d)
<1>1. PICK n \in Nat, m \in Nat, l \in Nat : n = Len(fs) /\ m = Len(t) /\ l = Len(g)
  BY DEF HeldBy, Rest, NewFiles
<1>2. b \in Nat /\ d \in Nat
  BY DEF HeldBy, Room
<1>3. PICK u : u = t \o g
  OBVIOUS
<1>4. PICK X : (\A i \in 1..m : t[i] \in X) /\ (\A i \in 1..l : g[i] \in X)
  <2>1. \A i \in 1..m : t[i] \in {t[j] : j \in 1..m} \cup {g[j] : j \in 1..l}
    OBVIOUS
  <2>2. \A i \in 1..l : g[i] \in {t[j] : j \in 1..m} \cup {g[j] : j \in 1..l}
    OBVIOUS
  <2> QED BY <2>1, <2>2
<1>5. t \in Seq(X) /\ g \in Seq(X)
  BY <1>1, <1>4, ListIs DEF Rest, NewFiles
<1>6. u \in Seq(X) /\ Halved(u, t, g)
  BY <1>3, <1>5, JoinHalves
<1>7. /\ Len(u) = m + l /\ \A i \in 1..m : u[i] = t[i]
      /\ \A i \in 1..(m + l) : i \in 1..m \/ (i - m \in 1..l /\ u[i] = g[i - m])
      /\ \A i \in 1..l : m + i \in 1..(m + l) /\ u[m + i] = g[i]
      /\ \A i \in 1..m : i \in 1..(m + l)
  BY <1>1, <1>6 DEF Halved
<1>8. /\ e \in [1..m -> (1..n) \ S] /\ \A j, k \in 1..m : j # k => e[j] # e[k]
      /\ \A j \in 1..m : t[j] = fs[e[j]]
      /\ \A i \in (1..n) \ S : \E j \in 1..m : e[j] = i
  BY <1>1 DEF Rest
<1>9. /\ \A i \in 1..n : Filed(fs[i], Rows(fs[i]), HostSet(fs[i]), H, b)
      /\ \A i, j \in 1..n : i # j => HostSet(fs[i]) \cap HostSet(fs[j]) = {}
  BY <1>1 DEF HeldBy
<1>10. /\ \A k \in 1..l : Filed(g[k], Rows(g[k]), HostSet(g[k]), G, d)
       /\ \A j, k \in 1..l : j # k => HostSet(g[j]) \cap HostSet(g[k]) = {}
       /\ \A k \in 1..l : \A j \in (1..n) \ S : HostSet(g[k]) \cap HostSet(fs[j]) = {}
  BY <1>1 DEF NewFiles
<1>11. ASSUME NEW i \in 1..(m + l)
       PROVE  (i \in 1..m /\ u[i] = fs[e[i]] /\ e[i] \in 1..n /\ e[i] \notin S) \/ \E k \in 1..l : k = i - m /\ u[i] = g[k]
  BY <1>7, <1>8
<1>12. ASSUME NEW i \in 1..(m + l) PROVE Filed(u[i], Rows(u[i]), HostSet(u[i]), G, d)
  <2>1. CASE i \in 1..m /\ u[i] = fs[e[i]] /\ e[i] \in 1..n
    <3>1. PICK f : f = u[i] /\ Filed(f, Rows(f), HostSet(f), H, b)
      BY <1>9, <2>1
    <3>2. Filed(f, Rows(f), HostSet(f), G, d)
      BY <1>2, <3>1, MadeMore
    <3> QED BY <3>1, <3>2
  <2>2. CASE \E k \in 1..l : u[i] = g[k]
    BY <1>10, <2>2
  <2> QED BY <1>11, <2>1, <2>2
<1>13. ASSUME NEW i \in 1..(m + l), NEW j \in 1..(m + l), i # j PROVE HostSet(u[i]) \cap HostSet(u[j]) = {}
  <2>1. CASE i \in 1..m /\ j \in 1..m
    <3>1. e[i] \in 1..n /\ e[j] \in 1..n /\ e[i] # e[j] /\ u[i] = fs[e[i]] /\ u[j] = fs[e[j]]
      BY <1>7, <1>8, <1>13, <2>1
    <3> QED BY <1>9, <3>1
  <2>2. CASE i \in 1..m /\ j \notin 1..m
    <3>1. PICK k \in 1..l : u[j] = g[k]
      BY <1>11, <2>2
    <3>2. e[i] \in (1..n) \ S /\ u[i] = fs[e[i]]
      BY <1>7, <1>8, <2>2
    <3> QED BY <1>10, <3>1, <3>2
  <2>3. CASE i \notin 1..m /\ j \in 1..m
    <3>1. PICK k \in 1..l : u[i] = g[k]
      BY <1>11, <2>3
    <3>2. e[j] \in (1..n) \ S /\ u[j] = fs[e[j]]
      BY <1>7, <1>8, <2>3
    <3> QED BY <1>10, <3>1, <3>2
  <2>4. CASE i \notin 1..m /\ j \notin 1..m
    <3>1. PICK k \in 1..l, p \in 1..l : k = i - m /\ u[i] = g[k] /\ p = j - m /\ u[j] = g[p]
      BY <1>11, <2>4
    <3>2. k # p
      BY <1>13, <3>1
    <3> QED BY <1>10, <3>1, <3>2
  <2> QED BY <2>1, <2>2, <2>3, <2>4
<1>14. ASSUME NEW x PROVE x \in more <=> \E i \in 1..(m + l) : x \in Rows(u[i])
  <2>0. x \in more <=> (\E j \in (1..n) \ S : x \in Rows(fs[j])) \/ \E k \in 1..l : x \in Rows(g[k])
    BY <1>1
  <2>1. ASSUME NEW j \in (1..n) \ S, x \in Rows(fs[j]) PROVE \E i \in 1..(m + l) : x \in Rows(u[i])
    <3>1. PICK i \in 1..m : e[i] = j
      BY <1>8
    <3>2. u[i] = fs[j] /\ i \in 1..(m + l)
      BY <1>7, <1>8, <3>1
    <3> QED BY <2>1, <3>2
  <2>2. ASSUME NEW k \in 1..l, x \in Rows(g[k]) PROVE \E i \in 1..(m + l) : x \in Rows(u[i])
    BY <1>7, <2>2
  <2>3. ASSUME NEW i \in 1..(m + l), x \in Rows(u[i])
        PROVE  (\E j \in (1..n) \ S : x \in Rows(fs[j])) \/ \E k \in 1..l : x \in Rows(g[k])
    BY <1>11, <2>3
  <2> QED BY <2>0, <2>1, <2>2, <2>3
<1>15. u = [i \in 1..(m + l) |-> u[i]]
  BY <1>6, <1>7
<1>16. HeldBy(u, more, G, d)
  BY <1>7, <1>12, <1>13, <1>14, <1>15 DEF HeldBy
<1> QED BY <1>3, <1>16

-----------------------------------------------------------------------------
(* The steps of a collection. *)

\* The partition p read from file f.
Opened(p, f, b) ==
  /\ IsPart(p) /\ Sound(p) /\ Ranged(p) /\ RowSet(p.urls, p.strings) = Rows(f) /\ HostsOf(p.hosts) = HostSet(f)
  /\ Len(p.strings) \in Nat /\ Len(p.strings) <= 2 * b /\ f.nURL = Len(p.urls)

LEMMA OpensFile ==
  ASSUME NEW f, NEW r, NEW h, NEW H, NEW b, Filed(f, r, h, H, b), NEW p \in Decode(f)
  PROVE  Opened(p, f, b)
<1>1. p = Held(f) /\ IsPart(p) /\ Sound(p) /\ Ranged(p) /\ f.nURL = Len(p.urls)
  BY DEF Filed, Good
<1> QED BY <1>1 DEF Opened, Filed, Rows, HostSet, Spans

\* A row is of a host the partition has, and that is a key.
LEMMA RowsHomed ==
  ASSUME NEW p, Sound(p), NEW x \in RowSet(p.urls, p.strings)
  PROVE  x.host \in HostsOf(p.hosts) /\ x.host \in Keys
<1>1. PICK i \in 1..Len(p.urls) : x = Resolved(p.urls[i], p.strings)
  BY DEF RowSet
<1>2. x.host = p.urls[i].host
  BY <1>1, ResolvedKeeps
<1>3. p.urls[i].host \in HostsOf(p.hosts)
  BY DEF Sound, Homed
<1>4. HostsOf(p.hosts) \subseteq Keys
  BY HostsAreKeys DEF Sound
<1> QED BY <1>2, <1>3, <1>4

LEMMA RoomMore ==
  ASSUME NEW R, NEW H, NEW b, Room(R, H, b), 2 * (b + 1) < Word, NEW x, NEW Q, Q \subseteq R \cup {x},
         NEW h, NEW G, G \subseteq H \cup {h}
  PROVE  Room(Q, G, b + 1)
<1>1. /\ b \in Nat /\ IsFiniteSet(R) /\ Cardinality(R) <= b /\ IsFiniteSet(H) /\ Cardinality(H) <= b
  BY DEF Room
<1>2. Cardinality(R) \in Nat /\ Cardinality(H) \in Nat
  BY <1>1, FS_CardinalityType
<1>3. IsFiniteSet(R \cup {x}) /\ IsFiniteSet(H \cup {h})
  BY <1>1, FS_AddElement
<1>4. Cardinality(R \cup {x}) <= b + 1 /\ Cardinality(H \cup {h}) <= b + 1
  <2>1. Cardinality(R \cup {x}) = IF x \in R THEN Cardinality(R) ELSE Cardinality(R) + 1
    BY <1>1, FS_AddElement
  <2>2. Cardinality(H \cup {h}) = IF h \in H THEN Cardinality(H) ELSE Cardinality(H) + 1
    BY <1>1, FS_AddElement
  <2> QED BY <1>1, <1>2, <2>1, <2>2
<1>5. /\ IsFiniteSet(Q) /\ Cardinality(Q) <= Cardinality(R \cup {x})
      /\ IsFiniteSet(G) /\ Cardinality(G) <= Cardinality(H \cup {h})
  BY <1>3, FS_Subset
<1>6. /\ Cardinality(Q) \in Nat /\ Cardinality(R \cup {x}) \in Nat
      /\ Cardinality(G) \in Nat /\ Cardinality(H \cup {h}) \in Nat
  BY <1>3, <1>5, FS_CardinalityType
<1>7. Cardinality(Q) <= b + 1 /\ Cardinality(G) <= b + 1
  BY <1>1, <1>4, <1>5, <1>6
<1> QED BY <1>1, <1>5, <1>7 DEF Room

\* Tables that fit a file of hosts in G, within d.
Writable(c, G, d) ==
  /\ Sound(c) /\ c.maxRows \in Nat /\ (sortedHosts(c.hosts) => Ranged(c)) /\ HostsOf(c.hosts) \subseteq G
  /\ Len(c.strings) <= Len(c.urls) + Len(c.hosts) \/ Len(c.strings) <= 2 * d

LEMMA FitMade ==
  ASSUME NEW R, NEW G, NEW d, Room(R, G, d), NEW c, Writable(c, G, d), RowSet(c.urls, c.strings) \subseteq R,
         NEW W, NEW f \in Encode(c, W)
  PROVE  /\ Filed(f, Rows(f), HostSet(f), G, d) /\ Rows(f) = RowSet(c.urls, c.strings)
         /\ HostSet(f) = HostsOf(c.hosts)
<1>1. Filed(f, RowSet(c.urls, c.strings), HostsOf(c.hosts), G, d)
  BY MakesFile DEF Writable
<1>2. Rows(f) = RowSet(c.urls, c.strings) /\ HostSet(f) = HostsOf(c.hosts)
  BY <1>1 DEF Filed
<1> QED BY <1>1, <1>2

\* c shares no host with the files that are not in S.
Apart(c, S) == \A j \in (1..Len(files)) \ S : HostsOf(c.hosts) \cap HostSet(files[j]) = {}
Elsewhere(x, S) == \E j \in (1..Len(files)) \ S : x \in Rows(files[j])

\* One new file for those in S.
LEMMA RewriteKeeps ==
  ASSUME NEW H, NEW b, HeldBy(files, live, H, b), NEW S, NEW c, NEW more, NEW G, NEW d, Room(more, G, d), b <= d,
         H \subseteq G, Writable(c, G, d), Apart(c, S), Rewrite(S, c),
         \A x : x \in more <=> Elsewhere(x, S) \/ x \in RowSet(c.urls, c.strings)
  PROVE  HeldBy(files', more, G, d)
<1>1. PICK f \in Encode(c, Wins) : files' = Others(S) \o <<f>>
  BY DEF Rewrite, Written
<1>2. RowSet(c.urls, c.strings) \subseteq more
  OBVIOUS
<1>3. /\ Filed(f, Rows(f), HostSet(f), G, d) /\ Rows(f) = RowSet(c.urls, c.strings)
      /\ HostSet(f) = HostsOf(c.hosts)
  BY <1>2, FitMade
<1>4. Len(files) \in Nat /\ files = [i \in 1..Len(files) |-> files[i]]
  BY DEF HeldBy
<1>5. PICK e : Rest(Others(S), files, S, e)
  BY <1>4, OthersAre
<1>6. PICK t, g : t = Others(S) /\ g = <<f>>
  OBVIOUS
<1>7. Len(g) = 1 /\ g[1] = f /\ g = [k \in 1..Len(g) |-> g[k]]
  BY <1>6
<1>8. \A k \in 1..Len(g) : k = 1 /\ g[k] = f
  BY <1>7
<1>9. \A j \in (1..Len(files)) \ S : HostSet(f) \cap HostSet(files[j]) = {}
  BY <1>3 DEF Apart
<1>10. NewFiles(g, files, S, G, d)
  BY <1>3, <1>7, <1>8, <1>9 DEF NewFiles
<1>11. ASSUME NEW x
       PROVE  x \in more <=> (\E j \in (1..Len(files)) \ S : x \in Rows(files[j])) \/ \E k \in 1..Len(g) : x \in Rows(g[k])
  <2>1. (\E k \in 1..Len(g) : x \in Rows(g[k])) <=> x \in RowSet(c.urls, c.strings)
    BY <1>3, <1>7, <1>8
  <2> QED BY <2>1 DEF Elsewhere
<1>12. Rest(t, files, S, e)
  BY <1>5, <1>6
<1>13. HeldBy(t \o g, more, G, d)
  BY <1>10, <1>11, <1>12, Replaced
<1> QED BY <1>1, <1>6, <1>13

\* Two new files for file i.
LEMMA RewriteBothKeeps ==
  ASSUME NEW H, NEW b, HeldBy(files, live, H, b), NEW i, NEW c, NEW q, NEW more, NEW G, NEW d, Room(more, G, d), b <= d,
         H \subseteq G, Writable(c, G, d), Writable(q, G, d), Apart(c, {i}), Apart(q, {i}), RewriteBoth(i, c, q),
         HostsOf(c.hosts) \cap HostsOf(q.hosts) = {},
         \A x : x \in more <=> Elsewhere(x, {i}) \/ x \in RowSet(c.urls, c.strings) \/ x \in RowSet(q.urls, q.strings)
  PROVE  HeldBy(files', more, G, d)
<1>1. PICK f \in Encode(c, Wins), h \in Encode(q, Wins) : files' = Others({i}) \o <<f, h>>
  BY DEF RewriteBoth, Written
<1>2. RowSet(c.urls, c.strings) \subseteq more /\ RowSet(q.urls, q.strings) \subseteq more
  OBVIOUS
<1>3. /\ Filed(f, Rows(f), HostSet(f), G, d) /\ Rows(f) = RowSet(c.urls, c.strings)
      /\ HostSet(f) = HostsOf(c.hosts)
  BY <1>2, FitMade
<1>4. /\ Filed(h, Rows(h), HostSet(h), G, d) /\ Rows(h) = RowSet(q.urls, q.strings)
      /\ HostSet(h) = HostsOf(q.hosts)
  BY <1>2, FitMade
<1>5. Len(files) \in Nat /\ files = [j \in 1..Len(files) |-> files[j]]
  BY DEF HeldBy
<1>6. PICK e : Rest(Others({i}), files, {i}, e)
  BY <1>5, OthersAre
<1>7. PICK t, g, S : t = Others({i}) /\ g = <<f, h>> /\ S = {i}
  OBVIOUS
<1>8. Len(g) = 2 /\ g[1] = f /\ g[2] = h /\ g = [k \in 1..Len(g) |-> g[k]]
  BY <1>7
<1>9. \A k \in 1..Len(g) : (k = 1 /\ g[k] = f) \/ (k = 2 /\ g[k] = h)
  BY <1>8
<1>10. \A j \in (1..Len(files)) \ S : HostSet(f) \cap HostSet(files[j]) = {} /\ HostSet(h) \cap HostSet(files[j]) = {}
  BY <1>3, <1>4, <1>7 DEF Apart
<1>11. HostSet(f) \cap HostSet(h) = {}
  BY <1>3, <1>4
<1>12. NewFiles(g, files, S, G, d)
  <2>1. \A k \in 1..Len(g) : Filed(g[k], Rows(g[k]), HostSet(g[k]), G, d)
    BY <1>3, <1>4, <1>9
  <2>2. \A k, l \in 1..Len(g) : k # l => HostSet(g[k]) \cap HostSet(g[l]) = {}
    BY <1>9, <1>11
  <2>3. \A k \in 1..Len(g) : \A j \in (1..Len(files)) \ S : HostSet(g[k]) \cap HostSet(files[j]) = {}
    BY <1>9, <1>10
  <2>4. Len(g) \in Nat
    BY <1>8
  <2> QED BY <1>8, <2>1, <2>2, <2>3, <2>4 DEF NewFiles
<1>13. ASSUME NEW x
       PROVE  x \in more <=> (\E j \in (1..Len(files)) \ S : x \in Rows(files[j])) \/ \E k \in 1..Len(g) : x \in Rows(g[k])
  <2>1. (\E k \in 1..Len(g) : x \in Rows(g[k])) <=> x \in Rows(f) \/ x \in Rows(h)
    <3>1. 1 \in 1..Len(g) /\ 2 \in 1..Len(g)
      BY <1>8
    <3> QED BY <1>8, <1>9, <3>1
  <2> QED BY <1>3, <1>4, <1>7, <2>1 DEF Elsewhere
<1>14. Rest(t, files, S, e)
  BY <1>6, <1>7
<1>15. HeldBy(t \o g, more, G, d)
  BY <1>12, <1>13, <1>14, Replaced
<1> QED BY <1>1, <1>7, <1>15

\* What the files hold, one opened.
LEMMA KeptOpens ==
  ASSUME NEW H, NEW b, HeldBy(files, live, H, b), NEW i \in DOMAIN files, NEW p \in Decode(files[i])
  PROVE  /\ i \in 1..Len(files) /\ Opened(p, files[i], b) /\ HostsOf(p.hosts) \subseteq H
         /\ \A j \in (1..Len(files)) \ {i} : HostsOf(p.hosts) \cap HostSet(files[j]) = {}
         /\ \A x : x \in live <=> Elsewhere(x, {i}) \/ x \in RowSet(p.urls, p.strings)
         /\ \A x : Elsewhere(x, {i}) => x.host \notin HostsOf(p.hosts)
<1>1. i \in 1..Len(files)
  BY DEF HeldBy
<1>2. Filed(files[i], Rows(files[i]), HostSet(files[i]), H, b)
  BY <1>1 DEF HeldBy
<1>3. Opened(p, files[i], b)
  BY <1>2, OpensFile
<1>4. HostsOf(p.hosts) = HostSet(files[i]) /\ RowSet(p.urls, p.strings) = Rows(files[i])
  BY <1>3 DEF Opened
<1>5. HostsOf(p.hosts) \subseteq H
  BY <1>2, <1>4 DEF Filed
<1>6. \A j \in (1..Len(files)) \ {i} : HostsOf(p.hosts) \cap HostSet(files[j]) = {}
  BY <1>1, <1>4 DEF HeldBy
<1>7. ASSUME NEW x PROVE x \in live <=> Elsewhere(x, {i}) \/ x \in RowSet(p.urls, p.strings)
  <2>1. x \in live <=> \E j \in 1..Len(files) : x \in Rows(files[j])
    BY DEF HeldBy
  <2> QED BY <1>1, <1>4, <2>1 DEF Elsewhere
<1>8. ASSUME NEW x, Elsewhere(x, {i}) PROVE x.host \notin HostsOf(p.hosts)
  <2>1. PICK j \in (1..Len(files)) \ {i} : x \in Rows(files[j])
    BY <1>8 DEF Elsewhere
  <2>2. Filed(files[j], Rows(files[j]), HostSet(files[j]), H, b)
    BY DEF HeldBy
  <2>3. PICK q : q = Held(files[j]) /\ Sound(q) /\ RowSet(q.urls, q.strings) = Rows(files[j]) /\ HostsOf(q.hosts) = HostSet(files[j])
    BY <2>2 DEF Filed, Good, Rows, HostSet
  <2>4. x \in RowSet(q.urls, q.strings)
    BY <2>1, <2>3
  <2>5. x.host \in HostSet(files[j])
    BY <2>3, <2>4, RowsHomed
  <2> QED BY <1>6, <2>5
<1> QED BY <1>1, <1>3, <1>5, <1>6, <1>7, <1>8

LEMMA RoomNext ==
  ASSUME NEW R, NEW H, NEW b, Room(R, H, b), 2 * (b + 1) < Word
  PROVE  Room(R, H, b + 1) /\ b \in Nat
<1>1. R \subseteq R \cup {0} /\ H \subseteq H \cup {0}
  OBVIOUS
<1>2. Room(R, H, b + 1)
  BY <1>1, RoomMore
<1> QED BY <1>2 DEF Room

LEMMA FitRebased ==
  ASSUME NEW c, Sound(c), c.maxRows = 0, sortedHosts(c.hosts) => Ranged(c),
         Len(c.strings) <= Len(c.urls) + Len(c.hosts), NEW G, HostsOf(c.hosts) \subseteq G, NEW d
  PROVE  Writable(c, G, d)
<1>1. c.maxRows \in Nat
  OBVIOUS
<1> QED BY <1>1, Zenon DEF Writable

\* A split or an extraction: the hosts A of file i and the rest of them.
LEMMA HalvesKeep ==
  ASSUME NEW H, NEW b, HeldBy(files, live, H, b), 2 * (b + 1) < Word, NEW i \in DOMAIN files,
         NEW p \in Decode(files[i]), NEW A, NEW c, NEW q, Side(p, A, c), Side(p, Keys \ A, q),
         sortedHosts(c.hosts) => Ranged(c), sortedHosts(q.hosts) => Ranged(q), RewriteBoth(i, c, q)
  PROVE  HeldBy(files', live, H, b + 1)
<1>1. /\ i \in 1..Len(files) /\ Opened(p, files[i], b) /\ HostsOf(p.hosts) \subseteq H
      /\ \A j \in (1..Len(files)) \ {i} : HostsOf(p.hosts) \cap HostSet(files[j]) = {}
      /\ \A x : x \in live <=> Elsewhere(x, {i}) \/ x \in RowSet(p.urls, p.strings)
  BY KeptOpens
<1>2. Room(live, H, b + 1) /\ b \in Nat
  <2>1. Room(live, H, b)
    BY DEF HeldBy
  <2> QED BY <2>1, RoomNext
<1>3. /\ Sound(c) /\ c.maxRows = 0 /\ Len(c.strings) <= Len(c.urls) + Len(c.hosts)
      /\ RowSet(c.urls, c.strings) = {x \in RowSet(p.urls, p.strings) : x.host \in A}
      /\ HostsOf(c.hosts) = HostsOf(p.hosts) \cap A
  BY DEF Side
<1>4. /\ Sound(q) /\ q.maxRows = 0 /\ Len(q.strings) <= Len(q.urls) + Len(q.hosts)
      /\ RowSet(q.urls, q.strings) = {x \in RowSet(p.urls, p.strings) : x.host \in Keys \ A}
      /\ HostsOf(q.hosts) = HostsOf(p.hosts) \cap (Keys \ A)
  BY DEF Side
<1>5. Writable(c, H, b + 1)
  <2>1. HostsOf(c.hosts) \subseteq H
    BY <1>1, <1>3
  <2> QED BY <1>3, <2>1, FitRebased
<1>6. Writable(q, H, b + 1)
  <2>1. HostsOf(q.hosts) \subseteq H
    BY <1>1, <1>4
  <2> QED BY <1>4, <2>1, FitRebased
<1>7. Apart(c, {i}) /\ Apart(q, {i})
  BY <1>1, <1>3, <1>4 DEF Apart
<1>8. HostsOf(c.hosts) \cap HostsOf(q.hosts) = {}
  BY <1>3, <1>4
<1>9. ASSUME NEW x \in RowSet(p.urls, p.strings) PROVE x.host \in Keys
  BY <1>1, RowsHomed DEF Opened
<1>10. \A x : x \in live <=> Elsewhere(x, {i}) \/ x \in RowSet(c.urls, c.strings) \/ x \in RowSet(q.urls, q.strings)
  BY <1>1, <1>3, <1>4, <1>9
<1>11. b <= b + 1 /\ H \subseteq H
  BY <1>2
<1> QED BY <1>2, <1>5, <1>6, <1>7, <1>8, <1>10, <1>11, RewriteBothKeeps

\* No step but a crawl or a discovery changes a row.
LEMMA SplitKeeps ==
  ASSUME NEW H, NEW b, HeldBy(files, live, H, b), 2 * (b + 1) < Word, NEW i \in DOMAIN files, NEW at \in Keys,
         SplitFile(i, at)
  PROVE  HeldBy(files', live', H, b + 1)
<1>1. PICK p \in Decode(files[i]) : RewriteBoth(i, Split(p, at)[1], Split(p, at)[2])
  BY DEF SplitFile
<1>2. live' = live
  BY DEF SplitFile
<1>3. Sound(p) /\ Ranged(p)
  <2>1. Opened(p, files[i], b)
    BY KeptOpens
  <2> QED BY <2>1 DEF Opened
<1>4. PICK A : A = {h \in Keys : h < at}
  OBVIOUS
<1>5. PICK c, q : c = Split(p, at)[1] /\ q = Split(p, at)[2]
  OBVIOUS
<1>6. Side(p, A, c) /\ Ranged(c) /\ Side(p, Keys \ A, q) /\ Ranged(q)
  BY <1>3, <1>4, <1>5, SplitHolds
<1>7. RewriteBoth(i, c, q)
  BY <1>1, <1>5
<1>8. HeldBy(files', live, H, b + 1)
  BY <1>6, <1>7, HalvesKeep
<1> QED BY <1>2, <1>8

LEMMA ExtractKeeps ==
  ASSUME NEW H, NEW b, HeldBy(files, live, H, b), 2 * (b + 1) < Word, NEW i \in DOMAIN files, NEW moving,
         ExtractFile(i, moving)
  PROVE  HeldBy(files', live', H, b + 1)
<1>1. PICK p \in Decode(files[i]) : RewriteBoth(i, Extract(p, moving)[1], Extract(p, moving)[2])
  BY DEF ExtractFile
<1>2. live' = live
  BY DEF ExtractFile
<1>3. Sound(p)
  <2>1. Opened(p, files[i], b)
    BY KeptOpens
  <2> QED BY <2>1 DEF Opened
<1>4. PICK c, q : c = Extract(p, moving)[1] /\ q = Extract(p, moving)[2]
  OBVIOUS
<1>5. /\ Side(p, moving, c) /\ (sortedHosts(c.hosts) => Ranged(c))
      /\ Side(p, Keys \ moving, q) /\ (sortedHosts(q.hosts) => Ranged(q))
  BY <1>3, <1>4, ExtractHolds
<1>6. RewriteBoth(i, c, q)
  BY <1>1, <1>4
<1>7. HeldBy(files', live, H, b + 1)
  BY <1>5, <1>6, HalvesKeep
<1> QED BY <1>2, <1>7

LEMMA CompactKeeps ==
  ASSUME NEW H, NEW b, HeldBy(files, live, H, b), 2 * (b + 1) < Word, NEW i \in DOMAIN files, CompactFile(i)
  PROVE  HeldBy(files', live', H, b + 1)
<1>1. PICK p \in Decode(files[i]) : /\ Rewrite({i}, Compact(p))
                                    /\ live' = {r \in live : r.status # StatusGone \/ r \notin ResolvedURLs(p)}
  BY DEF CompactFile
<1>2. /\ i \in 1..Len(files) /\ Opened(p, files[i], b) /\ HostsOf(p.hosts) \subseteq H
      /\ \A j \in (1..Len(files)) \ {i} : HostsOf(p.hosts) \cap HostSet(files[j]) = {}
      /\ \A x : x \in live <=> Elsewhere(x, {i}) \/ x \in RowSet(p.urls, p.strings)
      /\ \A x : Elsewhere(x, {i}) => x.host \notin HostsOf(p.hosts)
  BY KeptOpens
<1>3. Sound(p) /\ Ranged(p)
  BY <1>2 DEF Opened
<1>4. PICK c : c = Compact(p)
  OBVIOUS
<1>5. /\ Sound(c) /\ Ranged(c) /\ c.maxRows = 0 /\ Len(c.strings) <= Len(c.urls) + Len(c.hosts)
      /\ RowSet(c.urls, c.strings) = {x \in RowSet(p.urls, p.strings) : x.status # StatusGone}
      /\ HostsOf(c.hosts) = HostsOf(p.hosts)
  BY <1>3, <1>4, CompactHolds
<1>6. PICK more : more = live'
  OBVIOUS
<1>7. ResolvedURLs(p) = RowSet(p.urls, p.strings)
  BY <1>3, RowsOfPart
<1>8. more = {r \in live : r.status # StatusGone \/ r \notin RowSet(p.urls, p.strings)}
  BY <1>1, <1>6, <1>7
<1>9. Room(more, H, b + 1) /\ b \in Nat
  <2>1. Room(live, H, b)
    BY DEF HeldBy
  <2>2. more \subseteq live \cup {0} /\ H \subseteq H \cup {0}
    BY <1>8
  <2> QED BY <2>1, <2>2, RoomMore DEF Room
<1>10. Writable(c, H, b + 1)
  <2>1. HostsOf(c.hosts) \subseteq H
    BY <1>2, <1>5
  <2> QED BY <1>5, <2>1, FitRebased
<1>11. Apart(c, {i})
  BY <1>2, <1>5 DEF Apart
<1>12. ASSUME NEW x PROVE x \in more <=> Elsewhere(x, {i}) \/ x \in RowSet(c.urls, c.strings)
  <2>1. Elsewhere(x, {i}) => x \notin RowSet(p.urls, p.strings)
    BY <1>2, <1>3, RowsHomed
  <2> QED BY <1>2, <1>5, <1>8, <2>1
<1>13. Rewrite({i}, c) /\ b <= b + 1 /\ H \subseteq H
  BY <1>1, <1>4, <1>9
<1>14. HeldBy(files', more, H, b + 1)
  BY <1>9, <1>10, <1>11, <1>12, <1>13, RewriteKeeps
<1> QED BY <1>6, <1>14

LEMMA MergeKeeps ==
  ASSUME NEW H, NEW b, HeldBy(files, live, H, b), 2 * (b + 1) < Word, NEW i \in DOMAIN files, NEW j \in DOMAIN files,
         MergeFiles(i, j)
  PROVE  HeldBy(files', live', H, b + 1)
<1>1. PICK p \in Decode(files[i]), q \in Decode(files[j]) : \E m \in Merge(p, q) : Rewrite({i, j}, m)
  BY DEF MergeFiles
<1>2. PICK c \in Merge(p, q) : Rewrite({i, j}, c)
  BY <1>1
<1>3. i # j /\ live' = live
  BY DEF MergeFiles
<1>4. /\ i \in 1..Len(files) /\ Opened(p, files[i], b) /\ HostsOf(p.hosts) \subseteq H
      /\ \A k \in (1..Len(files)) \ {i} : HostsOf(p.hosts) \cap HostSet(files[k]) = {}
      /\ \A x : x \in live <=> Elsewhere(x, {i}) \/ x \in RowSet(p.urls, p.strings)
  BY KeptOpens
<1>5. /\ j \in 1..Len(files) /\ Opened(q, files[j], b) /\ HostsOf(q.hosts) \subseteq H
      /\ \A k \in (1..Len(files)) \ {j} : HostsOf(q.hosts) \cap HostSet(files[k]) = {}
  BY KeptOpens
<1>6. /\ Sound(p) /\ Ranged(p) /\ Sound(q) /\ Ranged(q)
      /\ HostsOf(q.hosts) = HostSet(files[j]) /\ RowSet(q.urls, q.strings) = Rows(files[j])
  BY <1>4, <1>5 DEF Opened
<1>7. HostsOf(p.hosts) \cap HostsOf(q.hosts) = {}
  BY <1>3, <1>4, <1>5, <1>6
<1>8. HoldsBoth(c, p, q) /\ Ranged(c)
  BY <1>6, <1>7, MergeFile
<1>9. /\ Sound(c) /\ c.maxRows = 0 /\ Len(c.strings) <= Len(c.urls) + Len(c.hosts)
      /\ RowSet(c.urls, c.strings) = RowSet(p.urls, p.strings) \cup RowSet(q.urls, q.strings)
      /\ HostsOf(c.hosts) = HostsOf(p.hosts) \cup HostsOf(q.hosts)
  BY <1>8 DEF HoldsBoth
<1>10. PICK S : S = {i, j}
  OBVIOUS
<1>11. Room(live, H, b + 1) /\ b \in Nat
  <2>1. Room(live, H, b)
    BY DEF HeldBy
  <2> QED BY <2>1, RoomNext
<1>12. Writable(c, H, b + 1)
  <2>1. HostsOf(c.hosts) \subseteq H
    BY <1>4, <1>5, <1>9
  <2> QED BY <1>8, <1>9, <2>1, FitRebased
<1>13. Apart(c, S)
  <2> SUFFICES ASSUME NEW k \in (1..Len(files)) \ S PROVE HostsOf(c.hosts) \cap HostSet(files[k]) = {}
    BY DEF Apart
  <2>1. HostsOf(p.hosts) \cap HostSet(files[k]) = {} /\ HostsOf(q.hosts) \cap HostSet(files[k]) = {}
    BY <1>4, <1>5, <1>10
  <2> QED BY <1>9, <2>1
<1>14. ASSUME NEW x PROVE x \in live <=> Elsewhere(x, S) \/ x \in RowSet(c.urls, c.strings)
  <2>1. Elsewhere(x, {i}) <=> Elsewhere(x, S) \/ x \in Rows(files[j])
    BY <1>3, <1>5, <1>10 DEF Elsewhere
  <2> QED BY <1>4, <1>6, <1>9, <2>1
<1>15. Rewrite(S, c) /\ b <= b + 1 /\ H \subseteq H
  BY <1>2, <1>10, <1>11
<1>16. HeldBy(files', live, H, b + 1)
  BY <1>11, <1>12, <1>13, <1>14, <1>15, RewriteKeeps
<1> QED BY <1>3, <1>16

\* A checkpoint of g into file i.
LEMMA SaveKeeps ==
  ASSUME NEW H, NEW b, HeldBy(files, live, H, b), NEW i, NEW g, Sound(g), Save(i, g),
         NEW more, NEW G, Room(more, G, b + 1), H \subseteq G, HostsOf(g.hosts) \subseteq G,
         Len(g.strings) <= 2 * (b + 1), Apart(g, {i}),
         \A x : x \in more <=> Elsewhere(x, {i}) \/ x \in RowSet(g.urls, g.strings)
  PROVE  HeldBy(files', more, G, b + 1)
<1>1. PICK wheelOn, c : /\ c \in Checkpoint(g.id, g.urls, g.hosts, g.strings, wheelOn, 0)
                        /\ Rewrite({i}, c)
  BY DEF Save
<1>2. /\ g.strings \in Seq(Int) /\ URLsSound(g.urls, g.strings) /\ HostsSound(g.hosts, g.strings)
      /\ Homed(g.urls, g.hosts)
  BY DEF Sound
<1>3. /\ Sound(c) /\ c.strings = g.strings /\ c.maxRows = 0
      /\ RowSet(c.urls, c.strings) = RowSet(g.urls, g.strings) /\ HostsOf(c.hosts) = HostsOf(g.hosts)
      /\ sortedHosts(c.hosts) => Ranged(c)
  BY <1>1, <1>2, CheckpointHolds
<1>4. Writable(c, G, b + 1)
  <2>1. c.maxRows \in Nat /\ HostsOf(c.hosts) \subseteq G /\ Len(c.strings) <= 2 * (b + 1)
    BY <1>3
  <2> QED BY <1>3, <2>1, Zenon DEF Writable
<1>5. Apart(c, {i})
  BY <1>3 DEF Apart
<1>6. \A x : x \in more <=> Elsewhere(x, {i}) \/ x \in RowSet(c.urls, c.strings)
  BY <1>3
<1>7. b <= b + 1
  BY DEF HeldBy, Room
<1> QED BY <1>1, <1>4, <1>5, <1>6, <1>7, RewriteKeeps

LEMMA RecrawlKeeps ==
  ASSUME NEW H, NEW b, HeldBy(files, live, H, b), 2 * (b + 1) < Word, NEW i \in DOMAIN files,
         NEW k \in 1..files[i].nURL, NEW v \in Verdicts, NEW s \in Strings, Recrawl(i, k, v, s)
  PROVE  HeldBy(files', live', H, b + 1)
<1>1. PICK p, g : /\ p \in Decode(files[i]) /\ g = Recrawled(p, k, v, s) /\ Save(i, g)
                  /\ live' = {r \in live : KeyOf(r) # KeyOf(g.urls[k])}
                             \cup ResolvedURLs([g EXCEPT !.urls = <<g.urls[k]>>])
  BY DEF Recrawl
<1>2. /\ i \in 1..Len(files) /\ Opened(p, files[i], b) /\ HostsOf(p.hosts) \subseteq H
      /\ \A j \in (1..Len(files)) \ {i} : HostsOf(p.hosts) \cap HostSet(files[j]) = {}
      /\ \A x : x \in live <=> Elsewhere(x, {i}) \/ x \in RowSet(p.urls, p.strings)
      /\ \A x : Elsewhere(x, {i}) => x.host \notin HostsOf(p.hosts)
  BY <1>1, KeptOpens
<1>3. /\ IsPart(p) /\ Sound(p) /\ k \in 1..Len(p.urls) /\ Len(p.strings) \in Nat /\ Len(p.strings) <= 2 * b
  BY <1>2 DEF Opened
<1>4. v \in (0..7) \X (0..(Half - 1)) /\ s \in Int
  BY CollectionAssumption, SmallPowers
<1>5. PICK extra : extra = ResolvedURLs([g EXCEPT !.urls = <<g.urls[k]>>])
  OBVIOUS
<1>6. /\ Sound(g) /\ HostsOf(g.hosts) = HostsOf(p.hosts) /\ Len(g.strings) = Len(p.strings) + 1
      /\ KeyOf(g.urls[k]) = KeyOf(p.urls[k])
      /\ RowSet(g.urls, g.strings) = {x \in RowSet(p.urls, p.strings) : KeyOf(x) # KeyOf(g.urls[k])} \cup extra
  <2>1. g = Recrawled(p, k, v, s)
    BY <1>1
  <2>2. RecrawledTo(g, p, k)
    BY <1>3, <1>4, <2>1, RecrawledHolds
  <2> QED BY <1>5, <2>2 DEF RecrawledTo
<1>7. PICK y : extra = {y}
  <2>1. IsPart(g)
    <3>1. PICK new, us, more : Renews(new, us, more, p.urls, p.strings, k, v, s)
      BY DEF Renews
    <3>2. g = Recrawled(p, k, v, s)
      BY <1>1
    <3> QED BY <1>3, <3>1, <3>2, RecrawledIs
  <2> QED BY <1>5, <2>1, OneRowPart
<1>8. PICK more : more = live'
  OBVIOUS
<1>9. more = {x \in live : KeyOf(x) # KeyOf(g.urls[k])} \cup {y}
  BY <1>1, <1>5, <1>7, <1>8
<1>10. Room(live, H, b) /\ b \in Nat
  BY DEF HeldBy, Room
<1>11. Room(more, H, b + 1)
  <2>1. more \subseteq live \cup {y} /\ H \subseteq H \cup {0}
    BY <1>9
  <2> QED BY <1>10, <2>1, RoomMore
<1>12. Len(g.strings) <= 2 * (b + 1)
  <2>1. PICK n \in Nat : n = Len(p.strings)
    BY <1>3
  <2>2. n <= 2 * b /\ Len(g.strings) = n + 1
    BY <1>3, <1>6, <2>1
  <2> QED BY <1>10, <2>2
<1>13. Apart(g, {i}) /\ HostsOf(g.hosts) \subseteq H /\ H \subseteq H
  BY <1>2, <1>6 DEF Apart
<1>14. ASSUME NEW x, Elsewhere(x, {i}) PROVE KeyOf(x) # KeyOf(g.urls[k])
  <2>1. x.host \notin HostsOf(p.hosts)
    BY <1>2, <1>14
  <2>2. p.urls[k].host \in HostsOf(p.hosts)
    BY <1>3 DEF Sound, Homed
  <2>3. x.host # p.urls[k].host
    BY <2>1, <2>2
  <2>4. KeyOf(x) # KeyOf(p.urls[k])
    BY <2>3 DEF KeyOf
  <2> QED BY <1>6, <2>4
<1>15. \A x : x \in more <=> Elsewhere(x, {i}) \/ x \in RowSet(g.urls, g.strings)
  BY <1>2, <1>6, <1>7, <1>9, <1>14
<1>16. Save(i, g)
  BY <1>1
<1>17. HeldBy(files', more, H, b + 1)
  BY <1>6, <1>11, <1>12, <1>13, <1>15, <1>16, SaveKeeps
<1> QED BY <1>8, <1>17

LEMMA DiscoverFiles ==
  ASSUME NEW H, NEW b, HeldBy(files, live, H, b), 2 * (b + 1) < Word, NEW i \in DOMAIN files, NEW r \in Finds,
         Discover(i, r)
  PROVE  HeldBy(files', live', H \cup {r.host}, b + 1)
<1>1. PICK p, g : p \in Decode(files[i]) /\ g = Grown(p, r) /\ Save(i, g)
  BY DEF Discover
<1>2. /\ i \in 1..Len(files) /\ Opened(p, files[i], b) /\ HostsOf(p.hosts) \subseteq H
      /\ \A j \in (1..Len(files)) \ {i} : HostsOf(p.hosts) \cap HostSet(files[j]) = {}
      /\ \A x : x \in live <=> Elsewhere(x, {i}) \/ x \in RowSet(p.urls, p.strings)
  BY <1>1, KeptOpens
<1>3. /\ IsPart(p) /\ Sound(p) /\ Len(p.strings) \in Nat /\ Len(p.strings) <= 2 * b
  BY <1>2 DEF Opened
<1>4. IsRow(r)
  BY CollectionAssumption
<1>5. \A q \in live : KeyOf(q) # KeyOf(r)
  BY DEF Discover
<1>6. \A x \in RowSet(p.urls, p.strings) : KeyOf(x) # KeyOf(r)
  BY <1>2, <1>5
<1>7. g = Grown(p, r)
  BY <1>1
<1>8. /\ Sound(g) /\ Len(g.strings) = Len(p.strings) + 2
      /\ RowSet(g.urls, g.strings) = RowSet(p.urls, p.strings) \cup {r}
      /\ HostsOf(g.hosts) = HostsOf(p.hosts) \cup {r.host}
  BY <1>3, <1>4, <1>6, <1>7, GrownHolds
<1>9. PICK more, G : more = live \cup {r} /\ G = H \cup {r.host}
  OBVIOUS
<1>10. live' = more
  BY <1>9 DEF Discover
<1>11. Room(live, H, b) /\ b \in Nat
  BY DEF HeldBy, Room
<1>12. Room(more, G, b + 1)
  <2>1. more \subseteq live \cup {r} /\ G \subseteq H \cup {r.host}
    BY <1>9
  <2> QED BY <1>11, <2>1, RoomMore
<1>13. Len(g.strings) <= 2 * (b + 1)
  <2>1. PICK n \in Nat : n = Len(p.strings)
    BY <1>3
  <2>2. n <= 2 * b /\ Len(g.strings) = n + 2
    BY <1>3, <1>8, <2>1
  <2> QED BY <1>11, <2>2
<1>14. HostsOf(g.hosts) \subseteq G /\ H \subseteq G
  BY <1>2, <1>8, <1>9
<1>15. Apart(g, {i})
  <2> SUFFICES ASSUME NEW j \in (1..Len(files)) \ {i} PROVE HostsOf(g.hosts) \cap HostSet(files[j]) = {}
    BY DEF Apart
  <2>1. j \in DOMAIN files \ {i} /\ Filed(files[j], Rows(files[j]), HostSet(files[j]), H, b)
    BY DEF HeldBy
  <2>2. PICK q : /\ q \in Decode(files[j]) /\ Sound(q) /\ HostsOf(q.hosts) = HostSet(files[j])
    BY <2>1 DEF Filed, Good, HostSet
  <2>3. \A h \in Range(q.hosts) : h.host # r.host
    BY <2>1, <2>2 DEF Discover
  <2>4. r.host \notin HostsOf(q.hosts)
    <3>1. q.hosts \in Seq(HostRows(Len(q.strings)))
      BY <2>2 DEF Sound, HostsSound
    <3> QED BY <2>3, <3>1 DEF HostsOf, Range
  <2> QED BY <1>2, <1>8, <2>2, <2>4
<1>16. \A x : x \in more <=> Elsewhere(x, {i}) \/ x \in RowSet(g.urls, g.strings)
  BY <1>2, <1>8, <1>9
<1>17. Save(i, g)
  BY <1>1
<1>18. HeldBy(files', more, G, b + 1)
  BY <1>8, <1>12, <1>13, <1>14, <1>15, <1>16, <1>17, SaveKeeps
<1> QED BY <1>9, <1>10, <1>18

\* The files decode to the rows that should be there, and stay small enough
\* for the operations that are left.
CollInv ==
  /\ ops \in 0..MaxOps
  /\ \E c \in Nat : \E H : 2 * (c + MaxOps) < Word /\ HeldBy(files, live, H, c + ops)

LEMMA OneKept ==
  ASSUME NEW f, NEW R, NEW H, NEW b, Room(R, H, b), Filed(f, R, H, H, b)
  PROVE  HeldBy(<<f>>, R, H, b)
<1>1. PICK g : g = <<f>>
  OBVIOUS
<1>2. Len(g) = 1 /\ g[1] = f /\ g = [k \in 1..Len(g) |-> g[k]]
  BY <1>1
<1>3. \A k \in 1..Len(g) : k = 1 /\ g[k] = f
  BY <1>2
<1>4. Rows(f) = R /\ HostSet(f) = H
  BY DEF Filed
<1>5. \A k \in 1..Len(g) : Filed(g[k], Rows(g[k]), HostSet(g[k]), H, b)
  BY <1>3, <1>4
<1>6. \A x : x \in R <=> \E k \in 1..Len(g) : x \in Rows(g[k])
  BY <1>2, <1>3, <1>4
<1>7. Len(g) \in Nat /\ \A i, j \in 1..Len(g) : i # j => HostSet(g[i]) \cap HostSet(g[j]) = {}
  BY <1>2, <1>3
<1>8. HeldBy(g, R, H, b)
  BY <1>2, <1>5, <1>6, <1>7 DEF HeldBy
<1> QED BY <1>1, <1>8

LEMMA CollInit == Init => CollInv
<1> SUFFICES ASSUME Init PROVE CollInv
  OBVIOUS
<1>1. PICK S \in Starts, cap \in Caps, wheelOn \in BOOLEAN :
        \E p \in FirstFile(S, cap, wheelOn) : live = S /\ \E f \in Written(p) : files = <<f>>
  BY DEF Init
<1>2. PICK p \in FirstFile(S, cap, wheelOn) : live = S /\ \E f \in Written(p) : files = <<f>>
  BY <1>1
<1>3. PICK f \in Encode(p, Wins) : files = <<f>>
  BY <1>2 DEF Written
<1>4. /\ IsFiniteSet(S) /\ 2 * (Cardinality(S) + MaxOps) < Word /\ MaxOps \in Nat /\ cap \in Nat
      /\ \A r \in S : IsRow(r) /\ \A q \in S : KeyOf(r) = KeyOf(q) => r = q
  BY CollectionAssumption
<1>5. PICK H : H = HostsIn(S)
  OBVIOUS
<1>6. /\ Sound(p) /\ p.maxRows = cap /\ RowSet(p.urls, p.strings) = S /\ HostsOf(p.hosts) = H
      /\ Len(p.strings) <= 2 * Cardinality(S) /\ (sortedHosts(p.hosts) => Ranged(p))
  <2>1. IsFiniteSet(S) /\ (\A r \in S : IsRow(r)) /\ \A r, q \in S : KeyOf(r) = KeyOf(q) => r = q
    BY <1>4
  <2> QED BY <1>5, <2>1, FirstFileHolds
<1>7. PICK c \in Nat : c = Cardinality(S)
  BY <1>4, FS_CardinalityType
<1>8. IsFiniteSet(H) /\ Cardinality(H) <= c
  BY <1>4, <1>5, <1>7, FewHosts
<1>9. 2 * (c + MaxOps) < Word
  BY <1>4, <1>7
<1>10. 2 * c < Word
  BY <1>4, <1>9, WordIs
<1>11. Room(S, H, c)
  BY <1>4, <1>7, <1>8, <1>10 DEF Room
<1>12. Writable(p, H, c)
  <2>1. p.maxRows \in Nat /\ HostsOf(p.hosts) \subseteq H /\ Len(p.strings) <= 2 * c
    BY <1>4, <1>6, <1>7
  <2> QED BY <1>6, <2>1, Zenon DEF Writable
<1>13. RowSet(p.urls, p.strings) \subseteq S
  BY <1>6
<1>14. Filed(f, Rows(f), HostSet(f), H, c) /\ Rows(f) = RowSet(p.urls, p.strings) /\ HostSet(f) = HostsOf(p.hosts)
  BY <1>11, <1>12, <1>13, FitMade
<1>15. Filed(f, S, H, H, c)
  BY <1>6, <1>14
<1>16. HeldBy(<<f>>, S, H, c)
  BY <1>11, <1>15, OneKept
<1>17. ops = 0 /\ live = S
  BY <1>2 DEF Init
<1>18. HeldBy(files, live, H, c + ops)
  <2>1. c + ops = c
    BY <1>17
  <2> QED BY <1>3, <1>16, <1>17, <2>1
<1>19. ops \in 0..MaxOps
  BY <1>4, <1>17
<1> QED BY <1>9, <1>18, <1>19 DEF CollInv

LEMMA CollNext == CollInv /\ [Next]_vars => CollInv'
<1> SUFFICES ASSUME CollInv, [Next]_vars PROVE CollInv'
  OBVIOUS
<1>1. PICK c, H : c \in Nat /\ ops \in 0..MaxOps /\ 2 * (c + MaxOps) < Word /\ HeldBy(files, live, H, c + ops)
  BY DEF CollInv
<1>2. CASE UNCHANGED vars
  <2>1. files' = files /\ live' = live /\ ops' = ops
    BY <1>2 DEF vars
  <2>2. HeldBy(files', live', H, c + ops')
    BY <1>1, <2>1
  <2> QED BY <1>1, <2>1, <2>2 DEF CollInv
<1>3. CASE Next
  <2>1. Step
    BY <1>3 DEF Next, SplitFile, MergeFiles, CompactFile, ExtractFile, Recrawl, Discover
  <2>2. MaxOps \in Nat
    BY CollectionAssumption
  <2>3. PICK b \in Nat : b = c + ops /\ b + 1 = c + ops' /\ ops' \in 0..MaxOps
    BY <1>1, <2>1, <2>2 DEF Step
  <2>4. 2 * (b + 1) < Word
    <3>1. PICK w \in Nat : w = Word
      BY WordIs
    <3>2. b + 1 <= c + MaxOps
      <4>1. PICK o \in Nat, k \in Nat : o = ops' /\ k = MaxOps /\ o <= k /\ b + 1 = c + o
        BY <2>2, <2>3
      <4>2. c \in Nat
        BY <1>1
      <4>3. o <= k
        BY <4>1
      <4>4. c + o <= c + k
        BY <4>2, <4>3
      <4> QED BY <4>1, <4>4
    <3> QED BY <1>1, <2>2, <3>1, <3>2
  <2>5. HeldBy(files, live, H, b)
    BY <1>1, <2>3
  <2>6. \E G : HeldBy(files', live', G, b + 1)
    <3>1. ASSUME NEW i \in DOMAIN files, NEW at \in Keys, SplitFile(i, at) PROVE HeldBy(files', live', H, b + 1)
      BY <2>4, <2>5, <3>1, SplitKeeps
    <3>2. ASSUME NEW i \in DOMAIN files, NEW j \in DOMAIN files, MergeFiles(i, j) PROVE HeldBy(files', live', H, b + 1)
      BY <2>4, <2>5, <3>2, MergeKeeps
    <3>3. ASSUME NEW i \in DOMAIN files, CompactFile(i) PROVE HeldBy(files', live', H, b + 1)
      BY <2>4, <2>5, <3>3, CompactKeeps
    <3>4. ASSUME NEW i \in DOMAIN files, NEW moving \in SUBSET Keys, ExtractFile(i, moving)
          PROVE  HeldBy(files', live', H, b + 1)
      BY <2>4, <2>5, <3>4, ExtractKeeps
    <3>5. ASSUME NEW i \in DOMAIN files, NEW k \in 1..files[i].nURL, NEW v \in Verdicts, NEW s \in Strings,
                 Recrawl(i, k, v, s)
          PROVE  HeldBy(files', live', H, b + 1)
      BY <2>4, <2>5, <3>5, RecrawlKeeps
    <3>6. ASSUME NEW i \in DOMAIN files, NEW r \in Finds, Discover(i, r)
          PROVE  HeldBy(files', live', H \cup {r.host}, b + 1)
      BY <2>4, <2>5, <3>6, DiscoverFiles
    <3> QED BY <1>3, <3>1, <3>2, <3>3, <3>4, <3>5, <3>6 DEF Next
  <2>7. PICK G : HeldBy(files', live', G, b + 1)
    BY <2>6
  <2>8. HeldBy(files', live', G, c + ops')
    BY <2>3, <2>7
  <2> QED BY <1>1, <2>3, <2>8 DEF CollInv
<1> QED BY <1>2, <1>3

\* The records of hosts beside the rows.
LEMMA HostsBeside ==
  ASSUME NEW p, Sound(p), NEW r \in Range(p.urls)
  PROVE  [host |-> r.host, span |-> {FullName(r.host)}] \in ResolvedHosts(p)
<1>1. PICK strings, urls, hosts : /\ strings = p.strings /\ urls = p.urls /\ hosts = p.hosts /\ strings \in Seq(Int)
                                  /\ URLsSound(urls, strings) /\ HostsSound(hosts, strings) /\ Homed(urls, hosts)
  BY DEF Sound
<1>2. urls \in Seq(URLRows(Len(strings))) /\ hosts \in Seq(HostRows(Len(strings)))
  BY <1>1 DEF URLsSound, HostsSound
<1>3. PICK i \in 1..Len(urls) : r = urls[i]
  BY <1>1, <1>2 DEF Range
<1>4. PICK j \in 1..Len(hosts) : hosts[j].host = r.host
  BY <1>1, <1>3 DEF Homed, HostsOf
<1>5. PICK h : h = hosts[j] /\ h \in Range(hosts) /\ h \in HostRows(Len(strings)) /\ h.host = r.host
  BY <1>2, <1>4 DEF Range
<1>6. h.ref \in 1..Len(strings) /\ strings[h.ref] = FullName(r.host)
  <2>1. strings[hosts[j].ref] = FullName(hosts[j].host)
    BY <1>1 DEF HostsSound
  <2> QED BY <1>5, <2>1, HostTyped
<1>7. arenaRead(strings, h.ref) = {FullName(r.host)}
  BY <1>1, <1>6 DEF arenaRead
<1> QED BY <1>1, <1>5, <1>7 DEF ResolvedHosts

LEMMA HostsListed ==
  ASSUME NEW p, Sound(p)
  PROVE  {r.host : r \in Range(p.hosts)} = HostsOf(p.hosts)
<1>1. p.hosts \in Seq(HostRows(Len(p.strings)))
  BY DEF Sound, HostsSound
<1> QED BY <1>1 DEF Range, HostsOf

LEMMA CollRows == CollInv => RowsKept
<1> SUFFICES ASSUME CollInv PROVE RowsKept
  OBVIOUS
<1>1. PICK H, b : HeldBy(files, live, H, b)
  BY DEF CollInv
<1>2. /\ DOMAIN files = 1..Len(files) /\ Len(files) \in Nat
      /\ \A i, j \in 1..Len(files) : i # j => HostSet(files[i]) \cap HostSet(files[j]) = {}
      /\ \A x : x \in live <=> \E i \in 1..Len(files) : x \in Rows(files[i])
      /\ \A i \in 1..Len(files) : Filed(files[i], Rows(files[i]), HostSet(files[i]), H, b)
  BY <1>1 DEF HeldBy
<1>3. ASSUME NEW i \in DOMAIN files
      PROVE  /\ Decode(files[i]) = {Held(files[i])} /\ Sound(Held(files[i]))
             /\ ResolvedURLs(Held(files[i])) = Rows(files[i]) /\ HostsOf(Held(files[i]).hosts) = HostSet(files[i])
  <2>1. Decode(files[i]) = {Held(files[i])} /\ Sound(Held(files[i]))
    BY <1>2 DEF Filed, Good
  <2>2. ResolvedURLs(Held(files[i])) = RowSet(Held(files[i]).urls, Held(files[i]).strings)
    BY <2>1, RowsOfPart
  <2> QED BY <2>1, <2>2 DEF Rows, HostSet
<1>4. ASSUME NEW i \in DOMAIN files PROVE Cardinality(Decode(files[i])) = 1
  BY <1>3, FS_Singleton
<1>5. live = UNION {UNION {ResolvedURLs(p) : p \in Decode(files[i])} : i \in DOMAIN files}
  <2>1. ASSUME NEW i \in DOMAIN files PROVE UNION {ResolvedURLs(p) : p \in Decode(files[i])} = Rows(files[i])
    BY <1>3
  <2>2. \A x : x \in UNION {UNION {ResolvedURLs(p) : p \in Decode(files[i])} : i \in DOMAIN files}
               <=> \E i \in DOMAIN files : x \in Rows(files[i])
    BY <2>1
  <2> QED BY <1>2, <2>2
<1>6. ASSUME NEW i \in DOMAIN files, NEW p \in Decode(files[i])
      PROVE  Sound(p) /\ HostsOf(p.hosts) = HostSet(files[i])
  BY <1>3
<1>7. ASSUME NEW i \in DOMAIN files, NEW j \in DOMAIN files, NEW p \in Decode(files[i]), NEW q \in Decode(files[j]),
             NEW k \in DOMAIN p.urls, NEW l \in DOMAIN q.urls, <<i, k>> # <<j, l>>
      PROVE  KeyOf(p.urls[k]) # KeyOf(q.urls[l])
  <2>1. Sound(p) /\ HostsOf(p.hosts) = HostSet(files[i]) /\ Sound(q) /\ HostsOf(q.hosts) = HostSet(files[j])
    BY <1>6
  <2>2. k \in 1..Len(p.urls) /\ l \in 1..Len(q.urls)
    BY <2>1 DEF Sound, URLsSound
  <2>3. CASE i = j
    <3>1. p = q /\ k # l
      BY <1>3, <1>7, <2>3
    <3> QED BY <2>1, <2>2, <3>1 DEF Sound, URLsSound
  <2>4. CASE i # j
    <3>1. p.urls[k].host \in HostSet(files[i]) /\ q.urls[l].host \in HostSet(files[j])
      BY <2>1, <2>2 DEF Sound, Homed
    <3>2. p.urls[k].host # q.urls[l].host
      BY <1>2, <2>4, <3>1
    <3> QED BY <3>2 DEF KeyOf
  <2> QED BY <2>3, <2>4
<1>8. ASSUME NEW i \in DOMAIN files, NEW p \in Decode(files[i]), NEW r \in Range(p.urls)
      PROVE  [host |-> r.host, span |-> {FullName(r.host)}] \in ResolvedHosts(p)
  BY <1>6, HostsBeside
<1>9. ASSUME NEW i \in DOMAIN files, NEW j \in DOMAIN files, i < j, NEW p \in Decode(files[i]), NEW q \in Decode(files[j])
      PROVE  {r.host : r \in Range(p.hosts)} \cap {r.host : r \in Range(q.hosts)} = {}
  <2>1. Sound(p) /\ HostsOf(p.hosts) = HostSet(files[i]) /\ Sound(q) /\ HostsOf(q.hosts) = HostSet(files[j])
    BY <1>6
  <2>2. {r.host : r \in Range(p.hosts)} = HostsOf(p.hosts) /\ {r.host : r \in Range(q.hosts)} = HostsOf(q.hosts)
    BY <2>1, HostsListed
  <2>3. i # j
    BY <1>2, <1>9
  <2> QED BY <1>2, <2>1, <2>2, <2>3
<1> QED BY <1>4, <1>5, <1>7, <1>8, <1>9 DEF RowsKept

\* The rows of a collection survive whatever is done to its files: for any
\* first rows, any order of split, merge, compact, extract and checkpoint,
\* and whatever encodings and pages the writer chooses, the files decode to
\* the rows that should be there (src/format/ops.go, extract.go, file.go).
THEOREM CollectionKeeps == Spec => []RowsKept
<1>1. Init => CollInv
  BY CollInit
<1>2. CollInv /\ [Next]_vars => CollInv'
  BY CollNext
<1>3. CollInv => RowsKept
  BY CollRows
<1> QED BY <1>1, <1>2, <1>3, PTL DEF Spec

LEMMA EntryIs ==
  ASSUME NEW i, NEW e
  PROVE  /\ ManifestEntryFor(i, e).file = i /\ ManifestEntryFor(i, e).lo = files[i].lo
         /\ ManifestEntryFor(i, e).hi = files[i].hi
  BY DEF ManifestEntryFor

\* The manifest lists an entry for each file, once.
LEMMA ManifestLists ==
  ASSUME NEW n \in Nat, DOMAIN files = 1..n, NEW tags, NEW m \in BuildManifest(tags)
  PROVE  Lists(m, Range(Entries(tags)))
<1>1. PICK E, S : E = Entries(tags) /\ S = Range(Entries(tags))
  OBVIOUS
<1>2. E = [i \in 1..n |-> ManifestEntryFor(i, tags[i])]
  BY <1>1 DEF Entries
<1>3. E \in Surjection(1..n, S)
  <2>1. S = {E[i] : i \in 1..n}
    BY <1>1, <1>2 DEF Range
  <2> QED BY <1>2, <2>1 DEF Surjection
<1>4. IsFiniteSet(1..n)
  <2>1. 1 \in Int /\ n \in Int
    OBVIOUS
  <2> QED BY <2>1, FS_Interval
<1>5. IsFiniteSet(S)
  BY <1>3, <1>4, FS_Surjection
<1>6. m \in SetToSeqs(S)
  BY <1>1 DEF BuildManifest
<1>7. m \in [1..Cardinality(S) -> S] /\ \A i, j \in 1..Cardinality(S) : i # j => m[i] # m[j]
  BY <1>6 DEF SetToSeqs
<1>8. Lists(m, S)
  BY <1>5, <1>7, InjectionLists
<1> QED BY <1>1, <1>8

LEMMA CollRoutes == CollInv => CleanRoutes
<1> SUFFICES ASSUME CollInv,
                    NEW tags, NEW m \in BuildManifest(tags), NEW epoch, Tiled(m, epoch),
                    NEW own, own = OfEpoch(m, epoch)
             PROVE  /\ \A hk \in Keys : Cardinality({k \in own : m[k].lo <= hk /\ hk <= m[k].hi}) = 1
                    /\ own = DOMAIN m => \A i \in DOMAIN files : \A p \in Decode(files[i]) : \A h \in Range(p.hosts) :
                         i \in {e.file : e \in Route(m, h.host)}
  BY DEF CleanRoutes, Tiled
<1>1. PICK H, b : HeldBy(files, live, H, b)
  BY DEF CollInv
<1>2. PICK n \in Nat : n = Len(files) /\ DOMAIN files = 1..n
  BY <1>1 DEF HeldBy
<1>3. ASSUME NEW i \in 1..n
      PROVE  /\ Decode(files[i]) = {Held(files[i])} /\ Sound(Held(files[i]))
             /\ files[i].lo \in Keys /\ files[i].hi \in Keys
             /\ \A h \in HostsOf(Held(files[i]).hosts) : files[i].lo <= h /\ h <= files[i].hi
  <2>1. Good(files[i])
    BY <1>1, <1>2 DEF HeldBy, Filed
  <2> QED BY <2>1 DEF Good, Ranged
<1>4. Lists(m, Range(Entries(tags)))
  BY <1>2, ManifestLists
<1>5. PICK c \in Nat : /\ m \in [1..c -> Range(Entries(tags))]
                       /\ \A x \in Range(Entries(tags)) : \E k \in 1..c : m[k] = x
  BY <1>4 DEF Lists
<1>6. Entries(tags) = [i \in 1..n |-> ManifestEntryFor(i, tags[i])]
  BY <1>2 DEF Entries
<1>7. \A x : x \in Range(Entries(tags)) <=> \E i \in 1..n : x = ManifestEntryFor(i, tags[i])
  BY <1>6 DEF Range
<1>8. DOMAIN m = 1..c /\ Len(m) = c
  BY <1>5
<1>9. ASSUME NEW k \in 1..c PROVE m[k].lo \in Keys /\ m[k].hi \in Keys
  <2>1. PICK i \in 1..n : m[k] = ManifestEntryFor(i, tags[i])
    BY <1>5, <1>7
  <2> QED BY <1>3, <2>1, EntryIs
<1>10. ASSUME NEW k \in 2..c PROVE m[k - 1].lo <= m[k].lo
  <2>1. m[k - 1].lo < m[k].lo \/ m[k - 1].lo = m[k].lo
    BY <1>8 DEF BuildManifest
  <2>2. k \in 1..c /\ k - 1 \in 1..c
    OBVIOUS
  <2>3. PICK x \in Int, y \in Int : x = m[k - 1].lo /\ y = m[k].lo
    BY <1>9, <2>2 DEF Keys
  <2> QED BY <2>1, <2>3
<1>11. Manifest(m)
  BY <1>8, <1>9, <1>10 DEF Manifest
<1>12. ASSUME NEW hk \in Keys
       PROVE  \E k \in own : /\ {j \in own : m[j].lo <= hk /\ hk <= m[j].hi} = {k}
                             /\ own = DOMAIN m => Route(m, hk) = {m[k]}
  BY <1>11, CoverageRoutes
<1>13. ASSUME NEW hk \in Keys PROVE Cardinality({k \in own : m[k].lo <= hk /\ hk <= m[k].hi}) = 1
  <2>1. PICK k \in own : {j \in own : m[j].lo <= hk /\ hk <= m[j].hi} = {k}
    BY <1>12
  <2> QED BY <2>1, FS_Singleton
<1>14. ASSUME own = DOMAIN m, NEW i \in DOMAIN files, NEW p \in Decode(files[i]), NEW h \in Range(p.hosts)
       PROVE  i \in {e.file : e \in Route(m, h.host)}
  <2>1. i \in 1..n
    BY <1>2
  <2>2. p = Held(files[i]) /\ Sound(p) /\ \A x \in HostsOf(p.hosts) : files[i].lo <= x /\ x <= files[i].hi
    BY <1>3, <2>1
  <2>3. h.host \in HostsOf(p.hosts)
    BY <2>2, HostsListed
  <2>4. PICK hk : hk = h.host /\ hk \in Keys /\ files[i].lo <= hk /\ hk <= files[i].hi
    <3>1. HostsOf(p.hosts) \subseteq Keys
      BY <2>2, HostsAreKeys DEF Sound
    <3> QED BY <2>2, <2>3, <3>1
  <2>5. PICK k \in 1..c : m[k] = ManifestEntryFor(i, tags[i])
    BY <1>5, <1>7, <2>1
  <2>6. m[k].lo <= hk /\ hk <= m[k].hi /\ m[k].file = i
    BY <2>4, <2>5, EntryIs
  <2>7. PICK l \in own : {j \in own : m[j].lo <= hk /\ hk <= m[j].hi} = {l} /\ Route(m, hk) = {m[l]}
    BY <1>12, <1>14, <2>4
  <2>8. k = l
    BY <1>8, <1>14, <2>6, <2>7
  <2> QED BY <2>4, <2>6, <2>7, <2>8
<1> QED BY <1>13, <1>14

\* A manifest that passes for an epoch gives each host key to one entry of it
\* and, when it has no other epoch, routes every host to the file that holds
\* it, whatever was done to the files: CoverageGap's verdict and Route agree
\* with what the files decode to (src/format/manifest.go,
\* src/engine/collection.go).
THEOREM CollectionRoutes == Spec => []CleanRoutes
<1>1. Init => CollInv
  BY CollInit
<1>2. CollInv /\ [Next]_vars => CollInv'
  BY CollNext
<1>3. CollInv => CleanRoutes
  BY CollRoutes
<1> QED BY <1>1, <1>2, <1>3, PTL DEF Spec
=============================================================================
