--------------------------- MODULE ControlProofs ----------------------------
(***************************************************************************)
(* Proofs about Control, for any finite set of machines, any scores and    *)
(* weights, any table size and any settings of the loop: the placement is  *)
(* always the rendezvous placement of the current fleet, losing a machine  *)
(* promotes the first replica and moves nothing else, and the loop's       *)
(* resizes are paced.                                                      *)
(***************************************************************************)
EXTENDS Control, FiniteSetTheorems, FunctionTheorems, SequenceTheorems, TLAPS

Healths == {"alive", "degraded", "failed", "draining"}
Part == [health : Healths, primary : Machines \cup {None},
         replicas : Seq(Machines), address : Machines \cup {None}]

---------------------------------------------------------------------------
(* Ranking *)

\* Ranking is by a strict total order.
LEMMA BeforeOrder ==
  ASSUME NEW S \in SUBSET Int, NEW key \in [S -> Int], NEW a \in S, NEW b \in S, NEW c \in S
  PROVE  /\ ~Before(key, a, a)
         /\ Before(key, a, b) /\ Before(key, b, c) => Before(key, a, c)
         /\ a # b => Before(key, a, b) \/ Before(key, b, a)
<1> key[a] \in Int /\ key[b] \in Int /\ key[c] \in Int /\ a \in Int /\ b \in Int /\ c \in Int
  OBVIOUS
<1> QED BY DEF Before

\* A machine ranked before another has fewer ahead of it.
LEMMA AheadGrows ==
  ASSUME NEW S \in SUBSET Int, IsFiniteSet(S), NEW key \in [S -> Int],
         NEW a \in S, NEW b \in S, Before(key, a, b)
  PROVE  Cardinality(Ahead(key, a)) < Cardinality(Ahead(key, b))
<1>1. DOMAIN key = S
  OBVIOUS
<1>2. Ahead(key, a) \subseteq Ahead(key, b)
  BY <1>1, BeforeOrder DEF Ahead
<1>3. a \in Ahead(key, b) /\ a \notin Ahead(key, a)
  BY <1>1, BeforeOrder DEF Ahead
<1>4. IsFiniteSet(Ahead(key, b))
  BY <1>1, FS_Subset DEF Ahead
<1>5. IsFiniteSet(Ahead(key, a)) /\ Cardinality(Ahead(key, a)) <= Cardinality(Ahead(key, b))
      /\ Cardinality(Ahead(key, a)) # Cardinality(Ahead(key, b))
  BY <1>2, <1>3, <1>4, FS_Subset
<1> QED BY <1>4, <1>5, FS_CardinalityType

\* The number ahead identifies a machine, and every place is taken.
LEMMA AheadCounts ==
  ASSUME NEW S \in SUBSET Int, IsFiniteSet(S), NEW key \in [S -> Int]
  PROVE  /\ \A a, b \in S : Cardinality(Ahead(key, a)) = Cardinality(Ahead(key, b)) => a = b
         /\ \A i \in 1..Cardinality(S) : \E m \in S : Cardinality(Ahead(key, m)) = i - 1
<1> DEFINE n == Cardinality(S)
           f == [m \in S |-> Cardinality(Ahead(key, m)) + 1]
<1>1. n \in Nat
  BY FS_CardinalityType
<1>2. ASSUME NEW m \in S PROVE Cardinality(Ahead(key, m)) \in Nat /\ Cardinality(Ahead(key, m)) + 1 <= n
  <2>1. Ahead(key, m) \subseteq S \ {m}
    BY BeforeOrder DEF Ahead
  <2>2. IsFiniteSet(S \ {m}) /\ Cardinality(S \ {m}) = n - 1
    BY FS_RemoveElement
  <2>3. IsFiniteSet(Ahead(key, m)) /\ Cardinality(Ahead(key, m)) <= Cardinality(S \ {m})
    BY <2>1, <2>2, FS_Subset
  <2>4. Cardinality(Ahead(key, m)) \in Nat
    BY <2>3, FS_CardinalityType
  <2> QED BY <2>2, <2>3, <2>4, <1>1
<1>3. ASSUME NEW a \in S, NEW b \in S, Cardinality(Ahead(key, a)) = Cardinality(Ahead(key, b))
      PROVE  a = b
  <2>1. Cardinality(Ahead(key, a)) \in Nat
    BY <1>2
  <2>2. CASE Before(key, a, b)
    BY <2>1, <2>2, <1>3, AheadGrows
  <2>3. CASE Before(key, b, a)
    BY <2>1, <2>3, <1>3, AheadGrows
  <2> QED BY <2>2, <2>3, BeforeOrder
<1>4. f \in [S -> 1..n]
  BY <1>1, <1>2
<1>5. \A a, b \in S : f[a] = f[b] => a = b
  <2> SUFFICES ASSUME NEW a \in S, NEW b \in S, f[a] = f[b] PROVE a = b
    OBVIOUS
  <2>1. Cardinality(Ahead(key, a)) + 1 = Cardinality(Ahead(key, b)) + 1
    OBVIOUS
  <2>2. Cardinality(Ahead(key, a)) \in Nat /\ Cardinality(Ahead(key, b)) \in Nat
    BY <1>2
  <2>3. Cardinality(Ahead(key, a)) = Cardinality(Ahead(key, b))
    BY <2>1, <2>2
  <2> QED BY <2>3, <1>3
<1>6. f \in Injection(S, 1..n)
  <2> HIDE DEF f, n
  <2> QED BY <1>4, <1>5, Fun_IsInj
<1>7. IsFiniteSet(1..n) /\ Cardinality(1..n) = n
  BY <1>1, FS_Interval
<1>8. f \in Surjection(S, 1..n)
  <2> HIDE DEF f
  <2> QED BY <1>6, <1>7, FS_Injection
<1>9. \A i \in 1..n : \E m \in S : f[m] = i
  <2> HIDE DEF f, n
  <2> QED BY <1>8, Fun_SurjectionProperties
<1>10. ASSUME NEW i \in 1..n PROVE \E m \in S : Cardinality(Ahead(key, m)) = i - 1
  <2>1. PICK m \in S : f[m] = i
    BY <1>9
  <2>2. Cardinality(Ahead(key, m)) + 1 = i /\ Cardinality(Ahead(key, m)) \in Nat
    BY <2>1, <1>2
  <2> QED BY <2>2, <1>1
<1> QED BY <1>3, <1>10

\* The list holds each machine once, in the place its rank says.
LEMMA RankedList ==
  ASSUME NEW S \in SUBSET Int, IsFiniteSet(S), NEW key \in [S -> Int]
  PROVE  /\ Cardinality(S) \in Nat
         /\ Ranked(key) \in [1..Cardinality(S) -> S]
         /\ \A i \in 1..Cardinality(S) : Cardinality(Ahead(key, Ranked(key)[i])) = i - 1
         /\ \A i, j \in 1..Cardinality(S) : Ranked(key)[i] = Ranked(key)[j] => i = j
         /\ \A i \in 1..Cardinality(S), m \in S :
              Cardinality(Ahead(key, m)) = i - 1 => Ranked(key)[i] = m
<1> DEFINE n == Cardinality(S)
           r == Ranked(key)
<1>1. n \in Nat
  BY FS_CardinalityType
<1>2. DOMAIN key = S
  OBVIOUS
<1>3. r = [i \in 1..n |-> CHOOSE m \in S : Cardinality(Ahead(key, m)) = i - 1]
  BY <1>2 DEF Ranked
<1>4. ASSUME NEW i \in 1..n
      PROVE  r[i] \in S /\ Cardinality(Ahead(key, r[i])) = i - 1
  <2>1. \E m \in S : Cardinality(Ahead(key, m)) = i - 1
    BY AheadCounts
  <2>2. r[i] = CHOOSE m \in S : Cardinality(Ahead(key, m)) = i - 1
    BY <1>3
  <2> HIDE DEF r, n
  <2> QED BY <2>1, <2>2
<1> HIDE DEF r
<1>5. r \in [1..n -> S]
  BY <1>3, <1>4
<1>6. ASSUME NEW i \in 1..n, NEW m \in S, Cardinality(Ahead(key, m)) = i - 1 PROVE r[i] = m
  <2>1. r[i] \in S /\ Cardinality(Ahead(key, r[i])) = Cardinality(Ahead(key, m))
    BY <1>4, <1>6
  <2>2. \A a, b \in S : Cardinality(Ahead(key, a)) = Cardinality(Ahead(key, b)) => a = b
    BY AheadCounts
  <2> QED BY <2>1, <2>2
<1>7. ASSUME NEW i \in 1..n, NEW j \in 1..n, r[i] = r[j] PROVE i = j
  <2>1. i - 1 = j - 1
    BY <1>4, <1>7
  <2> QED BY <2>1, <1>1
<1>8. \A i \in 1..n : Cardinality(Ahead(key, r[i])) = i - 1
  BY <1>4
<1>9. \A i, j \in 1..n : r[i] = r[j] => i = j
  BY <1>7
<1>10. \A i \in 1..n, m \in S : Cardinality(Ahead(key, m)) = i - 1 => r[i] = m
  BY <1>6
<1> QED BY <1>1, <1>5, <1>8, <1>9, <1>10 DEF r

---------------------------------------------------------------------------
(* Placement *)

\* What a partition ranks its machines by.
Keys(p, ms) == IF Weighted(ms) THEN [m \in ms |-> Score[p][m] * Weight[m]]
               ELSE [m \in ms |-> Score[p][m]]

LEMMA MinOfTwo ==
  ASSUME NEW a \in Int, NEW b \in Int
  PROVE  Min({a, b}) = IF a <= b THEN a ELSE b
<1>1. \E x \in {a, b} : \A y \in {a, b} : x <= y
  OBVIOUS
<1>2. Min({a, b}) \in {a, b} /\ \A y \in {a, b} : Min({a, b}) <= y
  BY <1>1 DEF Min
<1> QED BY <1>2

LEMMA SameInterval ==
  ASSUME NEW a \in Nat, NEW b \in Nat, 1..a = 1..b
  PROVE  a = b
<1>1. a > 0 => a \in 1..b
  OBVIOUS
<1>2. b > 0 => b \in 1..a
  OBVIOUS
<1> QED BY <1>1, <1>2

LEMMA KeysTyped ==
  ASSUME NEW p \in Ids, NEW ms \in SUBSET Machines
  PROVE  /\ ms \in SUBSET Int /\ IsFiniteSet(ms)
         /\ Keys(p, ms) \in [ms -> Int]
<1>1. ms \in SUBSET Int /\ IsFiniteSet(ms)
  <2>1. Machines \subseteq Nat \ {0} /\ IsFiniteSet(Machines)
    BY ControlAssumption
  <2>2. IsFiniteSet(ms)
    BY <2>1, FS_Subset
  <2> QED BY <2>1, <2>2
<1>2. ASSUME NEW m \in ms PROVE Score[p][m] \in Int /\ Score[p][m] * Weight[m] \in Int
  <2>1. Score[p][m] \in Nat /\ Weight[m] \in Nat
    BY ControlAssumption DEF Ids
  <2> QED BY <2>1
<1>3. [m \in ms |-> Score[p][m]] \in [ms -> Int] /\ [m \in ms |-> Score[p][m] * Weight[m]] \in [ms -> Int]
  BY <1>2
<1> QED BY <1>1, <1>3 DEF Keys

\* With a machine and a positive factor, the preference is the head of the
\* ranking, as long as the factor and the fleet allow.
LEMMA PreferenceList ==
  ASSUME NEW p \in Ids, NEW ms \in SUBSET Machines, ms # {}, NEW n \in Int, n > 0
  PROVE  /\ Cardinality(ms) \in Nat \ {0}
         /\ Preference(p, ms, n) \in Seq(ms)
         /\ Len(Preference(p, ms, n)) = Min({n + 1, Cardinality(ms)})
         /\ Len(Preference(p, ms, n)) \in 1..Cardinality(ms)
         /\ \A i \in 1..Len(Preference(p, ms, n)) :
              Preference(p, ms, n)[i] = Ranked(Keys(p, ms))[i]
<1> DEFINE c == Cardinality(ms)
           all == Ranked(Keys(p, ms))
           k == Min({n + 1, Len(all)})
<1>1. ms \in SUBSET Int /\ IsFiniteSet(ms) /\ Keys(p, ms) \in [ms -> Int]
  BY KeysTyped
<1>2. c \in Nat /\ c # 0
  BY <1>1, FS_CardinalityType, FS_EmptySet
<1>3. all \in [1..c -> ms]
  BY <1>1, RankedList
<1>4. Len(all) = c
  <2>1. all \in Seq(ms)
    BY <1>2, <1>3, SeqDef
  <2>2. Len(all) \in Nat /\ DOMAIN all = 1..Len(all)
    BY <2>1, LenProperties
  <2>3. 1..Len(all) = 1..c
    BY <2>2, <1>3
  <2> QED BY <2>2, <2>3, <1>2, SameInterval
<1>5. Preference(p, ms, n) = SubSeq(all, 1, k)
  BY DEF Preference, weightedPreference, preferenceList, Keys
<1>6. k \in 1..c /\ k = Min({n + 1, c})
  <2> HIDE DEF all, c
  <2>1. Min({n + 1, Len(all)}) = IF n + 1 <= c THEN n + 1 ELSE c
    BY <1>2, <1>4, MinOfTwo
  <2> QED BY <2>1, <1>2, <1>4
<1> HIDE DEF all, k, c
<1>7. \A i \in 1..k : all[i] \in ms
  BY <1>2, <1>3, <1>6
<1>8. /\ SubSeq(all, 1, k) \in Seq(ms)
      /\ Len(SubSeq(all, 1, k)) = k
      /\ \A i \in 1..k : SubSeq(all, 1, k)[i] = all[i]
  <2>1. k \in Int /\ 1 <= k
    BY <1>2, <1>6
  <2>2. /\ SubSeq(all, 1, k) \in Seq(ms)
        /\ Len(SubSeq(all, 1, k)) = IF 1 <= k THEN k - 1 + 1 ELSE 0
        /\ \A i \in 1..(k - 1 + 1) : SubSeq(all, 1, k)[i] = all[1 + i - 1]
    BY <2>1, <1>7, SubSeqProperties
  <2>3. k - 1 + 1 = k /\ \A i \in 1..k : 1 + i - 1 = i
    BY <2>1
  <2> QED BY <2>1, <2>2, <2>3
<1> QED BY <1>2, <1>5, <1>6, <1>8 DEF all, c

\* The placement of partition id: on the head of the ranking, the replicas
\* after the primary, and the primary's address if it has one; with no
\* machine or no factor, no replicas.
Fits(part, id, ms, n) ==
  LET pref == Preference(id, ms, n)
  IN IF ms = {} \/ n <= 0 THEN part.replicas = <<>>
     ELSE /\ part.primary = pref[1] /\ part.replicas = Tail(pref)
          /\ part.primary \in Addressed => part.address = part.primary

\* replace places every partition and changes nothing else.
LEMMA ReplacePlaces ==
  ASSUME NEW ps \in Seq(Part), Len(ps) <= MaxParts,
         NEW ms \in SUBSET Machines, NEW n \in Int
  PROVE  /\ replace(ps, ms, n) \in Seq(Part)
         /\ Len(replace(ps, ms, n)) = Len(ps)
         /\ \A i \in 1..Len(ps) :
              /\ Fits(replace(ps, ms, n)[i], i - 1, ms, n)
              /\ ms = {} \/ n <= 0 => replace(ps, ms, n)[i].primary = ps[i].primary
<1> DEFINE r == replace(ps, ms, n)
<1>1. Len(ps) \in Nat /\ DOMAIN ps = 1..Len(ps) /\ \A i \in 1..Len(ps) : ps[i] \in Part
  BY LenProperties, ElementOfSeq
<1>2. DOMAIN r = 1..Len(ps)
  BY <1>1 DEF replace
<1>3. ASSUME NEW i \in 1..Len(ps)
      PROVE  /\ r[i] \in Part /\ Fits(r[i], i - 1, ms, n)
             /\ ms = {} \/ n <= 0 => r[i].primary = ps[i].primary
  <2> DEFINE pref == Preference(i - 1, ms, n)
  <2>1. r[i] = IF ms = {} \/ n <= 0 THEN [ps[i] EXCEPT !.replicas = <<>>]
               ELSE [ps[i] EXCEPT !.primary = pref[1], !.replicas = Tail(pref),
                                  !.address = IF pref[1] \in Addressed THEN pref[1] ELSE @]
    BY <1>1 DEF replace
  <2>2. PICK q \in Part : q = ps[i]
    BY <1>1
  <2>3. CASE ms = {} \/ n <= 0
    <3>1. r[i] = [q EXCEPT !.replicas = <<>>]
      BY <2>1, <2>2, <2>3
    <3>2. <<>> \in Seq(Machines)
      BY EmptySeq
    <3> HIDE DEF r
    <3> QED BY <2>2, <2>3, <3>1, <3>2 DEF Part, Fits
  <2>4. CASE ~(ms = {} \/ n <= 0)
    <3>1. i - 1 \in Ids
      BY <1>1, ControlAssumption DEF Ids
    <3>2. pref \in Seq(ms) /\ Len(pref) \in 1..Cardinality(ms) /\ Cardinality(ms) \in Nat
      <4>1. ms # {} /\ n > 0
        BY <2>4
      <4> QED BY <3>1, <4>1, PreferenceList
    <3> HIDE DEF pref
    <3>3. pref # <<>> /\ pref[1] \in ms
      BY <3>2, ElementOfSeq, EmptySeq
    <3>4. Tail(pref) \in Seq(ms)
      BY <3>2, <3>3, HeadTailProperties
    <3>5. Tail(pref) \in Seq(Machines)
      BY <3>4, SeqMonotonic
    <3>6. PICK a \in Machines : a = pref[1]
      BY <3>3
    <3>7. PICK t \in Seq(Machines) : t = Tail(pref)
      BY <3>5
    <3>8. r[i] = [q EXCEPT !.primary = a, !.replicas = t, !.address = IF a \in Addressed THEN a ELSE @]
      BY <2>1, <2>2, <2>4, <3>6, <3>7
    <3> HIDE DEF r
    <3>9. /\ r[i] \in Part
          /\ r[i].primary = a /\ r[i].replicas = t /\ (a \in Addressed => r[i].address = a)
      BY <3>8 DEF Part
    <3> QED BY <2>4, <3>6, <3>7, <3>9 DEF Fits, pref
  <2> QED BY <2>3, <2>4
<1>4. r \in [1..Len(ps) -> Part]
  <2>1. r = [i \in 1..Len(ps) |-> r[i]]
    BY <1>1 DEF replace
  <2> HIDE DEF r
  <2> QED BY <1>3, <2>1
<1> HIDE DEF r
<1>5. r \in Seq(Part)
  BY <1>1, <1>4, SeqDef
<1>6. Len(r) \in Nat /\ 1..Len(r) = 1..Len(ps)
  BY <1>2, <1>5, LenProperties
<1>7. Len(r) = Len(ps)
  BY <1>1, <1>6
<1> QED BY <1>3, <1>5, <1>7 DEF r

---------------------------------------------------------------------------
(* The table *)

\* The table is well formed and every partition is placed as its ranking of
\* the current fleet says.
TableInv ==
  /\ parts \in Seq(Part) /\ Len(parts) \in 1..MaxParts
  /\ machines \in SUBSET Machines /\ replicas \in Int
  /\ \A i \in 1..Len(parts) : Fits(parts[i], i - 1, machines, replicas)

LEMMA NewPartType == NewPart \in Part
<1>1. <<>> \in Seq(Machines)
  BY EmptySeq
<1> QED BY <1>1 DEF NewPart, Part, Healths

LEMMA InitTable == Init => TableInv
<1> SUFFICES ASSUME Init PROVE TableInv
  OBVIOUS
<1>1. parts = <<NewPart>> /\ machines = {} /\ replicas = 0
  BY DEF Init
<1>2. parts \in Seq(Part) /\ Len(parts) = 1 /\ parts[1] = NewPart
  BY <1>1, NewPartType
<1>3. MaxParts \in Nat \ {0}
  BY ControlAssumption
<1>4. \A i \in 1..Len(parts) : Fits(parts[i], i - 1, machines, replicas)
  BY <1>1, <1>2 DEF Fits, NewPart
<1> QED BY <1>1, <1>2, <1>3, <1>4 DEF TableInv

\* The operations that end with replace.
LEMMA Replaced ==
  ASSUME NEW ps \in Seq(Part), Len(ps) \in 1..MaxParts,
         machines' \in SUBSET Machines, replicas' \in Int,
         parts' = replace(ps, machines', replicas')
  PROVE  /\ TableInv' /\ Len(parts') = Len(ps)
         /\ machines' = {} \/ replicas' <= 0 =>
              \A i \in 1..Len(ps) : parts'[i].primary = ps[i].primary
<1>1. PICK ms \in SUBSET Machines : ms = machines'
  OBVIOUS
<1>2. PICK n \in Int : n = replicas'
  OBVIOUS
<1>3. Len(ps) <= MaxParts
  BY ControlAssumption
<1>4. parts' = replace(ps, ms, n)
  BY <1>1, <1>2
<1>5. /\ parts' \in Seq(Part) /\ Len(parts') = Len(ps)
      /\ \A i \in 1..Len(ps) : /\ Fits(parts'[i], i - 1, ms, n)
                               /\ ms = {} \/ n <= 0 => parts'[i].primary = ps[i].primary
  BY <1>3, <1>4, ReplacePlaces
<1>6. \A i \in 1..Len(parts') : Fits(parts'[i], i - 1, machines', replicas')
  BY <1>1, <1>2, <1>5
<1> QED BY <1>1, <1>2, <1>5, <1>6 DEF TableInv

\* A new health leaves the placement alone.
LEMMA Relabelled ==
  ASSUME TableInv, NEW j \in 1..Len(parts), NEW h \in Healths,
         parts' = [parts EXCEPT ![j].health = h], UNCHANGED <<machines, replicas>>
  PROVE  TableInv' /\ Len(parts') = Len(parts)
<1>1. PICK ps \in Seq(Part) : ps = parts
  BY DEF TableInv
<1>2. PICK q : q = parts'
  OBVIOUS
<1>3. /\ Len(ps) \in Nat /\ ps \in [1..Len(ps) -> Part]
  BY LenProperties
<1>4. PICK old \in Part : old = ps[j]
  BY <1>1, <1>3
<1>5. [old EXCEPT !.health = h] \in Part
  BY DEF Part
<1>6. q = [ps EXCEPT ![j] = [old EXCEPT !.health = h]]
  BY <1>1, <1>2, <1>4
<1>7. q \in [1..Len(ps) -> Part]
  BY <1>3, <1>5, <1>6
<1>8. q \in Seq(Part)
  BY <1>3, <1>7, SeqDef
<1>9. Len(q) \in Nat /\ 1..Len(q) = 1..Len(ps)
  BY <1>7, <1>8, LenProperties
<1>10. Len(q) = Len(ps)
  BY <1>3, <1>9, SameInterval
<1>11. ASSUME NEW i \in 1..Len(ps)
       PROVE  /\ q[i].primary = ps[i].primary /\ q[i].replicas = ps[i].replicas
              /\ q[i].address = ps[i].address
  <2>1. CASE i = j
    <3>1. q[i] = [old EXCEPT !.health = h]
      BY <1>1, <1>3, <1>6, <2>1
    <3>2. /\ q[i].primary = old.primary /\ q[i].replicas = old.replicas
          /\ q[i].address = old.address
      BY <3>1 DEF Part
    <3> QED BY <1>4, <2>1, <3>2
  <2>2. CASE i # j
    <3>1. q[i] = ps[i]
      BY <1>1, <1>3, <1>6, <2>2
    <3> QED BY <3>1
  <2> QED BY <2>1, <2>2
<1>12. ASSUME NEW i \in 1..Len(ps) PROVE Fits(q[i], i - 1, machines, replicas)
  <2>1. Fits(ps[i], i - 1, machines, replicas)
    BY <1>1 DEF TableInv
  <2> QED BY <1>11, <2>1 DEF Fits
<1>13. machines' = machines /\ replicas' = replicas
  OBVIOUS
<1>14. machines \in SUBSET Machines /\ replicas \in Int /\ Len(ps) \in 1..MaxParts
  BY <1>1 DEF TableInv
<1>15. \A i \in 1..Len(parts') : Fits(parts'[i], i - 1, machines', replicas')
  BY <1>2, <1>10, <1>12, <1>13
<1> QED BY <1>1, <1>2, <1>8, <1>10, <1>13, <1>14, <1>15 DEF TableInv

LEMMA TableAdd ==
  ASSUME TableInv, AddPartition
  PROVE  TableInv' /\ Len(parts') = Len(parts) + 1
<1>1. PICK ps \in Seq(Part) : ps = parts
  BY DEF TableInv
<1>2. Len(ps) \in 1..MaxParts /\ Len(ps) < MaxParts /\ MaxParts \in Nat
  BY <1>1, ControlAssumption DEF TableInv, AddPartition, NumPartitions
<1>3. Append(ps, NewPart) \in Seq(Part) /\ Len(Append(ps, NewPart)) = Len(ps) + 1
  BY NewPartType, AppendProperties
<1>4. Len(Append(ps, NewPart)) \in 1..MaxParts
  BY <1>2, <1>3
<1>5. machines' \in SUBSET Machines /\ replicas' \in Int
      /\ parts' = replace(Append(ps, NewPart), machines', replicas')
  BY <1>1 DEF TableInv, AddPartition
<1> QED BY <1>1, <1>3, <1>4, <1>5, Replaced

LEMMA TableRemove ==
  ASSUME TableInv, RemovePartition
  PROVE  TableInv' /\ Len(parts') = Len(parts) - 1
<1>1. PICK ps \in Seq(Part) : ps = parts
  BY DEF TableInv
<1>2. PICK l \in Nat : l = Len(ps)
  BY LenProperties
<1>3. l \in 1..MaxParts /\ l > 1 /\ MaxParts \in Nat
  BY <1>1, <1>2, ControlAssumption DEF TableInv, RemovePartition, NumPartitions
<1>4. \A i \in 1..(l - 1) : ps[i] \in Part
  BY <1>2, <1>3, ElementOfSeq
<1>5. SubSeq(ps, 1, l - 1) \in Seq(Part) /\ Len(SubSeq(ps, 1, l - 1)) = l - 1
  <2>1. l - 1 \in Int /\ 1 <= l - 1 /\ l - 1 - 1 + 1 = l - 1
    BY <1>3
  <2> QED BY <2>1, <1>4, SubSeqProperties
<1>6. l - 1 \in 1..MaxParts
  BY <1>3
<1>7. machines' \in SUBSET Machines /\ replicas' \in Int
      /\ parts' = replace(SubSeq(ps, 1, l - 1), machines', replicas')
  BY <1>1, <1>2 DEF TableInv, RemovePartition, Front
<1>8. TableInv' /\ Len(parts') = l - 1
  BY <1>5, <1>6, <1>7, Replaced
<1> QED BY <1>1, <1>2, <1>8

\* A verdict changes a health or nothing.
LEMMA TableVerdict ==
  ASSUME TableInv, NEW id \in Ids, NEW h \in Healths, Verdict(id, h),
         UNCHANGED <<machines, replicas>>
  PROVE  TableInv' /\ Len(parts') = Len(parts)
<1>1. CASE Member(id) /\ parts[id + 1].health # h
  <2>1. parts' = [parts EXCEPT ![id + 1].health = h]
    BY <1>1 DEF Verdict
  <2>2. id + 1 \in 1..Len(parts)
    BY <1>1, ControlAssumption DEF Member, NumPartitions, Ids, TableInv
  <2> QED BY <2>1, <2>2, Relabelled
<1>2. CASE ~(Member(id) /\ parts[id + 1].health # h)
  BY <1>2 DEF Verdict, TableInv
<1> QED BY <1>1, <1>2

\* Every other step keeps the size of the table.
LEMMA TableKept ==
  ASSUME TableInv, Next, ~Operator, ~TickResize
  PROVE  TableInv' /\ Len(parts') = Len(parts)
<1>1. parts \in Seq(Part) /\ Len(parts) \in 1..MaxParts
      /\ machines \in SUBSET Machines /\ replicas \in Int
  BY DEF TableInv
<1>2. ASSUME NEW n \in Factors, SetReplicas(n) PROVE TableInv' /\ Len(parts') = Len(parts)
  <2>1. machines' \in SUBSET Machines /\ replicas' \in Int /\ parts' = replace(parts, machines', replicas')
    BY <1>1, <1>2, ControlAssumption DEF SetReplicas
  <2> QED BY <1>1, <2>1, Replaced
<1>3. ASSUME NEW ms \in SUBSET Machines, SetMachines(ms) PROVE TableInv' /\ Len(parts') = Len(parts)
  <2>1. machines' \in SUBSET Machines /\ replicas' \in Int /\ parts' = replace(parts, machines', replicas')
    BY <1>1, <1>3 DEF SetMachines
  <2> QED BY <1>1, <2>1, Replaced
<1>4. ASSUME NEW m \in Machines, FailMachine(m) PROVE TableInv' /\ Len(parts') = Len(parts)
  <2>1. machines' \in SUBSET Machines /\ replicas' \in Int /\ parts' = replace(parts, machines', replicas')
    BY <1>1, <1>4 DEF FailMachine
  <2> QED BY <1>1, <2>1, Replaced
<1>5. ASSUME NEW id \in Ids, Heartbeat(id) PROVE TableInv' /\ Len(parts') = Len(parts)
  BY <1>5, TableVerdict DEF Heartbeat, Healths
<1>6. ASSUME NEW id \in Ids, NEW d \in Depths, HeartbeatLoad(id, d)
      PROVE  TableInv' /\ Len(parts') = Len(parts)
  BY <1>6, TableVerdict DEF HeartbeatLoad, Healths
<1>7. ASSUME NEW id \in Ids, MissHeartbeat(id) PROVE TableInv' /\ Len(parts') = Len(parts)
  <2>1. PICK h \in Healths : Verdict(id, h)
    BY <1>7 DEF MissHeartbeat, Healths
  <2> QED BY <1>7, <2>1, TableVerdict DEF MissHeartbeat
<1>8. ASSUME NEW id \in Ids, NEW h \in Healths, SetHealth(id, h)
      PROVE  TableInv' /\ Len(parts') = Len(parts)
  <2>1. id + 1 \in 1..Len(parts)
    BY <1>1, <1>8, ControlAssumption DEF SetHealth, Member, NumPartitions, Ids
  <2> QED BY <1>8, <2>1, Relabelled DEF SetHealth
<1>9. CASE UNCHANGED <<parts, machines, replicas>>
  BY <1>9 DEF TableInv
<1>10. TickCooling \/ TickBacklog \/ TickCount \/ TickHold => UNCHANGED <<parts, machines, replicas>>
  BY DEF TickCooling, TickBacklog, TickCount, TickHold
<1> QED BY <1>2, <1>3, <1>4, <1>5, <1>6, <1>7, <1>8, <1>9, <1>10 DEF Next, Healths

LEMMA TableStep ==
  ASSUME TableInv, [Next]_vars
  PROVE  TableInv'
<1>1. CASE UNCHANGED vars
  BY <1>1 DEF TableInv, vars
<1>2. CASE Operator
  BY <1>2, TableAdd, TableRemove DEF Operator
<1>3. CASE TickResize
  BY <1>3, TableAdd, TableRemove DEF TickResize
<1> QED BY <1>1, <1>2, <1>3, TableKept

\* Placement by the ranking is the placement the property asks for.
LEMMA FitsPlaced == TableInv => Placed
<1> SUFFICES ASSUME TableInv, NEW i \in 1..Len(parts)
             PROVE  /\ Range(parts[i].replicas) \subseteq machines
                    /\ machines # {} /\ replicas > 0 =>
                         /\ parts[i].primary \in machines \ Range(parts[i].replicas)
                         /\ Cardinality(Range(parts[i].replicas))
                              = Min({replicas, Cardinality(machines) - 1})
                         /\ parts[i].primary \in Addressed => parts[i].address = parts[i].primary
  <2>1. TableInv => DOMAIN parts = 1..Len(parts)
    BY LenProperties DEF TableInv
  <2> QED BY <2>1 DEF Placed
<1>1. PICK ms \in SUBSET Machines : ms = machines
  BY DEF TableInv
<1>2. PICK n \in Int : n = replicas
  BY DEF TableInv
<1>3. PICK q \in Part : q = parts[i]
  BY ElementOfSeq DEF TableInv
<1>4. Fits(q, i - 1, ms, n)
  BY <1>1, <1>2, <1>3 DEF TableInv
<1>5. CASE ms = {} \/ n <= 0
  <2>1. q.replicas = <<>>
    BY <1>4, <1>5 DEF Fits
  <2>2. Range(<<>>) = {}
    BY DEF Range
  <2> QED BY <1>1, <1>2, <1>3, <1>5, <2>1, <2>2
<1>6. CASE ~(ms = {} \/ n <= 0)
  <2>1. i - 1 \in Ids /\ ms # {} /\ n > 0
    BY <1>6, ControlAssumption DEF TableInv, Ids
  <2>2. PICK pref : pref = Preference(i - 1, ms, n)
    OBVIOUS
  <2>3. PICK c : c = Cardinality(ms)
    OBVIOUS
  <2>4. PICK r : r = Ranked(Keys(i - 1, ms))
    OBVIOUS
  <2>5. PICK k : k = Len(pref)
    OBVIOUS
  <2>6. /\ c \in Nat \ {0} /\ pref \in Seq(ms) /\ k \in 1..c /\ k = Min({n + 1, c})
        /\ \A j \in 1..k : pref[j] = r[j]
    BY <2>1, <2>2, <2>3, <2>4, <2>5, PreferenceList
  <2>7. \A x, y \in 1..c : r[x] = r[y] => x = y
    BY <2>1, <2>3, <2>4, KeysTyped, RankedList
  <2>8. q.primary = pref[1] /\ q.replicas = Tail(pref)
        /\ (q.primary \in Addressed => q.address = q.primary)
    BY <1>4, <1>6, <2>2 DEF Fits
  <2>9. PICK t : t = Tail(pref)
    OBVIOUS
  <2>10. t \in Seq(ms) /\ Len(t) = k - 1 /\ \A j \in 1..Len(t) : t[j] = pref[j + 1]
    <3>1. pref # <<>>
      <4>1. Len(pref) # 0
        BY <2>5, <2>6
      <4> QED BY <4>1, EmptySeq
    <3>2. /\ Tail(pref) \in Seq(ms) /\ Len(Tail(pref)) = Len(pref) - 1
          /\ \A j \in 1..Len(Tail(pref)) : Tail(pref)[j] = pref[j + 1]
      BY <2>6, <3>1, HeadTailProperties
    <3> QED BY <2>5, <2>9, <3>2
  <2>11. t \in [1..(k - 1) -> ms]
    BY <2>10, LenProperties
  <2>12. \A j \in 1..(k - 1) : t[j] = r[j + 1] /\ j + 1 \in 1..c /\ j + 1 # 1
    <3> SUFFICES ASSUME NEW j \in 1..(k - 1)
                 PROVE  t[j] = r[j + 1] /\ j + 1 \in 1..c /\ j + 1 # 1
      OBVIOUS
    <3>1. j + 1 \in 1..k /\ j + 1 \in 1..c /\ j + 1 # 1
      BY <2>6
    <3>2. t[j] = pref[j + 1]
      BY <2>10
    <3>3. pref[j + 1] = r[j + 1]
      BY <2>6, <3>1
    <3> QED BY <3>1, <3>2, <3>3
  <2>13. q.primary = r[1] /\ 1 \in 1..c /\ pref[1] \in ms
    <3>1. 1 \in 1..c /\ 1 \in 1..k /\ 1 \in 1..Len(pref)
      BY <2>5, <2>6
    <3>2. pref[1] \in ms
      BY <2>6, <3>1, ElementOfSeq
    <3>3. pref[1] = r[1]
      BY <2>6, <3>1
    <3> QED BY <2>8, <3>1, <3>2, <3>3
  <2>14. Range(t) \subseteq ms /\ q.primary \notin Range(t)
    BY <2>7, <2>11, <2>12, <2>13 DEF Range
  <2>15. Cardinality(Range(t)) = k - 1
    <3>1. \A x, y \in 1..(k - 1) : t[x] = t[y] => x = y
      <4> SUFFICES ASSUME NEW x \in 1..(k - 1), NEW y \in 1..(k - 1), t[x] = t[y] PROVE x = y
        OBVIOUS
      <4>1. x + 1 = y + 1
        BY <2>7, <2>12
      <4> QED BY <4>1
    <3>2. t \in Injection(1..(k - 1), ms)
      BY <2>11, <3>1, Fun_IsInj
    <3>3. t \in Bijection(1..(k - 1), Range(t))
      BY <3>2, Fun_InjMeansBijImage
    <3>4. ExistsBijection(1..(k - 1), Range(t))
      BY <3>3, Fun_ExistsBij
    <3>5. k - 1 \in Nat
      BY <2>6
    <3> QED BY <3>4, <3>5, FS_CountingElements
  <2>16. k - 1 = Min({n, c - 1})
    <3>1. Min({n + 1, c}) = IF n + 1 <= c THEN n + 1 ELSE c
      BY <2>6, MinOfTwo
    <3>2. Min({n, c - 1}) = IF n <= c - 1 THEN n ELSE c - 1
      BY <2>6, MinOfTwo
    <3> QED BY <2>6, <3>1, <3>2
  <2> QED BY <1>1, <1>2, <1>3, <2>3, <2>8, <2>9, <2>13, <2>14, <2>15, <2>16
<1> QED BY <1>5, <1>6

\* Through every change of machines, factor and table each partition runs on
\* a machine of the fleet, on as many others as the factor and the fleet
\* allow, all different, at its primary's address; and no partition lists a
\* replica outside the fleet.
THEOREM PlacementCurrent == Spec => []Placed
<1>1. Init => TableInv
  BY InitTable
<1>2. TableInv /\ [Next]_vars => TableInv'
  BY TableStep
<1>3. TableInv => Placed
  BY FitsPlaced
<1> QED BY <1>1, <1>2, <1>3, PTL DEF Spec

---------------------------------------------------------------------------
(* Losing a machine *)

\* No fleet mixes machines without a weight with weighted ones.
Unmixed == (\A m \in Machines : Weight[m] # 0) \/ (\A m \in Machines : Weight[m] \in {0, 1})

\* Then a machine's key does not depend on who else is in the fleet.
LEMMA KeysLocal ==
  ASSUME Unmixed, NEW p \in Ids, NEW ms \in SUBSET Machines, NEW m \in ms
  PROVE  \A a \in ms \ {m} : Keys(p, ms \ {m})[a] = Keys(p, ms)[a]
<1> SUFFICES ASSUME NEW a \in ms \ {m} PROVE Keys(p, ms \ {m})[a] = Keys(p, ms)[a]
  OBVIOUS
<1>1. Score[p][a] \in Nat /\ Weight[a] \in Nat
  BY ControlAssumption DEF Ids
<1>2. Weight[a] = 1 => Score[p][a] * Weight[a] = Score[p][a]
  BY <1>1
<1>3. Weighted(ms \ {m}) => Weighted(ms)
  BY DEF Weighted
<1>4. CASE Weighted(ms) /\ ~Weighted(ms \ {m})
  <2>1. Weight[a] \in {0, 1}
    BY <1>4 DEF Weighted
  <2>2. \A x \in Machines : Weight[x] # 0
    BY <1>4 DEF Weighted, Unmixed
  <2>3. Weight[a] = 1
    BY <2>1, <2>2
  <2> QED BY <1>2, <1>4, <2>3 DEF Keys
<1>5. CASE Weighted(ms) <=> Weighted(ms \ {m})
  BY <1>5 DEF Keys
<1> QED BY <1>3, <1>4, <1>5

LEMMA AheadLocal ==
  ASSUME Unmixed, NEW p \in Ids, NEW ms \in SUBSET Machines, NEW m \in ms
  PROVE  \A a \in ms \ {m} : Ahead(Keys(p, ms \ {m}), a) = Ahead(Keys(p, ms), a) \ {m}
<1>1. DOMAIN Keys(p, ms) = ms /\ DOMAIN Keys(p, ms \ {m}) = ms \ {m}
  BY DEF Keys
<1>2. \A x \in ms \ {m} : Keys(p, ms \ {m})[x] = Keys(p, ms)[x]
  BY KeysLocal
<1> QED BY <1>1, <1>2 DEF Ahead, Before

\* The first of a fleet stays first when another machine leaves it, and the
\* second becomes first when the first leaves.
LEMMA NextInLine ==
  ASSUME Unmixed, NEW p \in Ids, NEW ms \in SUBSET Machines, NEW m \in ms
  PROVE  LET r == Ranked(Keys(p, ms))
             s == Ranked(Keys(p, ms \ {m}))
         IN /\ r[1] # m => s[1] = r[1]
            /\ r[1] = m /\ Cardinality(ms) >= 2 => s[1] = r[2]
<1>0. \A a \in ms \ {m} : Ahead(Keys(p, ms \ {m}), a) = Ahead(Keys(p, ms), a) \ {m}
  BY AheadLocal
<1> DEFINE K == Keys(p, ms)
           L == Keys(p, ms \ {m})
           c == Cardinality(ms)
           r == Ranked(K)
           s == Ranked(L)
<1>1. ms \in SUBSET Int /\ IsFiniteSet(ms) /\ K \in [ms -> Int]
  BY KeysTyped
<1>2. ms \ {m} \in SUBSET Int /\ IsFiniteSet(ms \ {m}) /\ L \in [ms \ {m} -> Int]
  BY KeysTyped
<1>3. c \in Nat /\ c >= 1 /\ Cardinality(ms \ {m}) = c - 1
  <2>1. c \in Nat /\ c # 0
    BY <1>1, FS_CardinalityType, FS_EmptySet
  <2>2. Cardinality(ms \ {m}) = c - 1
    BY <1>1, FS_RemoveElement
  <2> QED BY <2>1, <2>2
<1>4. /\ r \in [1..c -> ms]
      /\ \A i \in 1..c : Cardinality(Ahead(K, r[i])) = i - 1
      /\ \A i, j \in 1..c : r[i] = r[j] => i = j
  BY <1>1, RankedList
<1>5. ASSUME NEW a \in ms \ {m}, Ahead(L, a) = {} PROVE s[1] = a
  <2>1. Cardinality(Ahead(L, a)) = 0
    BY <1>5, FS_EmptySet
  <2>2. Cardinality(ms \ {m}) \in Nat /\ Cardinality(ms \ {m}) # 0
    BY <1>2, FS_CardinalityType, FS_EmptySet
  <2>3. 1 \in 1..Cardinality(ms \ {m}) /\ 1 - 1 = 0
    BY <2>2
  <2>4. \A i \in 1..Cardinality(ms \ {m}), x \in ms \ {m} :
          Cardinality(Ahead(L, x)) = i - 1 => s[i] = x
    BY <1>2, RankedList
  <2> QED BY <2>1, <2>3, <2>4
<1>6. \A a \in ms : IsFiniteSet(Ahead(K, a))
  BY <1>1, FS_Subset DEF Ahead
<1>7. r[1] \in ms /\ Ahead(K, r[1]) = {}
  <2>1. r[1] \in ms /\ Cardinality(Ahead(K, r[1])) = 1 - 1
    BY <1>3, <1>4
  <2> QED BY <2>1, <1>6, FS_EmptySet
<1>8. ASSUME r[1] # m PROVE s[1] = r[1]
  <2>1. Ahead(L, r[1]) = {}
    <3>1. PICK a \in ms \ {m} : a = r[1]
      BY <1>7, <1>8
    <3> QED BY <1>0, <1>7, <3>1
  <2> QED BY <1>5, <1>7, <1>8, <2>1
<1>9. ASSUME r[1] = m, c >= 2 PROVE s[1] = r[2]
  <2>1. r[2] \in ms /\ Cardinality(Ahead(K, r[2])) = 1 /\ r[2] # m
    BY <1>3, <1>4, <1>9
  <2>2. PICK b \in ms : b = r[2]
    BY <2>1
  <2>3. m \in Ahead(K, b)
    <3>1. ~Before(K, b, m)
      BY <1>1, <1>7, <1>9 DEF Ahead
    <3>2. Before(K, m, b)
      BY <1>1, <2>1, <2>2, <3>1, BeforeOrder
    <3> QED BY <1>1, <3>2 DEF Ahead
  <2>4. Ahead(K, b) = {m}
    <3>1. PICK x : Ahead(K, b) = {x}
      BY <1>6, <2>1, <2>2, FS_Singleton
    <3> QED BY <2>3, <3>1
  <2>5. Ahead(L, b) = {}
    BY <1>0, <2>1, <2>2, <2>4
  <2> QED BY <1>5, <2>1, <2>2, <2>5
<1> QED BY <1>8, <1>9

LEMMA FailPromotes ==
  ASSUME Unmixed, TableInv, epoch \in Nat, NEW m \in machines, FailMachine(m), NEW i \in 1..Len(parts)
  PROVE  IF parts[i].primary # m THEN parts'[i].primary = parts[i].primary
         ELSE parts[i].replicas # <<>> =>
                parts'[i].primary = Head(parts[i].replicas) /\ epoch' > epoch
<1>1. PICK ms \in SUBSET Machines : ms = machines
  BY DEF TableInv
<1>2. PICK n \in Int : n = replicas
  BY DEF TableInv
<1>3. parts \in Seq(Part) /\ Len(parts) \in 1..MaxParts /\ i - 1 \in Ids
  BY ControlAssumption DEF TableInv, Ids
<1>4. machines' = ms \ {m} /\ replicas' = n /\ epoch' = epoch + 1 /\ m \in ms
      /\ parts' = replace(parts, machines', replicas')
  BY <1>1, <1>2 DEF FailMachine, Bump
<1>5. /\ TableInv' /\ Len(parts') = Len(parts)
      /\ (ms \ {m} = {} \/ n <= 0 => parts'[i].primary = parts[i].primary)
  BY <1>3, <1>4, Replaced
<1>6. epoch' > epoch
  BY <1>4
<1>7. PICK q \in Part : q = parts[i]
  BY <1>3, ElementOfSeq
<1>8. PICK w : w = parts'[i].primary
  OBVIOUS
<1>9. Fits(q, i - 1, ms, n)
  BY <1>1, <1>2, <1>7 DEF TableInv
<1>10. Fits(parts'[i], i - 1, ms \ {m}, n)
  BY <1>4, <1>5 DEF TableInv
<1> SUFFICES IF q.primary # m THEN w = q.primary
             ELSE q.replicas # <<>> => w = Head(q.replicas)
  BY <1>6, <1>7, <1>8
<1>11. CASE n <= 0
  <2>1. w = q.primary /\ q.replicas = <<>>
    BY <1>5, <1>7, <1>8, <1>9, <1>11 DEF Fits
  <2> QED BY <2>1
<1>12. CASE n > 0
  <2>1. PICK pref : pref = Preference(i - 1, ms, n)
    OBVIOUS
  <2>2. PICK r : r = Ranked(Keys(i - 1, ms))
    OBVIOUS
  <2>3. PICK c : c = Cardinality(ms)
    OBVIOUS
  <2>4. /\ c \in Nat \ {0} /\ pref \in Seq(ms) /\ Len(pref) \in 1..c
        /\ \A j \in 1..Len(pref) : pref[j] = r[j]
    <3>1. ms # {}
      BY <1>4
    <3> QED BY <1>3, <1>12, <2>1, <2>2, <2>3, <3>1, PreferenceList
  <2>5. q.primary = pref[1] /\ q.replicas = Tail(pref)
    BY <1>4, <1>9, <1>12, <2>1 DEF Fits
  <2>6. Len(pref) \in Nat /\ 1 \in 1..Len(pref)
    BY <2>4
  <2>7. q.primary = r[1]
    BY <2>4, <2>5, <2>6
  <2>8. /\ Tail(pref) \in Seq(ms) /\ Len(Tail(pref)) = Len(pref) - 1
        /\ \A j \in 1..Len(Tail(pref)) : Tail(pref)[j] = pref[j + 1]
    <3>1. pref # <<>>
      BY <2>6, EmptySeq
    <3> QED BY <2>4, <3>1, HeadTailProperties
  <2>9. ASSUME q.replicas # <<>> PROVE Head(q.replicas) = r[2] /\ c >= 2
    <3>1. PICK t \in Seq(ms) : t = Tail(pref)
      BY <2>8
    <3>2. t # <<>> /\ q.replicas = t
      BY <2>5, <2>9, <3>1
    <3>3. Len(t) \in Nat /\ Len(t) # 0
      BY <3>2, EmptySeq, LenProperties
    <3>4. Len(t) = Len(pref) - 1 /\ 1 \in 1..Len(t) /\ 2 \in 1..Len(pref)
      BY <2>6, <2>8, <3>1, <3>3
    <3>5. t[1] = pref[1 + 1] /\ 1 + 1 = 2
      BY <2>8, <3>1, <3>4
    <3>6. t[1] = r[2]
      BY <2>4, <3>4, <3>5
    <3>7. Head(t) = t[1]
      BY <3>2
    <3>8. c >= 2
      BY <2>4, <3>4
    <3> QED BY <3>2, <3>6, <3>7, <3>8
  <2>10. CASE ms \ {m} = {}
    <3>1. w = q.primary
      BY <1>5, <1>7, <1>8, <2>10
    <3>2. Cardinality(ms) = 1
      <4>1. ms = {m}
        BY <1>4, <2>10
      <4> QED BY <4>1, FS_Singleton
    <3>3. ~(c >= 2)
      BY <2>3, <3>2
    <3> QED BY <2>9, <3>1, <3>3
  <2>11. CASE ms \ {m} # {}
    <3>1. PICK s : s = Ranked(Keys(i - 1, ms \ {m}))
      OBVIOUS
    <3>2. w = s[1]
      <4>1. w = Preference(i - 1, ms \ {m}, n)[1]
        BY <1>8, <1>10, <1>12, <2>11 DEF Fits
      <4>2. ms \ {m} \in SUBSET Machines
        OBVIOUS
      <4>3. /\ Len(Preference(i - 1, ms \ {m}, n)) \in 1..Cardinality(ms \ {m})
            /\ Cardinality(ms \ {m}) \in Nat \ {0}
            /\ \A j \in 1..Len(Preference(i - 1, ms \ {m}, n)) :
                 Preference(i - 1, ms \ {m}, n)[j] = s[j]
        BY <1>3, <1>12, <2>11, <3>1, <4>2, PreferenceList
      <4>4. 1 \in 1..Len(Preference(i - 1, ms \ {m}, n))
        BY <4>3
      <4> QED BY <4>1, <4>3, <4>4
    <3>3. /\ r[1] # m => s[1] = r[1]
          /\ r[1] = m /\ c >= 2 => s[1] = r[2]
      BY <1>3, <1>4, <2>2, <2>3, <3>1, NextInLine
    <3> QED BY <2>7, <2>9, <3>2, <3>3
  <2> QED BY <2>10, <2>11
<1> QED BY <1>11, <1>12

LEMMA EpochStep ==
  ASSUME epoch \in Nat, [Next]_vars
  PROVE  epoch' \in Nat
<1>1. epoch' = epoch \/ epoch' = epoch + 1
  BY DEF Next, vars, SetReplicas, SetMachines, Operator, AddPartition, RemovePartition, Bump,
         Heartbeat, HeartbeatLoad, MissHeartbeat, SetHealth, Verdict, FailMachine,
         TickCooling, TickBacklog, TickCount, TickResize, TickHold
<1> QED BY <1>1

\* In a fleet that does not mix unset weights with weights, losing a machine
\* promotes the first replica of each partition it was primary of, under a
\* new epoch, and moves no other primary.
THEOREM LossPromotes ==
  ASSUME Unmixed
  PROVE  Spec => PromotesReplica
<1> DEFINE Inv == TableInv /\ epoch \in Nat
<1>1. Init => Inv
  BY InitTable DEF Init
<1>2. Inv /\ [Next]_vars => Inv'
  BY TableStep, EpochStep
<1>3. Inv /\ [Next]_vars =>
        [\A m \in machines : FailMachine(m) =>
           \A i \in DOMAIN parts :
             IF parts[i].primary # m THEN parts'[i].primary = parts[i].primary
             ELSE parts[i].replicas # <<>> =>
                    parts'[i].primary = Head(parts[i].replicas) /\ epoch' > epoch]_vars
  <2> SUFFICES ASSUME Inv, NEW m \in machines, FailMachine(m), NEW i \in DOMAIN parts
               PROVE  IF parts[i].primary # m THEN parts'[i].primary = parts[i].primary
                      ELSE parts[i].replicas # <<>> =>
                             parts'[i].primary = Head(parts[i].replicas) /\ epoch' > epoch
    OBVIOUS
  <2>1. i \in 1..Len(parts)
    BY LenProperties DEF TableInv
  <2> QED BY <2>1, FailPromotes
<1> QED BY <1>1, <1>2, <1>3, PTL DEF Spec, PromotesReplica

---------------------------------------------------------------------------
(* The loop *)

\* The loop's ticks since its last resize cover its cooldown and the longer of
\* its streaks; what it counted is current unless an operator raced it.
LoopInv ==
  /\ DOMAIN loop = {"pc", "load", "n", "high", "low", "cooldown"}
  /\ loop.pc \in {"idle", "count", "act"}
  /\ loop.cooldown \in 0..Cooldown /\ loop.high \in 0..Breaches /\ loop.low \in 0..Breaches
  /\ since \in 0..(Cooldown + Breaches)
  /\ loop.cooldown > 0 => loop.pc = "idle" /\ loop.high = 0 /\ loop.low = 0
  /\ since + loop.cooldown >= Cooldown + loop.high
  /\ since + loop.cooldown >= Cooldown + loop.low
  /\ loop.pc = "count" => \/ since = Cooldown + Breaches
                          \/ since > Cooldown + loop.high /\ since > Cooldown + loop.low
  /\ loop.pc = "act" /\ ~raced => loop.n = Len(parts)

LEMMA InitLoop == Init => LoopInv
<1>1. Cooldown \in Nat /\ Breaches \in Nat \ {0}
  BY ControlAssumption
<1> QED BY <1>1 DEF Init, LoopInv

\* The loop alone changes what it remembers; an operator only races it.
LEMMA LoopOther ==
  ASSUME TableInv, LoopInv, Next,
         ~TickCooling, ~TickBacklog, ~TickCount, ~TickResize, ~TickHold
  PROVE  LoopInv'
<1>1. loop' = loop /\ since' = since
  BY DEF Next, SetReplicas, SetMachines, Operator, Heartbeat, HeartbeatLoad, MissHeartbeat,
         SetHealth, FailMachine
<1>2. raced' = TRUE \/ (raced' = raced /\ Len(parts') = Len(parts))
  <2>1. CASE Operator
    BY <2>1 DEF Operator
  <2>2. CASE ~Operator
    <3>1. raced' = raced
      BY <2>2 DEF Next, SetReplicas, SetMachines, Heartbeat, HeartbeatLoad, MissHeartbeat,
                  SetHealth, FailMachine
    <3> QED BY <2>2, <3>1, TableKept
  <2> QED BY <2>1, <2>2
<1> QED BY <1>1, <1>2 DEF LoopInv

\* since counts the ticks, up to the window a resize needs.
LEMMA CountedIs ==
  ASSUME LoopInv
  PROVE  Counted = IF since + 1 <= Cooldown + Breaches THEN since + 1 ELSE Cooldown + Breaches
<1>1. since + 1 \in Int /\ Cooldown + Breaches \in Int
  BY ControlAssumption DEF LoopInv
<1> QED BY <1>1, MinOfTwo DEF Counted

LEMMA LoopTick ==
  ASSUME LoopInv, TickCooling \/ TickBacklog
  PROVE  LoopInv'
<1>0. Cooldown \in Nat /\ Breaches \in Nat \ {0}
  BY ControlAssumption
<1>1. PICK k \in 0..Cooldown : k = loop.cooldown
  BY DEF LoopInv
<1>2. PICK h \in 0..Breaches : h = loop.high
  BY DEF LoopInv
<1>3. PICK l \in 0..Breaches : l = loop.low
  BY DEF LoopInv
<1>4. PICK s \in 0..(Cooldown + Breaches) : s = since
  BY DEF LoopInv
<1>5. /\ DOMAIN loop = {"pc", "load", "n", "high", "low", "cooldown"}
      /\ s + k >= Cooldown + h /\ s + k >= Cooldown + l
      /\ (k > 0 => h = 0 /\ l = 0)
  BY <1>1, <1>2, <1>3, <1>4 DEF LoopInv
<1>6. since' = IF s + 1 <= Cooldown + Breaches THEN s + 1 ELSE Cooldown + Breaches
  BY <1>4, CountedIs DEF TickCooling, TickBacklog
<1>7. CASE TickCooling
  <2>1. k > 0 /\ loop.pc = "idle" /\ loop' = [loop EXCEPT !.cooldown = @ - 1, !.high = 0, !.low = 0]
    BY <1>1, <1>7 DEF TickCooling
  <2>2. /\ DOMAIN loop' = {"pc", "load", "n", "high", "low", "cooldown"}
        /\ loop'.pc = "idle" /\ loop'.cooldown = k - 1 /\ loop'.high = 0 /\ loop'.low = 0
    BY <1>1, <1>5, <2>1
  <2>3. PICK t \in 0..(Cooldown + Breaches) : /\ t = since' /\ t >= s
                                              /\ t = s + 1 \/ t = Cooldown + Breaches
    BY <1>0, <1>6
  <2>4. k - 1 \in 0..Cooldown /\ t + (k - 1) >= Cooldown + 0
    BY <1>0, <1>5, <2>1, <2>3
  <2>5. PICK g : g = loop'
    OBVIOUS
  <2>6. /\ DOMAIN g = {"pc", "load", "n", "high", "low", "cooldown"}
        /\ g.pc = "idle" /\ g.cooldown = k - 1 /\ g.high = 0 /\ g.low = 0
    BY <2>2, <2>5
  <2>7. g.high \in 0..Breaches /\ g.low \in 0..Breaches /\ g.cooldown \in 0..Cooldown
        /\ t + g.cooldown >= Cooldown + g.high /\ t + g.cooldown >= Cooldown + g.low
    BY <1>0, <2>4, <2>6
  <2> QED BY <2>3, <2>5, <2>6, <2>7 DEF LoopInv
<1>8. CASE TickBacklog
  <2>1. k = 0 /\ loop' = [loop EXCEPT !.pc = "count", !.load = meanBacklog]
    BY <1>1, <1>8 DEF TickBacklog
  <2>2. /\ DOMAIN loop' = {"pc", "load", "n", "high", "low", "cooldown"}
        /\ loop'.pc = "count" /\ loop'.cooldown = k /\ loop'.high = h /\ loop'.low = l
    BY <1>1, <1>2, <1>3, <1>5, <2>1
  <2>3. PICK t \in 0..(Cooldown + Breaches) : /\ t = since' /\ t >= s
                                              /\ t = s + 1 \/ t = Cooldown + Breaches
    BY <1>0, <1>6
  <2>4. /\ t + k >= Cooldown + h /\ t + k >= Cooldown + l
        /\ t = Cooldown + Breaches \/ (t > Cooldown + h /\ t > Cooldown + l)
    BY <1>0, <1>5, <2>1, <2>3
  <2>5. PICK g : g = loop'
    OBVIOUS
  <2>6. /\ DOMAIN g = {"pc", "load", "n", "high", "low", "cooldown"}
        /\ g.pc = "count" /\ g.cooldown = k /\ g.high = h /\ g.low = l /\ k = 0
    BY <2>1, <2>2, <2>5
  <2>7. /\ g.high \in 0..Breaches /\ g.low \in 0..Breaches /\ g.cooldown \in 0..Cooldown
        /\ ~(g.cooldown > 0)
        /\ t + g.cooldown >= Cooldown + g.high /\ t + g.cooldown >= Cooldown + g.low
        /\ t = Cooldown + Breaches \/ (t > Cooldown + g.high /\ t > Cooldown + g.low)
    BY <1>0, <2>4, <2>6
  <2> QED BY <2>3, <2>5, <2>6, <2>7 DEF LoopInv
<1> QED BY <1>7, <1>8

LEMMA LoopCount ==
  ASSUME LoopInv, TickCount
  PROVE  LoopInv'
<1>0. Cooldown \in Nat /\ Breaches \in Nat \ {0}
  BY ControlAssumption
<1>1. PICK h \in 0..Breaches : h = loop.high
  BY DEF LoopInv
<1>2. PICK l \in 0..Breaches : l = loop.low
  BY DEF LoopInv
<1>3. PICK s \in 0..(Cooldown + Breaches) : s = since
  BY DEF LoopInv
<1>4. PICK g : g = [loop EXCEPT !.pc = "act", !.n = Len(parts)]
  OBVIOUS
<1>5. /\ DOMAIN loop = {"pc", "load", "n", "high", "low", "cooldown"}
      /\ loop.cooldown = 0
      /\ s = Cooldown + Breaches \/ (s > Cooldown + h /\ s > Cooldown + l)
  BY <1>0, <1>1, <1>2, <1>3 DEF LoopInv, TickCount
<1>6. /\ DOMAIN g = {"pc", "load", "n", "high", "low", "cooldown"}
      /\ g.pc = "act" /\ g.n = Len(parts) /\ g.high = h /\ g.low = l /\ g.cooldown = 0
  BY <1>1, <1>2, <1>4, <1>5
<1>7. /\ loop' = Streaks(g) /\ raced' = FALSE /\ parts' = parts /\ since' = s
  BY <1>3, <1>4 DEF TickCount, NumPartitions
<1>8. /\ Min({h + 1, Breaches}) \in 0..Breaches /\ Min({h + 1, Breaches}) <= h + 1
      /\ Min({l + 1, Breaches}) \in 0..Breaches /\ Min({l + 1, Breaches}) <= l + 1
  BY <1>0, MinOfTwo
<1>9. /\ DOMAIN loop' = {"pc", "load", "n", "high", "low", "cooldown"}
      /\ loop'.pc = "act" /\ loop'.n = Len(parts) /\ loop'.cooldown = 0
      /\ \/ loop'.high = Min({h + 1, Breaches}) /\ loop'.low = 0
         \/ loop'.low = Min({l + 1, Breaches}) /\ loop'.high = 0
         \/ loop'.high = 0 /\ loop'.low = 0
  <2>1. CASE g.load > HighWater
    <3>1. loop' = [g EXCEPT !.high = Min({@ + 1, Breaches}), !.low = 0]
      BY <1>7, <2>1 DEF Streaks
    <3> QED BY <1>6, <3>1
  <2>2. CASE ~(g.load > HighWater) /\ LowWater > 0 /\ g.load < LowWater
    <3>1. loop' = [g EXCEPT !.low = Min({@ + 1, Breaches}), !.high = 0]
      BY <1>7, <2>2 DEF Streaks
    <3> QED BY <1>6, <3>1
  <2>3. CASE ~(g.load > HighWater) /\ ~(LowWater > 0 /\ g.load < LowWater)
    <3>1. loop' = [g EXCEPT !.high = 0, !.low = 0]
      BY <1>7, <2>3 DEF Streaks
    <3> QED BY <1>6, <3>1
  <2> QED BY <2>1, <2>2, <2>3
<1> QED BY <1>0, <1>5, <1>7, <1>8, <1>9 DEF LoopInv

LEMMA LoopAct ==
  ASSUME LoopInv, TickResize \/ TickHold
  PROVE  LoopInv'
<1>0. Cooldown \in Nat /\ Breaches \in Nat \ {0}
  BY ControlAssumption
<1>1. DOMAIN loop = {"pc", "load", "n", "high", "low", "cooldown"}
  BY DEF LoopInv
<1>2. CASE TickResize
  <2>1. /\ loop' = [loop EXCEPT !.pc = "idle", !.high = 0, !.low = 0, !.cooldown = Cooldown]
        /\ since' = 0
    BY <1>2 DEF TickResize, afterAction
  <2>2. /\ DOMAIN loop' = {"pc", "load", "n", "high", "low", "cooldown"}
        /\ loop'.pc = "idle" /\ loop'.cooldown = Cooldown /\ loop'.high = 0 /\ loop'.low = 0
    BY <1>1, <2>1
  <2> QED BY <1>0, <2>1, <2>2 DEF LoopInv
<1>3. CASE TickHold
  <2>1. loop' = [loop EXCEPT !.pc = "idle"] /\ since' = since
    BY <1>3 DEF TickHold
  <2>2. /\ DOMAIN loop' = {"pc", "load", "n", "high", "low", "cooldown"}
        /\ loop'.pc = "idle" /\ loop'.cooldown = loop.cooldown
        /\ loop'.high = loop.high /\ loop'.low = loop.low
    BY <1>1, <2>1
  <2> QED BY <2>1, <2>2 DEF LoopInv
<1> QED BY <1>2, <1>3

LEMMA LoopStep ==
  ASSUME TableInv, LoopInv, [Next]_vars
  PROVE  LoopInv'
<1>1. CASE UNCHANGED vars
  BY <1>1 DEF LoopInv, vars
<1>2. CASE Next
  BY <1>2, LoopOther, LoopTick, LoopCount, LoopAct
<1> QED BY <1>1, <1>2

\* Only a resize resets the count of ticks, after the full window and on a
\* count that is current unless an operator raced it.
LEMMA ResizePaced ==
  ASSUME TableInv, LoopInv, [Next]_vars, since' = 0, since # 0
  PROVE  /\ since >= Cooldown + Breaches
         /\ ~raced => \/ Len(parts') = Len(parts) + 1 /\ Len(parts') <= MaxPartitions
                      \/ Len(parts') = Len(parts) - 1 /\ Len(parts') >= MinPartitions
<1>0. /\ Cooldown \in Nat /\ Breaches \in Nat \ {0} /\ MinPartitions \in Nat
      /\ MaxParts \in Nat /\ since \in 0..(Cooldown + Breaches)
  BY ControlAssumption DEF LoopInv
<1>1. TickResize
  <2>1. ~(TickCooling \/ TickBacklog)
    <3>1. Counted # 0
      BY <1>0, CountedIs
    <3> QED BY <3>1 DEF TickCooling, TickBacklog
  <2> QED BY <2>1 DEF Next, vars, SetReplicas, SetMachines, Operator, Heartbeat, HeartbeatLoad,
                      MissHeartbeat, SetHealth, FailMachine, TickCount, TickHold
<1>2. loop.pc = "act" /\ (\/ ScalesUp /\ AddPartition
                          \/ ScalesDown /\ RemovePartition)
  BY <1>1 DEF TickResize
<1>3. loop.cooldown = 0
  BY <1>2 DEF LoopInv
<1>4. since >= Cooldown + Breaches
  <2>1. loop.high \in 0..Breaches /\ loop.low \in 0..Breaches
        /\ since >= Cooldown + loop.high /\ since >= Cooldown + loop.low
    BY <1>0, <1>3 DEF LoopInv
  <2>2. loop.high >= Breaches \/ loop.low >= Breaches
    BY <1>2 DEF ScalesUp, ScalesDown
  <2> QED BY <1>0, <2>1, <2>2
<1>5. ASSUME ~raced
      PROVE  \/ Len(parts') = Len(parts) + 1 /\ Len(parts') <= MaxPartitions
             \/ Len(parts') = Len(parts) - 1 /\ Len(parts') >= MinPartitions
  <2>1. loop.n = Len(parts) /\ Len(parts) \in 1..MaxParts
    BY <1>2, <1>5 DEF LoopInv, TableInv
  <2>3. CASE ScalesUp /\ AddPartition
    <3>1. Len(parts) < MaxPartitions
      BY <2>1, <2>3 DEF ScalesUp
    <3>2. Len(parts') = Len(parts) + 1
      BY <2>3, TableAdd
    <3> QED BY <2>1, <3>1, <3>2, ControlAssumption
  <2>4. CASE ScalesDown /\ RemovePartition
    <3>1. Len(parts) > MinPartitions
      BY <2>1, <2>4 DEF ScalesDown
    <3>2. Len(parts') = Len(parts) - 1
      BY <2>4, TableRemove
    <3> QED BY <1>0, <2>1, <3>1, <3>2
  <2> QED BY <1>2, <2>3, <2>4
<1> QED BY <1>4, <1>5

\* The loop neither flaps nor overshoots: two of its resizes are a cooldown
\* and a full breach window apart, and one that no operator raced ends within
\* the limit it moves towards.
THEOREM ResizesPaced == Spec => ScalesPaced
<1>1. Init => TableInv /\ LoopInv
  BY InitTable, InitLoop
<1>2. TableInv /\ LoopInv /\ [Next]_vars => (TableInv /\ LoopInv)'
  BY TableStep, LoopStep
<1>3. TableInv /\ LoopInv /\ [Next]_vars =>
        [since' = 0 /\ since # 0 =>
           /\ since >= Cooldown + Breaches
           /\ ~raced => \/ Len(parts') = Len(parts) + 1 /\ Len(parts') <= MaxPartitions
                        \/ Len(parts') = Len(parts) - 1 /\ Len(parts') >= MinPartitions]_vars
  BY ResizePaced
<1> QED BY <1>1, <1>2, <1>3, PTL DEF Spec, ScalesPaced
=============================================================================
