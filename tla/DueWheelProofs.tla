--------------------------- MODULE DueWheelProofs ---------------------------
(***************************************************************************)
(* The timing wheel, proved for every horizon and every set of keys: the   *)
(* ring and the heap hold what the count says and where due looks for it,  *)
(* nextDue is the least hour held, and the wheel implements the schedule   *)
(* index of module ScheduleIndex.                                          *)
(***************************************************************************)
EXTENDS DueWheel, FiniteSetTheorems, TLAPS

-----------------------------------------------------------------------------
(* Hours and slots. *)

\* Every hour has a slot.
LEMMA SlotOfHour == \A d \in Nat : d % Span \in Slots
  BY WheelAssumption DEF Slots

\* Two hours of one horizon never share a slot.
LEMMA SlotsApart ==
  ASSUME NEW a \in Nat, NEW b \in Nat, NEW c \in Nat,
         a \in c..(c + Span - 1), b \in c..(c + Span - 1), a % Span = b % Span
  PROVE  a = b
<1> DEFINE q == a \div Span
           r == b \div Span
           m == a % Span
<1>1. Span \in Int /\ Span > 0
  BY WheelAssumption
<1>2. a = Span * q + m /\ q \in Int /\ m \in Int
  BY <1>1
<1>3. b = Span * r + m /\ r \in Int
  BY <1>1
<1> HIDE DEF q, r, m
<1>4. a - b = Span * (q - r)
  BY <1>1, <1>2, <1>3
<1>5. a - b < Span /\ b - a < Span
  BY <1>1
<1>6. q - r >= 1 => Span * (q - r) >= Span
  BY <1>1, <1>2, <1>3
<1>7. q - r <= -1 => Span * (q - r) <= -Span
  BY <1>1, <1>2, <1>3
<1>8. q = r
  BY <1>1, <1>2, <1>3, <1>4, <1>5, <1>6, <1>7
<1> QED BY <1>2, <1>3, <1>8

\* A nonempty set of hours has a least one.
LEMMA LeastHour ==
  ASSUME NEW T \in SUBSET Nat, T # {}
  PROVE  \E x \in T : \A y \in T : x <= y
<1> DEFINE Q == {0..x : x \in T}
<1>1. \A x \in T : 0..x \in SUBSET Nat /\ IsFiniteSet(0..x)
  BY FS_Interval
<1>2. Q \subseteq FiniteSubsetsOf(Nat) /\ Q # {}
  BY <1>1 DEF FiniteSubsetsOf
<1>3. PICK q \in Q : \A r \in Q : ~ (<<r, q>> \in StrictSubsetOrdering(Nat))
  BY <1>2, FS_StrictSubsetOrderingWellFounded, WFMin
<1>4. PICK x \in T : q = 0..x
  OBVIOUS
<1>5. ASSUME NEW y \in T, y < x PROVE FALSE
  <2>1. 0..y \in Q /\ 0..y \in SUBSET Nat /\ 0..x \in SUBSET Nat
    BY <1>1
  <2>2. 0..y \subseteq 0..x /\ x \in 0..x /\ x \notin 0..y
    BY <1>5
  <2>3. <<0..y, 0..x>> \in StrictSubsetOrdering(Nat)
    BY <2>1, <2>2 DEF StrictSubsetOrdering
  <2> QED BY <1>3, <1>4, <2>1, <2>3
<1> QED BY <1>5

\* The heap has a head, and it is due first.
LEMMA HeadLeast ==
  ASSUME over \subseteq Entries, over # {}
  PROVE  Head \in over /\ \A x \in over : Head.due <= x.due
<1> DEFINE T == {e.due : e \in over}
<1>1. T \in SUBSET Nat /\ T # {}
  BY WheelAssumption DEF Entries
<1>2. PICK t \in T : \A y \in T : t <= y
  BY <1>1, LeastHour
<1>3. \E e \in over : \A x \in over : e.due <= x.due
  BY <1>2
<1> QED BY <1>3 DEF Head

-----------------------------------------------------------------------------
(* The inductive invariant. *)

\* A ring key stands in the slot of its own hour, within the horizon.
RingPlaced ==
  \A i \in Slots : \A e \in ring[i] :
    e.due >= cursor /\ e.due < cursor + Span /\ e.due % Span = i

\* A heap key lies at the horizon's last hour or beyond.
OverBeyond == \A e \in over : e.due >= cursor + Span - 1

\* The count is that of the ring's keys, and ring and heap are finite and apart.
Counted ==
  /\ IsFiniteSet(InRing) /\ IsFiniteSet(over) /\ InRing \cap over = {}
  /\ ringCount = Cardinality(InRing)

\* A call has fired what was due before the cursor, which has not run past it.
CallShape ==
  /\ upto \in 0..MaxHour \cup {Idle}
  /\ upto = Idle => got = {} /\ base = cursor
  /\ upto # Idle => /\ \A e \in got : e.due <= upto
                    /\ base <= cursor
                    /\ cursor = base \/ cursor <= upto + 1

WheelInv == TypeOK /\ RingPlaced /\ OverBeyond /\ Counted /\ CallShape

LEMMA InitWheel == Init => WheelInv
<1> SUFFICES ASSUME Init PROVE WheelInv
  OBVIOUS
<1>1. InRing = {}
  BY DEF Init, InRing
<1>2. Counted
  BY <1>1, FS_EmptySet DEF Counted, Init
<1>3. TypeOK
  BY WheelAssumption DEF Init, TypeOK, Idle, Slots
<1> QED
  BY <1>2, <1>3 DEF WheelInv, Init, RingPlaced, OverBeyond, CallShape, Idle

\* add files a new key near the cursor in its hour's slot, a far one in the heap.
LEMMA AddWheel ==
  ASSUME WheelInv, NEW k \in Keys, NEW hour \in 0..MaxHour, Add(k, hour)
  PROVE  WheelInv'
<1> DEFINE d == IF hour <= cursor THEN cursor ELSE hour
           e == [key |-> k, due |-> d]
<1>1. /\ d \in Nat /\ d >= cursor /\ d <= MaxHour /\ cursor \in Nat /\ Span \in Nat
      /\ e.due = d /\ e.key = k /\ e \in Entries
  BY WheelAssumption DEF WheelInv, TypeOK, Add, Entries
<1>2. upto = Idle /\ e \notin InRing /\ e \notin over
  BY DEF Add, Held
<1>3. UNCHANGED <<cursor, upto, got, fired, base>> /\ CallShape'
  BY DEF Add, WheelInv, CallShape
<1>4. CASE Near(d, cursor)
  <2>1. ring' = [ring EXCEPT ![d % Span] = @ \cup {e}] /\ ringCount' = ringCount + 1
        /\ over' = over
    BY <1>4 DEF Add
  <2> HIDE DEF e, d
  <2>2. d % Span \in Slots
    BY <1>1, SlotOfHour
  <2>3. ring \in [Slots -> SUBSET Entries]
    BY DEF WheelInv, TypeOK
  <2>4. \A i \in Slots : ring'[i] = ring[i] \cup {x \in {e} : i = d % Span}
    BY <2>1, <2>2, <2>3
  <2>5. InRing' = InRing \cup {e}
    BY <2>2, <2>4 DEF InRing
  <2>6. Counted'
    <3>1. IsFiniteSet(InRing \cup {e}) /\ Cardinality(InRing \cup {e}) = Cardinality(InRing) + 1
      BY <1>2, FS_AddElement DEF WheelInv, Counted
    <3> QED BY <1>2, <2>1, <2>5, <3>1 DEF WheelInv, Counted
  <2>7. TypeOK'
    <3>1. ring' \in [Slots -> SUBSET Entries]
      BY <1>1, <2>1, <2>2, <2>3
    <3>2. ringCount' \in Nat
      BY <2>1 DEF WheelInv, TypeOK
    <3> QED BY <1>3, <2>1, <3>1, <3>2 DEF WheelInv, TypeOK
  <2>8. RingPlaced'
    <3>1. d < cursor + Span
      BY <1>1, <1>4 DEF Near
    <3> QED BY <1>1, <1>3, <2>4, <3>1 DEF WheelInv, RingPlaced
  <2>9. OverBeyond'
    BY <1>3, <2>1 DEF WheelInv, OverBeyond
  <2> QED BY <1>3, <2>6, <2>7, <2>8, <2>9 DEF WheelInv
<1>5. CASE ~Near(d, cursor)
  <2>1. over' = over \cup {e} /\ UNCHANGED <<ring, ringCount>>
    BY <1>5 DEF Add
  <2>2. d >= cursor + Span - 1
    BY <1>1, <1>5 DEF Near
  <2> HIDE DEF e, d
  <2>3. InRing' = InRing
    BY <2>1 DEF InRing
  <2>4. Counted'
    <3>1. IsFiniteSet(over \cup {e})
      BY FS_AddElement DEF WheelInv, Counted
    <3> QED BY <1>2, <2>1, <2>3, <3>1 DEF WheelInv, Counted
  <2>5. TypeOK'
    BY <1>1, <1>3, <2>1 DEF WheelInv, TypeOK
  <2>6. RingPlaced' /\ OverBeyond'
    BY <1>1, <1>3, <2>1, <2>2 DEF WheelInv, RingPlaced, OverBeyond
  <2> QED BY <1>3, <2>4, <2>5, <2>6 DEF WheelInv
<1> QED BY <1>4, <1>5

LEMMA CallWheel ==
  ASSUME WheelInv, NEW n \in 0..MaxHour, Call(n)
  PROVE  WheelInv'
<1>1. UNCHANGED <<cursor, ring, over, ringCount, fired>> /\ upto' = n /\ got' = {}
      /\ base' = cursor /\ cursor \in Nat
  BY DEF Call, WheelInv, TypeOK
<1>2. InRing' = InRing
  BY <1>1 DEF InRing
<1>3. TypeOK'
  BY <1>1, WheelAssumption DEF WheelInv, TypeOK
<1>4. RingPlaced' /\ OverBeyond' /\ Counted'
  BY <1>1, <1>2 DEF WheelInv, RingPlaced, OverBeyond, Counted
<1>5. CallShape'
  BY <1>1, WheelAssumption DEF CallShape, Idle
<1> QED BY <1>3, <1>4, <1>5 DEF WheelInv

LEMMA ReturnWheel == ASSUME WheelInv, Return PROVE WheelInv'
<1>1. UNCHANGED <<cursor, ring, over, ringCount>> /\ upto' = Idle /\ got' = {}
      /\ base' = cursor /\ fired' = got
  BY DEF Return
<1>2. InRing' = InRing
  BY <1>1 DEF InRing
<1>3. TypeOK'
  BY <1>1 DEF WheelInv, TypeOK
<1>4. RingPlaced' /\ OverBeyond' /\ Counted'
  BY <1>1, <1>2 DEF WheelInv, RingPlaced, OverBeyond, Counted
<1>5. CallShape'
  BY <1>1 DEF CallShape
<1> QED BY <1>3, <1>4, <1>5 DEF WheelInv

\* With an empty ring, the catch-up leaves every heap key at the new horizon.
LEMMA CatchUpWheel == ASSUME WheelInv, CatchUp PROVE WheelInv'
<1>1. UNCHANGED <<ring, over, ringCount, upto, got, fired, base>> /\ cursor' = upto + 1
      /\ ringCount = 0 /\ upto # Idle /\ cursor <= upto
  BY DEF CatchUp, Turning
<1>2. upto \in 0..MaxHour /\ upto \in Nat /\ cursor \in Nat /\ MaxHour \in Nat
      /\ Span \in Nat /\ Span >= 2
  BY <1>1, WheelAssumption DEF WheelInv, CallShape, TypeOK
<1>3. InRing = {} /\ InRing' = {}
  <2>1. InRing = {}
    BY <1>1, FS_EmptySet DEF WheelInv, Counted
  <2> QED BY <1>1, <2>1 DEF InRing
<1>4. TypeOK'
  BY <1>1, <1>2 DEF WheelInv, TypeOK
<1>5. RingPlaced'
  <2>1. \A i \in Slots : ring'[i] = {}
    BY <1>3 DEF InRing
  <2> QED BY <2>1 DEF RingPlaced
<1>6. OverBeyond'
  <2> SUFFICES ASSUME NEW e \in over PROVE e.due >= upto + 1 + Span - 1
    BY <1>1 DEF OverBeyond
  <2>1. e.due \in Nat
    BY WheelAssumption DEF WheelInv, TypeOK, Entries
  <2>2. Edge(e) > upto
    BY DEF CatchUp
  <2> QED BY <1>2, <2>1, <2>2 DEF Edge
<1>7. Counted'
  BY <1>1, <1>3 DEF WheelInv, Counted
<1>8. CallShape'
  BY <1>1, <1>2 DEF WheelInv, CallShape, TypeOK
<1> QED BY <1>4, <1>5, <1>6, <1>7, <1>8 DEF WheelInv

\* admitOverflow at cursor c, over a ring r that is placed for c and a heap that
\* holds nothing earlier: each key moves to its own hour's slot or stays beyond.
LEMMA RefillPlaces ==
  ASSUME NEW r \in [Slots -> SUBSET Entries], NEW c \in Nat, Refill(r, c),
         over \subseteq Entries, IsFiniteSet(over),
         NEW R, R = UNION {r[i] : i \in Slots}, IsFiniteSet(R), R \cap over = {},
         \A e \in over : e.due >= c,
         \A i \in Slots : \A e \in r[i] :
           e.due >= c /\ e.due < c + Span /\ e.due % Span = i
  PROVE  /\ ring' \in [Slots -> SUBSET Entries] /\ over' \subseteq Entries
         /\ \A i \in Slots : \A e \in ring'[i] :
              e.due >= c /\ e.due < c + Span /\ e.due % Span = i
         /\ \A e \in over' : e.due >= c + Span - 1
         /\ IsFiniteSet(InRing') /\ IsFiniteSet(over') /\ InRing' \cap over' = {}
         /\ Cardinality(InRing') = Cardinality(R) + Refilled(c)
         /\ InRing' \cup over' = R \cup over
<1> DEFINE A == Admitted(c)
<1>1. /\ A \subseteq over /\ over' = over \ A
      /\ ring' = [i \in Slots |-> r[i] \cup {e \in A : SlotAt(e, c) = i}]
  BY DEF Refill, Admitted
<1>2. Span \in Nat /\ Span > 1 /\ \A e \in over : e.due \in Nat
  BY WheelAssumption DEF Entries
<1>3. \A e \in A : /\ e.due >= c /\ e.due < c + Span /\ e.due \in Nat
                   /\ SlotAt(e, c) = e.due % Span /\ e.due % Span \in Slots
  BY <1>1, <1>2, SlotOfHour DEF Admitted, Near, SlotAt
<1>4. \A e \in over \ A : e.due >= c + Span - 1
  BY <1>2 DEF Admitted, Near
<1> HIDE DEF A
<1>5. ring' \in [Slots -> SUBSET Entries] /\ over' \subseteq Entries
  BY <1>1
<1>6. \A i \in Slots : ring'[i] = r[i] \cup {e \in A : SlotAt(e, c) = i}
  BY <1>1
<1>7. \A i \in Slots : \A e \in ring'[i] :
        e.due >= c /\ e.due < c + Span /\ e.due % Span = i
  BY <1>3, <1>6
<1>8. InRing' = R \cup A
  <2>1. InRing' = UNION {ring'[i] : i \in Slots}
    BY DEF InRing
  <2> QED BY <1>3, <1>6, <2>1
<1>9. IsFiniteSet(A) /\ R \cap A = {}
  BY <1>1, FS_Subset
<1>10. IsFiniteSet(R \cup A) /\ Cardinality(R \cup A) = Cardinality(R) + Cardinality(A)
  <2>1. /\ IsFiniteSet(R \cup A)
        /\ Cardinality(R \cup A)
             = Cardinality(R) + Cardinality(A) - Cardinality(R \cap A)
    BY <1>9, FS_Union
  <2>2. Cardinality(R) \in Nat /\ Cardinality(A) \in Nat /\ Cardinality(R \cap A) = 0
    BY <1>9, FS_CardinalityType, FS_EmptySet
  <2> QED BY <2>1, <2>2
<1>11. IsFiniteSet(over')
  BY <1>1, FS_Subset
<1>12. Refilled(c) = Cardinality(A)
  BY DEF Refilled, A
<1>13. InRing' \cap over' = {} /\ InRing' \cup over' = R \cup over
  BY <1>1, <1>8
<1>14. \A e \in over' : e.due >= c + Span - 1
  BY <1>1, <1>4
<1> QED BY <1>5, <1>7, <1>8, <1>10, <1>11, <1>12, <1>13, <1>14

\* The jump: the cursor never passes the heap's head, so nothing is skipped.
LEMMA JumpWheel ==
  ASSUME WheelInv, Jump
  PROVE  WheelInv' /\ Held' = Held
<1> DEFINE c == IF Edge(Head) > cursor THEN Edge(Head) ELSE cursor
<1>1. UNCHANGED <<upto, got, fired, base>> /\ cursor' = c /\ Refill(ring, c)
      /\ ringCount' = Refilled(c) /\ ringCount = 0 /\ upto # Idle /\ cursor <= upto
      /\ \E e \in over : Edge(e) <= upto
  BY DEF Jump, Turning
<1>2. upto \in 0..MaxHour /\ upto \in Nat /\ cursor \in Nat /\ MaxHour \in Nat
      /\ Span \in Nat /\ Span >= 2 /\ base \in Nat
  BY <1>1, WheelAssumption DEF WheelInv, CallShape, TypeOK
<1>3. /\ over \subseteq Entries /\ ring \in [Slots -> SUBSET Entries]
      /\ \A e \in over : e.due \in Nat /\ e.due >= cursor + Span - 1
  BY WheelAssumption DEF WheelInv, TypeOK, Entries, OverBeyond
<1>4. Head \in over /\ \A x \in over : Head.due <= x.due
  BY <1>1, <1>3, HeadLeast
<1>5. Edge(Head) \in Nat /\ Edge(Head) <= upto
  <2>1. PICK e \in over : Edge(e) <= upto
    BY <1>1
  <2>2. e.due \in Nat /\ Head.due \in Nat /\ Head.due <= e.due
    BY <1>3, <1>4
  <2> QED BY <1>2, <2>1, <2>2 DEF Edge
<1>6. c \in Nat /\ c >= cursor /\ c <= upto /\ \A e \in over : e.due >= c + Span - 1
  <2>1. c \in Nat /\ c >= cursor /\ c <= upto
    BY <1>1, <1>2, <1>5
  <2>2. ASSUME NEW e \in over PROVE e.due >= c + Span - 1
    <3>1. e.due \in Nat /\ Head.due \in Nat /\ Head.due <= e.due
          /\ e.due >= cursor + Span - 1
      BY <1>3, <1>4
    <3> QED BY <1>2, <3>1 DEF Edge
  <2> QED BY <2>1, <2>2
<1> HIDE DEF c
<1>7. InRing = {}
  BY <1>1, FS_EmptySet DEF WheelInv, Counted
<1>8. \A e \in over : e.due >= c
  BY <1>2, <1>3, <1>6
<1>9. IsFiniteSet(over) /\ IsFiniteSet({}) /\ Cardinality({}) = 0
  BY FS_EmptySet DEF WheelInv, Counted
<1>10. \A i \in Slots : ring[i] = {}
  BY <1>7 DEF InRing
<1>11. /\ ring' \in [Slots -> SUBSET Entries] /\ over' \subseteq Entries
       /\ \A i \in Slots : \A e \in ring'[i] :
            e.due >= c /\ e.due < c + Span /\ e.due % Span = i
       /\ \A e \in over' : e.due >= c + Span - 1
       /\ IsFiniteSet(InRing') /\ IsFiniteSet(over') /\ InRing' \cap over' = {}
       /\ Cardinality(InRing') = Cardinality(InRing) + Refilled(c)
       /\ InRing' \cup over' = InRing \cup over
  <2>1. InRing = UNION {ring[i] : i \in Slots} /\ IsFiniteSet(InRing) /\ InRing \cap over = {}
    BY <1>7, <1>9 DEF InRing
  <2> QED BY <1>1, <1>3, <1>6, <1>8, <1>9, <1>10, <2>1, RefillPlaces
<1>12. Refilled(c) \in Nat
  <2>1. Admitted(c) \subseteq over
    BY DEF Admitted
  <2> QED BY <1>9, <2>1, FS_Subset, FS_CardinalityType DEF Refilled
<1>13. Counted'
  BY <1>1, <1>7, <1>9, <1>11, <1>12 DEF Counted
<1>14. TypeOK'
  BY <1>1, <1>6, <1>11, <1>12 DEF WheelInv, TypeOK
<1>15. RingPlaced' /\ OverBeyond'
  BY <1>1, <1>11 DEF RingPlaced, OverBeyond
<1>16. CallShape'
  BY <1>1, <1>2, <1>6 DEF WheelInv, CallShape
<1>17. Held' = Held
  BY <1>1, <1>11 DEF Held
<1> QED BY <1>13, <1>14, <1>15, <1>16, <1>17 DEF WheelInv

\* The cursor's bucket holds the cursor's hour alone; firing it and advancing
\* keeps every other key where due looks for it.
LEMMA TurnWheel ==
  ASSUME WheelInv, Turn
  PROVE  WheelInv' /\ Held' = Held
<1> DEFINE i == cursor % Span
           c == cursor + 1
           r == [ring EXCEPT ![i] = {}]
           B == ring[i]
           R == InRing \ B
<1>1. UNCHANGED <<upto, fired, base>> /\ cursor' = c /\ Refill(r, c) /\ got' = got \cup B
      /\ ringCount' = ringCount - Cardinality(B) + Refilled(c)
      /\ upto # Idle /\ cursor <= upto
  BY DEF Turn, Turning
<1>2. upto \in 0..MaxHour /\ upto \in Nat /\ cursor \in Nat /\ MaxHour \in Nat
      /\ Span \in Nat /\ Span >= 2 /\ base \in Nat /\ c \in Nat /\ i \in Slots
  BY <1>1, WheelAssumption, SlotOfHour DEF WheelInv, CallShape, TypeOK
<1>3. /\ over \subseteq Entries /\ ring \in [Slots -> SUBSET Entries]
      /\ IsFiniteSet(over) /\ IsFiniteSet(InRing) /\ InRing \cap over = {}
      /\ \A e \in over : e.due \in Nat /\ e.due >= cursor + Span - 1
      /\ ringCount = Cardinality(InRing) /\ B \subseteq InRing /\ B \subseteq Entries
  BY <1>2, WheelAssumption DEF WheelInv, TypeOK, Entries, OverBeyond, Counted, InRing
<1>4. \A j \in Slots : \A e \in ring[j] :
        e.due \in Nat /\ e.due >= cursor /\ e.due < cursor + Span /\ e.due % Span = j
  BY <1>3, WheelAssumption DEF WheelInv, RingPlaced, Entries
<1>5. \A e \in B : e.due = cursor
  <2> SUFFICES ASSUME NEW e \in B PROVE e.due = cursor
    OBVIOUS
  <2>1. e.due \in Nat /\ e.due \in cursor..(cursor + Span - 1) /\ e.due % Span = i
    BY <1>2, <1>4
  <2>2. cursor \in cursor..(cursor + Span - 1)
    BY <1>2
  <2> QED BY <1>2, <2>1, <2>2, SlotsApart
<1>6. /\ r \in [Slots -> SUBSET Entries]
      /\ \A j \in Slots : r[j] = IF j = i THEN {} ELSE ring[j]
  BY <1>2, <1>3
<1>7. \A j \in Slots : \A e \in r[j] : e.due >= c /\ e.due < c + Span /\ e.due % Span = j
  <2> SUFFICES ASSUME NEW j \in Slots, NEW e \in r[j]
               PROVE  e.due >= c /\ e.due < c + Span /\ e.due % Span = j
    OBVIOUS
  <2>1. j # i /\ e \in ring[j]
    BY <1>6
  <2>2. e.due \in Nat /\ e.due >= cursor /\ e.due < cursor + Span /\ e.due % Span = j
    BY <1>4, <2>1
  <2>3. e.due # cursor
    BY <2>1, <2>2
  <2> QED BY <1>2, <2>2, <2>3
<1>8. \A e \in over : e.due >= c
  BY <1>2, <1>3
<1> HIDE DEF r
<1>9. R = UNION {r[j] : j \in Slots}
  <2>1. \A j \in Slots : j # i => ring[j] \cap B = {}
    BY <1>2, <1>4
  <2>2. InRing = UNION {ring[j] : j \in Slots}
    BY DEF InRing
  <2> HIDE DEF i
  <2> QED BY <1>2, <1>6, <2>1, <2>2
<1> HIDE DEF i, B, c, R
<1>10. IsFiniteSet(R) /\ R \cap over = {}
  BY <1>3, FS_Subset DEF R
<1>11. /\ ring' \in [Slots -> SUBSET Entries] /\ over' \subseteq Entries
       /\ \A j \in Slots : \A e \in ring'[j] :
            e.due >= c /\ e.due < c + Span /\ e.due % Span = j
       /\ \A e \in over' : e.due >= c + Span - 1
       /\ IsFiniteSet(InRing') /\ IsFiniteSet(over') /\ InRing' \cap over' = {}
       /\ Cardinality(InRing') = Cardinality(R) + Refilled(c)
       /\ InRing' \cup over' = R \cup over
  BY <1>1, <1>2, <1>3, <1>6, <1>7, <1>8, <1>9, <1>10, RefillPlaces
<1>12. Refilled(c) \in Nat
  <2>1. Admitted(c) \subseteq over
    BY DEF Admitted
  <2> QED BY <1>3, <2>1, FS_Subset, FS_CardinalityType DEF Refilled
<1>13. Cardinality(R) = ringCount - Cardinality(B) /\ Cardinality(R) \in Nat
       /\ Cardinality(B) \in Nat
  <2>1. IsFiniteSet(B) /\ InRing \cap B = B
    BY <1>3, FS_Subset
  <2>2. Cardinality(InRing \ B) = Cardinality(InRing) - Cardinality(InRing \cap B)
    BY <1>3, <2>1, FS_Difference
  <2> QED BY <1>3, <1>10, <2>1, <2>2, FS_CardinalityType DEF R
<1>14. Counted'
  BY <1>1, <1>11, <1>12, <1>13 DEF Counted
<1>15. TypeOK'
  <2>1. ringCount' \in Nat
    BY <1>1, <1>12, <1>13
  <2>2. got' \subseteq Entries
    BY <1>1, <1>3 DEF WheelInv, TypeOK
  <2> QED BY <1>1, <1>2, <1>11, <2>1, <2>2 DEF WheelInv, TypeOK
<1>16. RingPlaced' /\ OverBeyond'
  BY <1>1, <1>11 DEF RingPlaced, OverBeyond
<1>17. CallShape'
  <2>1. \A e \in got' : e.due <= upto
    BY <1>1, <1>2, <1>5 DEF WheelInv, CallShape
  <2>2. base <= cursor /\ base <= c /\ c <= upto + 1
    BY <1>1, <1>2 DEF WheelInv, CallShape, c
  <2> QED BY <1>1, <1>2, <2>1, <2>2 DEF WheelInv, CallShape
<1>18. Held' = Held
  <2>1. InRing' \cup over' \cup B = InRing \cup over
    BY <1>3, <1>11 DEF R
  <2> QED BY <1>1, <2>1 DEF Held
<1> QED BY <1>14, <1>15, <1>16, <1>17, <1>18 DEF WheelInv

LEMMA StutterWheel == ASSUME WheelInv, UNCHANGED wvars PROVE WheelInv'
<1>1. UNCHANGED <<cursor, ring, over, ringCount, upto, got, fired, base>>
  BY DEF wvars
<1>2. InRing' = InRing
  BY <1>1 DEF InRing
<1> QED BY <1>1, <1>2 DEF WheelInv, TypeOK, RingPlaced, OverBeyond, Counted, CallShape

LEMMA WheelInvariance == Spec => []WheelInv
<1>1. WheelInv /\ [Next]_wvars => WheelInv'
  BY AddWheel, CallWheel, CatchUpWheel, JumpWheel, TurnWheel, ReturnWheel, StutterWheel
     DEF Next
<1> QED BY <1>1, InitWheel, PTL DEF Spec

-----------------------------------------------------------------------------
(* What holds of every behaviour. *)

\* Every field keeps its shape, whatever is filed and however far due jumps: in
\* particular ringCount, an int that due decrements, never goes below zero.
THEOREM WheelTyped == Spec => []TypeOK
<1>1. WheelInv => TypeOK
  BY DEF WheelInv
<1> QED BY <1>1, WheelInvariance, PTL

\* nextDue answers the least hour held, so the engine sleeps neither past a due
\* URL nor short of it.
THEOREM WheelLeast == Spec => []NextDueLeast
<1>1. WheelInv => NextDueLeast
  <2> SUFFICES ASSUME WheelInv, upto = Idle
               PROVE  IF Held = {} THEN NextDue = Idle
                      ELSE /\ \E e \in Held : e.due = NextDue
                           /\ \A e \in Held : NextDue <= e.due
    BY DEF NextDueLeast
  <2>1. /\ Held = InRing \cup over /\ cursor \in Nat /\ over \subseteq Entries
        /\ IsFiniteSet(InRing) /\ ringCount = Cardinality(InRing) /\ ringCount \in Nat
        /\ Span \in Nat /\ Span >= 2
    BY WheelAssumption DEF WheelInv, CallShape, Held, TypeOK, Counted
  <2>2. \A j \in Slots : \A e \in ring[j] :
          e.due \in Nat /\ e.due \in cursor..(cursor + Span - 1) /\ e.due % Span = j
    <3>1. \A j \in Slots : \A e \in ring[j] : e.due \in Nat
      BY WheelAssumption DEF WheelInv, TypeOK, Entries
    <3> QED BY <2>1, <3>1 DEF WheelInv, RingPlaced
  <2>3. \A e \in over : e.due \in Nat /\ e.due >= cursor + Span - 1
    BY WheelAssumption DEF WheelInv, TypeOK, OverBeyond, Entries
  <2>4. CASE InRing # {}
    <3>1. ringCount > 0
      BY <2>1, <2>4, FS_EmptySet
    <3>2. \A e \in InRing : e.due \in Ahead
      BY <2>2 DEF Ahead, InRing
    <3>3. Ahead \in SUBSET Nat /\ Ahead # {}
      BY <2>1, <2>4, <3>2 DEF Ahead
    <3>4. \E d \in Ahead : \A x \in Ahead : d <= x
      BY <3>3, LeastHour
    <3>5. NextDue \in Ahead /\ \A x \in Ahead : NextDue <= x
      BY <3>1, <3>3, <3>4 DEF NextDue
    <3> DEFINE n == NextDue
    <3>6. n \in Nat /\ n \in cursor..(cursor + Span - 1) /\ ring[n % Span] # {}
      BY <3>3, <3>5 DEF Ahead
    <3> HIDE DEF n
    <3>7. PICK e \in ring[n % Span] : TRUE
      BY <3>6
    <3>8. n % Span \in Slots
      BY <3>6, SlotOfHour
    <3>9. e \in InRing /\ e.due = n
      <4>1. e.due \in Nat /\ e.due \in cursor..(cursor + Span - 1) /\ e.due % Span = n % Span
        BY <2>2, <3>8
      <4>2. e.due = n
        BY <2>1, <3>6, <4>1, SlotsApart
      <4> QED BY <3>8, <4>2 DEF InRing
    <3>10. \A x \in over : n <= x.due
      BY <2>1, <2>3, <3>6
    <3> QED BY <2>1, <3>2, <3>5, <3>9, <3>10 DEF n
  <2>5. CASE InRing = {}
    <3>1. ringCount = 0
      BY <2>1, <2>5, FS_EmptySet
    <3>2. over # {} => Head \in over /\ \A x \in over : Head.due <= x.due
      BY <2>1, HeadLeast
    <3> QED BY <2>1, <2>5, <3>1, <3>2 DEF NextDue
  <2> QED BY <2>4, <2>5
<1> QED BY <1>1, WheelInvariance, PTL

\* The wheel implements the schedule index: filing, and the one step by which
\* due returns, are steps of the index, and every turn of the loop, with its
\* jumps, refills and catch-ups, changes nothing the index can see.
THEOREM WheelImplements == Spec => ImplementsIndex
<1>1. Init => Index!Init
  BY DEF Init, Index!Init, Held, InRing
<1>2. WheelInv /\ [Next]_wvars => [Index!Next]_(Index!svars)
  <2> SUFFICES ASSUME WheelInv, [Next]_wvars PROVE [Index!Next]_(Index!svars)
    OBVIOUS
  <2> USE DEF Index!svars
  <2>1. ASSUME NEW k \in Keys, NEW d \in 0..MaxHour, Add(k, d) PROVE Index!Next
    <3> DEFINE f == IF d <= cursor THEN cursor ELSE d
               e == [key |-> k, due |-> f]
    <3>1. base = cursor /\ UNCHANGED <<base, fired, got>> /\ \A x \in Held : x.key # k
      BY <2>1 DEF Add, WheelInv, CallShape
    <3>2. Held' = Held \cup {e}
      <4>1. f % Span \in Slots /\ ring \in [Slots -> SUBSET Entries]
        BY <2>1, SlotOfHour, WheelAssumption DEF WheelInv, TypeOK
      <4>2. InRing' \cup over' = InRing \cup over \cup {e}
        <5> HIDE DEF f, e
        <5>1. CASE Near(f, cursor)
          <6>1. ring' = [ring EXCEPT ![f % Span] = @ \cup {e}] /\ over' = over
            BY <2>1, <5>1 DEF Add, f, e
          <6>2. \A j \in Slots : ring'[j] = ring[j] \cup {x \in {e} : j = f % Span}
            BY <4>1, <6>1
          <6>3. InRing' = InRing \cup {e}
            BY <4>1, <6>2 DEF InRing
          <6> QED BY <6>1, <6>3
        <5>2. CASE ~Near(f, cursor)
          <6>1. ring' = ring /\ over' = over \cup {e}
            BY <2>1, <5>2 DEF Add, f, e
          <6> QED BY <6>1 DEF InRing
        <5> QED BY <5>1, <5>2
      <4> QED BY <3>1, <4>2 DEF Held
    <3> QED BY <3>1, <3>2 DEF Index!Next, Index!Add
  <2>2. ASSUME NEW n \in 0..MaxHour, Call(n) PROVE UNCHANGED <<Held, base, fired>>
    BY <2>2 DEF Call, WheelInv, CallShape, Held, InRing
  <2>3. ASSUME CatchUp PROVE UNCHANGED <<Held, base, fired>>
    BY <2>3 DEF CatchUp, Held, InRing
  <2>4. ASSUME Jump PROVE UNCHANGED <<Held, base, fired>>
    BY <2>4, JumpWheel DEF Jump
  <2>5. ASSUME Turn PROVE UNCHANGED <<Held, base, fired>>
    BY <2>5, TurnWheel DEF Turn
  <2>6. ASSUME Return PROVE Index!Next
    <3>1. upto \in 0..MaxHour /\ upto \in Nat /\ cursor \in Nat /\ cursor > upto
          /\ base \in Nat /\ Span \in Nat /\ Span >= 2
      BY <2>6, WheelAssumption DEF Return, WheelInv, CallShape, TypeOK
    <3>2. fired' = got /\ Held' = InRing \cup over /\ base' = cursor
      BY <2>6 DEF Return, Held, InRing
    <3>3. \A e \in InRing \cup over : ~(e.due <= upto)
      <4>1. \A e \in InRing \cup over : e.due >= cursor /\ e.due \in Nat
        BY <3>1, WheelAssumption
           DEF WheelInv, TypeOK, RingPlaced, OverBeyond, InRing, Entries
      <4> QED BY <3>1, <4>1
    <3>4. \A e \in got : e.due <= upto
      BY <2>6 DEF Return, WheelInv, CallShape
    <3>5. got = {e \in Held : e.due <= upto} /\ Held' = Held \ got
      BY <3>2, <3>3, <3>4 DEF Held
    <3>6. cursor = IF base <= upto THEN upto + 1 ELSE base
      BY <2>6, <3>1 DEF Return, WheelInv, CallShape
    <3> QED BY <3>1, <3>2, <3>5, <3>6 DEF Index!Next, Index!Due
  <2>7. ASSUME UNCHANGED wvars PROVE UNCHANGED <<Held, base, fired>>
    BY <2>7 DEF wvars, Held, InRing
  <2> QED BY <2>1, <2>2, <2>3, <2>4, <2>5, <2>6, <2>7 DEF Next
<1> QED BY <1>1, <1>2, WheelInvariance, PTL DEF Spec, ImplementsIndex, Index!Spec
=============================================================================
