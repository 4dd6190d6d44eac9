------------------------------ MODULE DueWheel ------------------------------
(***************************************************************************)
(* The hashed timing wheel of src/frontier/wheel.go: a ring of Span hour   *)
(* buckets at and after the cursor, an overflow heap for what lies beyond, *)
(* and the count of keys in the ring.  due(nowHour) is a loop; one step    *)
(* here is one turn of it, and nothing else runs between the turns of a    *)
(* call.  A filed key carries the hour it was filed for, which the code    *)
(* drops from the ring, so that the properties can speak of it.  The heap  *)
(* is a set read at its least hour.                                        *)
(***************************************************************************)
EXTENDS Integers, FiniteSets

CONSTANTS
  Keys,
  Span,      \* wheelSpan, 1024 in the code; a ring of one slot would fire late
  MaxHour    \* bound: the last hour of the model

ASSUME WheelAssumption == Span \in Nat \ {0, 1} /\ MaxHour \in Nat

VARIABLES
  cursor, ring, over, ringCount,   \* the fields of dueWheel
  upto,     \* nowHour of the call of due in progress, or Idle
  got,      \* the keys this call has fired so far
  fired,    \* what the last call returned
  base      \* the cursor before the call in progress

Idle == -1
wvars == <<cursor, ring, over, ringCount, upto, got, fired, base>>

Slots == 0..(Span - 1)
Entries == [key : Keys, due : 0..MaxHour]
InRing == UNION {ring[i] : i \in Slots}
Held == InRing \cup over \cup got

Init ==
  /\ cursor = 0 /\ base = 0
  /\ ring = [i \in Slots |-> {}] /\ over = {} /\ ringCount = 0
  /\ upto = Idle /\ got = {} /\ fired = {}

\* A due hour within the horizon of cursor c.
Near(d, c) == d - c < Span

\* add: a passed hour becomes the cursor's; near hours go to the ring.
Add(k, hour) ==
  LET d == IF hour <= cursor THEN cursor ELSE hour
      e == [key |-> k, due |-> d]
  IN
  /\ upto = Idle
  /\ d <= MaxHour
  /\ \A x \in Held : x.key # k
  /\ IF Near(d, cursor)
     THEN /\ ring' = [ring EXCEPT ![d % Span] = @ \cup {e}]
          /\ ringCount' = ringCount + 1
          /\ UNCHANGED over
     ELSE over' = over \cup {e} /\ UNCHANGED <<ring, ringCount>>
  /\ UNCHANGED <<cursor, upto, got, fired, base>>

\* Mutant: the horizon test of the refill is off by one.
Admitted_Short(c) == {e \in over : e.due <= c \/ Near(e.due, c - 1)}

\* admitOverflow at cursor c: what the heap hands over, and the slot of each.
Admitted(c) == {e \in over : e.due <= c \/ Near(e.due, c)}

Refilled(c) == Cardinality(Admitted(c))
SlotAt(e, c) == (IF e.due >= c THEN e.due ELSE c) % Span
Refill(r, c) ==
  /\ ring' = [i \in Slots |-> r[i] \cup {e \in Admitted(c) : SlotAt(e, c) = i}]
  /\ over' = over \ Admitted(c)

\* The loop head of due, and the three ways through its body.
Call(n) ==
  /\ upto = Idle
  /\ upto' = n /\ got' = {} /\ base' = cursor
  /\ UNCHANGED <<cursor, ring, over, ringCount, fired>>

Turning == upto # Idle /\ cursor <= upto

\* Mutant: the fast-forward lands one hour past the entry's own.
Edge_Late(e) == e.due + 1

\* satSub(it.due, wheelSpan-1): the hour an overflow entry enters the ring.
Edge(e) == IF e.due < Span - 1 THEN 0 ELSE e.due - (Span - 1)
Head == CHOOSE e \in over : \A x \in over : e.due <= x.due

\* An empty ring: nothing near, so the cursor catches up with the call.
CatchUp ==
  /\ Turning /\ ringCount = 0
  /\ \A e \in over : Edge(e) > upto
  /\ cursor' = upto + 1
  /\ UNCHANGED <<ring, over, ringCount, upto, got, fired, base>>

\* An empty ring: jump to where the heap's head enters.
Jump ==
  /\ Turning /\ ringCount = 0
  /\ \E e \in over : Edge(e) <= upto
  /\ cursor' = IF Edge(Head) > cursor THEN Edge(Head) ELSE cursor
  /\ Refill(ring, cursor')
  /\ ringCount' = Refilled(cursor')
  /\ UNCHANGED <<upto, got, fired, base>>

\* Fire the cursor's bucket and advance.
Turn ==
  LET i == cursor % Span IN
  /\ Turning /\ ringCount # 0
  /\ got' = got \cup ring[i]
  /\ cursor' = cursor + 1
  /\ Refill([ring EXCEPT ![i] = {}], cursor')
  /\ ringCount' = ringCount - Cardinality(ring[i]) + Refilled(cursor')
  /\ UNCHANGED <<upto, fired, base>>

\* due returns.
Return ==
  /\ upto # Idle /\ cursor > upto
  /\ fired' = got /\ got' = {} /\ upto' = Idle /\ base' = cursor
  /\ UNCHANGED <<cursor, ring, over, ringCount>>

Next ==
  \/ \E k \in Keys, d \in 0..MaxHour : Add(k, d)
  \/ \E n \in 0..MaxHour : Call(n)
  \/ CatchUp
  \/ Jump
  \/ Turn
  \/ Return

Spec == Init /\ [][Next]_wvars
FairSpec == Spec /\ WF_wvars(CatchUp \/ Jump \/ Turn \/ Return)

\* Mutant: the ring is scanned from its first slot.
Ahead_FromZero == {d \in Slots : ring[d] # {}}

\* nextDue: the first occupied slot from the cursor on, else the heap's head.
Ahead == {d \in cursor..(cursor + Span - 1) : ring[d % Span] # {}}
NextDue ==
  IF ringCount > 0 /\ Ahead # {} THEN CHOOSE d \in Ahead : \A x \in Ahead : d <= x
  ELSE IF over # {} THEN Head.due ELSE Idle

-----------------------------------------------------------------------------
(* Correctness. *)

\* Every field has its shape and the ring count never goes below zero.
TypeOK ==
  /\ cursor \in Nat /\ ringCount \in Nat /\ upto \in Nat \cup {Idle}
  /\ ring \in [Slots -> SUBSET Entries] /\ over \subseteq Entries
  /\ got \subseteq Entries /\ fired \subseteq Entries /\ base \in Nat

\* nextDue is the least hour of any key the wheel holds: the instant the engine
\* sleeps to is neither early nor late.
NextDueLeast ==
  upto = Idle =>
    IF Held = {} THEN NextDue = Idle
    ELSE /\ \E e \in Held : e.due = NextDue
         /\ \A e \in Held : NextDue <= e.due

\* The wheel implements the schedule index: mid-call, what has fired so far is
\* still pending and the cursor is the one the call started from.
Index == INSTANCE ScheduleIndex WITH pending <- Held, cursor <- base, fired <- fired
ImplementsIndex == Index!Spec

\* Every call of due returns: the fast-forward always makes progress.
CallReturns == [](upto # Idle => <>(upto = Idle))

=============================================================================
