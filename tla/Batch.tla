-------------------------------- MODULE Batch -------------------------------
(***************************************************************************)
(* The wire body of a discovery batch, src/distribute/batch.go: the rows   *)
(* sorted by key and laid out column by column, the keys and times as      *)
(* deltas of WordBits-bit integers.                                        *)
(*                                                                         *)
(* A body is the sequence of its varints, bytes and strings, so a body cut *)
(* anywhere is a shorter sequence.  The FSST arena is its strings in order, *)
(* after one element for the symbol table; a span reference is a place.    *)
(***************************************************************************)
EXTENDS Encoding

RowLess(a, b) == a.host < b.host \/ (a.host = b.host /\ a.path < b.path)

\* Deltas from the row before, from 0; up is for a column that ascends.
UpDeltas(col) == [i \in DOMAIN col |-> Wrap(col[i] - (IF i = 1 THEN 0 ELSE col[i - 1]))]
ZigDeltas(col) == [i \in DOMAIN col |-> zigzag(Signed(Wrap(col[i] - (IF i = 1 THEN 0 ELSE col[i - 1]))))]

Totals(deltas) ==
  LET sum[i \in 0..Len(deltas)] == IF i = 0 THEN 0 ELSE Wrap(sum[i - 1] + deltas[i])
  IN [i \in DOMAIN deltas |-> sum[i]]
ZigTotals(deltas) == Totals([i \in DOMAIN deltas |-> unzigzag(deltas[i])])

\* The batch in key order.  sort.Slice is not stable: rows of one key come
\* in any order.
KeyOrders(batch) ==
  {[i \in DOMAIN batch |-> batch[p[i]]] :
     p \in {q \in Bijection(DOMAIN batch, DOMAIN batch) :
              \A i, j \in DOMAIN batch : i < j => ~RowLess(batch[q[j]], batch[q[i]])}}

Column(b, field) == [i \in DOMAIN b |-> b[i][field]]

\* The nine columns of rows b.
Columns(b) ==
  <<UpDeltas(Column(b, "host")), ZigDeltas(Column(b, "path")), Column(b, "depth"),
    Column(b, "source"), ZigDeltas(Column(b, "from")), Column(b, "weight"),
    Column(b, "anchor"), ZigDeltas(Column(b, "at")), UpDeltas([i \in DOMAIN b |-> i])>>

\* One column after the other, then the table and the spans, each after its
\* length.
WireBody(b, cols) ==
  <<Len(b)>>
  \o [p \in 1..(9 * Len(b)) |-> cols[((p - 1) \div Len(b)) + 1][((p - 1) % Len(b)) + 1]]
  \o <<1, "table", Len(b)>>
  \o Column(b, "url")

\* The bodies a batch may be sent as.
EncodeBatch(batch) ==
  IF batch = <<>> THEN {<<>>} ELSE {WireBody(b, Columns(b)) : b \in KeyOrders(batch)}

\* n elements from place p on; {} past the end.
ReadFrom(body, p, n) == IF p + n - 1 > Len(body) THEN {} ELSE {SubSeq(body, p, p + n - 1)}

\* The rows of nine columns of n and of the spans.
RowsOf(n, cols, urls) ==
  LET Col(k) == SubSeq(cols, (k - 1) * n + 1, k * n)
      h == Totals(Col(1))    p == ZigTotals(Col(2))
      s == ZigTotals(Col(5)) o == ZigTotals(Col(8))
  IN [i \in 1..n |-> [host |-> h[i], path |-> p[i], depth |-> Col(3)[i], source |-> Col(4)[i],
                      from |-> s[i], weight |-> Col(6)[i], anchor |-> Col(7)[i], at |-> o[i],
                      url |-> urls[Totals(Col(9))[i]]]]

\* {} is ok = false.
DecodeBatch(body) ==
  IF body = <<>> THEN {<<>>}
  ELSE IF body[1] > Len(body) THEN {}
  ELSE UNION {UNION {
    {RowsOf(body[1], cols, urls) : urls \in ReadFrom(body, 9 * body[1] + 5, tail[3])}
    : tail \in ReadFrom(body, 9 * body[1] + 2, 3)}
    : cols \in ReadFrom(body, 2, 9 * body[1])}
=============================================================================
