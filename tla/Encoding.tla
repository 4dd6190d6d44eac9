------------------------------ MODULE Encoding ------------------------------
(***************************************************************************)
(* The column encodings of src/format/encoding.go: what a page writes for  *)
(* a column of unsigned values and what a reader gets back.                *)
(*                                                                         *)
(* The arithmetic is that of the code's machine word: WordBits stands for  *)
(* its 64, and a column's width for its 8, 16, 32 or 64 bits.  A payload   *)
(* is its fields in order (ints: the fixed-width fields and the varints)   *)
(* and the bitpacked tail (bits); the bytes a field takes are left out.    *)
(* A decoder's result is a set: {v} when it returns v, {} when it returns  *)
(* ErrCorrupt.                                                             *)
(***************************************************************************)
EXTENDS Integers, Sequences, SequencesExt

CONSTANT WordBits   \* bits of a machine word

\* The last two conjuncts are laws of exponentiation, which a prover that
\* knows only its name needs to be told.
ASSUME WordAssumption ==
  /\ WordBits \in Nat /\ WordBits >= 3
  /\ 2^0 = 1
  /\ \A w \in 0..WordBits : 2^w \in Nat /\ 2^(w + 1) = 2 * 2^w

Word == 2^WordBits
Wrap(n) == n % Word

Encodings == {"raw", "rle", "dict", "delta", "for", "deltafor"}

Signed(v) == IF v < Word \div 2 THEN v ELSE v - Word

zigzag(v) == LET s == Signed(v) IN IF s >= 0 THEN 2 * s ELSE -2 * s - 1

\* Mutant: the low bit is read as the sign only (1 decodes to 0).
unzigzag_NoCarry(u) == Wrap(IF u % 2 = 0 THEN u \div 2 ELSE -(u \div 2))

unzigzag(u) == Wrap(IF u % 2 = 0 THEN u \div 2 ELSE -(u \div 2) - 1)

bitWidth(v) == CHOOSE w \in 0..WordBits : v < 2^w /\ (w > 0 => v >= 2^(w - 1))

\* Each value's low `width` bits, least significant first.
bitpack(vals, width) ==
  [p \in 1..(Len(vals) * width) |->
     (vals[((p - 1) \div width) + 1] \div 2^((p - 1) % width)) % 2]

\* Bits past the end of the tail read as zero.
bitunpack(bits, n, width) ==
  LET Bit(p) == IF p \in DOMAIN bits THEN bits[p] ELSE 0
      Value(i) == LET v[k \in 0..width] == IF k = 0 THEN 0
                                           ELSE v[k - 1] + Bit((i - 1) * width + k) * 2^(k - 1)
                  IN v[width]
  IN [i \in 1..n |-> Value(i)]

\* The values cut to a column's width, as writeValues lays them out.
writeValues(vals, width) == [i \in DOMAIN vals |-> vals[i] % 2^width]

Payload(ints, bits) == [ints |-> ints, bits |-> bits]

---------------------------------------------------------------------------
(* RLE: a count, then a value and a length for each run. *)

\* The runs of vals, each <<value, length>>.
Runs(vals) ==
  LET runs[i \in 0..Len(vals)] ==
        IF i = 0 THEN <<>>
        ELSE LET done == runs[i - 1]
                 k    == Len(done)
             IN IF i > 1 /\ vals[i] = vals[i - 1] THEN [done EXCEPT ![k] = <<vals[i], done[k][2] + 1>>]
                ELSE Append(done, <<vals[i], 1>>)
  IN runs[Len(vals)]

encodeRLE(vals) ==
  LET runs == Runs(vals)
  IN Payload([p \in 1..(2 * Len(runs) + 1) |->
                IF p = 1 THEN Len(runs) ELSE runs[p \div 2][(p % 2) + 1]], <<>>)

decodeRLE(payload, n) ==
  LET in == payload.ints
      out[r \in 0..in[1]] == IF r = 0 THEN <<>>
                             ELSE out[r - 1] \o [k \in 1..in[2 * r + 1] |-> in[2 * r]]
  IN IF Len(out[in[1]]) = n THEN {out[in[1]]} ELSE {}

---------------------------------------------------------------------------
(* Dictionary: the distinct values in order of appearance, then codes. *)

Distinct(vals) ==
  LET dict[i \in 0..Len(vals)] ==
        IF i = 0 THEN <<>>
        ELSE IF vals[i] \in Range(dict[i - 1]) THEN dict[i - 1] ELSE Append(dict[i - 1], vals[i])
  IN dict[Len(vals)]

CodeWidth(size) == IF size > 1 THEN bitWidth(size - 1) ELSE 0

encodeDict(vals) ==
  LET dict  == Distinct(vals)
      codes == [i \in DOMAIN vals |-> (CHOOSE c \in DOMAIN dict : dict[c] = vals[i]) - 1]
      cw    == CodeWidth(Len(dict))
  IN Payload(<<Len(dict)>> \o dict \o <<cw>>, bitpack(codes, cw))

decodeDict(payload, n) ==
  LET size  == payload.ints[1]
      dict  == SubSeq(payload.ints, 2, size + 1)
      codes == bitunpack(payload.bits, n, payload.ints[size + 2])
  IN IF n = 0 THEN {<<>>}
     ELSE IF \E i \in 1..n : codes[i] >= size THEN {}
     ELSE {[i \in 1..n |-> dict[codes[i] + 1]]}

---------------------------------------------------------------------------
(* Delta: the zigzagged steps from one value to the next, from page_base. *)

Deltas(vals) == [i \in 1..(Len(vals) - 1) |-> zigzag(Wrap(vals[i + 1] - vals[i]))]

\* base and the running sums of n - 1 steps.
Summed(base, steps, n) ==
  LET out[i \in 0..(n - 1)] == IF i = 0 THEN base ELSE Wrap(out[i - 1] + unzigzag(steps[i]))
  IN [i \in 1..n |-> out[i - 1]]

Base(vals) == IF vals = <<>> THEN 0 ELSE vals[1]

encodeDelta(vals) == [base |-> Base(vals), payload |-> Payload(Deltas(vals), <<>>)]

decodeDelta(payload, n, base) ==
  IF n > Len(payload.ints) + 1 THEN {} ELSE {Summed(base, payload.ints, n)}

---------------------------------------------------------------------------
(* Frame of reference: the distance of each value from the least. *)

Least(vals) == IF vals = <<>> THEN 0 ELSE Min(Range(vals))
FrameWidth(vals) == IF vals = <<>> THEN 0 ELSE bitWidth(Max(Range(vals)) - Least(vals))
Residuals(vals) == [i \in DOMAIN vals |-> vals[i] - Least(vals)]

encodeFOR(vals) ==
  [base |-> Least(vals),
   payload |-> Payload(<<FrameWidth(vals)>>, bitpack(Residuals(vals), FrameWidth(vals)))]

decodeFOR(payload, n, base) ==
  {[i \in 1..n |-> Wrap(base + bitunpack(payload.bits, n, payload.ints[1])[i])]}

---------------------------------------------------------------------------
(* Delta over frame of reference: the steps, packed from the least step. *)

encodeDeltaFOR(vals) ==
  LET ds == Deltas(vals)
  IN [base |-> Base(vals),
      payload |-> Payload(<<FrameWidth(ds), Least(ds)>>, bitpack(Residuals(ds), FrameWidth(ds)))]

decodeDeltaFOR(payload, n, base) ==
  LET res == bitunpack(payload.bits, n - 1, payload.ints[1])
  IN IF n = 0 THEN {<<>>}
     ELSE {Summed(base, [i \in 1..(n - 1) |-> Wrap(res[i] + payload.ints[2])], n)}

---------------------------------------------------------------------------

encodeValues(enc, vals) ==
  CASE enc = "rle"      -> [base |-> 0, payload |-> encodeRLE(vals)]
    [] enc = "dict"     -> [base |-> 0, payload |-> encodeDict(vals)]
    [] enc = "delta"    -> encodeDelta(vals)
    [] enc = "for"      -> encodeFOR(vals)
    [] enc = "deltafor" -> encodeDeltaFOR(vals)
    [] OTHER            -> [base |-> 0, payload |-> Payload(vals, <<>>)]

decodeValues(enc, payload, n, base) ==
  CASE enc = "raw"      -> {payload.ints}
    [] enc = "rle"      -> decodeRLE(payload, n)
    [] enc = "dict"     -> decodeDict(payload, n)
    [] enc = "delta"    -> decodeDelta(payload, n, base)
    [] enc = "for"      -> decodeFOR(payload, n, base)
    [] enc = "deltafor" -> decodeDeltaFOR(payload, n, base)
=============================================================================
