-------------------------------- MODULE Canon -------------------------------
(***************************************************************************)
(* URL canonicalization, src/dedup/canon.go: the steps that turn a link    *)
(* into the string whose hash is the URL's identity.                       *)
(*                                                                         *)
(* A link is what url.Parse makes of an absolute one: scheme, host (root:  *)
(* written with the trailing root dot), port, path and query.  The path is *)
(* the sequence of its segments after the leading slash (<<>> is the empty *)
(* path, a last empty segment a trailing slash), a segment the sequence of *)
(* its characters, where an escape such as "%2e" is one character; only    *)
(* the characters of Unescaped and Lowered behave in a way of their own.   *)
(* The query is the sequence of its <<key, value>> pairs as written.       *)
(* url.Parse, Query, ResolveReference, IDNA and the public suffix list are *)
(* external.                                                               *)
(***************************************************************************)
EXTENDS Integers, Sequences, SequencesExt

CONSTANTS
  Unescaped,   \* escape -> what normalizePercent writes for it
  Lowered,     \* uppercase name or character -> its lowercase
  Tracking,    \* the query keys of trackingParams
  IndexFiles,  \* the segments of indexFiles
  Invalid,     \* hosts that fail IDNA
  Malformed,   \* spellings of a key or value with a semicolon or a bad escape
  Order        \* the query keys and values, in string order

DefaultPolicy == [allow |-> {}, deny |-> {}, trailing |-> FALSE, index |-> FALSE,
                  case |-> FALSE, collapse |-> FALSE]

Dot == <<".">>
DotDot == <<".", ".">>

ToLower(c) == IF c \in DOMAIN Lowered THEN Lowered[c] ELSE c
LowerPath(path) == [i \in DOMAIN path |-> [k \in DOMAIN path[i] |-> ToLower(path[i][k])]]

\* External: remove-dot-segments, as resolving the URL against itself does.
\* A path that ends in a dot segment ends in a slash.
RemoveDots(path) ==
  LET Step(out, seg) == IF seg = Dot THEN out
                        ELSE IF seg = DotDot THEN IF out = <<>> THEN out ELSE Front(out)
                        ELSE Append(out, seg)
      kept == FoldLeft(Step, <<>>, path)
  IN IF path # <<>> /\ Last(path) \in {Dot, DotDot} THEN Append(kept, <<>>) ELSE kept

\* Unreserved escapes are decoded, the others written in upper case.
normalizePercent(path) ==
  [i \in DOMAIN path |-> [k \in DOMAIN path[i] |->
     IF path[i][k] \in DOMAIN Unescaped THEN Unescaped[path[i][k]] ELSE path[i][k]]]

\* Empty segments go, but for the last, which is the trailing slash.
collapseSlashes(path) ==
  LET kept == SelectSeq([i \in DOMAIN path |-> <<i, path[i]>>],
                        LAMBDA s : s[2] # <<>> \/ s[1] = Len(path))
  IN [i \in DOMAIN kept |-> kept[i][2]]

foldIndex(path) == IF Last(path) \in IndexFiles THEN [path EXCEPT ![Len(path)] = <<>>] ELSE path

foldTrailing(path) == IF Len(path) > 1 /\ Last(path) = <<>> THEN Front(path) ELSE path

StringLess(a, b) == a # b /\ (CHOOSE i \in DOMAIN Order : Order[i] = a) < (CHOOSE i \in DOMAIN Order : Order[i] = b)
PairLess(p, q) == StringLess(p[1], q[1]) \/ (p[1] = q[1] /\ StringLess(p[2], q[2]))

\* External: url.Query skips the pairs it cannot parse.
Parses(p) == p[1] \notin Malformed /\ p[2] \notin Malformed
Query(query) == SelectSeq(query, Parses)

Survives(k, pol) == IF pol.allow # {} THEN k \in pol.allow ELSE k \notin Tracking \cup pol.deny

\* Mutant: the pairs are sorted by key alone, in the order they came.
filterQuery_KeyOrder(query, pol) ==
  SortSeq(SelectSeq(query, LAMBDA p : Survives(p[1], pol)), LAMBDA p, q : StringLess(p[1], q[1]))

filterQuery(query, pol) ==
  SortSeq(SelectSeq(query, LAMBDA p : Survives(p[1], pol)), PairLess)

DefaultPort(scheme) == IF scheme = "http" THEN 80 ELSE 443

\* {} is ok = false: not a frontier URL.
Canonicalize(u, pol) ==
  LET scheme == ToLower(u.scheme)
      host   == ToLower(u.host)
      p1 == RemoveDots(u.path)
      p2 == normalizePercent(IF p1 = <<>> THEN <<<<>>>> ELSE p1)
      p3 == IF pol.collapse THEN collapseSlashes(p2) ELSE p2
      p4 == IF pol.index THEN foldIndex(p3) ELSE p3
      p5 == IF pol.trailing THEN foldTrailing(p4) ELSE p4
      q  == filterQuery(Query(u.query), pol)
  IN IF scheme \notin {"http", "https"} \/ host = "" \/ host \in Invalid THEN {}
     ELSE {[scheme |-> scheme, host |-> host, root |-> FALSE,
            port   |-> IF u.port = DefaultPort(scheme) THEN 0 ELSE u.port,
            path   |-> IF pol.case THEN LowerPath(p5) ELSE p5,
            query  |-> IF pol.case THEN [i \in DOMAIN q |-> <<ToLower(q[i][1]), ToLower(q[i][2])>>]
                       ELSE q]}

---------------------------------------------------------------------------
(* Reference: when two links are surely the same resource *)

\* RFC 3986 decodes before it looks for dot segments; the server gets every
\* pair that is not a tracking one.
Resource(u) ==
  LET path == RemoveDots(normalizePercent(u.path))
      sent == SelectSeq(u.query, LAMBDA p : p[1] \notin Tracking)
  IN [scheme |-> ToLower(u.scheme), host |-> ToLower(u.host),
      port   |-> IF u.port = 0 THEN DefaultPort(ToLower(u.scheme)) ELSE u.port,
      path   |-> IF path = <<>> THEN <<<<>>>> ELSE path,
      pairs  |-> [p \in Range(sent) |-> Cardinality({i \in DOMAIN sent : sent[i] = p})]]
=============================================================================
