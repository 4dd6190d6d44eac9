-------------------------------- MODULE Rules -------------------------------
(***************************************************************************)
(* The pure functions of the crawler, called with one argument each: the   *)
(* robots matcher and parser, URL canonicalization, and the wire body of a *)
(* discovery batch.  call is the call made, answer what it returned.       *)
(***************************************************************************)
EXTENDS RobotsRules, Canon, Batch

CONSTANTS
  Product,   \* the crawler's product token
  Calls      \* the calls made: [kind, ...]

\* What a batch holds: keys and times of a machine word.
Discoveries ==
  [host : 0..(Word - 1), path : 0..(Word - 1), depth : Nat, source : Nat, from : 0..(Word - 1),
   weight : STRING, anchor : Nat, at : 0..(Word - 1), url : STRING]

ASSUME RulesAssumption ==
  /\ Product \in Seq(STRING)
  /\ \A c \in Calls :
       /\ c.kind = "match" => c.pattern \in Seq(STRING) /\ c.path \in Seq(STRING)
       /\ c.kind = "robots" =>
            /\ c.path \in Seq(STRING) /\ c.lines = [i \in 1..Len(c.lines) |-> c.lines[i]] /\ Len(c.lines) \in Nat
            /\ \A i \in DOMAIN c.lines : c.lines[i].field # "crawl-delay" => c.lines[i].value \in Seq(STRING)
       /\ c.kind = "batch" => c.rows \in Seq(Discoveries) /\ Len(c.rows) < Word /\ c.cut \in Nat

VARIABLES call, answer

ruleVars == <<call, answer>>

RulesInit == call \in Calls /\ answer = {}

MatchPath ==
  /\ call.kind = "match"
  /\ answer' = {match(call.pattern, call.path)}

ParseRobots ==
  /\ call.kind = "robots"
  /\ answer' = {Allowed(Parse(call.lines, Product), call.path)}

CanonPair ==
  /\ call.kind = "canon"
  /\ answer' = {<<Canonicalize(call.one, call.policy), Canonicalize(call.two, call.policy)>>}

Cut(body, n) == SubSeq(body, 1, IF n < Len(body) THEN n ELSE Len(body))

\* The batch is sent, and the first `cut` elements of the body arrive.
ShipBatch ==
  /\ call.kind = "batch"
  /\ \E body \in EncodeBatch(call.rows) : answer' = {DecodeBatch(Cut(body, call.cut))}

RulesNext ==
  /\ answer = {}
  /\ MatchPath \/ ParseRobots \/ CanonPair \/ ShipBatch
  /\ UNCHANGED call

RulesSpec == RulesInit /\ [][RulesNext]_ruleVars

---------------------------------------------------------------------------
(* Properties *)

LoneDollar(line) == line.field \in {"allow", "disallow"} /\ line.value = <<Dollar>>

\* The greedy segment scan decides as the pattern means: some way to place
\* the literal runs in order, from the start and, when anchored, to the end,
\* exists just when match says so; and the verdict of the parsed group is
\* that of the lines as RFC 9309 reads them: the rules under the heaviest
\* User-agent lines, the longest pattern that matches, Allow on a tie.  Left
\* out: the lone pattern "$", which should match the empty path only and
\* matches all; and a file where the deciding agent heads two groups, which
\* the RFC combines and selectGroup does not (it keeps the first).
RobotsMeaning ==
  \A a \in answer :
    /\ call.kind = "match" /\ call.pattern # <<Dollar>>
         => (a <=> MeansMatch(call.pattern, call.path))
    /\ call.kind = "robots" /\ ~(\E i \in DOMAIN call.lines : LoneDollar(call.lines[i]))
         /\ OneGroup(call.lines, Product)
         => (a <=> MeansAllowed(call.lines, Product, call.path))

EncodedDot(u) == \E i \in DOMAIN u.path : \E k \in DOMAIN u.path[i] : u.path[i][k] \in {"%2e", "%2E"}
Garbled(u) == \E i \in DOMAIN u.query : ~Parses(u.query[i])
Settled(pol) == ~(pol.case \/ pol.trailing)

\* No wrong merge and no missed one: under the default policy two links have
\* one identity just when they name one resource, their queries equal up to
\* order and tracking keys; and the canonical form of a canonical form is
\* itself, so a link found twice, once already canonical, is one URL.
\* Left out of the wrong merges: queries with a pair that does not parse, which
\* is dropped (so /p?id=1;x and /p?id=2;x are one URL).  Left out of the
\* missed merges and of the second part: encoded dots (they are decoded
\* after the dot segments are gone), and the case and trailing-slash folds,
\* which undo earlier steps.
CanonSafe ==
  call.kind = "canon" => \A a \in answer : \A x \in a[1] :
    /\ call.policy = DefaultPolicy => \A y \in a[2] :
         /\ x = y /\ ~Garbled(call.one) /\ ~Garbled(call.two) => Resource(call.one) = Resource(call.two)
         /\ Resource(call.one) = Resource(call.two) /\ ~EncodedDot(call.one) /\ ~EncodedDot(call.two)
              => x = y
    /\ ~EncodedDot(call.one) /\ Settled(call.policy) => Canonicalize(x, call.policy) = {x}

\* A batch arrives whole or not at all: the body decodes to the rows sent,
\* whatever their keys and times step by, and a body cut short anywhere
\* past its first element is refused, never read as fewer or other rows.
BatchWhole ==
  call.kind = "batch" /\ call.cut > 0 => \A a \in answer :
    IF \E body \in EncodeBatch(call.rows) : call.cut < Len(body) THEN a = {}
    ELSE \E rows \in a :
           \A r \in Range(rows) \cup Range(call.rows) :
             Cardinality({i \in DOMAIN rows : rows[i] = r})
             = Cardinality({i \in DOMAIN call.rows : call.rows[i] = r})
=============================================================================
