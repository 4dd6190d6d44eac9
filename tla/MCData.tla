------------------------------- MODULE MCData -------------------------------
(* Small instances of the data components for TLC.  They share no state, so *)
(* a behaviour exercises one of them while the others stay idle.           *)
EXTENDS Collection, Rules, SeenSet, Replica, Trap

---------------------------------------------------------------------------
(* Collection *)

Row(h, p, st, d, s) == [host |-> h, path |-> p, status |-> st, due |-> d, count |-> d, span |-> {s}]

\* Two hosts at the ends of the key space and one inside; repeated strings;
\* paths that step down across hosts; due times in each tier of the wheel.
Seeds == {Row(0, 9, 1, 1, 1), Row(0, 14, 4, 3, 2), Row(2, 0, 6, 0, 1), Row(3, 5, 4, 7, 1)}
MCStarts == {{}, Seeds}
MCVerdicts == {<<4, 5>>, <<6, 0>>}
MCStrings == {2}
MCFinds == {Row(1, 3, 1, 2, 2)}
MCCaps == {0, 2}
MCWinSets == {Encodings, {"delta"}}

---------------------------------------------------------------------------
(* Calls *)

Words(S, n) == UNION {[1..k -> S] : k \in 0..n}

MatchCalls == [kind : {"match"}, pattern : Words({"a", "b", Star, Dollar}, 4), path : Words({"a", "b"}, 3)]

MCProduct == <<"m", "e">>
RobotsLines ==
  {[field |-> "user-agent", value |-> v] : v \in {<<Star>>, <<"m">>, <<"m", "e">>, <<"x">>}}
  \cup {[field |-> f, value |-> v] : f \in {"allow", "disallow"}, v \in {<<"a">>, <<"a", Star, "b", Dollar>>}}
  \cup {[field |-> "disallow", value |-> <<>>], [field |-> "crawl-delay", value |-> 2]}
RobotsCalls == [kind : {"robots"}, lines : Words(RobotsLines, 4), path : {<<"a", "b">>, <<"a">>}]

MCUnescaped == [c \in {"%61", "%2e", "%2E", "%2f"} |->
                  CASE c = "%61" -> "a" [] c = "%2f" -> "%2F" [] OTHER -> "."]
MCLowered == [c \in {"A", "HTTP", "S.X"} |-> CASE c = "A" -> "a" [] c = "HTTP" -> "http" [] OTHER -> "s.x"]
MCIndexFiles == {<<"index">>}
MCOrder == <<"1", "2", "a", "q", "utm">>
Link(s, h, port, path, q) == [scheme |-> s, host |-> h, root |-> FALSE, port |-> port, path |-> path, query |-> q]
A == <<"a">>
PathLinks == {Link("http", "s.x", 0, p, <<>>) : p \in
  {<<>>, <<<<>>>>, <<A>>, <<A, <<>>>>, <<<<"%61">>>>, <<<<"A">>>>, <<A, Dot>>, <<A, A, DotDot>>, <<DotDot, A>>,
   <<A, <<>>, A>>, <<A, A>>, <<<<"a", "%2f", "a">>>>, <<<<"a", "%2F", "a">>>>, <<A, <<"index">>>>,
   <<A, <<"%2e", "%2E">>, A>>, <<A, <<"%2E", "%2e">>, A>>}}
QueryLinks == {Link("http", "s.x", 0, <<A>>, q) :
                 q \in Words({<<"a", "1">>, <<"a", "2">>, <<"q", "1">>, <<"utm", "1">>}, 3)
                   \cup Words({<<"a", "1">>, <<"q", "1;x">>, <<"q", "2;x">>, <<"%zz", "1">>}, 2)}
AuthorityLinks == {Link(s, h, port, <<A>>, <<>>) :
                     s \in {"http", "HTTP", "https", "ftp"}, h \in {"s.x", "S.X", "bad", ""}, port \in {0, 80, 443, 8080}}
                  \cup {[Link("http", "s.x", 0, <<A>>, <<>>) EXCEPT !.root = TRUE]}
Policies == {DefaultPolicy, [DefaultPolicy EXCEPT !.deny = {"q"}], [DefaultPolicy EXCEPT !.allow = {"a", "utm"}],
             [DefaultPolicy EXCEPT !.collapse = TRUE], [DefaultPolicy EXCEPT !.index = TRUE],
             [DefaultPolicy EXCEPT !.trailing = TRUE, !.case = TRUE]}
CanonCalls ==
  UNION {[kind : {"canon"}, one : S, two : S, policy : {DefaultPolicy}] : S \in {PathLinks, QueryLinks, AuthorityLinks}}
  \cup {[kind |-> "canon", one |-> u, two |-> u, policy |-> pol] : u \in PathLinks \cup QueryLinks, pol \in Policies}

\* Rows whose every column steps down as well as up, across the sign bit.
Disc(h, p, f, t, u) == [host |-> h, path |-> p, depth |-> p % 3, source |-> 1, from |-> f,
                        weight |-> "w", anchor |-> 0, at |-> t, url |-> u]
Discs == {Disc(0, 15, 9, 7, "u1"), Disc(0, 3, 2, 9, "u2"), Disc(3, 0, 15, 0, "u1"), Disc(15, 8, 0, 3, "u3")}
BatchCalls == [kind : {"batch"}, rows : Words(Discs, 3), cut : 0..40]

MCCalls == MatchCalls \cup RobotsCalls \cup CanonCalls \cup BatchCalls

---------------------------------------------------------------------------
(* Seen-set, replica, traps *)

MCGiven == {<<0, 1>>, <<1, 0>>, <<1, 3>>, <<3, 2>>}
MCCold == {<<0, 1>>, <<1, 0>>, <<3, 2>>}
MCFpBits == {0}

MCCells == {<<1>>, <<2>>, <<1, 0>>, <<2, 0>>}
MCValues == {"scheduled", "inflight", Absent}

Token(letters, digits, other, junk) == [letters |-> letters, digits |-> digits, other |-> other, junk |-> junk]
Plain1 == [host |-> 1, depth |-> 1, path |-> <<NaN>>, year |-> NaN, month |-> NaN, dates |-> {},
           facets |-> 0, tokens |-> {}]
Sid(n) == {Token(8, 4 + n, 0, FALSE)}
MCLinks ==
  [u \in {"cal", "edge", "fac1", "fac2", "ses1", "ses2", "both", "two", "clean", "deep"} |->
     CASE u = "cal" -> [Plain1 EXCEPT !.path = <<NaN, 2031, 7>>]
       [] u = "edge" -> [Plain1 EXCEPT !.year = 2028, !.month = 3]
       [] u = "fac1" -> [Plain1 EXCEPT !.facets = 3]
       [] u = "fac2" -> [Plain1 EXCEPT !.facets = 4, !.path = <<NaN, NaN>>]
       [] u = "ses1" -> [Plain1 EXCEPT !.tokens = Sid(0)]
       [] u = "ses2" -> [Plain1 EXCEPT !.tokens = Sid(1)]
       [] u = "both" -> [Plain1 EXCEPT !.tokens = Sid(3), !.facets = 3, !.path = <<NaN, NaN>>]
       [] u = "two"  -> [Plain1 EXCEPT !.dates = {<<2020, 1>>, <<2090, 1>>}]
       [] u = "clean" -> [Plain1 EXCEPT !.path = <<2145, 3>>, !.facets = 2,
                                        !.tokens = {Token(12, 0, 0, FALSE), Token(2, 2, 0, FALSE)}]
       [] u = "deep" -> [Plain1 EXCEPT !.depth = 9]]

\* The last hour of February 2027 and the first of March; edge is past the
\* horizon in the one and within it in the other.
MCHours == <<24 * 20878 - 1, 24 * 20878>>

\* Two pages of one host and one of another.
MCPageHost == [u \in 1..3 |-> IF u = 3 THEN 2 ELSE 1]

---------------------------------------------------------------------------
(* One component at a time *)

VARIABLE part   \* the component this behaviour exercises

NoFiles == files = <<>> /\ live = {} /\ Wins = {} /\ ops = 0
NoCall == call = [kind |-> "none"] /\ answer = {}

DataInit ==
  /\ part \in {"files", "rules", "seen", "replica", "traps"}
  /\ IF part = "files" THEN Init ELSE NoFiles
  /\ IF part = "rules" THEN RulesInit ELSE NoCall
  /\ SeenInit /\ ReplicaInit /\ TrapInit

FilesStep == part = "files" /\ Next /\ UNCHANGED <<ruleVars, seenVars, replicaVars, trapVars, part>>
RulesStep == part = "rules" /\ RulesNext /\ UNCHANGED <<vars, seenVars, replicaVars, trapVars, part>>
SeenStep == part = "seen" /\ SeenNext /\ UNCHANGED <<vars, ruleVars, replicaVars, trapVars, part>>
ReplicaStep == part = "replica" /\ ReplicaNext /\ UNCHANGED <<vars, ruleVars, seenVars, trapVars, part>>
TrapStep == part = "traps" /\ TrapNext /\ UNCHANGED <<vars, ruleVars, seenVars, replicaVars, part>>

DataNext == FilesStep \/ RulesStep \/ SeenStep \/ ReplicaStep \/ TrapStep

DataSpec == DataInit /\ [][DataNext]_<<vars, ruleVars, seenVars, replicaVars, trapVars, part>>
=============================================================================
