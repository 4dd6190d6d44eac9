----------------------------- MODULE RobotsRules ----------------------------
(***************************************************************************)
(* A robots.txt, src/robots/robots.go: how its lines fall into groups,     *)
(* which group applies to the crawler, and what the group's rules say of a *)
(* path.                                                                   *)
(*                                                                         *)
(* A line is what splitLine leaves of it: [field, value], with "other" for *)
(* a directive the parser skips.  Agents, patterns and paths are sequences *)
(* of characters, lowercased where the code lowercases them; a Crawl-delay *)
(* is its number of seconds, NoDelay when it is not one.                   *)
(***************************************************************************)
EXTENDS Integers, Sequences, SequencesExt

NoDelay == -1
Star == "*"
Dollar == "$"
EmptyGroup == [agents |-> {}, rules |-> <<>>, crawlDelay |-> 0]

\* A trailing $ is an anchor and does not weigh.
patternLength(p) == IF p # <<>> /\ Last(p) = Dollar THEN Len(p) - 1 ELSE Len(p)

---------------------------------------------------------------------------
(* Groups *)

\* Mutant: every User-agent line opens a group.
OpensGroup_Always(starting) == TRUE

\* A User-agent line right after another belongs to the same group.
OpensGroup(starting) == ~starting

OnLine(st, line) ==
  LET n == Len(st.groups) IN
  CASE line.field = "user-agent" ->
         LET gs == IF OpensGroup(st.starting) THEN Append(st.groups, EmptyGroup) ELSE st.groups
         IN [st EXCEPT !.groups = [gs EXCEPT ![Len(gs)].agents = @ \cup {line.value}],
                       !.starting = TRUE]
    [] line.field \in {"allow", "disallow"} /\ n > 0 ->
         [st EXCEPT !.starting = FALSE,
                    !.groups[n].rules = Append(@, [pattern |-> line.value,
                                                   allow   |-> line.field = "allow",
                                                   length  |-> patternLength(line.value)])]
    [] line.field = "crawl-delay" /\ n > 0 ->
         [st EXCEPT !.starting = FALSE,
                    !.groups[n].crawlDelay = IF line.value = NoDelay THEN @ ELSE line.value]
    [] OTHER -> st

\* The group with the longest agent that is a prefix of product, the first
\* of them; else the first * group; {} when no group applies.
selectGroup(groups, product) ==
  LET Fit(g) == {a \in g.agents : a # <<Star>> /\ IsPrefix(a, product)}
      named  == {i \in DOMAIN groups : Fit(groups[i]) # {}}
      Best(i) == Max({Len(a) : a \in Fit(groups[i])})
      stars  == {i \in DOMAIN groups : <<Star>> \in groups[i].agents}
  IN IF named # {}
     THEN {groups[Min({i \in named : \A j \in named : Best(j) <= Best(i)})]}
     ELSE {groups[i] : i \in {k \in stars : \A j \in stars : k <= j}}

\* The rules and the delay that apply; none is allow-all.
Parse(lines, product) ==
  LET st[i \in 0..Len(lines)] ==
        IF i = 0 THEN [groups |-> <<>>, starting |-> FALSE] ELSE OnLine(st[i - 1], lines[i])
      picked == selectGroup(st[Len(lines)].groups, product)
  IN IF picked = {} THEN EmptyGroup ELSE CHOOSE g \in picked : TRUE

---------------------------------------------------------------------------
(* Verdicts *)

\* The literal runs between wildcards.
segments(p) ==
  LET runs[i \in 0..Len(p)] ==
        IF i = 0 THEN <<<<>>>>
        ELSE IF p[i] = Star THEN Append(runs[i - 1], <<>>)
        ELSE [runs[i - 1] EXCEPT ![Len(runs[i - 1])] = Append(@, p[i])]
  IN runs[Len(p)]

Anchored(p) == p # <<>> /\ Last(p) = Dollar
Body(p) == IF Anchored(p) THEN Front(p) ELSE p

\* The literal seg stands in path right after its first `at` characters.
StandsAt(seg, path, at) == at >= 0 /\ at + Len(seg) <= Len(path)
                           /\ SubSeq(path, at + 1, at + Len(seg)) = seg

NoMatch == -1

\* Where the scan is after segment k, from pos.
AfterSegment(segs, anchored, path, pos, k) ==
  LET seg  == segs[k]
      tail == Len(path) - Len(seg)
      hits == {q \in pos..tail : StandsAt(seg, path, q)}
  IN IF pos = NoMatch \/ seg = <<>> THEN pos
     ELSE IF k = 1 THEN IF StandsAt(seg, path, 0) THEN Len(seg) ELSE NoMatch
     ELSE IF k = Len(segs) /\ anchored
       THEN IF tail >= pos /\ StandsAt(seg, path, tail) THEN Len(path) ELSE NoMatch
     ELSE IF hits = {} THEN NoMatch ELSE Min(hits) + Len(seg)

match(pattern, path) ==
  LET segs == segments(Body(pattern))
      pos[k \in 0..Len(segs)] ==
        IF k = 0 THEN 0 ELSE AfterSegment(segs, Anchored(pattern), path, pos[k - 1], k)
      end  == pos[Len(segs)]
  IN /\ pattern # <<>>
     /\ end # NoMatch
     /\ Anchored(pattern) => Last(segs) = <<>> \/ end = Len(path)

\* The running verdict after one more rule.
Weighed(v, r, path) ==
  IF ~match(r.pattern, path) THEN v
  ELSE IF r.length > v.best THEN [best |-> r.length, allow |-> r.allow]
  ELSE IF r.length = v.best /\ r.allow THEN [v EXCEPT !.allow = TRUE]
  ELSE v

Allowed(group, path) ==
  LET v[i \in 0..Len(group.rules)] ==
        IF i = 0 THEN [best |-> -1, allow |-> TRUE] ELSE Weighed(v[i - 1], group.rules[i], path)
  IN v[Len(group.rules)].allow

---------------------------------------------------------------------------
(* Reference: what the lines mean, position by position *)

\* The rule at line i belongs to the agents named in the last run of
\* User-agent lines before it, a run that only rules and delays end.
RuleFields == {"allow", "disallow", "crawl-delay"}
Ends(lines, i) == lines[i].field \in RuleFields
RunOf(lines, i) ==
  {j \in 1..(i - 1) :
     /\ lines[j].field = "user-agent"
     /\ \A k \in (j + 1)..(i - 1) : lines[k].field = "user-agent" =>
          \A e \in (j + 1)..(k - 1) : ~Ends(lines, e)}

Weight(agent, product) ==
  IF agent = <<Star>> THEN -1 ELSE IF IsPrefix(agent, product) THEN Len(agent) ELSE -2

\* The User-agent lines that decide: the heaviest of those that name the
\* crawler.  The groups they head count as one (RFC 9309, 2.2.1).
Deciders(lines, product) ==
  LET fit == {j \in DOMAIN lines : lines[j].field = "user-agent" /\ Weight(lines[j].value, product) > -2}
  IN {j \in fit : \A k \in fit : Weight(lines[j].value, product) >= Weight(lines[k].value, product)}

\* They all stand over one group: no rule comes between two of them.
OneGroup(lines, product) ==
  \A j, k \in Deciders(lines, product) : \A e \in (j + 1)..(k - 1) : ~Ends(lines, e)

MeansMatch(pattern, path) ==
  LET segs == segments(Body(pattern))
      n    == Len(segs)
  IN /\ pattern # <<>>
     /\ \E at \in [1..n -> 0..Len(path)] :
          /\ at[1] = 0
          /\ \A k \in 1..n : StandsAt(segs[k], path, at[k])
          /\ \A k \in 2..n : at[k - 1] + Len(segs[k - 1]) <= at[k]
          /\ Anchored(pattern) => at[n] + Len(segs[n]) = Len(path)

MeansAllowed(lines, product, path) ==
  LET ours == {i \in DOMAIN lines :
                 /\ lines[i].field \in {"allow", "disallow"}
                 /\ Deciders(lines, product) \cap RunOf(lines, i) # {}
                 /\ MeansMatch(lines[i].value, path)}
      top  == {i \in ours : \A j \in ours : patternLength(lines[j].value) <= patternLength(lines[i].value)}
  IN top = {} \/ \E i \in top : lines[i].field = "allow"
=============================================================================
