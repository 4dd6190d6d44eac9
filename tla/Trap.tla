-------------------------------- MODULE Trap --------------------------------
(***************************************************************************)
(* Crawl-trap defence: the pattern detector of src/dedup/trapdetect.go, the *)
(* admission rule of src/dedup/trap.go, and how Discover of                *)
(* src/frontier/frontier.go uses them, across restarts that keep the       *)
(* host's flag and lose the detector.  And the soft-404 detector of        *)
(* trap.go, which tombstones pages by the fingerprint they are served with, *)
(* as markCrawled of src/frontier/state.go uses it.                        *)
(*                                                                         *)
(* A URL is what the rules read of it: the host, the depth, the path (a    *)
(* sequence of segments, a number or NaN), the query's year and month (NaN *)
(* when absent), its other date values (each the numbers it splits into),  *)
(* how many facet keys it stacks, and the values under session keys (by    *)
(* the characters they hold).                                              *)
(***************************************************************************)
EXTENDS Integers, Sequences, FiniteSets, SequencesExt

CONSTANTS
  Links,          \* URL -> the record above
  HorizonMonths, FacetLimit, FlagThreshold, SessionMinLen,
  URLBudget, DepthCap,   \* 0: unlimited
  PageHost,       \* the pages a crawl fetches -> their host
  Prints,         \* content fingerprints; 0 is none
  SoftThreshold,  \* pages with one fingerprint that make it a template
  Hours,          \* the hours of the clock, ascending
  MaxReloads,     \* bound: restarts
  MaxRows         \* bound: URLs discovered

ASSUME TrapAssumption ==
  /\ FlagThreshold \in Nat \ {0} /\ SoftThreshold \in Nat \ {0}
  /\ Hours \in Seq(Nat) /\ Hours # <<>>
  /\ IsFiniteSet(DOMAIN Links) /\ IsFiniteSet(DOMAIN PageHost)
  /\ HorizonMonths \in Int
  /\ \A u \in DOMAIN Links : LET l == Links[u] IN
       l.path \in Seq(Int) /\ l.year \in Int /\ l.month \in Int /\ l.dates \subseteq Seq(Int)

VARIABLES
  traps,     \* the detector: host -> [cal, fac, session, flagged, seen]
  suspect,   \* hosts whose record carries the trap-suspect flag
  rows,      \* URL -> "none", "Scheduled" or "Trapped"
  clock,     \* place in Hours
  reloads,
  met,       \* ghost: the discoveries of this life, in order
  soft,      \* the soft-404 detector: [seen, template]
  pages,     \* page -> "Scheduled", "Crawled" or "Gone"
  served     \* ghost: the crawls of this life, <<page, fingerprint, status>>

urlVars == <<traps, suspect, rows, clock, met>>
pageVars == <<soft, pages, served>>
trapVars == <<urlVars, pageVars, reloads>>

NaN == -1
TrapHosts == {Links[u].host : u \in DOMAIN Links}
Paths == {Links[u].path : u \in DOMAIN Links}
Fresh == [cal |-> 0, fac |-> 0, session |-> [b \in Paths |-> 0], flagged |-> {}, seen |-> {}]

---------------------------------------------------------------------------
(* The calendar *)

\* A day since the epoch as <<year, month>>.
civilFromDays(days) ==
  LET z   == days + 719468
      era == z \div 146097
      doe == z - era * 146097
      yoe == (doe - doe \div 1460 + doe \div 36524 - doe \div 146096) \div 365
      doy == doe - (365 * yoe + yoe \div 4 - yoe \div 100)
      mp  == (5 * doy + 2) \div 153
      month == IF mp >= 10 THEN mp - 9 ELSE mp + 3
  IN <<yoe + era * 400 + (IF month <= 2 THEN 1 ELSE 0), month>>

MonthsOf(y, m) == y * 12 + (m - 1)

nowMonths(hours) ==
  LET ym == civilFromDays((hours * 3600) \div 86400) IN MonthsOf(ym[1], ym[2])

plausibleYear(y) == 1990 <= y /\ y <= 2099
IsMonth(m) == 1 <= m /\ m <= 12
AsDate(parts) == Len(parts) >= 2 /\ plausibleYear(parts[1]) /\ IsMonth(parts[2])

\* The first segment that is a year with a month after it.
pathYearMonth(path) ==
  LET at == {i \in 1..(Len(path) - 1) : plausibleYear(path[i]) /\ IsMonth(path[i + 1])}
  IN {MonthsOf(path[i], path[i + 1]) : i \in {j \in at : \A k \in at : j <= k}}

\* The date values are walked in map order: any of them may be the one read.
queryYearMonth(l) ==
  IF plausibleYear(l.year)
  THEN {MonthsOf(l.year, IF IsMonth(l.month) THEN l.month ELSE 1)}
  ELSE {MonthsOf(d[1], d[2]) : d \in {v \in l.dates : AsDate(v)}}

urlMonths(l) == IF pathYearMonth(l.path) # {} THEN pathYearMonth(l.path) ELSE queryYearMonth(l)

---------------------------------------------------------------------------
(* The rules *)

\* The answers calendarViolation may give.
calendarViolation(l, hours) ==
  IF urlMonths(l) = {} THEN {FALSE}
  ELSE {m > nowMonths(hours) + HorizonMonths : m \in urlMonths(l)}

facetViolation(l) == l.facets >= FacetLimit

highEntropyToken(t) ==
  LET len == t.letters + t.digits + t.other
  IN len >= SessionMinLen /\ ~t.junk /\ t.letters >= 2 /\ t.digits >= 1 /\ t.other <= len \div 4

sessionViolation(l) == \E t \in l.tokens : highEntropyToken(t)

\* The first rule that fires names the URL.
Violation(l, hours) ==
  {IF cal THEN "calendar" ELSE IF sessionViolation(l) THEN "session"
   ELSE IF facetViolation(l) THEN "faceted" ELSE "none" : cal \in calendarViolation(l, hours)}

\* Mutant: a host is flagged one URL late.
Crosses_Late(n) == n > FlagThreshold

Crosses(n) == n >= FlagThreshold

\* The host's accumulation after Observe named u's pattern `kind`.
Observe(ht, u, kind) ==
  LET base == Links[u].path
      new  == [ht EXCEPT !.cal = IF kind = "calendar" THEN @ + 1 ELSE @,
                         !.fac = IF kind = "faceted" THEN @ + 1 ELSE @,
                         !.session[base] = IF kind = "session" THEN @ + 1 ELSE @,
                         !.seen = @ \cup {u}]
      count == CASE kind = "calendar" -> new.cal
                 [] kind = "faceted"  -> new.fac
                 [] kind = "session"  -> new.session[base]
  IN IF kind = "none" \/ u \in ht.seen THEN ht
     ELSE [new EXCEPT !.flagged = IF Crosses(count) THEN @ \cup {kind} ELSE @]

\* The answers Passes may give on a host.
Passes(ht, l, hours) ==
  {/\ "calendar" \in ht.flagged => ~cal
   /\ "session" \in ht.flagged => ~sessionViolation(l)
   /\ "faceted" \in ht.flagged => ~facetViolation(l) : cal \in calendarViolation(l, hours)}

Admit(depth, count, flagged, passes) ==
  IF \/ DepthCap > 0 /\ depth > DepthCap
     \/ URLBudget > 0 /\ count >= URLBudget
     \/ flagged /\ ~passes
  THEN "Trapped" ELSE "Scheduled"

---------------------------------------------------------------------------
(* The frontier *)

URLCount(h) == Cardinality({u \in DOMAIN Links : Links[u].host = h /\ rows[u] # "none"})

\* A restored flag without what it was set for applies every rule.
PatternPass(ht, l, flagged, hours) ==
  IF flagged /\ ht.flagged = {} THEN {k = "none" : k \in Violation(l, hours)}
  ELSE Passes(ht, l, hours)

\* Discover of a URL the seen-set has not met.
TrapDiscover(u) ==
  LET l == Links[u]
      h == l.host
      hours == Hours[clock]
  IN /\ rows[u] = "none"
     /\ Cardinality({v \in DOMAIN rows : rows[v] # "none"}) < MaxRows
     /\ \E kind \in Violation(l, hours) :
          LET ht == Observe(traps[h], u, kind)
              newly == traps[h].flagged = {} /\ ht.flagged # {}
              flagged == newly \/ h \in suspect
          IN \E passes \in PatternPass(ht, l, flagged, hours) :
               LET status == Admit(l.depth, URLCount(h), flagged, passes)
               IN /\ traps' = [traps EXCEPT ![h] = ht]
                  /\ suspect' = IF newly THEN suspect \cup {h} ELSE suspect
                  /\ rows' = [rows EXCEPT ![u] = status]
                  /\ met' = Append(met, [url |-> u, hours |-> hours, status |-> status,
                                         flagged |-> h \in suspect, count |-> URLCount(h)])
     /\ UNCHANGED <<clock, reloads, pageVars>>

Advance ==
  /\ clock < Len(Hours) /\ clock' = clock + 1
  /\ UNCHANGED <<traps, suspect, rows, reloads, met, pageVars>>

---------------------------------------------------------------------------
(* Soft 404s *)

NewSoftDetector ==
  [seen |-> [h \in Range(PageHost) |-> [fp \in Prints |-> {}]], template |-> [h \in Range(PageHost) |-> {}]]

isTemplate(d, h, fp) == fp \in d.template[h]

\* The detector once page u of host h was served with fp: below the
\* threshold u is counted, once; at it fp becomes a template and its count
\* is dropped.
SoftObserve(d, h, fp, u) ==
  LET keys == d.seen[h][fp] \cup {u} IN
  IF fp = 0 \/ isTemplate(d, h, fp) THEN d
  ELSE IF Cardinality(keys) < SoftThreshold THEN [d EXCEPT !.seen[h][fp] = keys]
  ELSE [d EXCEPT !.seen[h][fp] = {}, !.template[h] = @ \cup {fp}]

\* markCrawled: a 304 shows nothing; a page served with a template is gone.
CrawlPage(u, fp, notModified) ==
  LET h == PageHost[u]
      d == IF notModified THEN soft ELSE SoftObserve(soft, h, fp, u)
      status == IF ~notModified /\ isTemplate(d, h, fp) THEN "Gone" ELSE "Crawled"
  IN /\ pages[u] # "Gone"
     /\ soft' = d
     /\ pages' = [pages EXCEPT ![u] = status]
     /\ served' = IF notModified THEN served ELSE served \cup {<<u, fp, status>>}
     /\ UNCHANGED <<urlVars, reloads>>

---------------------------------------------------------------------------
(* Specification *)

\* A checkpoint and a restart: the rows, the flags and the pages come back,
\* the detectors start over.
Reload ==
  /\ reloads < MaxReloads /\ reloads' = reloads + 1
  /\ traps' = [h \in TrapHosts |-> Fresh] /\ met' = <<>>
  /\ soft' = NewSoftDetector /\ served' = {}
  /\ UNCHANGED <<suspect, rows, clock, pages>>

TrapInit ==
  /\ traps = [h \in TrapHosts |-> Fresh] /\ suspect = {}
  /\ rows = [u \in DOMAIN Links |-> "none"]
  /\ clock = 1 /\ reloads = 0 /\ met = <<>>
  /\ soft = NewSoftDetector /\ pages = [u \in DOMAIN PageHost |-> "Scheduled"] /\ served = {}

\* Discoveries and crawls touch different state; a behaviour has either.
TrapNext ==
  \/ /\ \A u \in DOMAIN pages : pages[u] = "Scheduled"
     /\ (\E u \in DOMAIN Links : TrapDiscover(u)) \/ Advance
  \/ /\ \A u \in DOMAIN rows : rows[u] = "none"
     /\ clock = 1
     /\ \E u \in DOMAIN PageHost, fp \in Prints, nm \in BOOLEAN : CrawlPage(u, fp, nm)
  \/ Reload

TrapSpec == TrapInit /\ [][TrapNext]_trapVars

---------------------------------------------------------------------------
(* Property *)

\* Days from 1970 to the first of a month, by the Gregorian rule.
LeapYear(y) == y % 4 = 0 /\ (y % 100 # 0 \/ y % 400 = 0)
DaysBefore == <<0, 31, 59, 90, 120, 151, 181, 212, 243, 273, 304, 334>>
MonthStart(y, m) ==
  365 * (y - 1970) + Cardinality({x \in 1970..(y - 1) : LeapYear(x)})
  + DaysBefore[m] + (IF m > 2 /\ LeapYear(y) THEN 1 ELSE 0)

\* A link dated past the horizon, by the calendar on the wall.
PastHorizon(l, hours) ==
  /\ Cardinality(urlMonths(l)) = 1
  /\ \A months \in urlMonths(l) :
       LET m == months - HorizonMonths
       IN hours < 24 * MonthStart(m \div 12, 1 + (m % 12))

Bears(e, kind) ==
  LET l == Links[e.url] IN
  CASE kind = "calendar" -> PastHorizon(l, e.hours)
    [] kind = "session"  -> sessionViolation(l)
    [] kind = "faceted"  -> facetViolation(l)

\* The pattern a discovery counts for: its first.
Counts(e, kind) ==
  /\ Bears(e, kind)
  /\ kind # "calendar" => ~Bears(e, "calendar")
  /\ kind = "faceted" => ~Bears(e, "session")

Kinds == {"calendar", "session", "faceted"}

\* A trap leaks a bounded number of URLs and nothing else is parked.  In one
\* life of the frontier a host gets fewer than FlagThreshold URLs of one
\* pattern scheduled (of one page, for session ids), and none of the pattern
\* once the threshold is met; a host that comes back flagged gets none of
\* any pattern until the detector has learned one again; and a URL is parked
\* only when it bears a pattern or its host's budget or depth is spent.
\* Links with two dates are left out: which one is read is up to map order.
\* Likewise for a farm of soft 404s: fewer than SoftThreshold pages of a host
\* stay crawled with one fingerprint, and a page is tombstoned only for a
\* fingerprint that so many pages of its host were served with.
TrapsParked ==
  /\ \A kind \in Kinds, h \in TrapHosts, base \in Paths :
       Cardinality({i \in DOMAIN met :
         /\ met[i].status = "Scheduled" /\ Links[met[i].url].host = h
         /\ Counts(met[i], kind)
         /\ kind = "session" => Links[met[i].url].path = base}) < FlagThreshold
  /\ \A i \in DOMAIN met :
       LET e == met[i]
           l == Links[e.url]
           Earlier(kind) == {j \in 1..(i - 1) : Links[met[j].url].host = l.host /\ Counts(met[j], kind)}
       IN Cardinality(urlMonths(l)) <= 1 =>
          /\ \A kind \in {"calendar", "faceted"} :
               Bears(e, kind) /\ Cardinality(Earlier(kind)) >= FlagThreshold => e.status = "Trapped"
          /\ e.flagged /\ (\A kind \in Kinds : Cardinality(Earlier(kind)) + 1 < FlagThreshold)
             /\ (\E kind \in Kinds : Bears(e, kind)) => e.status = "Trapped"
          /\ e.status = "Trapped" =>
               \/ \E kind \in Kinds : Bears(e, kind)
               \/ URLBudget > 0 /\ e.count >= URLBudget
               \/ DepthCap > 0 /\ l.depth > DepthCap
  /\ \A h \in Range(PageHost), fp \in Prints \ {0} :
       LET with == {c \in served : PageHost[c[1]] = h /\ c[2] = fp}
           kept == {c \in with : c[3] = "Crawled"}
       IN /\ Cardinality({c[1] : c \in kept}) < SoftThreshold
          /\ with # kept => Cardinality({c[1] : c \in with}) >= SoftThreshold
  /\ \A c \in served : c[2] = 0 => c[3] = "Crawled"
=============================================================================
