-------------------------- MODULE CompetitorSearch --------------------------
(***************************************************************************)
(* One Facebook or Instagram competitor search (finder.ts): its queue of   *)
(* queries, the rings a local search widens through, the country-wide step *)
(* behind them, the pages of ads it reads within its budget, the reviews   *)
(* it starts ahead of the decisions that use them, the rivals it holds and *)
(* the steps that bring them back, and the Stop that may come at any time. *)
(*                                                                         *)
(* A page is an advertiser; what the review, the address look-up and the   *)
(* ad count say of it is fixed by the setting.  A response is a sequence   *)
(* of pages in the order they are decided: the ranking is left open, as    *)
(* are the filters on single ads (language, age, landing page), which only *)
(* leave pages out of a response.  The run's own writes are in RunStore.   *)
(***************************************************************************)
EXTENDS Naturals, Sequences, FiniteSets, Functions

CONSTANTS Pages,
          Settings,      \* bound: the searches, each with its market
          Target,        \* TARGET_COMPETITORS
          RelaxAt,       \* accepted rivals at which the review is relaxed
          Floor,         \* RELAXED_MIN_ACTIVE_ADS
          WideCap,       \* MAX_PAGES_PER_QUERY
          PlannedQueries, RingQueries, WideQueries, \* bounds: queries of a step
          ReviewAhead,   \* REVIEW_AHEAD
          ResponsePages  \* bound: pages of one response

(* Where a business is: the ring its address is in, farther away than any, *)
(* or no address found.                                                    *)
Far == 10
Unknown == 11

(* review: the bar at which the page is relevant; "barred" is the client's *)
(* own page or one the guardrails turn down.  agency: it is one, or the    *)
(* search is for the rivals of a business.                                 *)
Advertiser == [review : {"strict", "relaxed", "never", "barred"}, agency : BOOLEAN,
               place : Nat, ads : Nat \ {0}]

(* rings: 0 when the search is not local; preferLocal: rivals elsewhere    *)
(* are held; cap, slot: pages and rivals of one planned query.             *)
Setting == [rings : Nat, preferLocal : BOOLEAN, countries : Nat \ {0},
            limit : Nat, share : Nat, cap : Nat \ {0}, slot : Nat \ {0},
            page : [Pages -> Advertiser]]

ASSUME SearchAssumption ==
  /\ IsFiniteSet(Pages)
  /\ Settings \subseteq Setting
  /\ {Target, Floor, WideCap, PlannedQueries} \subseteq Nat \ {0}
  /\ {RelaxAt, RingQueries, WideQueries, ReviewAhead, ResponsePages} \subseteq Nat
  /\ \A s \in Settings :
       /\ s.rings <= Far /\ s.share <= s.limit
       /\ s.rings > 0 =>
            \A p \in Pages : s.page[p].place < s.rings \/ s.page[p].place \in {Far, Unknown}

VARIABLES
  setting,
  phase,     \* where runCompetitorSearch is
  planned, later, \* queries left: of the plan, and of the steps behind it
  query,     \* the running query: planned?, country, pages read, rivals at its start
  budget,    \* pageBudget
  level,     \* ringLevel
  widened,
  accepted,  \* the rivals listed, in order; seen holds the same pages
  rejected,  \* rejectedPages
  strict,    \* strictRejected
  analyzed,  \* analyzedPages
  held,      \* nearMisses
  entries,   \* pageEntries not decided yet
  ahead,     \* the bar of each review started ahead
  more,      \* the cursor of the last response
  todo,      \* held rivals a release or a fill has not come to yet
  stopped,   \* isSearchJobSuppressed
  outcome,   \* the status the search saved for itself
  uncounted, \* history: held rivals whose last ad count failed
  unreviewed,\* history: pages rejected because their review failed
  stopPages, widePages \* history: budget at Stop, and on going country-wide

vars == <<setting, phase, planned, later, query, budget, level, widened, accepted,
          rejected, strict, analyzed, held, entries, ahead, more, todo, stopped,
          outcome, uncounted, unreviewed, stopPages, widePages>>

Queue == <<planned, later>>
Lists == <<accepted, rejected, strict, analyzed, held>>
Response == <<entries, ahead, more>>
History == <<uncounted, unreviewed, stopPages, widePages>>

Phases == {"queue", "release", "ring", "releaseUnplaced", "widen", "ask", "asked",
           "decide", "fill", "fillFar", "fillFew", "finish", "ended"}
Bars == {"strict", "relaxed"}
Miss == [why : {"geoMismatch", "lowActiveAds"}, count : Nat]

TypeOK ==
  /\ setting \in Settings
  /\ phase \in Phases
  /\ planned \in 0 .. PlannedQueries
  /\ later \in 0 .. RingQueries + WideQueries
  /\ query \in [planned : BOOLEAN, country : Nat, pages : Nat, from : 0 .. Target]
  /\ budget \in 0 .. setting.limit
  /\ level \in 0 .. setting.rings
  /\ {widened, more, stopped} \subseteq BOOLEAN
  /\ accepted \in Seq(Pages)
  /\ {rejected, strict, analyzed, todo, uncounted, unreviewed} \subseteq SUBSET Pages
  /\ DOMAIN held \subseteq Pages /\ Range(held) \subseteq Miss
  /\ entries \in Seq(Pages)
  /\ DOMAIN ahead \subseteq Pages /\ Range(ahead) \subseteq Bars
  /\ outcome \in {"running", "completed", "partial", "failed", "error"}
  /\ stopPages \in 0 .. setting.limit /\ widePages \in 0 .. setting.limit

None == [p \in {} |-> "none"]
NoQuery == [planned |-> FALSE, country |-> 0, pages |-> 0, from |-> 0]

(* The queries of the plan; those of a wider ring or of the country-wide   *)
(* step that have not run before.                                          *)
PlanFound == 1 .. PlannedQueries
RingFound == 0 .. RingQueries
WideFound == 0 .. WideQueries

Init ==
  /\ setting \in Settings
  /\ phase = "queue"
  /\ planned \in PlanFound /\ later = 0
  /\ query = NoQuery
  /\ budget = 0 /\ level = 0 /\ widened = FALSE
  /\ accepted = <<>> /\ rejected = {} /\ strict = {} /\ analyzed = {} /\ held = None
  /\ entries = <<>> /\ ahead = None /\ more = FALSE /\ todo = {}
  /\ stopped = FALSE /\ outcome = "running"
  /\ uncounted = {} /\ unreviewed = {} /\ stopPages = 0 /\ widePages = 0

-----------------------------------------------------------------------------
(* The bar and the lists.                                                  *)

Local == setting.rings > 0
Seen == Range(accepted)
Full == Len(accepted) >= Target

(* currentThresholds, thresholdsNow                                        *)
Relaxed == widened \/ level > 0 \/ Len(accepted) >= RelaxAt
BarNow == IF Relaxed THEN "relaxed" ELSE "strict"
MinAds == IF Local THEN 1 ELSE Floor

(* What analyzeAdCandidate says of a page at a bar.                        *)
RelevantAt(p, bar) ==
  setting.page[p].review = "strict" \/ (setting.page[p].review = "relaxed" /\ bar = "relaxed")
Passes(p, bar) == RelevantAt(p, bar) /\ setting.page[p].agency
Barred(p) == setting.page[p].review = "barred"
Decided == Seen \cup rejected \cup analyzed

(* The address is inside the rings searched so far.                        *)
Inside(p) == setting.page[p].place <= level
FarHeld == {p \in DOMAIN held : held[p].why = "geoMismatch"}

HeldToo(p, why, count) ==
  [q \in DOMAIN held \cup {p} |-> IF q = p THEN [why |-> why, count |-> count] ELSE held[q]]
HeldBut(p) == [q \in DOMAIN held \ {p} |-> held[q]]
Accepts(p) == accepted' = Append(accepted, p)

(* countMetaActiveAds answers 0 when it fails.                             *)
Counted(answered, p) == IF answered THEN setting.page[p].ads ELSE 0
UncountedAfter(answered, p) == IF answered THEN uncounted \ {p} ELSE uncounted \cup {p}
Max2(a, b) == IF a > b THEN a ELSE b

-----------------------------------------------------------------------------
(* The queue of queries: the plan, ring after ring, then country-wide.     *)

QueryLeft == planned + later > 0

(* The next query begins.                                                  *)
NextQuery ==
  /\ phase = "queue" /\ QueryLeft
  /\ phase' = "ask"
  /\ query' = [planned |-> planned > 0, country |-> 1, pages |-> 0, from |-> Len(accepted)]
  /\ IF planned > 0 THEN planned' = planned - 1 /\ UNCHANGED later
                    ELSE later' = later - 1 /\ UNCHANGED planned
  /\ UNCHANGED <<setting, budget, level, widened, Lists, Response, todo, stopped, outcome,
                 History>>

Spent == Full \/ stopped \/ budget >= setting.limit

(* No query is left and none may follow.                                   *)
QueueSpent ==
  /\ phase = "queue" /\ ~QueryLeft /\ (Spent \/ widened)
  /\ phase' = "fill"
  /\ UNCHANGED <<setting, Queue, query, budget, level, widened, Lists, Response, todo,
                 stopped, outcome, History>>

WiderRing == Local /\ ~widened /\ level + 1 < setting.rings

(* The pages only the strict bar turned down may be looked at again.       *)
Reopen ==
  /\ rejected' = rejected \ strict
  /\ analyzed' = analyzed \ strict
  /\ strict' = {}

(* Fault: only the rivals inside the rings before it.                      *)
HeldBefore(ring) == {p \in FarHeld : setting.page[p].place < ring}

(* The rivals held for being elsewhere that a ring brings inside.          *)
HeldInside(ring) == {p \in FarHeld : setting.page[p].place <= ring}

(* One more ring counts as local; held rivals inside it come up first.     *)
(* The checks of the queue's end are made once, before the first ring.     *)
WidenRing ==
  /\ \/ phase = "queue" /\ ~QueryLeft /\ ~Spent
     \/ phase = "ring"
  /\ WiderRing
  /\ level' = level + 1
  /\ Reopen
  /\ phase' = "release"
  /\ todo' = HeldInside(level + 1)
  /\ UNCHANGED <<setting, Queue, query, budget, widened, accepted, held, Response, stopped,
                 outcome, History>>

(* releaseHeldLocals comes to one rival: listed when its ads are enough,   *)
(* held on otherwise.                                                      *)
Release ==
  /\ phase \in {"release", "releaseUnplaced"} /\ ~Full /\ ~stopped
  /\ \E p \in todo \ Seen, answered \in BOOLEAN :
       /\ todo' = todo \ {p}
       /\ IF Max2(held[p].count, Counted(answered, p)) >= MinAds
          THEN Accepts(p) /\ held' = HeldBut(p) ELSE UNCHANGED <<accepted, held>>
       /\ uncounted' = UncountedAfter(answered, p)
  /\ UNCHANGED <<setting, phase, Queue, query, budget, level, widened, rejected, strict,
                 analyzed, Response, stopped, outcome, unreviewed, stopPages, widePages>>

(* The release is over, or is given up.                                    *)
Released ==
  /\ phase \in {"release", "releaseUnplaced"}
  /\ Full \/ stopped \/ todo \subseteq Seen
  /\ phase' = IF Full THEN "fill" ELSE IF phase = "release" THEN "ring" ELSE "widen"
  /\ todo' = {}
  /\ UNCHANGED <<setting, Queue, query, budget, level, widened, Lists, Response, stopped,
                 outcome, History>>

(* Fault: wider rings spend what is left.                                  *)
BudgetLeft == budget < setting.limit

(* The rings spend their share of the budget only.                         *)
ShareLeft == budget < setting.share

(* Past the rings' share of the budget a wider ring only takes the rivals  *)
(* already held for it; a query that ran before is not run again.          *)
SearchRing ==
  /\ phase = "ring" /\ ShareLeft
  /\ later' \in RingFound \ {0}
  /\ phase' = "queue"
  /\ UNCHANGED <<setting, planned, query, budget, level, widened, Lists, Response, todo,
                 stopped, outcome, History>>

(* The last ring is done: country-wide, the rivals whose address was not   *)
(* found first.                                                            *)
GoCountryWide ==
  /\ \/ phase = "queue" /\ ~QueryLeft /\ ~Spent /\ ~widened
     \/ phase = "ring"
  /\ ~WiderRing
  /\ widened' = TRUE
  /\ phase' = IF Local THEN "releaseUnplaced" ELSE "widen"
  /\ todo' = IF Local THEN {p \in FarHeld : setting.page[p].place = Unknown} ELSE {}
  /\ widePages' = budget
  /\ UNCHANGED <<setting, Queue, query, budget, level, Lists, Response, stopped, outcome,
                 uncounted, unreviewed, stopPages>>

(* widenSearchQueries: more queries, unless all of them ran before.        *)
Widen ==
  /\ phase = "widen"
  /\ Reopen
  /\ \E n \in WideFound :
       later' = n /\ phase' = IF n = 0 THEN "fill" ELSE "queue"
  /\ UNCHANGED <<setting, planned, query, budget, level, widened, accepted, held, Response,
                 todo, stopped, outcome, History>>

-----------------------------------------------------------------------------
(* One query: its pages of ads, country after country.                     *)

QueryCap == IF query.planned \/ (Local /\ ~widened) THEN setting.cap ELSE WideCap
QuerySlot == IF query.planned THEN setting.slot ELSE Target

(* The rest of this country is left; the next one begins, or the query is  *)
(* over.                                                                   *)
LeaveCountry ==
  IF query.country < setting.countries
  THEN phase' = "ask" /\ query' = [query EXCEPT !.country = query.country + 1, !.pages = 0]
  ELSE phase' = "queue" /\ query' = NoQuery

QueryFull == Len(accepted) - query.from >= QuerySlot

(* The checks before a page is asked for, in their order.                  *)
Ask ==
  /\ phase = "ask"
  /\ \/ Full /\ phase' = "fill" /\ UNCHANGED query
     \/ ~Full /\ QueryFull /\ LeaveCountry
     \/ ~QueryFull /\ Spent /\ phase' = "fill" /\ UNCHANGED query
     \/ ~QueryFull /\ ~Spent /\ query.pages >= QueryCap /\ LeaveCountry
     \/ /\ ~QueryFull /\ ~Spent /\ query.pages < QueryCap
        /\ phase' = "asked" /\ UNCHANGED query
  /\ UNCHANGED <<setting, Queue, budget, level, widened, Lists, Response, todo, stopped,
                 outcome, History>>

Responses == {s \in UNION {[1 .. n -> Pages] : n \in 0 .. ResponsePages} : IsInjective(s)}

(* A page of ads arrives; an empty one ends the country.                   *)
Answer ==
  /\ phase = "asked"
  /\ budget' = budget + 1
  /\ \/ LeaveCountry /\ UNCHANGED Response
     \/ /\ phase' = "decide" /\ query' = [query EXCEPT !.pages = query.pages + 1]
        /\ entries' \in Responses /\ more' \in BOOLEAN /\ ahead' = None
  /\ UNCHANGED <<setting, Queue, level, widened, Lists, todo, stopped, outcome, History>>

(* Fault: the failed page is asked for again.                              *)
AskFailsAgain ==
  /\ phase = "asked"
  /\ phase' = "ask" /\ UNCHANGED query
  /\ UNCHANGED <<setting, Queue, budget, level, widened, Lists, Response, todo, stopped,
                 outcome, History>>

(* The request failed: the next country, with no page counted.             *)
AskFails ==
  /\ phase = "asked"
  /\ LeaveCountry
  /\ UNCHANGED <<setting, Queue, budget, level, widened, Lists, Response, todo, stopped,
                 outcome, History>>

(* Every entry is decided: on to the next page of ads while there is one.  *)
ResponseDone ==
  /\ phase = "decide" /\ entries = <<>>
  /\ IF more /\ budget < setting.limit THEN phase' = "ask" /\ UNCHANGED query ELSE LeaveCountry
  /\ UNCHANGED <<setting, Queue, budget, level, widened, Lists, Response, todo, stopped,
                 outcome, History>>

(* The list is full: the rest of the response is left undecided.           *)
ResponseLeft ==
  /\ phase = "decide" /\ entries # <<>> /\ Full
  /\ phase' = "fill" /\ entries' = <<>>
  /\ UNCHANGED <<setting, Queue, query, budget, level, widened, Lists, ahead, more, todo,
                 stopped, outcome, History>>

(* prefetchReviews: reviews of the next pages start at the bar of now.     *)
ComingUp ==
  {p \in {entries[i] : i \in 2 .. Len(entries)} :
     /\ \E i \in 2 .. ReviewAhead + 1 : i <= Len(entries) /\ entries[i] = p
     /\ p \notin Decided /\ ~Barred(p)}
Ahead ==
  IF stopped THEN ahead
  ELSE [p \in DOMAIN ahead \cup ComingUp |-> IF p \in DOMAIN ahead THEN ahead[p] ELSE BarNow]

(* The entry now decided; every decision first starts the reviews ahead.   *)
Deciding(p) ==
  /\ phase = "decide" /\ entries # <<>> /\ ~Full
  /\ p = Head(entries)
  /\ entries' = Tail(entries) /\ ahead' = Ahead
  /\ UNCHANGED <<setting, phase, Queue, query, budget, level, widened, more, todo, stopped,
                 outcome, stopPages, widePages>>

(* Fault: a review started ahead always stands.                            *)
ReviewBarAhead(p, sameInputs) ==
  IF /\ sameInputs /\ p \in DOMAIN ahead
  THEN ahead[p] ELSE BarNow

(* The bar of the review a decision goes by: the one started ahead, made   *)
(* with the same inputs, if its verdict stands at the bar of now.          *)
ReviewBar(p, sameInputs) ==
  IF /\ sameInputs /\ p \in DOMAIN ahead
     /\ ahead[p] = BarNow \/ (ahead[p] = "strict" /\ RelevantAt(p, "strict"))
  THEN ahead[p] ELSE BarNow

(* Listed, rejected or held before.                                        *)
SkipDecided ==
  \E p \in Pages : Deciding(p) /\ p \in Decided
    /\ UNCHANGED <<Lists, uncounted, unreviewed>>

(* The client's own page, or one the guardrails turn down.                 *)
RejectBarred ==
  \E p \in Pages :
    /\ Deciding(p) /\ p \notin Decided /\ Barred(p)
    /\ analyzed' = analyzed \cup {p} /\ rejected' = rejected \cup {p}
    /\ UNCHANGED <<accepted, strict, held, uncounted, unreviewed>>

(* A page whose review failed is not reviewed again.                       *)
ReviewFails ==
  \E p \in Pages :
    /\ Deciding(p) /\ p \notin Decided /\ ~Barred(p)
    /\ analyzed' = analyzed \cup {p} /\ rejected' = rejected \cup {p}
    /\ unreviewed' = unreviewed \cup {p}
    /\ UNCHANGED <<accepted, strict, held, uncounted>>

(* A rejection at the strict bar is not the last word, unless the page was *)
(* relevant but is no agency.                                              *)
StrictAfter(p, bar) ==
  IF BarNow = "strict" /\ ~RelevantAt(p, bar) THEN strict \cup {p} ELSE strict

RejectReviewed ==
  \E p \in Pages, sameInputs \in BOOLEAN :
    /\ Deciding(p) /\ p \notin Decided /\ ~Barred(p)
    /\ ~Passes(p, ReviewBar(p, sameInputs))
    /\ analyzed' = analyzed \cup {p} /\ rejected' = rejected \cup {p}
    /\ strict' = StrictAfter(p, ReviewBar(p, sameInputs))
    /\ UNCHANGED <<accepted, held, uncounted, unreviewed>>

(* Relevant, but elsewhere: held until the search widens to it.            *)
Elsewhere(p) ==
  /\ ~widened
  /\ IF Local THEN ~Inside(p) ELSE setting.preferLocal /\ setting.page[p].place = Far

Relevant(p) == p \notin Decided /\ ~Barred(p)
  /\ \E sameInputs \in BOOLEAN : Passes(p, ReviewBar(p, sameInputs))

HoldElsewhere ==
  \E p \in Pages :
    /\ Deciding(p) /\ Relevant(p) /\ Elsewhere(p)
    /\ analyzed' = analyzed \cup {p}
    /\ held' = HeldToo(p, "geoMismatch", 0)
    /\ UNCHANGED <<accepted, rejected, strict, uncounted, unreviewed>>

(* Listed when its ads are enough, held otherwise; at least one was seen.  *)
ListOrHold ==
  \E p \in Pages, answered \in BOOLEAN :
    LET count == Max2(1, Counted(answered, p))
    IN  /\ Deciding(p) /\ Relevant(p) /\ ~Elsewhere(p)
        /\ analyzed' = analyzed \cup {p}
        /\ IF count >= MinAds THEN Accepts(p) /\ UNCHANGED held
           ELSE held' = HeldToo(p, "lowActiveAds", count) /\ UNCHANGED accepted
        /\ UNCHANGED <<rejected, strict, uncounted, unreviewed>>

-----------------------------------------------------------------------------
(* The slots still free are filled from the rivals held.                   *)

(* Rivals elsewhere first, those with enough ads.                          *)
FillBegins ==
  /\ phase = "fill"
  /\ IF Full \/ DOMAIN held = {} THEN phase' = "finish" /\ todo' = {}
     ELSE phase' = "fillFar" /\ todo' = FarHeld
  /\ UNCHANGED <<setting, Queue, query, budget, level, widened, Lists, Response, stopped,
                 outcome, History>>

(* Fault: rivals with few ads do not fill a slot either.                   *)
FillFloorKept == MinAds

FillFloor == IF phase = "fillFar" THEN MinAds ELSE 1

Fillable == todo \ (Seen \cup rejected)

Fill ==
  /\ phase \in {"fillFar", "fillFew"} /\ ~Full
  /\ \E p \in Fillable, answered \in BOOLEAN :
       /\ todo' = todo \ {p}
       /\ IF Max2(held[p].count, Counted(answered, p)) >= FillFloor
          THEN Accepts(p) ELSE UNCHANGED accepted
       /\ uncounted' = UncountedAfter(answered, p)
  /\ UNCHANGED <<setting, phase, Queue, query, budget, level, widened, rejected, strict,
                 analyzed, held, Response, stopped, outcome, unreviewed, stopPages, widePages>>

(* Then any rival held, with one ad or more.                               *)
FillGoesOn ==
  /\ phase = "fillFar" /\ (Full \/ Fillable = {})
  /\ IF Full \/ stopped THEN phase' = "finish" /\ todo' = {}
     ELSE phase' = "fillFew" /\ todo' = DOMAIN held
  /\ UNCHANGED <<setting, Queue, query, budget, level, widened, Lists, Response, stopped,
                 outcome, History>>

FillEnds ==
  /\ phase = "fillFew" /\ (Full \/ Fillable = {})
  /\ phase' = "finish" /\ todo' = {}
  /\ UNCHANGED <<setting, Queue, query, budget, level, widened, Lists, Response, stopped,
                 outcome, History>>

(* A stopped search leaves its status alone.                               *)
Finish ==
  /\ phase = "finish"
  /\ phase' = "ended"
  /\ outcome' = IF stopped THEN outcome
                ELSE IF Full THEN "completed"
                ELSE IF accepted # <<>> THEN "partial" ELSE "failed"
  /\ UNCHANGED <<setting, Queue, query, budget, level, widened, Lists, Response, todo,
                 stopped, History>>

(* A paid call is refused its credits: the search fails as a whole.        *)
CreditRefused ==
  /\ \/ phase \in {"widen", "asked"}
     \/ phase = "decide" /\ entries # <<>> /\ ~Full
     \/ phase \in {"release", "releaseUnplaced"} /\ ~Full /\ ~stopped /\ ~ todo \subseteq Seen
     \/ phase \in {"fillFar", "fillFew"} /\ ~Full /\ Fillable # {}
  /\ phase' = "ended"
  /\ outcome' = IF stopped THEN outcome ELSE "error"
  /\ UNCHANGED <<setting, Queue, query, budget, level, widened, Lists, Response, todo,
                 stopped, History>>

(* Stop, or the run's deletion.                                            *)
Stop ==
  /\ phase # "ended" /\ ~stopped
  /\ stopped' = TRUE /\ stopPages' = budget
  /\ UNCHANGED <<setting, phase, Queue, query, budget, level, widened, Lists, Response, todo,
                 outcome, uncounted, unreviewed, widePages>>

Run ==
  \/ NextQuery \/ QueueSpent \/ WidenRing \/ Release \/ Released \/ SearchRing
  \/ GoCountryWide \/ Widen \/ Ask \/ Answer \/ AskFails \/ ResponseDone \/ ResponseLeft
  \/ SkipDecided \/ RejectBarred \/ ReviewFails \/ RejectReviewed \/ HoldElsewhere
  \/ ListOrHold \/ FillBegins \/ Fill \/ FillGoesOn \/ FillEnds \/ Finish

Next == Run \/ CreditRefused \/ Stop

Spec == Init /\ [][Next]_vars /\ WF_vars(Run)

-----------------------------------------------------------------------------
(* Properties.                                                             *)

(* No advertiser is listed twice and the list never passes its target,     *)
(* whichever of the loop, the releases and the fills lists it              *)
(* (acceptCompetitor and the checks of its four callers).                  *)
ListedOnce == IsInjective(accepted) /\ Len(accepted) <= Target

Filling == phase \in {"fill", "fillFar", "fillFew", "finish", "ended"}

(* A local search lists nobody outside the rings searched so far before it *)
(* goes country-wide, and asks for no country-wide page while it holds a   *)
(* rival of its rings, or one with no address, that could be counted.      *)
LocalsFirst ==
  Local /\ ~Filling =>
    /\ ~widened => \A p \in Seen : Inside(p)
    /\ widened /\ phase # "releaseUnplaced" /\ ~stopped =>
         \A p \in FarHeld \ uncounted : setting.page[p].place = Far

(* A page is turned down for good only if its review failed, or if it does *)
(* not pass the relaxed bar either, whichever bar the review started ahead *)
(* was made at (strictRejected, prefetchReviews).                          *)
RejectedForGood ==
  \A p \in rejected \ (strict \cup unreviewed) : ~Passes(p, "relaxed")

(* The rings leave the country-wide step its share of the page budget, up  *)
(* to the queries of the ring that crossed it.                             *)
RingsKeepTheShare ==
  Local /\ widened =>
    widePages <= Max2(PlannedQueries * setting.cap * setting.countries,
                      setting.share + RingQueries * setting.cap * setting.countries - 1)

(* After Stop no page of ads is asked for but the one under way, from      *)
(* whichever step of the search the Stop finds it in.                      *)
StopEndsTheSearch == stopped => budget <= stopPages + 1

(* Whatever steps list, hold, ask and fail in between, the search keeps    *)
(* its bounds: its list, the rings' share of the pages, and the Stop.      *)
BoundsKept == TypeOK /\ ListedOnce /\ RingsKeepTheShare /\ StopEndsTheSearch

(* A search that ends short of its target without an error has gone        *)
(* country-wide or spent its pages, and holds no rival it could have       *)
(* listed.                                                                 *)
NothingLeftUntried ==
  phase = "ended" /\ outcome \in {"partial", "failed"} =>
    /\ widened \/ budget >= setting.limit
    /\ DOMAIN held \subseteq Seen \cup uncounted

(* Every search ends: failing requests spend no page, but a query has only *)
(* so many countries and the queue is widened only so often.               *)
SearchEnds == <>(phase = "ended")
=============================================================================
