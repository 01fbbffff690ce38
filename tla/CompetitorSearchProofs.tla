---------------------- MODULE CompetitorSearchProofs ----------------------
(***************************************************************************)
(* Proofs about a Facebook or Instagram competitor search, for any number  *)
(* of pages, queries, countries and rings and every limit and share.       *)
(*                                                                         *)
(* Four things need each other: where a rival can be (nobody listed is     *)
(* held, nobody held is rejected), the order of the steps, which rivals a  *)
(* release still owes a turn, and the pages the queries under way may      *)
(* still read.  The last is what bounds the rings: a query pays its pages  *)
(* when it begins, so the page budget, what the running query has left and *)
(* what the queries not begun will take only ever goes down.               *)
(***************************************************************************)
EXTENDS CompetitorSearch, SequenceTheorems, TLAPS

-----------------------------------------------------------------------------
(* The invariant.                                                          *)

(* The rings are searched before the search goes country-wide, and a step  *)
(* behind the plan begins with no query left.                              *)
StepsInOrder ==
  /\ phase \in {"release", "ring"} => Local /\ ~widened
  /\ phase \in {"releaseUnplaced", "widen"} => widened
  /\ phase \in {"release", "ring", "releaseUnplaced", "widen"} => planned = 0 /\ later = 0

(* A rival held has been reviewed and not rejected, and is not listed      *)
(* before the list is filled from those held.                              *)
OnePlace ==
  /\ ListedOnce
  /\ strict \subseteq rejected /\ DOMAIN held \subseteq analyzed
  /\ DOMAIN held \cap rejected = {} /\ todo \subseteq DOMAIN held
  /\ ~Filling => DOMAIN held \cap Seen = {}

(* The pages of one query, and what the running one may still read.        *)
QueryPages == setting.countries * setting.cap
InQuery == phase \in {"ask", "asked", "decide"}
PagesLeft ==
  IF InQuery
  THEN (setting.countries - query.country) * setting.cap + (setting.cap - query.pages) ELSE 0

(* The pages read, and those the queries under way may still read.         *)
PagesToPay == budget + PagesLeft + (planned + later) * QueryPages

RingBound == Max2(PlannedQueries * setting.cap * setting.countries,
                  setting.share + RingQueries * setting.cap * setting.countries - 1)

(* A page is asked for only within the budget of the search, the cap of    *)
(* its query, and before a Stop.                                           *)
AskedInTime ==
  /\ InQuery => query.country \in 1 .. setting.countries
  /\ phase = "asked" => budget < setting.limit /\ query.pages < QueryCap
  /\ stopped => budget <= stopPages + (IF phase = "asked" THEN 0 ELSE 1)

(* What the rings have read and may still read stays within their bound.   *)
RingsPaid ==
  /\ Local /\ ~widened => (InQuery => query.pages <= setting.cap) /\ PagesToPay <= RingBound
  /\ RingsKeepTheShare

(* Nobody is listed from outside the rings searched; a rival held whose    *)
(* ads could be counted is outside them, or about to be released.          *)
LocalsReleased ==
  Local /\ ~Filling =>
    /\ ~widened => \A p \in Seen : Inside(p)
    /\ phase = "release" => \A p \in todo : Inside(p)
    /\ ~stopped => \A p \in FarHeld \ uncounted :
         /\ ~widened => ~Inside(p) \/ (phase = "release" /\ p \in todo)
         /\ widened => setting.page[p].place = Far \/ (phase = "releaseUnplaced" /\ p \in todo)

(* The list is filled only at the end of the search, from every rival      *)
(* held, and those left over could not be counted.                         *)
FilledLast ==
  /\ phase \in {"fill", "fillFar", "fillFew", "finish"} /\ ~Full /\ ~stopped =>
       widened \/ budget >= setting.limit
  /\ phase = "fillFew" => DOMAIN held \subseteq todo \cup Seen \cup uncounted
  /\ phase = "finish" /\ ~Full /\ ~stopped => DOMAIN held \subseteq Seen \cup uncounted
  /\ outcome \in {"partial", "failed"} =>
       /\ phase = "ended"
       /\ widened \/ budget >= setting.limit
       /\ DOMAIN held \subseteq Seen \cup uncounted

IInv ==
  /\ TypeOK /\ StepsInOrder /\ OnePlace /\ AskedInTime /\ RingsPaid /\ LocalsReleased
  /\ RejectedForGood /\ FilledLast

-----------------------------------------------------------------------------
(* Types, and what the operators of the search do.                         *)

QueryRecord == [planned : BOOLEAN, country : Nat, pages : Nat, from : 0 .. Target]

(* The types, one variable at a time.                                      *)
Types ==
  /\ setting \in Settings /\ phase \in Phases
  /\ planned \in 0 .. PlannedQueries /\ later \in 0 .. RingQueries + WideQueries
  /\ query \in QueryRecord
  /\ budget \in 0 .. setting.limit /\ level \in 0 .. setting.rings
  /\ widened \in BOOLEAN /\ more \in BOOLEAN /\ stopped \in BOOLEAN
  /\ accepted \in Seq(Pages)
  /\ rejected \in SUBSET Pages /\ strict \in SUBSET Pages /\ analyzed \in SUBSET Pages
  /\ todo \in SUBSET Pages /\ uncounted \in SUBSET Pages /\ unreviewed \in SUBSET Pages
  /\ DOMAIN held \subseteq Pages /\ \A p \in DOMAIN held : held[p] \in Miss
  /\ entries \in Seq(Pages)
  /\ DOMAIN ahead \subseteq Pages /\ \A p \in DOMAIN ahead : ahead[p] \in Bars
  /\ outcome \in {"running", "completed", "partial", "failed", "error"}
  /\ stopPages \in 0 .. setting.limit /\ widePages \in 0 .. setting.limit

(* The flat types say the same as TypeOK.                                  *)
LEMMA TypesFlat == (TypeOK <=> Types) /\ (TypeOK' <=> Types')
<1>1. /\ Range(held) = {held[p] : p \in DOMAIN held} /\ Range(ahead) = {ahead[p] : p \in DOMAIN ahead}
      /\ Range(held') = {held'[p] : p \in DOMAIN held'}
      /\ Range(ahead') = {ahead'[p] : p \in DOMAIN ahead'}
  BY DEF Range
<1>2. QED
  BY <1>1 DEF TypeOK, Types, QueryRecord

(* The market of a search.                                                 *)
LEMMA Market ==
  ASSUME TypeOK
  PROVE  /\ setting \in Setting
         /\ setting.rings \in Nat /\ setting.countries \in Nat \ {0} /\ setting.limit \in Nat
         /\ setting.share \in Nat /\ setting.cap \in Nat \ {0} /\ setting.slot \in Nat
         /\ \A p \in Pages : /\ setting.page[p].place \in Nat /\ setting.page[p].ads \in Nat \ {0}
                             /\ setting.page[p].review \in {"strict", "relaxed", "never", "barred"}
                             /\ setting.page[p].agency \in BOOLEAN
         /\ Local => \A p \in Pages : \/ setting.page[p].place < setting.rings
                                      \/ setting.page[p].place \in {Far, Unknown}
<1>1. setting \in Settings /\ setting \in Setting
  BY SearchAssumption DEF TypeOK
<1>2. \A p \in Pages : setting.page[p] \in Advertiser
  BY <1>1 DEF Setting
<1>3. QED
  BY <1>1, <1>2, SearchAssumption DEF Setting, Advertiser, Local

(* One more rival held, or one fewer.                                      *)
LEMMA HeldMore ==
  ASSUME Types, NEW p \in Pages, p \notin DOMAIN held, NEW n \in Nat,
         NEW why \in {"geoMismatch", "lowActiveAds"}, held' = HeldToo(p, why, n)
  PROVE  /\ DOMAIN held' = DOMAIN held \cup {p}
         /\ \A q \in DOMAIN held' : held'[q] \in Miss
         /\ FarHeld' = IF why = "geoMismatch" THEN FarHeld \cup {p} ELSE FarHeld
<1>1. DOMAIN held' = DOMAIN held \cup {p}
  BY DEF HeldToo
<1>2. \A q \in DOMAIN held : held'[q] = held[q]
  BY DEF HeldToo
<1>3. held'[p] = [why |-> why, count |-> n]
  BY DEF HeldToo
<1>4. held'[p] \in Miss /\ held'[p].why = why
  BY <1>3 DEF Miss
<1>5. QED
  BY <1>1, <1>2, <1>4 DEF Types, FarHeld

(* A rival held no more.                                                   *)
LEMMA HeldFewer ==
  ASSUME Types, NEW p \in Pages, held' = HeldBut(p)
  PROVE  /\ DOMAIN held' = DOMAIN held \ {p}
         /\ \A q \in DOMAIN held' : held'[q] \in Miss
         /\ FarHeld' = FarHeld \ {p}
<1>1. DOMAIN held' = DOMAIN held \ {p} /\ \A q \in DOMAIN held' : held'[q] = held[q]
  BY DEF HeldBut
<1>2. QED
  BY <1>1 DEF Types, FarHeld

(* The next country of the query, or its end.                              *)
LEMMA CountryLeft ==
  ASSUME Types, LeaveCountry
  PROVE  \/ /\ query.country < setting.countries /\ phase' = "ask" /\ query' \in QueryRecord
            /\ query'.country = query.country + 1 /\ query'.pages = 0
            /\ query'.planned = query.planned /\ query'.from = query.from
         \/ phase' = "queue" /\ query' = NoQuery /\ NoQuery \in QueryRecord
<1>1. query \in QueryRecord
  BY DEF Types
<1>2. NoQuery \in QueryRecord
  BY SearchAssumption DEF NoQuery, QueryRecord
<1>3. CASE query.country < setting.countries
  <2>1. phase' = "ask" /\ query' = [query EXCEPT !.country = query.country + 1, !.pages = 0]
    BY <1>3 DEF LeaveCountry
  <2> DEFINE c == query.country + 1
             q == [query EXCEPT !.country = c]
  <2>a. c \in Nat
    BY <1>1 DEF QueryRecord
  <2>b. query' = [q EXCEPT !.pages = 0]
    BY <2>1
  <2> HIDE DEF c
  <2>c. q \in QueryRecord
    BY <1>1, <2>a DEF QueryRecord
  <2> HIDE DEF q
  <2>2. query' \in QueryRecord
    BY <2>b, <2>c DEF QueryRecord
  <2>3. /\ query'.country = query.country + 1 /\ query'.pages = 0
        /\ query'.planned = query.planned /\ query'.from = query.from
    BY <1>1, <2>1 DEF QueryRecord, c
  <2>4. QED
    BY <1>3, <2>1, <2>2, <2>3
<1>4. CASE ~(query.country < setting.countries)
  BY <1>2, <1>4 DEF LeaveCountry
<1>5. QED
  BY <1>3, <1>4

(* Listing somebody new.                                                   *)
LEMMA ListedMore ==
  ASSUME NEW s \in Seq(Pages), IsInjective(s), NEW a \in Pages, a \notin Range(s)
  PROVE  IsInjective(Append(s, a)) /\ Range(Append(s, a)) = Range(s) \cup {a}
         /\ Len(Append(s, a)) = Len(s) + 1
<1> DEFINE t == Append(s, a)
<1>1. Len(s) \in Nat /\ DOMAIN s = 1 .. Len(s) /\ DOMAIN t = 1 .. Len(s) + 1 /\ Len(t) = Len(s) + 1
  OBVIOUS
<1>2. \A i \in 1 .. Len(s) : t[i] = s[i] /\ s[i] \in Range(s)
  BY DEF Range
<1>3. t[Len(s) + 1] = a
  OBVIOUS
<1> HIDE DEF t
<1>4. \A i \in 1 .. Len(s) + 1 : i \in 1 .. Len(s) \/ i = Len(s) + 1
  BY <1>1
<1>5. Range(t) = Range(s) \cup {a}
  <2>1. Range(t) = {t[i] : i \in 1 .. Len(s) + 1} /\ Range(s) = {s[i] : i \in 1 .. Len(s)}
    BY <1>1 DEF Range
  <2>2. (\A i \in 1 .. Len(s) : i \in 1 .. Len(s) + 1) /\ Len(s) + 1 \in 1 .. Len(s) + 1
    BY <1>1
  <2>3. QED
    BY <1>2, <1>3, <1>4, <2>1, <2>2
<1>6. IsInjective(t)
  <2>1. \A i, j \in 1 .. Len(s) : s[i] = s[j] => i = j
    BY <1>1 DEF IsInjective
  <2>2. \A i, j \in 1 .. Len(s) + 1 : t[i] = t[j] => i = j
    BY <1>2, <1>3, <1>4, <2>1
  <2>3. QED
    BY <1>1, <2>2 DEF IsInjective
<1>7. QED
  BY <1>1, <1>5, <1>6 DEF t

-----------------------------------------------------------------------------
(* Decisions: what each of them does to the lists.                         *)

Decision ==
  SkipDecided \/ RejectBarred \/ ReviewFails \/ RejectReviewed \/ HoldElsewhere \/ ListOrHold

Rejects(p) ==
  /\ p \notin Decided
  /\ analyzed' = analyzed \cup {p} /\ rejected' = rejected \cup {p}
  /\ strict' \in {strict, strict \cup {p}} /\ unreviewed' \in {unreviewed, unreviewed \cup {p}}
  /\ p \in strict' \/ p \in unreviewed' \/ ~Passes(p, "relaxed")
  /\ UNCHANGED <<accepted, held, uncounted>>

Holds(p, why, count) ==
  /\ p \notin Decided /\ ~(why = "lowActiveAds" /\ Local)
  /\ why = "geoMismatch" => ~widened /\ (Local => ~Inside(p))
  /\ analyzed' = analyzed \cup {p} /\ held' = HeldToo(p, why, count)
  /\ UNCHANGED <<accepted, rejected, strict, uncounted, unreviewed>>

Takes(p) ==
  /\ p \notin Decided /\ (Local /\ ~widened => Inside(p))
  /\ analyzed' = analyzed \cup {p} /\ Accepts(p)
  /\ UNCHANGED <<held, rejected, strict, uncounted, unreviewed>>

(* A page not relevant at the bar of its review is not relevant at the     *)
(* relaxed bar either, unless it was decided at the strict bar.            *)
LEMMA BarStands ==
  ASSUME Types, NEW p \in Pages, NEW b \in BOOLEAN, ~RelevantAt(p, ReviewBar(p, b))
  PROVE  BarNow = "strict" \/ ~RelevantAt(p, "relaxed")
<1>1. BarNow \in Bars
  BY DEF BarNow, Bars
<1>2. p \in DOMAIN ahead => ahead[p] \in Bars
  BY DEF Types
<1>3. QED
  BY <1>1, <1>2 DEF ReviewBar, RelevantAt, Bars

(* Each decision does one of these to the lists.                           *)
LEMMA DecisionSteps ==
  ASSUME Types, Decision
  PROVE  \E p \in Pages :
           /\ Deciding(p)
           /\ \/ UNCHANGED <<Lists, uncounted, unreviewed>>
              \/ Rejects(p)
              \/ Holds(p, "geoMismatch", 0)
              \/ \E n \in Nat : Holds(p, "lowActiveAds", n)
              \/ Takes(p)
<1> USE DEF Lists
<1>1. CASE SkipDecided
  BY <1>1 DEF SkipDecided
<1>2. CASE RejectBarred
  <2>1. PICK p \in Pages :
          /\ Deciding(p) /\ p \notin Decided /\ Barred(p)
          /\ analyzed' = analyzed \cup {p} /\ rejected' = rejected \cup {p}
          /\ UNCHANGED <<accepted, strict, held, uncounted, unreviewed>>
    BY <1>2 DEF RejectBarred
  <2>2. ~Passes(p, "relaxed")
    BY <2>1 DEF Barred, Passes, RelevantAt
  <2>3. Rejects(p)
    BY <2>1, <2>2 DEF Rejects
  <2>4. QED
    BY <2>1, <2>3
<1>3. CASE ReviewFails
  BY <1>3 DEF ReviewFails, Rejects
<1>4. CASE RejectReviewed
  <2>1. PICK p \in Pages, b \in BOOLEAN :
          /\ Deciding(p) /\ p \notin Decided /\ ~Passes(p, ReviewBar(p, b))
          /\ analyzed' = analyzed \cup {p} /\ rejected' = rejected \cup {p}
          /\ strict' = StrictAfter(p, ReviewBar(p, b))
          /\ UNCHANGED <<accepted, held, uncounted, unreviewed>>
    BY <1>4 DEF RejectReviewed
  <2>2. CASE RelevantAt(p, ReviewBar(p, b))
    <3>1. ~Passes(p, "relaxed") /\ strict' = strict
      BY <2>1, <2>2 DEF Passes, StrictAfter
    <3>2. QED
      BY <2>1, <3>1 DEF Rejects
  <2>3. CASE ~RelevantAt(p, ReviewBar(p, b))
    <3>1. BarNow = "strict" \/ ~Passes(p, "relaxed")
      BY <2>3, BarStands DEF Passes
    <3>2. strict' = IF BarNow = "strict" THEN strict \cup {p} ELSE strict
      BY <2>1, <2>3 DEF StrictAfter
    <3>3. QED
      BY <2>1, <3>1, <3>2 DEF Rejects
  <2>4. QED
    BY <2>1, <2>2, <2>3
<1>5. CASE HoldElsewhere
  <2>1. PICK p \in Pages : /\ Deciding(p) /\ Relevant(p) /\ Elsewhere(p)
                           /\ analyzed' = analyzed \cup {p} /\ held' = HeldToo(p, "geoMismatch", 0)
                           /\ UNCHANGED <<accepted, rejected, strict, uncounted, unreviewed>>
    BY <1>5 DEF HoldElsewhere
  <2>2. Holds(p, "geoMismatch", 0)
    BY <2>1 DEF Holds, Relevant, Elsewhere
  <2>3. QED
    BY <2>1, <2>2
<1>6. CASE ListOrHold
  <2>1. PICK p \in Pages, answered \in BOOLEAN :
          /\ Deciding(p) /\ Relevant(p) /\ ~Elsewhere(p)
          /\ analyzed' = analyzed \cup {p}
          /\ IF Max2(1, Counted(answered, p)) >= MinAds THEN Accepts(p) /\ UNCHANGED held
             ELSE held' = HeldToo(p, "lowActiveAds", Max2(1, Counted(answered, p)))
                  /\ UNCHANGED accepted
          /\ UNCHANGED <<rejected, strict, uncounted, unreviewed>>
    BY <1>6 DEF ListOrHold
  <2> DEFINE n == Max2(1, Counted(answered, p))
  <2>2. n \in Nat /\ n >= 1
    <3>1. Counted(answered, p) \in Nat
      BY Market, TypesFlat DEF Counted
    <3>2. QED
      BY <3>1 DEF Max2
  <2>3. p \notin Decided /\ (Local /\ ~widened => Inside(p))
    BY <2>1 DEF Relevant, Elsewhere
  <2>4. CASE n >= MinAds
    <3>1. Takes(p)
      BY <2>1, <2>3, <2>4 DEF Takes
    <3>2. QED
      BY <2>1, <3>1
  <2>5. CASE ~(n >= MinAds)
    <3>1. ~Local
      BY <2>2, <2>5 DEF MinAds
    <3>2. Holds(p, "lowActiveAds", n)
      BY <2>1, <2>3, <2>5, <3>1 DEF Holds
    <3>3. QED
      BY <2>1, <2>2, <3>2
  <2>6. QED
    BY <2>4, <2>5
<1>7. QED
  BY <1>1, <1>2, <1>3, <1>4, <1>5, <1>6 DEF Decision

(* A rival held comes up, in a release or in the filling: it is listed, or *)
(* it stays held.                                                          *)
LEMMA CountKnown ==
  ASSUME Types, NEW p \in DOMAIN held, NEW answered \in BOOLEAN
  PROVE  /\ p \in Pages /\ Max2(held[p].count, Counted(answered, p)) \in Nat
         /\ answered => Max2(held[p].count, Counted(answered, p)) >= 1
<1>1. p \in Pages /\ held[p].count \in Nat
  BY DEF Types, Miss
<1>2. Counted(answered, p) \in Nat /\ (answered => Counted(answered, p) >= 1)
  BY <1>1, Market, TypesFlat DEF Counted
<1>3. QED
  BY <1>1, <1>2 DEF Max2

(* A release comes to one rival held.                                      *)
LEMMA ReleaseSteps ==
  ASSUME Types, OnePlace, Release
  PROVE  /\ phase \in {"release", "releaseUnplaced"} /\ ~Full /\ ~stopped
         /\ UNCHANGED <<setting, phase, planned, later, query, budget, level, widened, rejected,
                        strict, analyzed, entries, ahead, more, stopped, outcome, unreviewed,
                        stopPages, widePages>>
         /\ \E p \in DOMAIN held :
              /\ p \in todo /\ p \notin Seen /\ todo' = todo \ {p}
              /\ uncounted' \in SUBSET Pages /\ uncounted \subseteq uncounted' \cup {p}
              /\ \/ Accepts(p) /\ held' = HeldBut(p)
                 \/ UNCHANGED <<accepted, held>> /\ (Local => p \in uncounted')
<1>1. PICK p \in todo \ Seen, answered \in BOOLEAN :
        /\ todo' = todo \ {p}
        /\ IF Max2(held[p].count, Counted(answered, p)) >= MinAds
           THEN Accepts(p) /\ held' = HeldBut(p) ELSE UNCHANGED <<accepted, held>>
        /\ uncounted' = UncountedAfter(answered, p)
  BY DEF Release
<1>2. p \in DOMAIN held
  BY <1>1 DEF OnePlace
<1> DEFINE n == Max2(held[p].count, Counted(answered, p))
<1>3. p \in Pages /\ n \in Nat /\ (answered => n >= 1)
  BY <1>2, CountKnown
<1>4. /\ uncounted' \in SUBSET Pages /\ uncounted \subseteq uncounted' \cup {p}
      /\ ~answered => p \in uncounted'
  BY <1>1, <1>3 DEF UncountedAfter, Types
<1>5. IF n >= MinAds THEN Accepts(p) /\ held' = HeldBut(p) ELSE UNCHANGED <<accepted, held>>
  BY <1>1
<1> HIDE DEF n
<1>6. \/ Accepts(p) /\ held' = HeldBut(p)
      \/ UNCHANGED <<accepted, held>> /\ (Local => p \in uncounted')
  BY <1>3, <1>4, <1>5 DEF MinAds
<1>7. QED
  BY <1>1, <1>2, <1>4, <1>6 DEF Release, Queue, Response

(* A filling comes to one rival held.                                      *)
LEMMA FillSteps ==
  ASSUME Types, OnePlace, Fill
  PROVE  /\ phase \in {"fillFar", "fillFew"} /\ ~Full
         /\ UNCHANGED <<setting, phase, planned, later, query, budget, level, widened, rejected,
                        strict, analyzed, held, entries, ahead, more, stopped, outcome,
                        unreviewed, stopPages, widePages>>
         /\ \E p \in DOMAIN held :
              /\ p \in todo /\ p \notin Seen /\ todo' = todo \ {p}
              /\ uncounted' \in SUBSET Pages /\ uncounted \subseteq uncounted' \cup {p}
              /\ \/ Accepts(p)
                 \/ UNCHANGED accepted /\ (phase = "fillFew" => p \in uncounted')
<1>1. PICK p \in Fillable, answered \in BOOLEAN :
        /\ todo' = todo \ {p}
        /\ IF Max2(held[p].count, Counted(answered, p)) >= FillFloor
           THEN Accepts(p) ELSE UNCHANGED accepted
        /\ uncounted' = UncountedAfter(answered, p)
  BY DEF Fill
<1>2. p \in DOMAIN held /\ p \in todo /\ p \notin Seen
  BY <1>1 DEF OnePlace, Fillable
<1> DEFINE n == Max2(held[p].count, Counted(answered, p))
<1>3. p \in Pages /\ n \in Nat /\ (answered => n >= 1)
  BY <1>2, CountKnown
<1>4. /\ uncounted' \in SUBSET Pages /\ uncounted \subseteq uncounted' \cup {p}
      /\ ~answered => p \in uncounted'
  BY <1>1, <1>3 DEF UncountedAfter, Types
<1>5. IF n >= FillFloor THEN Accepts(p) ELSE UNCHANGED accepted
  BY <1>1
<1> HIDE DEF n
<1>6. \/ Accepts(p)
      \/ UNCHANGED accepted /\ (phase = "fillFew" => p \in uncounted')
  BY <1>3, <1>4, <1>5 DEF FillFloor
<1>7. QED
  BY <1>1, <1>2, <1>4, <1>6 DEF Fill, Queue, Response

(* The market of a search is given once.                                   *)
LEMMA SettingStays == [Next]_vars => setting' = setting
<1> SUFFICES ASSUME [Next]_vars PROVE setting' = setting
  OBVIOUS
<1> USE DEF vars, Queue, Lists, Response, History
<1>1. CASE NextQuery
  BY <1>1 DEF NextQuery
<1>2. CASE QueueSpent
  BY <1>2 DEF QueueSpent
<1>3. CASE WidenRing
  BY <1>3 DEF WidenRing
<1>4. CASE Release
  BY <1>4 DEF Release
<1>5. CASE Released
  BY <1>5 DEF Released
<1>6. CASE SearchRing
  BY <1>6 DEF SearchRing
<1>7. CASE GoCountryWide
  BY <1>7 DEF GoCountryWide
<1>8. CASE Widen
  BY <1>8 DEF Widen
<1>9. CASE Ask
  BY <1>9 DEF Ask
<1>10. CASE Answer
  BY <1>10 DEF Answer
<1>11. CASE AskFails
  BY <1>11 DEF AskFails
<1>12. CASE ResponseDone
  BY <1>12 DEF ResponseDone
<1>13. CASE ResponseLeft
  BY <1>13 DEF ResponseLeft
<1>14. CASE Decision
  BY <1>14 DEF Decision, SkipDecided, RejectBarred, ReviewFails, RejectReviewed, HoldElsewhere,
             ListOrHold, Deciding
<1>15. CASE FillBegins
  BY <1>15 DEF FillBegins
<1>16. CASE Fill
  BY <1>16 DEF Fill
<1>17. CASE FillGoesOn
  BY <1>17 DEF FillGoesOn
<1>18. CASE FillEnds
  BY <1>18 DEF FillEnds
<1>19. CASE Finish
  BY <1>19 DEF Finish
<1>20. CASE CreditRefused
  BY <1>20 DEF CreditRefused
<1>21. CASE Stop
  BY <1>21 DEF Stop
<1>22. CASE UNCHANGED vars
  BY <1>22
<1>23. QED
  BY <1>1, <1>2, <1>3, <1>4, <1>5, <1>6, <1>7, <1>8, <1>9, <1>10, <1>11, <1>12, <1>13,
     <1>14, <1>15, <1>16, <1>17, <1>18, <1>19, <1>20, <1>21, <1>22
  DEF Next, Run, Decision

(* Types.                                                                  *)
LEMMA TypesKept == IInv /\ [Next]_vars => TypeOK'
<1> SUFFICES ASSUME IInv, [Next]_vars PROVE TypeOK'
  OBVIOUS
<1> USE DEF vars, Queue, Lists, Response, History
<1>a. /\ TypeOK /\ Types /\ StepsInOrder /\ OnePlace /\ AskedInTime
      /\ Len(accepted) <= Target
  BY TypesFlat DEF IInv, OnePlace, ListedOnce
<1>b. /\ setting.rings \in Nat /\ setting.countries \in Nat \ {0} /\ setting.limit \in Nat
      /\ PlannedQueries \in Nat \ {0} /\ RingQueries \in Nat /\ WideQueries \in Nat
      /\ Target \in Nat \ {0} /\ setting' = setting
  BY <1>a, Market, SettingStays, SearchAssumption
<1>c. SUFFICES Types'
  BY TypesFlat
<1>1. CASE NextQuery
  <2>1. Len(accepted) \in 0 .. Target
    BY <1>a, <1>b DEF Types
  <2>2. query' \in QueryRecord
    BY <1>1, <2>1 DEF NextQuery, QueryRecord
  <2>3. planned' \in 0 .. PlannedQueries /\ later' \in 0 .. RingQueries + WideQueries
    BY <1>1, <1>a, <1>b DEF NextQuery, QueryLeft, Types
  <2>4. QED
    BY <1>1, <1>a, <1>b, <2>2, <2>3 DEF NextQuery, Types, Phases
<1>2. CASE QueueSpent
  BY <1>2, <1>a, <1>b DEF QueueSpent, Types, Phases
<1>3. CASE WidenRing
  <2>1. level' \in 0 .. setting.rings
    BY <1>3, <1>a, <1>b DEF WidenRing, WiderRing, Types
  <2>2. todo' \subseteq Pages
    BY <1>3, <1>a DEF WidenRing, HeldInside, FarHeld, Types
  <2>3. QED
    BY <1>3, <1>a, <1>b, <2>1, <2>2 DEF WidenRing, Reopen, Types, Phases
<1>4. CASE Release
  <2>1. PICK p \in DOMAIN held :
          /\ todo' = todo \ {p} /\ uncounted' \in SUBSET Pages
          /\ (Accepts(p) /\ held' = HeldBut(p)) \/ UNCHANGED <<accepted, held>>
    BY <1>4, <1>a, ReleaseSteps
  <2>2. p \in Pages
    BY <1>a DEF Types
  <2>3. DOMAIN held' \subseteq Pages /\ \A q \in DOMAIN held' : held'[q] \in Miss
    <3>1. CASE UNCHANGED held
      BY <1>a, <3>1 DEF Types
    <3>2. CASE held' = HeldBut(p)
      BY <1>a, <2>2, <3>2, HeldFewer DEF Types
    <3>3. QED
      BY <2>1, <3>1, <3>2
  <2>4. accepted' \in Seq(Pages)
    BY <1>a, <2>1, <2>2 DEF Types, Accepts
  <2>5. QED
    BY <1>4, <1>a, <1>b, <2>1, <2>3, <2>4, ReleaseSteps DEF Types
<1>5. CASE Released
  BY <1>5, <1>a, <1>b DEF Released, Types, Phases
<1>6. CASE SearchRing
  <2>1. later' \in 0 .. RingQueries + WideQueries
    BY <1>6, <1>b DEF SearchRing, RingFound
  <2>2. QED
    BY <1>6, <1>a, <1>b, <2>1 DEF SearchRing, Types, Phases
<1>7. CASE GoCountryWide
  <2>1. todo' \subseteq Pages
    BY <1>7, <1>a DEF GoCountryWide, FarHeld, Types
  <2>2. QED
    BY <1>7, <1>a, <1>b, <2>1 DEF GoCountryWide, Types, Phases
<1>8. CASE Widen
  <2>1. later' \in 0 .. RingQueries + WideQueries /\ phase' \in Phases
    BY <1>8, <1>b DEF Widen, WideFound, Phases
  <2>2. QED
    BY <1>8, <1>a, <1>b, <2>1 DEF Widen, Reopen, Types
<1>9. CASE Ask
  <2>1. query' \in QueryRecord /\ phase' \in Phases
    BY <1>9, <1>a, CountryLeft DEF Ask, Types, Phases
  <2>2. QED
    BY <1>9, <1>a, <1>b, <2>1 DEF Ask, Types
<1>10. CASE Answer
  <2>1. budget' \in 0 .. setting.limit
    BY <1>10, <1>a, <1>b DEF Answer, Types, AskedInTime
  <2>2. query' \in QueryRecord /\ phase' \in Phases
    <3>1. CASE LeaveCountry
      BY <1>a, <3>1, CountryLeft DEF Phases
    <3>2. CASE phase' = "decide" /\ query' = [query EXCEPT !.pages = query.pages + 1]
      <4>1. query \in QueryRecord /\ query.pages + 1 \in Nat
        BY <1>a DEF Types, QueryRecord
      <4>2. QED
        BY <3>2, <4>1 DEF QueryRecord, Phases
    <3>3. QED
      BY <1>10, <3>1, <3>2 DEF Answer
  <2>3. entries' \in Seq(Pages) /\ more' \in BOOLEAN
    <3>1. \A s \in Responses : s \in Seq(Pages)
      BY SearchAssumption DEF Responses
    <3>2. QED
      BY <1>10, <1>a, <3>1 DEF Answer, Types
  <2>4. DOMAIN ahead' \subseteq Pages /\ \A p \in DOMAIN ahead' : ahead'[p] \in Bars
    <3>1. DOMAIN None = {}
      BY DEF None
    <3>2. QED
      BY <1>10, <1>a, <3>1 DEF Answer, Types
  <2>5. QED
    BY <1>10, <1>a, <1>b, <2>1, <2>2, <2>3, <2>4 DEF Answer, Types
<1>11. CASE AskFails
  <2>1. query' \in QueryRecord /\ phase' \in Phases
    BY <1>11, <1>a, CountryLeft DEF AskFails, Phases
  <2>2. QED
    BY <1>11, <1>a, <1>b, <2>1 DEF AskFails, Types
<1>12. CASE ResponseDone
  <2>1. query' \in QueryRecord /\ phase' \in Phases
    BY <1>12, <1>a, CountryLeft DEF ResponseDone, Types, Phases
  <2>2. QED
    BY <1>12, <1>a, <1>b, <2>1 DEF ResponseDone, Types
<1>13. CASE ResponseLeft
  BY <1>13, <1>a, <1>b DEF ResponseLeft, Types, Phases
<1>14. CASE Decision
  <2>1. PICK p \in Pages :
          /\ Deciding(p)
          /\ \/ UNCHANGED <<Lists, uncounted, unreviewed>>
             \/ Rejects(p)
             \/ Holds(p, "geoMismatch", 0)
             \/ \E n \in Nat : Holds(p, "lowActiveAds", n)
             \/ Takes(p)
    BY <1>14, <1>a, DecisionSteps
  <2>2. entries' \in Seq(Pages)
    BY <1>a, <2>1 DEF Deciding, Types
  <2>3. DOMAIN ahead' \subseteq Pages /\ \A q \in DOMAIN ahead' : ahead'[q] \in Bars
    <3>1. BarNow \in Bars
      BY DEF BarNow, Bars
    <3>2. ComingUp \subseteq Pages
      BY <1>a DEF ComingUp, Types
    <3>3. QED
      BY <1>a, <2>1, <3>1, <3>2 DEF Deciding, Ahead, Types
  <2>4. CASE UNCHANGED <<Lists, uncounted, unreviewed>>
    BY <1>a, <1>b, <2>1, <2>2, <2>3, <2>4 DEF Deciding, Types
  <2>5. CASE Rejects(p)
    BY <1>a, <1>b, <2>1, <2>2, <2>3, <2>5 DEF Deciding, Types, Rejects
  <2>6. ASSUME NEW n \in Nat, NEW why \in {"geoMismatch", "lowActiveAds"}, Holds(p, why, n)
        PROVE  Types'
    <3>1. p \notin DOMAIN held
      BY <1>a, <2>6 DEF Holds, Decided, OnePlace
    <3>2. DOMAIN held' \subseteq Pages /\ \A q \in DOMAIN held' : held'[q] \in Miss
      BY <1>a, <2>6, <3>1, HeldMore DEF Holds, Types
    <3>3. QED
      BY <1>a, <1>b, <2>1, <2>2, <2>3, <2>6, <3>2 DEF Deciding, Types, Holds
  <2>7. CASE Takes(p)
    <3>1. accepted' \in Seq(Pages)
      BY <1>a, <2>7 DEF Takes, Accepts, Types
    <3>2. QED
      BY <1>a, <1>b, <2>1, <2>2, <2>3, <2>7, <3>1 DEF Deciding, Types, Takes
  <2>8. QED
    BY <2>1, <2>4, <2>5, <2>6, <2>7
<1>15. CASE FillBegins
  <2>1. todo' \subseteq Pages
    BY <1>15, <1>a DEF FillBegins, FarHeld, Types
  <2>2. QED
    BY <1>15, <1>a, <1>b, <2>1 DEF FillBegins, Types, Phases
<1>16. CASE Fill
  <2>1. PICK p \in DOMAIN held :
          /\ todo' = todo \ {p} /\ uncounted' \in SUBSET Pages
          /\ Accepts(p) \/ UNCHANGED accepted
    BY <1>16, <1>a, FillSteps
  <2>2. p \in Pages
    BY <1>a DEF Types
  <2>3. accepted' \in Seq(Pages)
    BY <1>a, <2>1, <2>2 DEF Types, Accepts
  <2>4. QED
    BY <1>16, <1>a, <1>b, <2>1, <2>3, FillSteps DEF Types
<1>17. CASE FillGoesOn
  BY <1>17, <1>a, <1>b DEF FillGoesOn, Types, Phases
<1>18. CASE FillEnds
  BY <1>18, <1>a, <1>b DEF FillEnds, Types, Phases
<1>19. CASE Finish
  BY <1>19, <1>a, <1>b DEF Finish, Types, Phases
<1>20. CASE CreditRefused
  BY <1>20, <1>a, <1>b DEF CreditRefused, Types, Phases
<1>21. CASE Stop
  BY <1>21, <1>a, <1>b DEF Stop, Types, Phases
<1>22. CASE UNCHANGED vars
  BY <1>22, <1>a, <1>b DEF Types, Phases
<1>23. QED
  BY <1>1, <1>2, <1>3, <1>4, <1>5, <1>6, <1>7, <1>8, <1>9, <1>10, <1>11, <1>12, <1>13,
     <1>14, <1>15, <1>16, <1>17, <1>18, <1>19, <1>20, <1>21, <1>22
  DEF Next, Run, Decision

(* The steps follow each other.                                            *)
LEMMA OrderKept == IInv /\ [Next]_vars => StepsInOrder'
<1> SUFFICES ASSUME IInv, [Next]_vars PROVE StepsInOrder'
  OBVIOUS
<1> USE DEF vars, Queue, Lists, Response, History
<1>a. Types /\ StepsInOrder
  BY TypesFlat DEF IInv
<1>b. Local' = Local /\ PlannedQueries \in Nat /\ RingQueries \in Nat /\ WideQueries \in Nat
  BY SettingStays, SearchAssumption DEF Local
<1>1. CASE NextQuery
  BY <1>1, <1>a, <1>b DEF NextQuery, StepsInOrder
<1>2. CASE QueueSpent
  BY <1>2, <1>a, <1>b DEF QueueSpent, StepsInOrder, QueryLeft
<1>3. CASE WidenRing
  BY <1>3, <1>a, <1>b DEF WidenRing, StepsInOrder, QueryLeft, WiderRing, Types
<1>4. CASE Release
  BY <1>4, <1>a, <1>b DEF Release, StepsInOrder
<1>5. CASE Released
  BY <1>5, <1>a, <1>b DEF Released, StepsInOrder
<1>6. CASE SearchRing
  BY <1>6, <1>a, <1>b DEF SearchRing, StepsInOrder
<1>7. CASE GoCountryWide
  BY <1>7, <1>a, <1>b DEF GoCountryWide, StepsInOrder, QueryLeft, Types, WiderRing
<1>8. CASE Widen
  BY <1>8, <1>a, <1>b DEF Widen, StepsInOrder
<1>9. CASE Ask
  BY <1>9, <1>a, <1>b DEF Ask, StepsInOrder, LeaveCountry
<1>10. CASE Answer
  BY <1>10, <1>a, <1>b DEF Answer, StepsInOrder, LeaveCountry
<1>11. CASE AskFails
  BY <1>11, <1>a, <1>b DEF AskFails, StepsInOrder, LeaveCountry
<1>12. CASE ResponseDone
  BY <1>12, <1>a, <1>b DEF ResponseDone, StepsInOrder, LeaveCountry
<1>13. CASE ResponseLeft
  BY <1>13, <1>a, <1>b DEF ResponseLeft, StepsInOrder
<1>14. CASE Decision
  <2>1. PICK p \in Pages :
          /\ Deciding(p)
          /\ \/ UNCHANGED <<Lists, uncounted, unreviewed>>
             \/ Rejects(p)
             \/ Holds(p, "geoMismatch", 0)
             \/ \E n \in Nat : Holds(p, "lowActiveAds", n)
             \/ Takes(p)
    BY <1>14, <1>a, DecisionSteps
  <2>2. QED
    BY <1>a, <1>b, <2>1 DEF Deciding, StepsInOrder
<1>15. CASE FillBegins
  BY <1>15, <1>a, <1>b DEF FillBegins, StepsInOrder
<1>16. CASE Fill
  BY <1>16, <1>a, <1>b DEF Fill, StepsInOrder
<1>17. CASE FillGoesOn
  BY <1>17, <1>a, <1>b DEF FillGoesOn, StepsInOrder
<1>18. CASE FillEnds
  BY <1>18, <1>a, <1>b DEF FillEnds, StepsInOrder
<1>19. CASE Finish
  BY <1>19, <1>a, <1>b DEF Finish, StepsInOrder
<1>20. CASE CreditRefused
  BY <1>20, <1>a, <1>b DEF CreditRefused, StepsInOrder
<1>21. CASE Stop
  BY <1>21, <1>a, <1>b DEF Stop, StepsInOrder
<1>22. CASE UNCHANGED vars
  BY <1>22, <1>a, <1>b DEF StepsInOrder
<1>23. QED
  BY <1>1, <1>2, <1>3, <1>4, <1>5, <1>6, <1>7, <1>8, <1>9, <1>10, <1>11, <1>12, <1>13,
     <1>14, <1>15, <1>16, <1>17, <1>18, <1>19, <1>20, <1>21, <1>22
  DEF Next, Run, Decision

(* No page is turned down by a bar to come.                                *)
LEMMA RejectionKept == IInv /\ [Next]_vars => RejectedForGood'
<1> SUFFICES ASSUME IInv, [Next]_vars PROVE RejectedForGood'
  OBVIOUS
<1> USE DEF vars, Queue, Lists, Response, History
<1>a. Types /\ RejectedForGood /\ OnePlace
  BY TypesFlat DEF IInv
<1>b. setting' = setting
  BY SettingStays
<1>1. CASE NextQuery
  BY <1>1, <1>a, <1>b DEF NextQuery, RejectedForGood, Passes, RelevantAt
<1>2. CASE QueueSpent
  BY <1>2, <1>a, <1>b DEF QueueSpent, RejectedForGood, Passes, RelevantAt
<1>3. CASE WidenRing
  BY <1>3, <1>a, <1>b DEF WidenRing, RejectedForGood, Passes, RelevantAt, Reopen
<1>4. CASE Release
  BY <1>4, <1>a, <1>b, ReleaseSteps DEF RejectedForGood, Passes, RelevantAt
<1>5. CASE Released
  BY <1>5, <1>a, <1>b DEF Released, RejectedForGood, Passes, RelevantAt
<1>6. CASE SearchRing
  BY <1>6, <1>a, <1>b DEF SearchRing, RejectedForGood, Passes, RelevantAt
<1>7. CASE GoCountryWide
  BY <1>7, <1>a, <1>b DEF GoCountryWide, RejectedForGood, Passes, RelevantAt
<1>8. CASE Widen
  BY <1>8, <1>a, <1>b DEF Widen, RejectedForGood, Passes, RelevantAt, Reopen
<1>9. CASE Ask
  BY <1>9, <1>a, <1>b DEF Ask, RejectedForGood, Passes, RelevantAt
<1>10. CASE Answer
  BY <1>10, <1>a, <1>b DEF Answer, RejectedForGood, Passes, RelevantAt
<1>11. CASE AskFails
  BY <1>11, <1>a, <1>b DEF AskFails, RejectedForGood, Passes, RelevantAt
<1>12. CASE ResponseDone
  BY <1>12, <1>a, <1>b DEF ResponseDone, RejectedForGood, Passes, RelevantAt
<1>13. CASE ResponseLeft
  BY <1>13, <1>a, <1>b DEF ResponseLeft, RejectedForGood, Passes, RelevantAt
<1>14. CASE Decision
  <2>1. PICK p \in Pages :
          /\ Deciding(p)
          /\ \/ UNCHANGED <<Lists, uncounted, unreviewed>>
             \/ Rejects(p)
             \/ Holds(p, "geoMismatch", 0)
             \/ \E n \in Nat : Holds(p, "lowActiveAds", n)
             \/ Takes(p)
    BY <1>14, <1>a, DecisionSteps
  <2>2. CASE UNCHANGED <<rejected, strict, unreviewed>>
    BY <1>a, <1>b, <2>2 DEF RejectedForGood, Passes, RelevantAt
  <2>3. CASE Rejects(p)
    BY <1>a, <1>b, <2>3 DEF RejectedForGood, Rejects, Passes, RelevantAt
  <2>4. QED
    BY <2>1, <2>2, <2>3 DEF Holds, Takes
<1>15. CASE FillBegins
  BY <1>15, <1>a, <1>b DEF FillBegins, RejectedForGood, Passes, RelevantAt
<1>16. CASE Fill
  BY <1>16, <1>a, <1>b, FillSteps DEF RejectedForGood, Passes, RelevantAt
<1>17. CASE FillGoesOn
  BY <1>17, <1>a, <1>b DEF FillGoesOn, RejectedForGood, Passes, RelevantAt
<1>18. CASE FillEnds
  BY <1>18, <1>a, <1>b DEF FillEnds, RejectedForGood, Passes, RelevantAt
<1>19. CASE Finish
  BY <1>19, <1>a, <1>b DEF Finish, RejectedForGood, Passes, RelevantAt
<1>20. CASE CreditRefused
  BY <1>20, <1>a, <1>b DEF CreditRefused, RejectedForGood, Passes, RelevantAt
<1>21. CASE Stop
  BY <1>21, <1>a, <1>b DEF Stop, RejectedForGood, Passes, RelevantAt
<1>22. CASE UNCHANGED vars
  BY <1>22, <1>a, <1>b DEF RejectedForGood, Passes, RelevantAt
<1>23. QED
  BY <1>1, <1>2, <1>3, <1>4, <1>5, <1>6, <1>7, <1>8, <1>9, <1>10, <1>11, <1>12, <1>13,
     <1>14, <1>15, <1>16, <1>17, <1>18, <1>19, <1>20, <1>21, <1>22
  DEF Next, Run, Decision

(* The list stays as it was, or one page not in it is added to a list that *)
(* is not full.                                                            *)
LEMMA ListGrows ==
  ASSUME Types, ListedOnce, NEW p \in Pages, p \notin Seen, ~Full, Accepts(p)
  PROVE  ListedOnce' /\ Seen' = Seen \cup {p}
<1>1. accepted \in Seq(Pages) /\ Target \in Nat /\ Len(accepted) \in Nat
  BY SearchAssumption DEF Types
<1>2. IsInjective(accepted') /\ Range(accepted') = Range(accepted) \cup {p}
      /\ Len(accepted') = Len(accepted) + 1
  BY <1>1, ListedMore DEF Accepts, Seen, ListedOnce
<1>3. Len(accepted) + 1 <= Target
  BY <1>1 DEF Full
<1>4. QED
  BY <1>2, <1>3 DEF ListedOnce, Seen

(* Nobody is in two places.                                                *)
LEMMA PlaceKept == IInv /\ [Next]_vars => OnePlace'
<1> SUFFICES ASSUME IInv, [Next]_vars PROVE OnePlace'
  OBVIOUS
<1> USE DEF vars, Queue, Lists, Response, History
<1>a. /\ Types /\ OnePlace
  BY TypesFlat DEF IInv
<1>1. CASE NextQuery
  BY <1>1, <1>a DEF NextQuery, OnePlace, ListedOnce, Seen, Filling
<1>2. CASE QueueSpent
  BY <1>2, <1>a DEF QueueSpent, OnePlace, ListedOnce, Seen, Filling
<1>3. CASE WidenRing
  BY <1>3, <1>a DEF WidenRing, OnePlace, ListedOnce, Seen, Filling, Reopen, HeldInside, FarHeld
<1>4. CASE Release
  <2>1. PICK p \in DOMAIN held :
          /\ p \in todo /\ p \notin Seen /\ todo' = todo \ {p}
          /\ \/ Accepts(p) /\ held' = HeldBut(p)
             \/ UNCHANGED <<accepted, held>>
    BY <1>4, <1>a, ReleaseSteps
  <2>2. phase \in {"release", "releaseUnplaced"} /\ ~Full
        /\ UNCHANGED <<phase, rejected, strict, analyzed>>
    BY <1>4, <1>a, ReleaseSteps
  <2>3. p \in Pages
    BY <1>a DEF Types
  <2>4. CASE UNCHANGED <<accepted, held>>
    BY <1>a, <2>1, <2>2, <2>4 DEF OnePlace, ListedOnce, Seen, Filling
  <2>5. CASE Accepts(p) /\ held' = HeldBut(p)
    <3>1. ListedOnce' /\ Seen' = Seen \cup {p}
      BY <1>a, <2>1, <2>2, <2>3, <2>5, ListGrows DEF OnePlace
    <3>2. DOMAIN held' = DOMAIN held \ {p}
      BY <2>5 DEF HeldBut
    <3>3. QED
      BY <1>a, <2>1, <2>2, <3>1, <3>2 DEF OnePlace, Filling
  <2>6. QED
    BY <2>1, <2>4, <2>5
<1>5. CASE Released
  BY <1>5, <1>a DEF Released, OnePlace, ListedOnce, Seen, Filling
<1>6. CASE SearchRing
  BY <1>6, <1>a DEF SearchRing, OnePlace, ListedOnce, Seen, Filling
<1>7. CASE GoCountryWide
  BY <1>7, <1>a DEF GoCountryWide, OnePlace, ListedOnce, Seen, Filling, FarHeld
<1>8. CASE Widen
  BY <1>8, <1>a DEF Widen, OnePlace, ListedOnce, Seen, Filling, Reopen
<1>9. CASE Ask
  BY <1>9, <1>a DEF Ask, OnePlace, ListedOnce, Seen, Filling, LeaveCountry
<1>10. CASE Answer
  BY <1>10, <1>a DEF Answer, OnePlace, ListedOnce, Seen, Filling, LeaveCountry
<1>11. CASE AskFails
  BY <1>11, <1>a DEF AskFails, OnePlace, ListedOnce, Seen, Filling, LeaveCountry
<1>12. CASE ResponseDone
  BY <1>12, <1>a DEF ResponseDone, OnePlace, ListedOnce, Seen, Filling, LeaveCountry
<1>13. CASE ResponseLeft
  BY <1>13, <1>a DEF ResponseLeft, OnePlace, ListedOnce, Seen, Filling
<1>14. CASE Decision
  <2>1. PICK p \in Pages :
          /\ Deciding(p)
          /\ \/ UNCHANGED <<Lists, uncounted, unreviewed>>
             \/ Rejects(p)
             \/ Holds(p, "geoMismatch", 0)
             \/ \E n \in Nat : Holds(p, "lowActiveAds", n)
             \/ Takes(p)
    BY <1>14, <1>a, DecisionSteps
  <2>2. phase = "decide" /\ ~Full /\ UNCHANGED <<phase, todo>>
    BY <2>1 DEF Deciding
  <2>3. CASE UNCHANGED <<Lists, uncounted, unreviewed>>
    BY <1>a, <2>2, <2>3 DEF OnePlace, ListedOnce, Seen, Filling
  <2>4. CASE Rejects(p)
    <3>1. p \notin DOMAIN held /\ p \notin rejected
      BY <1>a, <2>4 DEF Rejects, Decided, OnePlace
    <3>2. ListedOnce' /\ Seen' = Seen
      BY <1>a, <2>4 DEF Rejects, OnePlace, ListedOnce, Seen
    <3>3. QED
      BY <1>a, <2>2, <2>4, <3>1, <3>2 DEF OnePlace, Filling, Rejects
  <2>5. ASSUME NEW n \in Nat, NEW why \in {"geoMismatch", "lowActiveAds"}, Holds(p, why, n)
        PROVE  OnePlace'
    <3>1. p \notin DOMAIN held /\ p \notin rejected /\ p \notin Seen
      BY <1>a, <2>5 DEF Holds, Decided, OnePlace
    <3>2. ListedOnce' /\ Seen' = Seen
      BY <1>a, <2>5 DEF Holds, OnePlace, ListedOnce, Seen
    <3>3. DOMAIN held' = DOMAIN held \cup {p}
      BY <2>5 DEF Holds, HeldToo
    <3>4. UNCHANGED <<rejected, strict>> /\ analyzed' = analyzed \cup {p}
      BY <2>5 DEF Holds
    <3>5. QED
      BY <1>a, <2>2, <3>1, <3>2, <3>3, <3>4 DEF OnePlace, Filling
  <2>6. CASE Takes(p)
    <3>1. p \notin DOMAIN held /\ p \notin Seen
      BY <1>a, <2>6 DEF Takes, Decided, OnePlace
    <3>2. ListedOnce' /\ Seen' = Seen \cup {p}
      BY <1>a, <2>2, <2>6, <3>1, ListGrows DEF Takes, OnePlace
    <3>3. UNCHANGED <<held, rejected, strict>> /\ analyzed' = analyzed \cup {p}
      BY <2>6 DEF Takes
    <3>4. QED
      BY <1>a, <2>2, <3>1, <3>2, <3>3 DEF OnePlace, Filling
  <2>7. QED
    BY <2>1, <2>3, <2>4, <2>5, <2>6
<1>15. CASE FillBegins
  BY <1>15, <1>a DEF FillBegins, OnePlace, ListedOnce, Seen, Filling, FarHeld
<1>16. CASE Fill
  <2>1. PICK p \in DOMAIN held :
          p \notin Seen /\ todo' = todo \ {p} /\ (Accepts(p) \/ UNCHANGED accepted)
    BY <1>16, <1>a, FillSteps
  <2>2. phase \in {"fillFar", "fillFew"} /\ ~Full
        /\ UNCHANGED <<phase, rejected, strict, analyzed, held>>
    BY <1>16, <1>a, FillSteps
  <2>3. p \in Pages
    BY <1>a DEF Types
  <2>4. ListedOnce'
    <3>1. CASE UNCHANGED accepted
      BY <1>a, <3>1 DEF OnePlace, ListedOnce
    <3>2. CASE Accepts(p)
      BY <1>a, <2>1, <2>2, <2>3, <3>2, ListGrows DEF OnePlace
    <3>3. QED
      BY <2>1, <3>1, <3>2
  <2>5. QED
    BY <1>a, <2>1, <2>2, <2>4 DEF OnePlace, Filling
<1>17. CASE FillGoesOn
  BY <1>17, <1>a DEF FillGoesOn, OnePlace, ListedOnce, Seen, Filling
<1>18. CASE FillEnds
  BY <1>18, <1>a DEF FillEnds, OnePlace, ListedOnce, Seen, Filling
<1>19. CASE Finish
  BY <1>19, <1>a DEF Finish, OnePlace, ListedOnce, Seen, Filling
<1>20. CASE CreditRefused
  BY <1>20, <1>a DEF CreditRefused, OnePlace, ListedOnce, Seen, Filling
<1>21. CASE Stop
  BY <1>21, <1>a DEF Stop, OnePlace, ListedOnce, Seen, Filling
<1>22. CASE UNCHANGED vars
  BY <1>22, <1>a DEF OnePlace, ListedOnce, Seen, Filling
<1>23. QED
  BY <1>1, <1>2, <1>3, <1>4, <1>5, <1>6, <1>7, <1>8, <1>9, <1>10, <1>11, <1>12, <1>13,
     <1>14, <1>15, <1>16, <1>17, <1>18, <1>19, <1>20, <1>21, <1>22
  DEF Next, Run, Decision

-----------------------------------------------------------------------------
(* Pages of ads.                                                           *)

(* Products, one factor one less.                                          *)
LEMMA Times ==
  ASSUME NEW x \in Int, NEW c \in Int
  PROVE  x * c \in Int /\ (x - 1) * c = x * c - c /\ (x >= 0 /\ c >= 0 => x * c >= 0)
  OBVIOUS

(* Products grow with their factors.                                       *)
LEMMA TimesGrow ==
  ASSUME NEW x \in Nat, NEW y \in Nat, NEW c \in Nat, x <= y
  PROVE  x * c \in Nat /\ y * c \in Nat /\ x * c <= y * c
<1>1. (y - x) * c >= 0 /\ (y - x) * c = y * c - x * c
  OBVIOUS
<1>2. x * c \in Nat /\ y * c \in Nat
  OBVIOUS
<1>3. QED
  BY <1>1, <1>2

(* What the bound of the rings covers.                                     *)
LEMMA PagesBounded ==
  ASSUME TypeOK
  PROVE  /\ QueryPages \in Nat /\ RingBound \in Int
         /\ PlannedQueries * QueryPages <= RingBound
         /\ setting.share + RingQueries * QueryPages - 1 <= RingBound
         /\ RingsKeepTheShare <=> (Local /\ widened => widePages <= RingBound)
<1> DEFINE c == setting.countries  a == setting.cap
<1>1. c \in Nat /\ a \in Nat /\ PlannedQueries \in Nat /\ RingQueries \in Nat /\ setting.share \in Nat
  BY Market, SearchAssumption
<1>2. QueryPages = c * a
  BY DEF QueryPages
<1>3. RingBound = Max2(PlannedQueries * a * c, setting.share + RingQueries * a * c - 1)
  BY DEF RingBound
<1>4. RingsKeepTheShare <=> (Local /\ widened => widePages <= RingBound)
  BY DEF RingsKeepTheShare, RingBound
<1> HIDE DEF c, a
<1>5. c * a \in Nat /\ PlannedQueries * a * c = PlannedQueries * (c * a)
      /\ RingQueries * a * c = RingQueries * (c * a)
  BY <1>1
<1>6. PlannedQueries * (c * a) \in Nat /\ RingQueries * (c * a) \in Nat
  BY <1>1, <1>5, TimesGrow
<1> DEFINE x == PlannedQueries * (c * a)  y == RingQueries * (c * a)
<1>7. x \in Nat /\ y \in Nat /\ RingBound = Max2(x, setting.share + y - 1)
  BY <1>3, <1>5, <1>6
<1>8. PlannedQueries * QueryPages = x /\ RingQueries * QueryPages = y /\ QueryPages \in Nat
  BY <1>2, <1>5
<1> HIDE DEF x, y
<1>9. QED
  BY <1>1, <1>4, <1>7, <1>8 DEF Max2

(* What a running query may still read, and what is left of it when it     *)
(* leaves a country.                                                       *)
QuerySound ==
  InQuery /\ query.country \in 1 .. setting.countries /\ query.pages <= setting.cap

(* It is a number of pages, for the query that may be running.             *)
LEMMA PagesLeftSound ==
  ASSUME Types, InQuery => QuerySound
  PROVE  /\ PagesLeft \in Nat
         /\ InQuery => (setting.countries - query.country) * setting.cap \in Nat
         /\ InQuery => PagesLeft = (setting.countries - query.country) * setting.cap
                                     + (setting.cap - query.pages)
<1> DEFINE c == setting.cap  x == setting.countries - query.country
<1>1. c \in Nat /\ setting.countries \in Nat /\ query.country \in Nat /\ query.pages \in Nat
  BY Market, TypesFlat DEF Types, QueryRecord
<1>2. CASE InQuery
  <2>1. x \in Nat /\ query.pages <= c
    BY <1>1, <1>2 DEF QuerySound
  <2>2. PagesLeft = x * c + (c - query.pages)
    BY <1>2 DEF PagesLeft
  <2> HIDE DEF x, c
  <2>3. x * c \in Nat /\ c - query.pages \in Nat
    BY <1>1, <2>1, TimesGrow
  <2>4. x * c + (c - query.pages) \in Nat
    BY <2>3
  <2>5. QED
    BY <2>2, <2>3, <2>4 DEF x, c
<1>3. CASE ~InQuery
  BY <1>3 DEF PagesLeft
<1>4. QED
  BY <1>2, <1>3

(* Leaving a country leaves no more to read.                               *)
LEMMA CountryPaid ==
  ASSUME Types, QuerySound, LeaveCountry, setting' = setting
  PROVE  /\ PagesLeft' \in Nat /\ phase' \in {"ask", "queue"}
         /\ PagesLeft' <= (setting.countries - query.country) * setting.cap
         /\ InQuery' => query'.country \in 1 .. setting.countries /\ query'.pages <= setting.cap
<1> DEFINE c == setting.cap  x == setting.countries - query.country
<1>1. c \in Nat /\ setting.countries \in Nat /\ query.country \in Nat /\ query.pages \in Nat
      /\ query.country \in 1 .. setting.countries
  BY Market, TypesFlat DEF Types, QueryRecord, QuerySound
<1>2. x * c \in Nat /\ x \in Nat
  BY <1>1, TimesGrow
<1>3. CASE /\ query.country < setting.countries /\ phase' = "ask"
           /\ query'.country = query.country + 1 /\ query'.pages = 0
  <2>1. PagesLeft' = (setting.countries - (query.country + 1)) * c + (c - 0)
    BY <1>3 DEF PagesLeft, InQuery
  <2>2. setting.countries - (query.country + 1) = x - 1
    BY <1>1
  <2>3. PagesLeft' = (x - 1) * c + c
    BY <1>1, <2>1, <2>2
  <2>4. query'.country \in 1 .. setting.countries /\ query'.pages <= setting.cap
    BY <1>1, <1>3
  <2> HIDE DEF x, c
  <2>5. (x - 1) * c = x * c - c
    BY <1>1, <1>2, Times
  <2>6. PagesLeft' = x * c
    BY <1>1, <1>2, <2>3, <2>5
  <2>7. QED
    BY <1>2, <1>3, <2>4, <2>6 DEF x, c
<1>4. CASE phase' = "queue"
  BY <1>2, <1>4 DEF PagesLeft, InQuery
<1>5. QED
  BY <1>3, <1>4, CountryLeft

(* Pages are asked for in time.                                            *)
LEMMA InTimeKept == IInv /\ [Next]_vars => AskedInTime'
<1> SUFFICES ASSUME IInv, [Next]_vars PROVE AskedInTime'
  OBVIOUS
<1> USE DEF vars, Queue, Lists, Response, History
<1>a. Types /\ AskedInTime
  BY TypesFlat DEF IInv
<1>b. /\ setting' = setting /\ setting.limit \in Nat /\ setting.countries \in Nat \ {0}
      /\ query.country \in Nat /\ query.pages \in Nat
  BY <1>a, SettingStays, Market, TypesFlat DEF Types, QueryRecord
<1>1. CASE NextQuery
  <2>1. query'.country = 1 /\ phase' = "ask" /\ UNCHANGED <<budget, stopped, stopPages>>
    BY <1>1 DEF NextQuery
  <2>2. QED
    BY <1>1, <1>a, <1>b, <2>1 DEF AskedInTime, InQuery, NextQuery
<1>2. CASE QueueSpent
  BY <1>2, <1>a, <1>b DEF QueueSpent, AskedInTime, InQuery, Types
<1>3. CASE WidenRing
  BY <1>3, <1>a, <1>b DEF WidenRing, AskedInTime, InQuery, Types
<1>4. CASE Release
  BY <1>4, <1>a, <1>b, ReleaseSteps DEF AskedInTime, InQuery, Release
<1>5. CASE Released
  BY <1>5, <1>a, <1>b DEF Released, AskedInTime, InQuery, Types
<1>6. CASE SearchRing
  BY <1>6, <1>a, <1>b DEF SearchRing, AskedInTime, InQuery, Types
<1>7. CASE GoCountryWide
  BY <1>7, <1>a, <1>b DEF GoCountryWide, AskedInTime, InQuery, Types
<1>8. CASE Widen
  BY <1>8, <1>a, <1>b DEF Widen, AskedInTime, InQuery, Types
<1>9. CASE Ask
  <2>1. phase = "ask" /\ UNCHANGED <<budget, widened, stopped, stopPages>>
    BY <1>9 DEF Ask
  <2>2. CASE LeaveCountry
    <3>1. phase' \in {"ask", "queue"} /\ (phase' = "ask" => query'.country \in 1 .. setting.countries)
      BY <1>a, <1>b, <2>2, CountryLeft
    <3>2. QED
      BY <1>a, <1>b, <2>1, <3>1 DEF AskedInTime, InQuery
  <2>3. CASE phase' = "fill"
    BY <1>a, <1>b, <2>1, <2>3 DEF AskedInTime, InQuery
  <2>4. CASE ~Spent /\ query.pages < QueryCap /\ phase' = "asked" /\ UNCHANGED query
    <3>1. QueryCap' = QueryCap
      BY <1>b, <2>1, <2>4 DEF QueryCap, Local
    <3>2. ~stopped /\ budget < setting.limit
      BY <1>a, <1>b, <2>4 DEF Spent, Types
    <3>3. QED
      BY <1>a, <1>b, <2>1, <2>4, <3>1, <3>2 DEF AskedInTime, InQuery
  <2>5. QED
    BY <1>9, <2>2, <2>3, <2>4 DEF Ask
<1>10. CASE Answer
  <2>1. phase = "asked" /\ budget' = budget + 1 /\ UNCHANGED <<stopped, stopPages>>
    BY <1>10 DEF Answer
  <2>2. /\ phase' # "asked"
        /\ InQuery' => query'.country \in 1 .. setting.countries
    <3>1. CASE LeaveCountry
      BY <1>a, <1>b, <3>1, CountryLeft DEF InQuery
    <3>2. CASE phase' = "decide" /\ query' = [query EXCEPT !.pages = query.pages + 1]
      <4>1. query'.country = query.country
        BY <1>a, <3>2 DEF Types, QueryRecord
      <4>2. QED
        BY <1>a, <2>1, <3>2, <4>1 DEF AskedInTime, InQuery
    <3>3. QED
      BY <1>10, <3>1, <3>2 DEF Answer
  <2>3. budget \in Nat /\ stopPages \in Nat
    BY <1>a, <1>b DEF Types
  <2>4. stopped' => budget' <= stopPages' + 1
    BY <1>a, <2>1, <2>3 DEF AskedInTime
  <2>5. QED
    BY <1>b, <2>2, <2>4 DEF AskedInTime
<1>11. CASE AskFails
  <2>1. phase = "asked" /\ UNCHANGED <<budget, stopped, stopPages>> /\ LeaveCountry
    BY <1>11 DEF AskFails
  <2>2. phase' # "asked" /\ (InQuery' => query'.country \in 1 .. setting.countries)
    BY <1>a, <1>b, <2>1, CountryLeft DEF InQuery
  <2>3. QED
    BY <1>a, <1>b, <2>1, <2>2 DEF AskedInTime, Types
<1>12. CASE ResponseDone
  <2>1. phase = "decide" /\ UNCHANGED <<budget, stopped, stopPages>>
    BY <1>12 DEF ResponseDone
  <2>2. phase' # "asked" /\ (InQuery' => query'.country \in 1 .. setting.countries)
    <3>1. CASE LeaveCountry
      BY <1>a, <1>b, <3>1, CountryLeft DEF InQuery
    <3>2. CASE phase' = "ask" /\ UNCHANGED query
      BY <1>a, <1>b, <2>1, <3>2 DEF InQuery, AskedInTime
    <3>3. QED
      BY <1>12, <3>1, <3>2 DEF ResponseDone
  <2>3. QED
    BY <1>a, <1>b, <2>1, <2>2 DEF AskedInTime, Types
<1>13. CASE ResponseLeft
  BY <1>13, <1>a, <1>b DEF ResponseLeft, AskedInTime, InQuery, Types
<1>14. CASE Decision
  <2>1. phase = "decide" /\ UNCHANGED <<phase, query, budget, stopped, stopPages>>
    BY <1>14, <1>a, DecisionSteps DEF Deciding
  <2>2. QED
    BY <1>a, <1>b, <2>1 DEF AskedInTime, InQuery
<1>15. CASE FillBegins
  BY <1>15, <1>a, <1>b DEF FillBegins, AskedInTime, InQuery, Types
<1>16. CASE Fill
  BY <1>16, <1>a, <1>b, FillSteps DEF AskedInTime, InQuery, Fill
<1>17. CASE FillGoesOn
  BY <1>17, <1>a, <1>b DEF FillGoesOn, AskedInTime, InQuery, Types
<1>18. CASE FillEnds
  BY <1>18, <1>a, <1>b DEF FillEnds, AskedInTime, InQuery, Types
<1>19. CASE Finish
  BY <1>19, <1>a, <1>b DEF Finish, AskedInTime, InQuery, Types
<1>20. CASE CreditRefused
  <2>1. phase' = "ended" /\ UNCHANGED <<budget, stopped, stopPages>> /\ budget \in Nat /\ stopPages \in Nat
    BY <1>20, <1>a, <1>b DEF CreditRefused, Types
  <2>2. QED
    BY <1>a, <2>1 DEF AskedInTime, InQuery
<1>21. CASE Stop
  <2>1. UNCHANGED <<phase, query, budget, widened>> /\ stopPages' = budget /\ budget \in Nat
    BY <1>21, <1>a, <1>b DEF Stop, Types
  <2>2. QueryCap' = QueryCap
    BY <1>b, <2>1 DEF QueryCap, Local
  <2>3. QED
    BY <1>a, <1>b, <2>1, <2>2 DEF AskedInTime, InQuery
<1>22. CASE UNCHANGED vars
  <2>1. QueryCap' = QueryCap
    BY <1>22 DEF QueryCap, Local
  <2>2. QED
    BY <1>22, <1>a, <2>1 DEF AskedInTime, InQuery
<1>23. QED
  BY <1>1, <1>2, <1>3, <1>4, <1>5, <1>6, <1>7, <1>8, <1>9, <1>10, <1>11, <1>12, <1>13,
     <1>14, <1>15, <1>16, <1>17, <1>18, <1>19, <1>20, <1>21, <1>22
  DEF Next, Run, Decision

(* The rings keep to their share.                                          *)
LEMMA RingsPaidKept == IInv /\ [Next]_vars => RingsPaid'
<1> SUFFICES ASSUME IInv, [Next]_vars PROVE RingsPaid'
  OBVIOUS
<1> USE DEF vars, Queue, Lists, Response, History
<1>a. /\ TypeOK /\ Types /\ StepsInOrder /\ AskedInTime /\ RingsPaid
  BY TypesFlat DEF IInv
<1>b. /\ setting' = setting /\ Local' = Local /\ QueryPages' = QueryPages /\ RingBound' = RingBound
  BY SettingStays DEF Local, QueryPages, RingBound
<1>c. /\ QueryPages \in Nat /\ RingBound \in Int
      /\ setting.share + RingQueries * QueryPages - 1 <= RingBound
      /\ RingsKeepTheShare => (Local /\ widened => widePages <= RingBound)
      /\ setting.cap \in Nat /\ setting.share \in Nat /\ setting.limit \in Nat
      /\ setting.countries \in Nat \ {0} /\ RingQueries \in Nat
  BY <1>a, PagesBounded, Market, SearchAssumption
<1>d. /\ budget \in Nat /\ planned \in Nat /\ later \in Nat /\ widened \in BOOLEAN
      /\ query.country \in Nat /\ query.pages \in Nat
  BY <1>a, <1>c, SearchAssumption DEF Types, QueryRecord
<1>q. Local /\ ~widened /\ InQuery => QuerySound /\ QueryCap = setting.cap
  BY <1>a DEF QuerySound, AskedInTime, RingsPaid, QueryCap
<1>p. Local /\ ~widened =>
        /\ PagesLeft \in Nat
        /\ InQuery => /\ (setting.countries - query.country) * setting.cap \in Nat
                      /\ PagesLeft = (setting.countries - query.country) * setting.cap
                                        + (setting.cap - query.pages)
  BY <1>a, <1>q, PagesLeftSound
<1>t. (planned + later) * QueryPages \in Nat
  BY <1>c, <1>d, TimesGrow
<1>r. RingsKeepTheShare' <=> (Local /\ widened' => widePages' <= RingBound)
  BY <1>b DEF RingsKeepTheShare, RingBound
(* Going on with no more to pay than before.                               *)
<1>w. ASSUME /\ UNCHANGED <<widened, widePages>>
             /\ Local /\ ~widened => /\ InQuery' => query'.pages <= setting.cap
                                     /\ PagesToPay' <= PagesToPay /\ PagesToPay' \in Int
      PROVE  RingsPaid'
  <2>1. PagesToPay \in Int \/ ~(Local /\ ~widened)
    BY <1>d, <1>p, <1>t DEF PagesToPay
  <2>2. QED
    BY <1>a, <1>b, <1>c, <1>r, <1>w, <2>1 DEF RingsPaid
<1>e. ASSUME UNCHANGED <<widened, widePages, budget, planned, later>>, ~InQuery'
      PROVE  RingsPaid'
  <2>1. PagesLeft' = 0
    BY <1>e DEF PagesLeft
  <2>2. (planned + later)' * QueryPages' = (planned + later) * QueryPages
    BY <1>b, <1>e
  <2>3. PagesToPay' = budget + 0 + (planned + later) * QueryPages
    BY <1>e, <2>1, <2>2 DEF PagesToPay
  <2>4. Local /\ ~widened => PagesToPay' <= PagesToPay /\ PagesToPay' \in Int
    BY <1>d, <1>p, <1>t, <2>3 DEF PagesToPay
  <2>5. QED
    BY <1>e, <1>w, <2>4
<1>1. CASE NextQuery
  <2> DEFINE n == planned + later
  <2>1. /\ query'.country = 1 /\ query'.pages = 0 /\ phase' = "ask"
        /\ UNCHANGED <<budget, widened, widePages>> /\ phase = "queue"
        /\ planned' + later' = n - 1
    BY <1>1, <1>d DEF NextQuery, QueryLeft
  <2>2. PagesLeft' = (setting.countries - 1) * setting.cap + (setting.cap - 0) /\ PagesLeft = 0
    BY <1>b, <2>1 DEF PagesLeft, InQuery
  <2>3. PagesLeft' = QueryPages
    <3> DEFINE c == setting.countries  a == setting.cap
    <3>1. c \in Int /\ a \in Int /\ QueryPages = c * a /\ PagesLeft' = (c - 1) * a + (a - 0)
      BY <1>c, <2>2 DEF QueryPages
    <3> HIDE DEF c, a
    <3>2. QED
      BY <3>1, Times
  <2>4. n \in Int /\ PagesToPay = budget + 0 + n * QueryPages
    BY <1>d, <2>2 DEF PagesToPay
  <2>5. PagesToPay' = budget + QueryPages + (n - 1) * QueryPages
    BY <1>b, <2>1, <2>3 DEF PagesToPay
  <2> HIDE DEF n
  <2>6. (n - 1) * QueryPages = n * QueryPages - QueryPages /\ n * QueryPages \in Int
    BY <1>c, <2>4, Times
  <2>7. PagesToPay' = PagesToPay /\ PagesToPay' \in Int
    BY <1>c, <1>d, <2>4, <2>5, <2>6
  <2>8. QED
    BY <1>c, <1>w, <2>1, <2>7
<1>2. CASE QueueSpent
  BY <1>2, <1>e DEF QueueSpent, InQuery
<1>3. CASE WidenRing
  BY <1>3, <1>e DEF WidenRing, InQuery
<1>4. CASE Release
  BY <1>4, <1>e DEF Release, InQuery
<1>5. CASE Released
  BY <1>5, <1>e DEF Released, InQuery
<1>6. CASE SearchRing
  <2>1. /\ phase = "ring" /\ phase' = "queue" /\ budget < setting.share
        /\ later' \in 0 .. RingQueries /\ planned = 0
        /\ UNCHANGED <<planned, budget, widened, widePages>>
    BY <1>6, <1>a DEF SearchRing, ShareLeft, RingFound, StepsInOrder
  <2>2. PagesLeft' = 0
    BY <2>1 DEF PagesLeft, InQuery
  <2>a. RingQueries \in Nat
    BY SearchAssumption
  <2>3. planned' = 0 /\ later' \in Nat /\ later' <= RingQueries
    BY <2>a, <2>1
  <2>4. PagesToPay' = budget + 0 + later' * QueryPages
    <3> DEFINE n == later'
    <3>a. planned' = 0 /\ n \in Nat
      BY <2>3
    <3> HIDE DEF n
    <3>b. planned' + n = n
      BY <3>a
    <3>1. planned' + later' = later'
      BY <3>b DEF n
    <3>2. budget' = budget /\ QueryPages' = QueryPages
      BY <1>b, <2>1
    <3>3. QED
      BY <2>2, <3>1, <3>2 DEF PagesToPay
  <2>5. later' * QueryPages \in Nat /\ RingQueries * QueryPages \in Nat
        /\ later' * QueryPages <= RingQueries * QueryPages
    BY <1>c, <2>3, TimesGrow
  <2> DEFINE u == later' * QueryPages  v == RingQueries * QueryPages
  <2>6. /\ u \in Nat /\ v \in Nat /\ u <= v /\ PagesToPay' = budget + 0 + u
        /\ setting.share + v - 1 <= RingBound /\ setting.share \in Nat /\ RingBound \in Int
    BY <1>c, <2>4, <2>5
  <2> HIDE DEF u, v
  <2>7. PagesToPay' <= RingBound
    BY <1>d, <2>1, <2>6
  <2>8. RingsKeepTheShare'
    BY <1>a, <1>b, <1>c, <2>1 DEF RingsPaid, RingsKeepTheShare, RingBound, Local
  <2>9. ~InQuery' /\ RingBound' = RingBound
    BY <1>b, <2>1 DEF InQuery
  <2>10. QED
    BY <2>7, <2>8, <2>9 DEF RingsPaid
<1>7. CASE GoCountryWide
  <2>1. widened' = TRUE /\ widePages' = budget /\ ~widened
    BY <1>7, <1>a DEF GoCountryWide, StepsInOrder
  <2>2. Local => budget <= RingBound
    BY <1>a, <1>c, <1>d, <1>p, <1>t, <2>1 DEF RingsPaid, PagesToPay
  <2>3. QED
    BY <1>b, <1>r, <2>1, <2>2 DEF RingsPaid
<1>8. CASE Widen
  <2>1. widened /\ UNCHANGED <<widened, widePages>>
    BY <1>8, <1>a DEF Widen, StepsInOrder
  <2>2. QED
    BY <1>w, <2>1
<1>9. CASE Ask
  <2>1. phase = "ask" /\ UNCHANGED <<budget, planned, later, widened, widePages>>
    BY <1>9 DEF Ask
  <2>2. CASE LeaveCountry
    <3>1. Local /\ ~widened => PagesLeft' \in Nat /\ PagesLeft' <= PagesLeft
                              /\ (InQuery' => query'.pages <= setting.cap)
      BY <1>a, <1>b, <1>c, <1>d, <1>p, <1>q, <2>1, <2>2, CountryPaid DEF InQuery, QuerySound
    <3>2. PagesToPay' = budget + PagesLeft' + (planned + later) * QueryPages
      BY <1>b, <2>1 DEF PagesToPay
    <3>3. Local /\ ~widened => PagesToPay' <= PagesToPay /\ PagesToPay' \in Int
      BY <1>d, <1>p, <1>t, <3>1, <3>2 DEF PagesToPay
    <3>4. QED
      BY <1>w, <2>1, <3>1, <3>3
  <2>3. CASE phase' = "fill"
    BY <1>e, <2>1, <2>3 DEF InQuery
  <2>4. CASE phase' = "asked" /\ UNCHANGED query
    <3>1. PagesLeft' = PagesLeft /\ PagesToPay' = PagesToPay
      BY <1>b, <2>1, <2>4 DEF PagesLeft, PagesToPay, InQuery
    <3>2. Local /\ ~widened => PagesToPay' \in Int /\ query'.pages <= setting.cap
      BY <1>a, <1>d, <1>p, <1>t, <2>1, <2>4, <3>1 DEF PagesToPay, RingsPaid, InQuery
    <3>3. QED
      BY <1>d, <1>p, <1>t, <1>w, <2>1, <3>1, <3>2 DEF PagesToPay
  <2>5. QED
    BY <1>9, <2>2, <2>3, <2>4 DEF Ask
<1>10. CASE Answer
  <2>1. phase = "asked" /\ budget' = budget + 1 /\ UNCHANGED <<planned, later, widened, widePages>>
    BY <1>10 DEF Answer
  <2>2. Local /\ ~widened => /\ PagesLeft' \in Nat /\ PagesLeft' + 1 <= PagesLeft
                             /\ InQuery' => query'.pages <= setting.cap
    <3> SUFFICES ASSUME Local, ~widened
                 PROVE  /\ PagesLeft' \in Nat /\ PagesLeft' + 1 <= PagesLeft
                        /\ InQuery' => query'.pages <= setting.cap
      OBVIOUS
    <3> DEFINE x == (setting.countries - query.country) * setting.cap
    <3>1. /\ QuerySound /\ query.pages < setting.cap /\ x \in Nat
          /\ PagesLeft = x + (setting.cap - query.pages)
      BY <1>a, <1>p, <1>q, <2>1 DEF InQuery, AskedInTime
    <3>2. CASE LeaveCountry
      <4>1. PagesLeft' \in Nat /\ PagesLeft' <= x /\ (InQuery' => query'.pages <= setting.cap)
        BY <1>a, <1>b, <3>1, <3>2, CountryPaid
      <4> HIDE DEF x
      <4>2. QED
        BY <1>c, <1>d, <3>1, <4>1
    <3>3. CASE phase' = "decide" /\ query' = [query EXCEPT !.pages = query.pages + 1]
      <4>1. query'.country = query.country /\ query'.pages = query.pages + 1
        BY <1>a, <3>3 DEF Types, QueryRecord
      <4>2. PagesLeft' = x + (setting.cap - (query.pages + 1))
        BY <1>b, <3>3, <4>1 DEF PagesLeft, InQuery
      <4> HIDE DEF x
      <4>3. QED
        BY <1>c, <1>d, <3>1, <4>1, <4>2
    <3>4. QED
      BY <1>10, <3>2, <3>3 DEF Answer
  <2>3. PagesToPay' = budget + 1 + PagesLeft' + (planned + later) * QueryPages
    BY <1>b, <2>1 DEF PagesToPay
  <2> DEFINE t == (planned + later) * QueryPages
  <2>4. t \in Nat /\ PagesToPay = budget + PagesLeft + t /\ PagesToPay' = budget + 1 + PagesLeft' + t
    BY <1>t, <2>3 DEF PagesToPay
  <2>5. Local /\ ~widened => PagesLeft \in Nat
    BY <1>p
  <2> HIDE DEF t
  <2>6. ASSUME Local, ~widened
        PROVE  PagesToPay' <= PagesToPay /\ PagesToPay' \in Int
    <3>1. /\ budget \in Nat /\ PagesLeft \in Nat /\ PagesLeft' \in Nat
          /\ PagesLeft' + 1 <= PagesLeft
      BY <1>d, <2>2, <2>5, <2>6
    <3> DEFINE n == PagesLeft'
    <3>a. n \in Nat /\ n + 1 <= PagesLeft /\ budget \in Nat /\ PagesLeft \in Nat /\ t \in Nat
      BY <2>4, <3>1
    <3> HIDE DEF n
    <3>b. budget + 1 + n + t <= budget + PagesLeft + t /\ budget + 1 + n + t \in Int
      BY <3>a
    <3>2. budget + 1 + PagesLeft' + t <= budget + PagesLeft + t
          /\ budget + 1 + PagesLeft' + t \in Int
      BY <3>b DEF n
    <3>3. QED
      BY <2>4, <3>2
  <2>7. Local /\ ~widened => /\ InQuery' => query'.pages <= setting.cap
                             /\ PagesToPay' <= PagesToPay /\ PagesToPay' \in Int
    BY <2>2, <2>6, Zenon
  <2>8. UNCHANGED <<widened, widePages>>
    BY <2>1
  <2>9. QED
    BY <1>w, <2>7, <2>8
<1>11. CASE AskFails
  <2>1. phase = "asked" /\ UNCHANGED <<budget, planned, later, widened, widePages>>
    BY <1>11 DEF AskFails
  <2>2. CASE LeaveCountry
    <3>1. Local /\ ~widened => PagesLeft' \in Nat /\ PagesLeft' <= PagesLeft
                              /\ (InQuery' => query'.pages <= setting.cap)
      BY <1>a, <1>b, <1>c, <1>d, <1>p, <1>q, <2>1, <2>2, CountryPaid DEF InQuery, QuerySound
    <3>2. PagesToPay' = budget + PagesLeft' + (planned + later) * QueryPages
      BY <1>b, <2>1 DEF PagesToPay
    <3>3. Local /\ ~widened => PagesToPay' <= PagesToPay /\ PagesToPay' \in Int
      BY <1>d, <1>p, <1>t, <3>1, <3>2 DEF PagesToPay
    <3>4. QED
      BY <1>w, <2>1, <3>1, <3>3
  <2>3. QED
    BY <1>11, <2>2 DEF AskFails
<1>12. CASE ResponseDone
  <2>1. phase = "decide" /\ UNCHANGED <<budget, planned, later, widened, widePages>>
    BY <1>12 DEF ResponseDone
  <2>2. CASE LeaveCountry
    <3>1. Local /\ ~widened => PagesLeft' \in Nat /\ PagesLeft' <= PagesLeft
                              /\ (InQuery' => query'.pages <= setting.cap)
      BY <1>a, <1>b, <1>c, <1>d, <1>p, <1>q, <2>1, <2>2, CountryPaid DEF InQuery, QuerySound
    <3>2. PagesToPay' = budget + PagesLeft' + (planned + later) * QueryPages
      BY <1>b, <2>1 DEF PagesToPay
    <3>3. Local /\ ~widened => PagesToPay' <= PagesToPay /\ PagesToPay' \in Int
      BY <1>d, <1>p, <1>t, <3>1, <3>2 DEF PagesToPay
    <3>4. QED
      BY <1>w, <2>1, <3>1, <3>3
  <2>4. CASE phase' = "ask" /\ UNCHANGED query
    <3>1. PagesLeft' = PagesLeft /\ PagesToPay' = PagesToPay
      BY <1>b, <2>1, <2>4 DEF PagesLeft, PagesToPay, InQuery
    <3>2. Local /\ ~widened => PagesToPay' \in Int /\ query'.pages <= setting.cap
      BY <1>a, <1>d, <1>p, <1>t, <2>1, <2>4, <3>1 DEF PagesToPay, RingsPaid, InQuery
    <3>3. QED
      BY <1>d, <1>p, <1>t, <1>w, <2>1, <3>1, <3>2 DEF PagesToPay
  <2>5. QED
    BY <1>12, <2>2, <2>4 DEF ResponseDone
<1>13. CASE ResponseLeft
  BY <1>13, <1>e DEF ResponseLeft, InQuery
<1>14. CASE Decision
  <2>1. phase = "decide" /\ UNCHANGED <<phase, query>> /\ UNCHANGED <<budget, planned, later, widened, widePages>>
    BY <1>14, <1>a, DecisionSteps DEF Deciding
  <2>2. QED
    <3>1. PagesLeft' = PagesLeft /\ PagesToPay' = PagesToPay
      BY <1>b, <2>1 DEF PagesLeft, PagesToPay, InQuery
    <3>2. Local /\ ~widened => PagesToPay' \in Int /\ query'.pages <= setting.cap
      BY <1>a, <1>d, <1>p, <1>t, <2>1, <3>1 DEF PagesToPay, RingsPaid, InQuery
    <3>3. QED
      BY <1>d, <1>p, <1>t, <1>w, <2>1, <3>1, <3>2 DEF PagesToPay
<1>15. CASE FillBegins
  BY <1>15, <1>e DEF FillBegins, InQuery
<1>16. CASE Fill
  BY <1>16, <1>e DEF Fill, InQuery
<1>17. CASE FillGoesOn
  BY <1>17, <1>e DEF FillGoesOn, InQuery
<1>18. CASE FillEnds
  BY <1>18, <1>e DEF FillEnds, InQuery
<1>19. CASE Finish
  BY <1>19, <1>e DEF Finish, InQuery
<1>20. CASE CreditRefused
  BY <1>20, <1>e DEF CreditRefused, InQuery
<1>21. CASE Stop
  <2>1. UNCHANGED <<phase, query>> /\ UNCHANGED <<budget, planned, later, widened, widePages>>
    BY <1>21 DEF Stop
  <2>2. CASE ~InQuery
    BY <1>e, <2>1, <2>2 DEF InQuery
  <2>3. CASE InQuery
    <3>1. PagesLeft' = PagesLeft /\ PagesToPay' = PagesToPay
      BY <1>b, <2>1, <2>3 DEF PagesLeft, PagesToPay, InQuery
    <3>2. Local /\ ~widened => PagesToPay' \in Int /\ query'.pages <= setting.cap
      BY <1>a, <1>d, <1>p, <1>t, <2>1, <2>3, <3>1 DEF PagesToPay, RingsPaid, InQuery
    <3>3. QED
      BY <1>d, <1>p, <1>t, <1>w, <2>1, <3>1, <3>2 DEF PagesToPay
  <2>4. QED
    BY <2>2, <2>3
<1>22. CASE UNCHANGED vars
  <2>1. UNCHANGED <<phase, query>> /\ UNCHANGED <<budget, planned, later, widened, widePages>>
    BY <1>22
  <2>2. CASE ~InQuery
    BY <1>e, <2>1, <2>2 DEF InQuery
  <2>3. CASE InQuery
    <3>1. PagesLeft' = PagesLeft /\ PagesToPay' = PagesToPay
      BY <1>b, <2>1, <2>3 DEF PagesLeft, PagesToPay, InQuery
    <3>2. Local /\ ~widened => PagesToPay' \in Int /\ query'.pages <= setting.cap
      BY <1>a, <1>d, <1>p, <1>t, <2>1, <2>3, <3>1 DEF PagesToPay, RingsPaid, InQuery
    <3>3. QED
      BY <1>d, <1>p, <1>t, <1>w, <2>1, <3>1, <3>2 DEF PagesToPay
  <2>4. QED
    BY <2>2, <2>3
<1>23. QED
  BY <1>1, <1>2, <1>3, <1>4, <1>5, <1>6, <1>7, <1>8, <1>9, <1>10, <1>11, <1>12, <1>13,
     <1>14, <1>15, <1>16, <1>17, <1>18, <1>19, <1>20, <1>21, <1>22
  DEF Next, Run, Decision

(* Locals come first.                                                      *)
LEMMA ReleasedKept == IInv /\ TypeOK' /\ [Next]_vars => LocalsReleased'
<1> SUFFICES ASSUME IInv /\ TypeOK', [Next]_vars PROVE LocalsReleased'
  OBVIOUS
<1> USE DEF vars, Queue, Lists, Response, History
<1>a. /\ TypeOK /\ Types /\ OnePlace /\ LocalsReleased /\ StepsInOrder
  BY TypesFlat DEF IInv
<1>b. setting' = setting /\ Local' = Local
  BY SettingStays DEF Local
<1>c. Local => \A p \in Pages : \/ setting.page[p].place < setting.rings
                               \/ setting.page[p].place \in {Far, Unknown}
  BY <1>a, Market
<1>d. \A p \in Pages : setting.page[p].place \in Nat
  BY <1>a, Market
<1>e. level \in Nat /\ level' \in Nat /\ setting.rings \in Nat /\ DOMAIN held \subseteq Pages
      /\ FarHeld \subseteq Pages /\ Seen \subseteq Pages
  <2>1. setting.rings \in Nat /\ Types'
    BY <1>a, Market, TypesFlat
  <2>2. level \in Nat /\ level' \in Nat
    BY <1>a, <1>b, <2>1 DEF Types
  <2>3. DOMAIN held \subseteq Pages /\ FarHeld \subseteq Pages
    BY <1>a DEF Types, FarHeld
  <2>4. accepted \in Seq(Pages)
    BY <1>a DEF Types
  <2>5. Seen \subseteq Pages
    BY <2>4 DEF Seen, Range
  <2>6. QED
    BY <2>1, <2>2, <2>3, <2>5
<1>1. CASE NextQuery
  BY <1>1, <1>a, <1>b DEF NextQuery, LocalsReleased, FarHeld, Seen, Inside, Filling
<1>2. CASE QueueSpent
  BY <1>2, <1>a, <1>b DEF QueueSpent, LocalsReleased, FarHeld, Seen, Inside, Filling, Spent
<1>3. CASE WidenRing
  <2>1. /\ level' = level + 1 /\ phase' = "release" /\ todo' = HeldInside(level + 1)
        /\ Local /\ ~widened /\ ~Filling /\ UNCHANGED <<accepted, held, widened, stopped, uncounted>>
    BY <1>3 DEF WidenRing, WiderRing, Filling
  <2>2. \A p \in Pages : Inside(p) => Inside(p)'
    BY <1>b, <1>d, <1>e, <2>1 DEF Inside
  <2>3. \A p \in Seen' : Inside(p)'
    BY <1>a, <1>e, <2>1, <2>2 DEF LocalsReleased, Seen
  <2>4. FarHeld' = FarHeld
    BY <2>1 DEF FarHeld
  <2>5. \A p \in FarHeld : Inside(p)' <=> p \in todo'
    BY <1>b, <2>1 DEF HeldInside, Inside
  <2>6. \A p \in todo' : Inside(p)'
    BY <1>b, <2>1 DEF HeldInside, Inside
  <2>7. QED
    BY <2>1, <2>3, <2>4, <2>5, <2>6 DEF LocalsReleased
<1>4. CASE Release
  <2>1. PICK p \in DOMAIN held :
          /\ p \in todo /\ p \notin Seen /\ todo' = todo \ {p}
          /\ uncounted' \in SUBSET Pages /\ uncounted \subseteq uncounted' \cup {p}
          /\ \/ Accepts(p) /\ held' = HeldBut(p)
             \/ UNCHANGED <<accepted, held>> /\ (Local => p \in uncounted')
    BY <1>4, <1>a, ReleaseSteps
  <2>2. phase \in {"release", "releaseUnplaced"} /\ ~Full /\ ~stopped
        /\ UNCHANGED <<phase, level, widened, stopped>>
    BY <1>4, <1>a, ReleaseSteps
  <2>3. CASE ~Local
    BY <1>b, <2>3 DEF LocalsReleased
  <2>4. CASE Local
    <3>1. p \in Pages /\ ~Filling /\ \A q \in Pages : Inside(q)' = Inside(q)
      BY <1>b, <1>e, <2>1, <2>2 DEF Inside, Filling
    <3>2. FarHeld' \ uncounted' \subseteq (FarHeld \ uncounted) \ {p}
      <4>1. CASE UNCHANGED held /\ p \in uncounted'
        BY <2>1, <4>1 DEF FarHeld
      <4>2. CASE held' = HeldBut(p)
        <5>1. FarHeld' = FarHeld \ {p}
          BY <1>a, <3>1, <4>2, HeldFewer
        <5>2. QED
          BY <2>1, <5>1
      <4>3. QED
        BY <2>1, <2>4, <4>1, <4>2
    <3>3. Seen' \subseteq Seen \cup {p}
      <4>1. CASE UNCHANGED accepted
        BY <4>1 DEF Seen
      <4>2. CASE Accepts(p)
        BY <1>a, <2>1, <2>2, <3>1, <4>2, ListGrows DEF OnePlace
      <4>3. QED
        BY <2>1, <4>1, <4>2
    <3>4. ~widened => phase = "release" /\ Inside(p)
      BY <1>a, <2>1, <2>2, <2>4, <3>1 DEF LocalsReleased, StepsInOrder
    <3>5. Seen' \subseteq Pages
      BY <1>e, <3>1, <3>3
    <3>6. ~widened => \A q \in Seen' : Inside(q)'
      BY <1>a, <2>4, <3>1, <3>3, <3>4, <3>5 DEF LocalsReleased
    <3>7. phase = "release" => \A q \in todo' : Inside(q)'
      BY <1>a, <2>1, <2>4, <3>1 DEF LocalsReleased, Types
    <3>8. \A q \in FarHeld' \ uncounted' :
            /\ ~widened => ~Inside(q)' \/ (phase = "release" /\ q \in todo')
            /\ widened => setting.page[q].place = Far
                          \/ (phase = "releaseUnplaced" /\ q \in todo')
      BY <1>a, <1>e, <2>1, <2>2, <2>4, <3>1, <3>2 DEF LocalsReleased
    <3>9. QED
      BY <1>b, <2>2, <3>6, <3>7, <3>8 DEF LocalsReleased
  <2>5. QED
    BY <2>3, <2>4
<1>5. CASE Released
  <2>1. /\ phase \in {"release", "releaseUnplaced"} /\ (Full \/ stopped \/ todo \subseteq Seen)
        /\ phase' = IF Full THEN "fill" ELSE IF phase = "release" THEN "ring" ELSE "widen"
        /\ UNCHANGED <<level, widened, accepted, held, stopped, uncounted>>
    BY <1>5 DEF Released
  <2>2. CASE Full
    BY <2>1, <2>2 DEF LocalsReleased, Filling
  <2>3. CASE ~Full
    <3>1. ~Filling /\ (stopped \/ todo = {})
      BY <1>a, <2>1, <2>3 DEF OnePlace, Filling
    <3>2. FarHeld' = FarHeld /\ Seen' = Seen /\ \A q \in Pages : Inside(q)' = Inside(q)
      BY <1>b, <2>1 DEF FarHeld, Seen, Inside
    <3>3. phase' \in {"ring", "widen"}
      BY <2>1, <2>3
    <3>4. QED
      BY <1>a, <1>b, <1>e, <2>1, <3>1, <3>2, <3>3 DEF LocalsReleased
  <2>4. QED
    BY <2>2, <2>3
<1>6. CASE SearchRing
  BY <1>6, <1>a, <1>b DEF SearchRing, LocalsReleased, FarHeld, Seen, Inside, Filling
<1>7. CASE GoCountryWide
  <2>1. /\ phase \in {"queue", "ring"} /\ ~WiderRing /\ ~widened /\ widened' = TRUE
        /\ phase' = IF Local THEN "releaseUnplaced" ELSE "widen"
        /\ todo' = IF Local THEN {p \in FarHeld : setting.page[p].place = Unknown} ELSE {}
        /\ UNCHANGED <<level, accepted, held, stopped, uncounted>>
    BY <1>7, <1>a DEF GoCountryWide, StepsInOrder
  <2>2. CASE ~Local
    BY <1>b, <2>2 DEF LocalsReleased
  <2>3. CASE Local
    <3>1. level + 1 >= setting.rings
      BY <1>e, <2>1, <2>3 DEF WiderRing
    <3>2. ASSUME NEW p \in FarHeld \ uncounted, ~stopped
          PROVE  setting.page[p].place = Far \/ p \in todo'
      <4>1. ~Inside(p) /\ p \in Pages
        BY <1>a, <1>e, <2>1, <2>3, <3>2 DEF LocalsReleased, Filling
      <4>2. setting.page[p].place \in {Far, Unknown}
        BY <1>c, <1>d, <1>e, <2>3, <3>1, <4>1 DEF Inside
      <4>3. QED
        BY <2>1, <2>3, <3>2, <4>2
    <3>3. FarHeld' = FarHeld
      BY <2>1 DEF FarHeld
    <3>4. QED
      BY <1>b, <2>1, <2>3, <3>2, <3>3 DEF LocalsReleased
  <2>4. QED
    BY <2>2, <2>3
<1>8. CASE Widen
  <2>1. phase = "widen" /\ widened /\ phase' \in {"fill", "queue"}
        /\ UNCHANGED <<level, widened, accepted, held, stopped, uncounted>>
    BY <1>8, <1>a DEF Widen, StepsInOrder
  <2>2. FarHeld' = FarHeld
    BY <2>1 DEF FarHeld
  <2>3. QED
    BY <1>a, <1>b, <2>1, <2>2 DEF LocalsReleased, Filling
<1>9. CASE Ask
  BY <1>9, <1>a, <1>b DEF Ask, LocalsReleased, FarHeld, Seen, Inside, Filling, LeaveCountry
<1>10. CASE Answer
  BY <1>10, <1>a, <1>b DEF Answer, LocalsReleased, FarHeld, Seen, Inside, Filling, LeaveCountry
<1>11. CASE AskFails
  BY <1>11, <1>a, <1>b DEF AskFails, LocalsReleased, FarHeld, Seen, Inside, Filling, LeaveCountry
<1>12. CASE ResponseDone
  BY <1>12, <1>a, <1>b DEF ResponseDone, LocalsReleased, FarHeld, Seen, Inside, Filling, LeaveCountry
<1>13. CASE ResponseLeft
  BY <1>13, <1>a, <1>b DEF ResponseLeft, LocalsReleased, FarHeld, Seen, Inside, Filling
<1>14. CASE Decision
  <2>1. PICK p \in Pages :
          /\ Deciding(p)
          /\ \/ UNCHANGED <<Lists, uncounted, unreviewed>>
             \/ Rejects(p)
             \/ Holds(p, "geoMismatch", 0)
             \/ \E n \in Nat : Holds(p, "lowActiveAds", n)
             \/ Takes(p)
    BY <1>14, <1>a, DecisionSteps
  <2>2. phase = "decide" /\ ~Full /\ ~Filling /\ UNCHANGED <<phase, level, widened, todo, stopped>>
    BY <2>1 DEF Deciding, Filling
  <2>3. \A q \in Pages : Inside(q)' = Inside(q)
    BY <1>b, <2>2 DEF Inside
  <2>4. CASE UNCHANGED <<accepted, held, uncounted>>
    <3>1. FarHeld' = FarHeld /\ Seen' = Seen
      BY <2>4 DEF FarHeld, Seen
    <3>2. QED
      BY <1>a, <1>b, <1>e, <2>2, <2>3, <2>4, <3>1 DEF LocalsReleased
  <2>5. ASSUME NEW n \in Nat, NEW why \in {"geoMismatch", "lowActiveAds"}, Holds(p, why, n), Local
        PROVE  LocalsReleased'
    <3>1. p \notin DOMAIN held /\ why = "geoMismatch" /\ ~widened /\ ~Inside(p)
          /\ UNCHANGED <<accepted, uncounted>> /\ held' = HeldToo(p, why, n)
      BY <1>a, <2>5 DEF Holds, Decided, OnePlace
    <3>2. FarHeld' = FarHeld \cup {p} /\ Seen' = Seen
      BY <1>a, <3>1, HeldMore DEF Seen
    <3>3. QED
      BY <1>a, <1>b, <1>e, <2>2, <2>3, <2>5, <3>1, <3>2 DEF LocalsReleased
  <2>6. CASE Takes(p)
    <3>1. p \notin Seen /\ (Local /\ ~widened => Inside(p)) /\ UNCHANGED <<held, uncounted>> /\ Accepts(p)
      BY <1>a, <2>6 DEF Takes, Decided
    <3>2. Seen' = Seen \cup {p} /\ FarHeld' = FarHeld
      BY <1>a, <2>2, <3>1, ListGrows DEF OnePlace, FarHeld
    <3>3. QED
      BY <1>a, <1>b, <1>e, <2>2, <2>3, <3>1, <3>2 DEF LocalsReleased
  <2>7. CASE ~Local
    BY <1>b, <2>7 DEF LocalsReleased
  <2>8. QED
    BY <2>1, <2>4, <2>5, <2>6, <2>7 DEF Rejects, Lists
<1>15. CASE FillBegins
  BY <1>15, <1>a, <1>b DEF FillBegins, LocalsReleased, FarHeld, Seen, Inside, Filling
<1>16. CASE Fill
  <2>1. phase' \in {"fillFar", "fillFew"}
    BY <1>16 DEF Fill
  <2>2. QED
    BY <2>1 DEF LocalsReleased, Filling
<1>17. CASE FillGoesOn
  BY <1>17, <1>a, <1>b DEF FillGoesOn, LocalsReleased, FarHeld, Seen, Inside, Filling
<1>18. CASE FillEnds
  BY <1>18, <1>a, <1>b DEF FillEnds, LocalsReleased, FarHeld, Seen, Inside, Filling
<1>19. CASE Finish
  BY <1>19, <1>a, <1>b DEF Finish, LocalsReleased, FarHeld, Seen, Inside, Filling
<1>20. CASE CreditRefused
  BY <1>20, <1>a, <1>b DEF CreditRefused, LocalsReleased, FarHeld, Seen, Inside, Filling
<1>21. CASE Stop
  BY <1>21, <1>a, <1>b DEF Stop, LocalsReleased, FarHeld, Seen, Inside, Filling
<1>22. CASE UNCHANGED vars
  BY <1>22, <1>a, <1>b DEF LocalsReleased, FarHeld, Seen, Inside, Filling
<1>23. QED
  BY <1>1, <1>2, <1>3, <1>4, <1>5, <1>6, <1>7, <1>8, <1>9, <1>10, <1>11, <1>12, <1>13,
     <1>14, <1>15, <1>16, <1>17, <1>18, <1>19, <1>20, <1>21, <1>22
  DEF Next, Run, Decision

(* Every rival held is tried before the search gives up.                   *)
LEMMA FilledKept == IInv /\ [Next]_vars => FilledLast'
<1> SUFFICES ASSUME IInv, [Next]_vars PROVE FilledLast'
  OBVIOUS
<1> USE DEF vars, Queue, Lists, Response, History
<1>a. /\ TypeOK /\ Types /\ OnePlace /\ FilledLast /\ StepsInOrder
  BY TypesFlat DEF IInv
<1>b. setting' = setting /\ phase \in Phases
  BY <1>a, SettingStays DEF Types
<1>c. outcome \in {"partial", "failed"} => phase = "ended"
  BY <1>a DEF FilledLast
<1>1. CASE NextQuery
  BY <1>1, <1>c DEF NextQuery, FilledLast
<1>2. CASE QueueSpent
  BY <1>2, <1>a, <1>b, <1>c DEF QueueSpent, FilledLast, Spent, Full
<1>3. CASE WidenRing
  BY <1>3, <1>c DEF WidenRing, FilledLast
<1>4. CASE Release
  <2>1. UNCHANGED <<phase, outcome>> /\ phase \in {"release", "releaseUnplaced"}
    BY <1>4 DEF Release
  <2>2. QED
    BY <1>c, <2>1 DEF FilledLast
<1>5. CASE Released
  <2>1. /\ phase \in {"release", "releaseUnplaced"} /\ UNCHANGED <<accepted, outcome>>
        /\ phase' = IF Full THEN "fill" ELSE IF phase = "release" THEN "ring" ELSE "widen"
    BY <1>5 DEF Released
  <2>2. Full' = Full
    BY <2>1 DEF Full
  <2>3. QED
    BY <1>c, <2>1, <2>2 DEF FilledLast
<1>6. CASE SearchRing
  BY <1>6, <1>c DEF SearchRing, FilledLast
<1>7. CASE GoCountryWide
  BY <1>7, <1>c DEF GoCountryWide, FilledLast
<1>8. CASE Widen
  BY <1>8, <1>a, <1>b, <1>c DEF Widen, FilledLast, StepsInOrder
<1>9. CASE Ask
  <2>1. phase = "ask" /\ UNCHANGED <<outcome, budget, accepted, stopped, widened>>
    BY <1>9 DEF Ask
  <2>2. phase' = "fill" => Full \/ Spent
    BY <1>9 DEF Ask, LeaveCountry
  <2>3. phase' \in {"ask", "asked", "queue", "fill"} /\ Full' = Full
    BY <1>9, <2>1 DEF Ask, LeaveCountry, Full
  <2>4. QED
    BY <1>b, <1>c, <2>1, <2>2, <2>3 DEF FilledLast, Spent
<1>10. CASE Answer
  BY <1>10, <1>c DEF Answer, FilledLast, LeaveCountry
<1>11. CASE AskFails
  BY <1>11, <1>c DEF AskFails, FilledLast, LeaveCountry
<1>12. CASE ResponseDone
  BY <1>12, <1>c DEF ResponseDone, FilledLast, LeaveCountry
<1>13. CASE ResponseLeft
  <2>1. Full /\ phase = "decide" /\ phase' = "fill" /\ UNCHANGED <<accepted, outcome>>
    BY <1>13 DEF ResponseLeft
  <2>2. Full'
    BY <2>1 DEF Full
  <2>3. QED
    BY <1>c, <2>1, <2>2 DEF FilledLast
<1>14. CASE Decision
  <2>1. PICK p \in Pages :
          /\ Deciding(p)
          /\ \/ UNCHANGED <<Lists, uncounted, unreviewed>>
             \/ Rejects(p)
             \/ Holds(p, "geoMismatch", 0)
             \/ \E n \in Nat : Holds(p, "lowActiveAds", n)
             \/ Takes(p)
    BY <1>14, <1>a, DecisionSteps
  <2>2. phase = "decide" /\ UNCHANGED <<phase, outcome>>
    BY <2>1 DEF Deciding
  <2>3. QED
    BY <1>c, <2>2 DEF FilledLast
<1>15. CASE FillBegins
  <2>1. /\ phase = "fill" /\ phase' \in {"finish", "fillFar"}
        /\ UNCHANGED <<budget, widened, accepted, held, stopped, uncounted, outcome>>
        /\ phase' = "finish" => Full \/ DOMAIN held = {}
    BY <1>15 DEF FillBegins
  <2>2. Full' = Full /\ Seen' = Seen
    BY <2>1 DEF Full, Seen
  <2>3. QED
    BY <1>a, <1>b, <1>c, <2>1, <2>2 DEF FilledLast
<1>16. CASE Fill
  <2>1. PICK p \in DOMAIN held :
          /\ p \in todo /\ p \notin Seen /\ todo' = todo \ {p}
          /\ uncounted' \in SUBSET Pages /\ uncounted \subseteq uncounted' \cup {p}
          /\ \/ Accepts(p)
             \/ UNCHANGED accepted /\ (phase = "fillFew" => p \in uncounted')
    BY <1>16, <1>a, FillSteps
  <2>2. phase \in {"fillFar", "fillFew"} /\ ~Full
        /\ UNCHANGED <<phase, budget, widened, held, stopped, outcome>>
    BY <1>16, <1>a, FillSteps
  <2>3. p \in Pages
    BY <1>a DEF Types
  <2>4. Seen \subseteq Seen' /\ (Accepts(p) => p \in Seen')
    <3>1. CASE UNCHANGED accepted /\ ~Accepts(p)
      BY <3>1 DEF Seen
    <3>2. CASE Accepts(p)
      BY <1>a, <2>1, <2>2, <2>3, <3>2, ListGrows DEF OnePlace
    <3>3. QED
      BY <2>1, <3>1, <3>2
  <2>5. phase = "fillFew" => DOMAIN held' \subseteq todo' \cup Seen' \cup uncounted'
    <3>1. SUFFICES ASSUME phase = "fillFew"
                   PROVE  DOMAIN held \subseteq todo' \cup Seen' \cup uncounted'
      BY <2>2
    <3>2. DOMAIN held \subseteq todo \cup Seen \cup uncounted
      BY <1>a, <3>1 DEF FilledLast
    <3>3. p \in Seen' \cup uncounted'
      BY <2>1, <2>4, <3>1
    <3>4. QED
      BY <2>1, <2>4, <3>2, <3>3
  <2>6. ~stopped => widened \/ budget >= setting.limit
    BY <1>a, <2>2 DEF FilledLast
  <2>7. QED
    BY <1>b, <1>c, <2>2, <2>5, <2>6 DEF FilledLast
<1>17. CASE FillGoesOn
  <2>1. /\ phase = "fillFar" /\ phase' \in {"finish", "fillFew"}
        /\ UNCHANGED <<budget, widened, accepted, held, stopped, uncounted, outcome>>
        /\ phase' = "finish" => Full \/ stopped
        /\ phase' = "fillFew" => todo' = DOMAIN held
    BY <1>17 DEF FillGoesOn
  <2>2. Full' = Full /\ Seen' = Seen
    BY <2>1 DEF Full, Seen
  <2>3. QED
    BY <1>a, <1>b, <1>c, <2>1, <2>2 DEF FilledLast
<1>18. CASE FillEnds
  <2>1. /\ phase = "fillFew" /\ phase' = "finish" /\ (Full \/ Fillable = {})
        /\ UNCHANGED <<budget, widened, accepted, held, stopped, uncounted, outcome>>
    BY <1>18 DEF FillEnds
  <2>2. Full' = Full /\ Seen' = Seen
    BY <2>1 DEF Full, Seen
  <2>3. ~Full => DOMAIN held \subseteq Seen \cup uncounted
    BY <1>a, <2>1 DEF FilledLast, Fillable, OnePlace
  <2>4. QED
    BY <1>a, <1>b, <1>c, <2>1, <2>2, <2>3 DEF FilledLast
<1>19. CASE Finish
  <2>1. /\ phase = "finish" /\ phase' = "ended"
        /\ UNCHANGED <<budget, widened, accepted, held, stopped, uncounted>>
        /\ outcome' \in {"partial", "failed"} => ~stopped /\ ~Full
    BY <1>19, <1>c DEF Finish
  <2>2. Seen' = Seen
    BY <2>1 DEF Seen
  <2>3. QED
    BY <1>a, <1>b, <2>1, <2>2 DEF FilledLast
<1>20. CASE CreditRefused
  <2>1. phase # "ended" /\ phase' = "ended" /\ outcome' \in {outcome, "error"}
    BY <1>20 DEF CreditRefused
  <2>2. QED
    BY <1>c, <2>1 DEF FilledLast
<1>21. CASE Stop
  <2>1. phase # "ended" /\ stopped' = TRUE
        /\ UNCHANGED <<phase, budget, widened, accepted, held, todo, uncounted, outcome>>
    BY <1>21 DEF Stop
  <2>2. Seen' = Seen /\ Full' = Full
    BY <2>1 DEF Seen, Full
  <2>3. QED
    BY <1>a, <1>b, <1>c, <2>1, <2>2 DEF FilledLast
<1>22. CASE UNCHANGED vars
  <2>1. Seen' = Seen /\ Full' = Full
    BY <1>22 DEF Seen, Full
  <2>2. QED
    BY <1>a, <1>22, <2>1 DEF FilledLast
<1>23. QED
  BY <1>1, <1>2, <1>3, <1>4, <1>5, <1>6, <1>7, <1>8, <1>9, <1>10, <1>11, <1>12, <1>13,
     <1>14, <1>15, <1>16, <1>17, <1>18, <1>19, <1>20, <1>21, <1>22
  DEF Next, Run, Decision

-----------------------------------------------------------------------------
(* The theorems.                                                           *)

(* A search begins well.                                                   *)
LEMMA InitHolds == Init => IInv
<1> SUFFICES ASSUME Init PROVE IInv
  OBVIOUS
<1>1. /\ setting \in Setting /\ setting.rings \in Nat /\ setting.limit \in Nat
      /\ setting.share \in Nat
  BY SearchAssumption DEF Init, Setting
<1>2. Types
  <2>1. query \in QueryRecord
    BY SearchAssumption DEF Init, NoQuery, QueryRecord
  <2>2. accepted \in Seq(Pages) /\ entries \in Seq(Pages)
    BY DEF Init
  <2>3. DOMAIN held = {} /\ DOMAIN ahead = {}
    BY DEF Init, None
  <2>4. planned \in 0 .. PlannedQueries /\ later \in 0 .. RingQueries + WideQueries
    BY SearchAssumption DEF Init, PlanFound
  <2>5. budget \in 0 .. setting.limit /\ level \in 0 .. setting.rings
        /\ stopPages \in 0 .. setting.limit /\ widePages \in 0 .. setting.limit
    BY <1>1 DEF Init
  <2>6. setting \in Settings /\ phase \in Phases /\ outcome = "running"
    BY DEF Init, Phases
  <2>7. /\ widened \in BOOLEAN /\ more \in BOOLEAN /\ stopped \in BOOLEAN
        /\ rejected \in SUBSET Pages /\ strict \in SUBSET Pages /\ analyzed \in SUBSET Pages
        /\ todo \in SUBSET Pages /\ uncounted \in SUBSET Pages /\ unreviewed \in SUBSET Pages
    BY DEF Init
  <2>8. QED
    BY <2>1, <2>2, <2>3, <2>4, <2>5, <2>6, <2>7 DEF Types
<1>3. TypeOK
  BY <1>2, TypesFlat
<1>4. StepsInOrder
  BY DEF Init, StepsInOrder
<1>5. ListedOnce /\ Seen = {}
  BY SearchAssumption DEF Init, ListedOnce, IsInjective, Seen, Range
<1>6. OnePlace
  BY <1>5 DEF Init, OnePlace, None
<1>7. AskedInTime
  BY <1>1 DEF Init, AskedInTime, InQuery
<1>8. RingsPaid
  <2>1. /\ QueryPages \in Nat /\ RingBound \in Int
        /\ PlannedQueries * QueryPages <= RingBound
    BY <1>3, PagesBounded
  <2>2. PagesToPay = 0 + 0 + planned * QueryPages
    <3>1. planned \in Nat /\ planned + later = planned
      BY SearchAssumption DEF Init, PlanFound
    <3>2. PagesLeft = 0 /\ budget = 0
      BY DEF Init, PagesLeft, InQuery
    <3>3. QED
      BY <3>1, <3>2 DEF PagesToPay
  <2>3. planned \in Nat /\ PlannedQueries \in Nat /\ planned <= PlannedQueries
    BY SearchAssumption DEF Init, PlanFound
  <2>4. /\ planned * QueryPages \in Nat /\ PlannedQueries * QueryPages \in Nat
        /\ planned * QueryPages <= PlannedQueries * QueryPages
    BY <2>1, <2>3, TimesGrow
  <2> DEFINE u == planned * QueryPages  v == PlannedQueries * QueryPages
  <2>5. u \in Nat /\ v \in Nat /\ u <= v /\ v <= RingBound /\ PagesToPay = 0 + 0 + u
    BY <2>1, <2>2, <2>4
  <2> HIDE DEF u, v
  <2>6. PagesToPay <= RingBound
    BY <2>1, <2>5
  <2>7. QED
    BY <2>6 DEF Init, RingsPaid, RingsKeepTheShare, InQuery
<1>9. RejectedForGood /\ FilledLast
  BY DEF Init, RejectedForGood, FilledLast
<1>10. LocalsReleased
  BY <1>5 DEF Init, LocalsReleased, FarHeld, None
<1>11. QED
  BY <1>3, <1>4, <1>6, <1>7, <1>8, <1>9, <1>10 DEF IInv

(* Every step of the search keeps the invariant.                           *)
LEMMA StepKeeps == IInv /\ [Next]_vars => IInv'
<1> SUFFICES ASSUME IInv, [Next]_vars PROVE IInv'
  OBVIOUS
<1>1. TypeOK' /\ StepsInOrder' /\ OnePlace' /\ AskedInTime' /\ RingsPaid'
  BY TypesKept, OrderKept, PlaceKept, InTimeKept, RingsPaidKept
<1>2. LocalsReleased' /\ RejectedForGood' /\ FilledLast'
  BY <1>1, ReleasedKept, RejectionKept, FilledKept
<1>3. QED
  BY <1>1, <1>2 DEF IInv

(* The invariant of the search.                                            *)
THEOREM InductiveInvariant == Spec => []IInv
  BY InitHolds, StepKeeps, PTL DEF Spec

(* Whatever steps list, hold, ask and fail in between, the search keeps    *)
(* its bounds: nobody is listed twice, the rings leave the country-wide    *)
(* step its share of the pages, and a Stop lets one page more be read      *)
(* (acceptCompetitor, pageBudget, isSearchJobSuppressed).                  *)
THEOREM BoundsAreKept == Spec => []BoundsKept
<1>1. IInv => BoundsKept
  <2> SUFFICES ASSUME IInv PROVE BoundsKept
    OBVIOUS
  <2>1. TypeOK /\ ListedOnce /\ RingsKeepTheShare
    BY DEF IInv, OnePlace, RingsPaid
  <2>2. budget \in Nat /\ stopPages \in Nat
    BY <2>1, Market DEF TypeOK
  <2>3. StopEndsTheSearch
    BY <2>2 DEF IInv, AskedInTime, StopEndsTheSearch
  <2>4. QED
    BY <2>1, <2>3 DEF BoundsKept
<1>2. QED
  BY <1>1, InductiveInvariant, PTL

(* A local search lists nobody from outside its rings, and takes the       *)
(* rivals it holds before any country-wide page (releaseHeldLocals).       *)
THEOREM LocalsAlwaysFirst == Spec => []LocalsFirst
<1>1. IInv => LocalsFirst
  BY DEF IInv, LocalsReleased, LocalsFirst
<1>2. QED
  BY <1>1, InductiveInvariant, PTL

(* Only a page that does not pass the relaxed bar is turned down for good, *)
(* whichever bar the review started ahead was made at (prefetchReviews).   *)
THEOREM RejectionsAreFinal == Spec => []RejectedForGood
<1>1. IInv => RejectedForGood
  BY DEF IInv
<1>2. QED
  BY <1>1, InductiveInvariant, PTL

(* A search short of its target has gone country-wide or spent its pages,  *)
(* and holds no rival it could have listed (runCompetitorSearch).          *)
THEOREM EveryRivalTried == Spec => []NothingLeftUntried
<1>1. IInv => NothingLeftUntried
  BY DEF IInv, FilledLast, NothingLeftUntried
<1>2. QED
  BY <1>1, InductiveInvariant, PTL
=============================================================================
