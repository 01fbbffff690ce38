-------------------------- MODULE GoogleSearchProofs --------------------------
(***************************************************************************)
(* Proofs about a Google or YouTube competitor search, for any number of   *)
(* advertisers, sites, rings, rounds and parallel reviews and every limit. *)
(***************************************************************************)
EXTENDS GoogleSearch, FiniteSetTheorems, TLAPS

-----------------------------------------------------------------------------
(* The invariant.                                                          *)

(* The last step of a round; of no round, none.                            *)
RoundEnd(r) == IF r = 0 THEN 0 ELSE Rounds[r]

(* A step has been entered and is not over.                                *)
InStep == phase \in {"enter", "release", "go", "agent", "web", "check", "names", "flush", "review"}

(* The rounds of the agent follow each other without a gap, and a step on  *)
(* the web is a round of its own.                                          *)
StepsInOrder ==
  /\ round <= Len(Rounds)
  /\ mode = "agent" /\ phase = "next" => covered = RoundEnd(round)
  /\ mode = "agent" /\ InStep =>
       round >= 1 /\ covered = RoundEnd(round - 1) /\ last = RoundEnd(round)
  /\ mode # "agent" /\ InStep => step = last
  /\ InStep => 1 <= step /\ step <= last
  /\ phase = "agent" => mode = "agent"
  /\ phase \in {"web", "names"} => mode # "agent"
  /\ phase \in {"flush", "review"} /\ mode = "agent" => back = "check"
  /\ setting.rings > 0 => reach >= 1

(* Who is with a worker.                                                   *)
Busy == {"qualify", "review", "take"}
UnderReview == {worker[w].who : w \in {v \in Workers : worker[v].at \in Busy}}

(* An advertiser is in one place only, and it has been seen.               *)
OnePlace ==
  /\ IsInjective(accepted)
  /\ Listed \subseteq seen /\ held \subseteq seen /\ pending \subseteq seen
  /\ batch \subseteq seen /\ UnderReview \subseteq seen
  /\ Listed \cap held = {} /\ todo \subseteq held
  /\ pending \cap (Listed \cup held \cup batch \cup UnderReview) = {}
  /\ batch \cap (Listed \cup held \cup UnderReview) = {}
  /\ UnderReview \cap (Listed \cup held) = {}
  /\ \A v, w \in Workers :
       worker[v].at \in Busy /\ worker[w].at \in Busy /\ worker[v].who = worker[w].who => v = w

NobodyAtWork == batch = {} /\ \A w \in Workers : worker[w].at = "free"

(* Reviews run while the main flow waits for them, or after one of them    *)
(* has failed the run.                                                     *)
ReviewsAwaited == phase \notin {"review", "ended"} => NobodyAtWork

(* The held rivals that the area now searched no longer holds back.        *)
Ripe == {a \in held : countryWide \/ Inside(a)}

ReleasedFirst ==
  ~Done =>
    /\ phase = "release" => Ripe \subseteq todo
    /\ InStep /\ phase # "release" => Ripe = {}
    /\ phase = "next" => Ripe = {}

(* A site is checked once, and one check is counted.                       *)
SitesCounted == SitesPaidOnce /\ sites \cap checked = {}

(* The steps behind the one under way have been searched.                  *)
StepsSearched ==
  /\ searched \subseteq 1 .. LastStep
  /\ mode = "agent" /\ (InStep \/ phase = "next") => 1 .. covered \subseteq searched
  /\ mode # "agent" =>
       /\ phase = "next" => 1 .. step \subseteq searched
       /\ InStep => 1 .. (step - 1) \subseteq searched
       /\ phase \in {"check", "names", "flush", "review"} => step \in searched
  /\ phase \in {"lastHeld", "lastRelease", "finish"} /\ ~Done => searched = 1 .. LastStep
  /\ phase = "lastRelease" /\ ~Done => held \subseteq todo
  /\ phase = "finish" /\ ~Done => held = {}
  /\ outcome \in {"partial", "failed"} =>
       /\ phase = "ended" /\ NobodyAtWork
       /\ searched = 1 .. LastStep /\ held = {}

IInv ==
  /\ TypeOK /\ ListFits /\ StepsInOrder /\ OnePlace /\ ReviewsAwaited /\ ReleasedFirst
  /\ SitesCounted /\ StepsSearched

-----------------------------------------------------------------------------
(* What the proofs need of rounds, slices and lists.                       *)

LEMMA RoundsGrow ==
  ASSUME TypeOK
  PROVE  /\ setting \in Setting /\ setting.rings \in Nat
         /\ LastStep \in Nat /\ Len(Rounds) \in {2, 3}
         /\ \A r \in 1 .. Len(Rounds) :
              RoundEnd(r) \in 1 .. LastStep /\ RoundEnd(r - 1) < RoundEnd(r)
         /\ RoundEnd(0) = 0 /\ RoundEnd(Len(Rounds)) = LastStep
         /\ \A r \in 1 .. Len(Rounds) : Rounds[r] = RoundEnd(r)
<1>1. setting \in Setting /\ setting.rings \in Nat
  BY GoogleAssumption DEF TypeOK, Setting
<1>2. CASE setting.rings = 0
  <2>1. Rounds = <<1, 2>> /\ Len(Rounds) = 2 /\ Rounds[1] = 1 /\ Rounds[2] = 2
    BY <1>2 DEF Rounds
  <2>2. QED
    BY <1>1, <1>2, <2>1 DEF RoundEnd, LastStep
<1>3. CASE setting.rings # 0
  <2> DEFINE h == (setting.rings + 1) \div 2
  <2>1. /\ Len(Rounds) = 3 /\ Rounds[1] = h
        /\ Rounds[2] = setting.rings + 1 /\ Rounds[3] = setting.rings + 2
    BY <1>3 DEF Rounds
  <2>2. h \in Nat /\ 1 <= h /\ h <= setting.rings
    BY <1>1, <1>3
  <2> HIDE DEF h
  <2>3. QED
    BY <1>1, <1>3, <2>1, <2>2 DEF RoundEnd, LastStep
<1>4. QED
  BY <1>2, <1>3

LEMMA LeastOfThree ==
  ASSUME NEW a \in Int, NEW b \in Int, NEW c \in Int
  PROVE  /\ Min({a, b, c}) \in {a, b, c}
         /\ Min({a, b, c}) <= a /\ Min({a, b, c}) <= b /\ Min({a, b, c}) <= c
<1>1. \E x \in {a, b, c} : \A y \in {a, b, c} : x <= y
  <2>1. CASE a <= b /\ a <= c
    BY <2>1
  <2>2. CASE b <= a /\ b <= c
    BY <2>2
  <2>3. CASE c <= a /\ c <= b
    BY <2>3
  <2>4. QED
    BY <2>1, <2>2, <2>3
<1>2. QED
  BY <1>1 DEF Min

(* A slice is no more than what is left to check and what may be paid for. *)
LEMMA SlicePaid ==
  ASSUME TypeOK
  PROVE  /\ SliceSize \in Int /\ SliceSize <= Cardinality(sites)
         /\ SliceSize <= Allowance - used[Source]
         /\ IsFiniteSet(sites) /\ IsFiniteSet(checked)
         /\ Source \in {"web", "sponsored"} /\ used[Source] \in Nat
         /\ used["web"] \in Nat /\ used["sponsored"] \in Nat
<1>1. IsFiniteSet(sites) /\ IsFiniteSet(checked)
  BY GoogleAssumption, FS_Subset DEF TypeOK
<1>2. Cardinality(sites) \in Nat /\ Cardinality(Workers) \in Nat
  BY <1>1, GoogleAssumption, FS_CardinalityType
<1>3. /\ Source \in {"web", "sponsored"} /\ used[Source] \in Nat
      /\ used["web"] \in Nat /\ used["sponsored"] \in Nat
  BY DEF TypeOK, Source
<1>4. Allowance \in Nat
  BY GoogleAssumption DEF Allowance
<1> DEFINE a == Cardinality(sites)  b == Cardinality(Workers)  c == Allowance - used[Source]
<1>5. a \in Int /\ b \in Int /\ c \in Int
  BY <1>2, <1>3, <1>4
<1>6. SliceSize = Min({a, b, c})
  BY DEF SliceSize
<1> HIDE DEF a, b, c
<1>7. SliceSize \in {a, b, c} /\ SliceSize <= a /\ SliceSize <= c
  BY <1>5, <1>6, LeastOfThree
<1>8. SliceSize \in Int
  BY <1>5, <1>7
<1>9. QED
  BY <1>1, <1>3, <1>7, <1>8 DEF a, c


(* The types, one variable at a time.                                      *)
Types ==
  /\ setting \in Settings /\ phase \in Phases /\ mode \in {"agent", "web", "last"}
  /\ back \in {"check", "names"}
  /\ step \in 0 .. LastStep /\ last \in 0 .. LastStep /\ covered \in 0 .. LastStep
  /\ round \in Nat /\ reach \in Nat /\ names \in Nat
  /\ countryWide \in BOOLEAN /\ stopped \in BOOLEAN
  /\ accepted \in Seq(Advertisers) /\ held \in SUBSET Advertisers
  /\ seen \in SUBSET Advertisers /\ pending \in SUBSET Advertisers
  /\ batch \in SUBSET Advertisers /\ todo \in SUBSET Advertisers
  /\ checked \in SUBSET Sites /\ reported \in SUBSET Sites /\ sites \in SUBSET Sites
  /\ used \in [{"web", "sponsored"} -> Nat]
  /\ worker \in [Workers -> Worker]
  /\ outcome \in {"running", "completed", "partial", "failed", "error"}

LEMMA TypesFlat == (TypeOK <=> Types) /\ (TypeOK' <=> Types')
  BY DEF TypeOK, Types

(* The states of a worker.                                                 *)
LEMMA WorkerStates ==
  ASSUME NEW a \in Advertisers, NEW x \in Worker
  PROVE  /\ Free \in Worker /\ Free.at = "free"
         /\ [Free EXCEPT !.at = "qualify", !.who = a] \in Worker
         /\ [Free EXCEPT !.at = "qualify", !.who = a].at = "qualify"
         /\ [Free EXCEPT !.at = "qualify", !.who = a].who = a
         /\ [x EXCEPT !.at = "review"] \in Worker
         /\ [x EXCEPT !.at = "review"].at = "review" /\ [x EXCEPT !.at = "review"].who = x.who
         /\ [x EXCEPT !.at = "take"] \in Worker
         /\ [x EXCEPT !.at = "take"].at = "take" /\ [x EXCEPT !.at = "take"].who = x.who
         /\ [Free EXCEPT !.at = "failed"] \in Worker
         /\ [Free EXCEPT !.at = "failed"].at = "failed"
<1>1. Free \in Worker /\ Free.at = "free"
  BY DEF Worker, Free
<1>2. /\ [Free EXCEPT !.at = "qualify", !.who = a] \in Worker
      /\ [Free EXCEPT !.at = "qualify", !.who = a].at = "qualify"
      /\ [Free EXCEPT !.at = "qualify", !.who = a].who = a
  BY <1>1 DEF Worker
<1>3. QED
  BY <1>1, <1>2 DEF Worker

(* What one worker does: it changes its own state, takes at most one       *)
(* advertiser off the batch and lists or holds at most its own.            *)
LEMMA WorkerSteps ==
  ASSUME TypeOK, NEW w \in Workers, Review(w) \/ ReviewRefused(w)
  PROVE  \E x \in Worker :
           /\ worker' = [worker EXCEPT ![w] = x]
           /\ \/ /\ x.at = "qualify" /\ worker[w].at = "free" /\ ~Done
                 /\ x.who \in batch /\ batch' = batch \ {x.who}
                 /\ UNCHANGED <<accepted, held>>
              \/ /\ \E a \in batch : batch' = batch \ {a}
                 /\ x = worker[w] /\ x.at = "free"
                 /\ UNCHANGED <<accepted, held>>
              \/ /\ worker[w].at \in Busy /\ x.at \in Busy /\ x.who = worker[w].who
                 /\ UNCHANGED <<accepted, held, batch>>
              \/ /\ worker[w].at \in Busy /\ x.at \notin Busy /\ UNCHANGED batch
                 /\ x.at = "free" \/ (x.at = "failed" /\ ReviewRefused(w))
                 /\ \/ UNCHANGED <<accepted, held>>
                    \/ /\ ~countryWide /\ ~Inside(worker[w].who)
                       /\ held' = held \cup {worker[w].who} /\ UNCHANGED accepted
                    \/ ~Done /\ accepted' = Append(accepted, worker[w].who) /\ UNCHANGED held
<1> USE DEF Busy
<1>1. worker \in [Workers -> Worker] /\ worker[w] \in Worker /\ batch \subseteq Advertisers
  BY DEF TypeOK
<1>2. worker = [worker EXCEPT ![w] = worker[w]]
  BY <1>1
<1>f. Free \in Worker /\ Free.at = "free"
  BY DEF Free, Worker
<1>3. CASE PickUp(w)
  <2>1. PICK a \in batch :
          /\ batch' = batch \ {a} /\ worker[w].at = "free"
          /\ worker' = IF Done THEN worker
                       ELSE [worker EXCEPT ![w] = [Free EXCEPT !.at = "qualify", !.who = a]]
          /\ UNCHANGED <<accepted, held>>
    BY <1>3 DEF PickUp, Lists
  <2> DEFINE x == [Free EXCEPT !.at = "qualify", !.who = a]
  <2>2. x \in Worker /\ x.at = "qualify" /\ x.who = a
    BY <1>1, WorkerStates
  <2> HIDE DEF x
  <2>3. CASE Done
    BY <1>1, <1>2, <2>1, <2>3
  <2>4. CASE ~Done
    <3>1. worker' = [worker EXCEPT ![w] = x]
      BY <2>1, <2>4 DEF x
    <3>2. QED
      BY <2>1, <2>2, <2>4, <3>1
  <2>5. QED
    BY <2>3, <2>4
<1>4. CASE StartReview(w)
  <2> DEFINE x == [worker[w] EXCEPT !.at = "review"]
  <2>1. /\ worker[w].at = "qualify" /\ UNCHANGED <<accepted, held, batch>>
        /\ worker' = [worker EXCEPT ![w] = IF Done THEN Free ELSE x]
    BY <1>4 DEF StartReview, Lists
  <2>2. x \in Worker /\ x.at = "review" /\ x.who = worker[w].who
    BY <1>1, WorkerStates DEF Worker
  <2> HIDE DEF x
  <2>3. CASE Done
    BY <1>f, <2>1, <2>3
  <2>4. CASE ~Done
    BY <2>1, <2>2, <2>4
  <2>5. QED
    BY <2>3, <2>4
<1>5. CASE TurnDown(w)
  BY <1>5, <1>f DEF TurnDown, Lists
<1>6. CASE PassReview(w)
  <2> DEFINE x == [worker[w] EXCEPT !.at = "take"]
  <2>1. /\ worker[w].at = "review" /\ UNCHANGED <<accepted, batch>>
        /\ IF countryWide \/ Inside(worker[w].who)
           THEN worker' = [worker EXCEPT ![w] = x] /\ UNCHANGED held
           ELSE worker' = [worker EXCEPT ![w] = Free] /\ held' = held \cup {worker[w].who}
    BY <1>6 DEF PassReview
  <2>2. x \in Worker /\ x.at = "take" /\ x.who = worker[w].who
    BY <1>1, WorkerStates DEF Worker
  <2> HIDE DEF x
  <2>3. CASE countryWide \/ Inside(worker[w].who)
    BY <2>1, <2>2, <2>3
  <2>4. CASE ~(countryWide \/ Inside(worker[w].who))
    BY <1>f, <2>1, <2>4
  <2>5. QED
    BY <2>3, <2>4
<1>7. CASE Take(w)
  BY <1>7, <1>f DEF Take
<1>8. CASE ReviewRefused(w)
  <2> DEFINE x == [Free EXCEPT !.at = "failed"]
  <2>1. /\ worker[w].at = "review" /\ worker' = [worker EXCEPT ![w] = x]
        /\ UNCHANGED <<accepted, held, batch>>
    BY <1>8 DEF ReviewRefused, Lists
  <2>2. x \in Worker /\ x.at = "failed"
    BY DEF Free, Worker
  <2> HIDE DEF x
  <2>3. QED
    BY <1>8, <2>1, <2>2
<1>9. QED
  BY <1>3, <1>4, <1>5, <1>6, <1>7, <1>8 DEF Review

(* What no worker touches; a refused review ends the run.                  *)
LEMMA WorkerLeaves ==
  ASSUME NEW w \in Workers, Review(w) \/ ReviewRefused(w)
  PROVE  /\ UNCHANGED <<setting, mode, step, last, round, covered, back, reach, countryWide,
                        seen, checked, used, reported, sites, names, pending, todo, stopped,
                        searched>>
         /\ \/ UNCHANGED <<phase, outcome>>
            \/ /\ ReviewRefused(w) /\ worker[w].at = "review" /\ phase' = "ended"
               /\ outcome' \in {outcome, "error"}
  BY DEF Review, PickUp, StartReview, TurnDown, PassReview, Take, ReviewRefused, Others, Lists,
         Area, Found, Failure

(* The market of a search is given once.                                   *)
LEMMA SettingStays ==
  [Next]_vars => UNCHANGED <<setting, LastStep, Rounds>> /\ \A r : UNCHANGED RoundEnd(r)
<1> SUFFICES ASSUME [Next]_vars PROVE setting' = setting
  BY DEF LastStep, Rounds, RoundEnd
<1> USE DEF vars, Place, Area, Lists, Found, Reviews, Status, Others
<1>1. CASE RoundBegins
  BY <1>1 DEF RoundBegins
<1>2. CASE RoundsOver
  BY <1>2 DEF RoundsOver
<1>3. CASE StepBegins
  BY <1>3 DEF StepBegins
<1>4. CASE StepsOver
  BY <1>4 DEF StepsOver
<1>5. CASE EnterStep
  BY <1>5 DEF EnterStep
<1>6. CASE Release
  BY <1>6 DEF Release
<1>7. CASE Released
  BY <1>7 DEF Released
<1>8. CASE Go
  BY <1>8 DEF Go
<1>9. CASE AgentFinds
  BY <1>9 DEF AgentFinds
<1>10. CASE AgentEnds
  BY <1>10 DEF AgentEnds
<1>11. CASE AgentFails
  BY <1>11 DEF AgentFails
<1>12. CASE WebSearch
  BY <1>12 DEF WebSearch
<1>13. CASE CheckSites
  BY <1>13 DEF CheckSites
<1>14. CASE CheckOver
  BY <1>14 DEF CheckOver
<1>15. CASE SearchNames
  BY <1>15 DEF SearchNames
<1>16. CASE NamesOver
  BY <1>16 DEF NamesOver
<1>17. CASE Flush
  BY <1>17 DEF Flush
<1>18. CASE ReviewsDone
  BY <1>18 DEF ReviewsDone
<1>19. CASE LastHeld
  BY <1>19 DEF LastHeld
<1>20. CASE Finish
  BY <1>20 DEF Finish
<1>21. CASE SearchRefused
  BY <1>21 DEF SearchRefused
<1>22. CASE Stop
  BY <1>22 DEF Stop
<1>23. ASSUME NEW w \in Workers, Review(w) \/ ReviewRefused(w) PROVE setting' = setting
  BY <1>23, WorkerLeaves
<1>24. CASE UNCHANGED vars
  BY <1>24
<1>25. QED
  BY <1>1, <1>2, <1>3, <1>4, <1>5, <1>6, <1>7, <1>8, <1>9, <1>10, <1>11, <1>12, <1>13, 
     <1>14, <1>15, <1>16, <1>17, <1>18, <1>19, <1>20, <1>21, <1>22, <1>23, <1>24
  DEF Next, Main
(* Types.                                                                  *)
LEMMA TypesKept == IInv /\ [Next]_vars => TypeOK'
<1> SUFFICES ASSUME IInv, [Next]_vars PROVE TypeOK'
  OBVIOUS
<1> USE DEF vars, Place, Area, Lists, Found, Reviews, Status, Others
<1>a. TypeOK /\ StepsInOrder /\ Types
  BY TypesFlat DEF IInv
<1>b. /\ setting \in Setting /\ setting.rings \in Nat /\ LastStep \in Nat
      /\ Target \in Nat /\ StepChecks \in Nat /\ WebChecks \in Nat /\ SponsoredChecks \in Nat
      /\ NameQueries \in Nat /\ LastStep = setting.rings + 2
  BY <1>a, RoundsGrow, GoogleAssumption DEF LastStep
<1>l. LastStep' = LastStep
  BY SettingStays
<1>c. SUFFICES Types'
  BY TypesFlat
<1>1. CASE RoundBegins
  <2>1. /\ round + 1 \in 1 .. Len(Rounds) /\ round \in 0 .. Len(Rounds) - 1
        /\ covered = RoundEnd(round) /\ last' = RoundEnd(round + 1)
    BY <1>1, <1>a, RoundsGrow DEF RoundBegins, Types, StepsInOrder
  <2>2. RoundEnd(round + 1) \in 1 .. LastStep /\ RoundEnd(round + 1 - 1) < RoundEnd(round + 1)
    BY <1>a, <2>1, RoundsGrow
  <2>3. last' \in 0 .. LastStep /\ step' \in 0 .. LastStep
    <3>1. step' = covered + 1 /\ covered \in 0 .. LastStep /\ LastStep \in Nat
      BY <1>1, <1>a, <1>b DEF RoundBegins, Types
    <3>2. round + 1 - 1 = round
      BY <2>1
    <3>3. covered < last' /\ last' \in 1 .. LastStep
      BY <2>1, <2>2, <3>2
    <3>4. QED
      BY <3>1, <3>3
  <2>4. round' = round + 1 /\ round' \in Nat /\ phase' = "enter"
    BY <1>1, <1>a DEF RoundBegins, Types, NextRound
  <2>5. QED
    BY <1>1, <1>a, <1>l, <2>3, <2>4 DEF RoundBegins, Types, Phases
<1>2. CASE RoundsOver
  BY <1>2, <1>a, <1>b, <1>l DEF RoundsOver, Types, Phases
<1>3. CASE StepBegins
  BY <1>3, <1>a, <1>b, <1>l DEF StepBegins, Types, Phases
<1>4. CASE StepsOver
  BY <1>4, <1>a, <1>b, <1>l DEF StepsOver, Types, Phases
<1>5. CASE EnterStep
  <2>1. step \in Nat /\ HeldInside(step) \subseteq Advertisers
    BY <1>a, <1>b DEF Types, HeldInside
  <2>2. reach' \in {step, reach} /\ todo' \in {HeldInside(step), held, {}}
    BY <1>5 DEF EnterStep
  <2>3. countryWide' \in BOOLEAN
    BY <1>5, <1>a DEF EnterStep, Types
  <2>4. QED
    BY <1>5, <1>a, <1>b, <1>l, <2>1, <2>2, <2>3 DEF EnterStep, Types, Phases
<1>6. CASE Release
  BY <1>6, <1>a, <1>b, <1>l DEF Release, Types, Phases
<1>7. CASE Released
  <2>1. phase' \in {"finish", "enter", "go"} /\ todo' = {}
    BY <1>7 DEF Released
  <2>2. step' \in 0 .. LastStep
    <3>1. step' = step \/ (step < last /\ step' = step + 1)
      BY <1>7 DEF Released
    <3>2. step \in 0 .. LastStep /\ last \in 0 .. LastStep /\ LastStep \in Nat
      BY <1>a, <1>b DEF Types
    <3>3. QED
      BY <3>1, <3>2
  <2>3. UNCHANGED <<setting, mode, last, round, covered, back, Area, Lists, Found, Reviews,
                    Status, searched>>
    BY <1>7 DEF Released
  <2>4. QED
    BY <1>a, <1>l, <2>1, <2>2, <2>3 DEF Types, Phases
<1>8. CASE Go
  BY <1>8, <1>a, <1>b, <1>l DEF Go, Types, Phases
<1>9. CASE AgentFinds
  BY <1>9, <1>a, <1>b, <1>l DEF AgentFinds, Types, Phases
<1>10. CASE AgentEnds
  BY <1>10, <1>a, <1>b, <1>l DEF AgentEnds, Types, Phases
<1>11. CASE AgentFails
  BY <1>11, <1>a, <1>b, <1>l DEF AgentFails, Types, Phases, TakeOver
<1>12. CASE WebSearch
  BY <1>12, <1>a, <1>b, <1>l DEF WebSearch, Types, Phases
<1>13. CASE CheckSites
  <2>1. /\ used' = [used EXCEPT ![Source] = used[Source] + SliceSize] /\ SliceSize > 0
        /\ sites' \subseteq sites /\ checked' \subseteq checked \cup sites
    BY <1>13 DEF CheckSites, CheckedAfter, kSubset
  <2>2. pending' \subseteq Advertisers
    <3>1. PICK slice, answered : answered \subseteq slice /\ slice \subseteq sites
                                 /\ pending' = NewOn(answered)
      BY <1>13 DEF CheckSites, kSubset
    <3>2. \A s \in Sites : setting.ads[s] \subseteq Advertisers
      BY <1>b DEF Setting
    <3>3. QED
      BY <1>a, <3>1, <3>2 DEF NewOn, Types
  <2>3. SliceSize \in Nat /\ used[Source] \in Nat
    BY <1>a, <2>1, SlicePaid
  <2>4. used' \in [{"web", "sponsored"} -> Nat]
    BY <1>a, <2>1, <2>3, SlicePaid DEF Types
  <2>5. QED
    BY <1>13, <1>a, <1>b, <1>l, <2>1, <2>2, <2>4 DEF CheckSites, Types, Phases
<1>14. CASE CheckOver
  BY <1>14, <1>a, <1>b, <1>l DEF CheckOver, Types, Phases
<1>15. CASE SearchNames
  BY <1>15, <1>a, <1>b, <1>l DEF SearchNames, Types, Phases
<1>16. CASE NamesOver
  BY <1>16, <1>a, <1>b, <1>l DEF NamesOver, Types, Phases
<1>17. CASE Flush
  BY <1>17, <1>a, <1>b, <1>l DEF Flush, Types, Phases
<1>18. CASE ReviewsDone
  BY <1>18, <1>a, <1>b, <1>l DEF ReviewsDone, Types, Phases
<1>19. CASE LastHeld
  BY <1>19, <1>a, <1>b, <1>l DEF LastHeld, Types, Phases
<1>20. CASE Finish
  BY <1>20, <1>a, <1>b, <1>l DEF Finish, Types, Phases
<1>21. CASE SearchRefused
  BY <1>21, <1>a, <1>b, <1>l DEF SearchRefused, Types, Phases, Failure
<1>22. CASE Stop
  BY <1>22, <1>a, <1>b, <1>l DEF Stop, Types, Phases
<1>23. ASSUME NEW w \in Workers, Review(w) \/ ReviewRefused(w) PROVE Types'
  <2>1. worker' \in [Workers -> Worker] /\ batch' \subseteq Advertisers
        /\ accepted' \in Seq(Advertisers) /\ held' \subseteq Advertisers
    <3>1. worker \in [Workers -> Worker] /\ (worker[w].at \in Busy => worker[w].who \in Advertisers)
      BY <1>a DEF Types, IInv, OnePlace, UnderReview
    <3>2. PICK x \in Worker :
            /\ worker' = [worker EXCEPT ![w] = x] /\ batch' \subseteq batch
            /\ accepted' = accepted \/ (worker[w].at \in Busy /\ accepted' = Append(accepted, worker[w].who))
            /\ held' = held \/ (worker[w].at \in Busy /\ held' = held \cup {worker[w].who})
      BY <1>23, <1>a, WorkerSteps
    <3>3. worker' \in [Workers -> Worker] /\ batch' \subseteq Advertisers
      BY <1>a, <3>1, <3>2 DEF Types
    <3>4. accepted' \in Seq(Advertisers)
      BY <1>a, <3>1, <3>2 DEF Types
    <3>5. held' \subseteq Advertisers
      BY <1>a, <3>1, <3>2 DEF Types
    <3>6. QED
      BY <3>3, <3>4, <3>5
  <2>2. QED
    BY <1>23, <1>a, <1>l, <2>1, WorkerLeaves DEF Types, Phases
<1>24. CASE UNCHANGED vars
  BY <1>24, <1>a, <1>b, <1>l DEF Types, Phases
<1>25. QED
  BY <1>1, <1>2, <1>3, <1>4, <1>5, <1>6, <1>7, <1>8, <1>9, <1>10, <1>11, <1>12, <1>13, 
     <1>14, <1>15, <1>16, <1>17, <1>18, <1>19, <1>20, <1>21, <1>22, <1>23, <1>24
  DEF Next, Main
(* The list never grows past its target.                                   *)
LEMMA ListKept == IInv /\ [Next]_vars => ListFits'
<1> SUFFICES ASSUME IInv, [Next]_vars PROVE ListFits'
  OBVIOUS
<1> USE DEF vars, Place, Area, Lists, Found, Reviews, Status, Others
<1>a. TypeOK /\ Types /\ ListFits
  BY TypesFlat DEF IInv
<1>b. Target \in Nat
  BY GoogleAssumption
<1>1. CASE RoundBegins
  BY <1>1, <1>a, <1>b DEF RoundBegins, ListFits, Types, Done, Full
<1>2. CASE RoundsOver
  BY <1>2, <1>a, <1>b DEF RoundsOver, ListFits, Types, Done, Full
<1>3. CASE StepBegins
  BY <1>3, <1>a, <1>b DEF StepBegins, ListFits, Types, Done, Full
<1>4. CASE StepsOver
  BY <1>4, <1>a, <1>b DEF StepsOver, ListFits, Types, Done, Full
<1>5. CASE EnterStep
  BY <1>5, <1>a, <1>b DEF EnterStep, ListFits, Types, Done, Full
<1>6. CASE Release
  BY <1>6, <1>a, <1>b DEF Release, ListFits, Types, Done, Full
<1>7. CASE Released
  BY <1>7, <1>a, <1>b DEF Released, ListFits, Types, Done, Full
<1>8. CASE Go
  BY <1>8, <1>a, <1>b DEF Go, ListFits, Types, Done, Full
<1>9. CASE AgentFinds
  BY <1>9, <1>a, <1>b DEF AgentFinds, ListFits, Types, Done, Full
<1>10. CASE AgentEnds
  BY <1>10, <1>a, <1>b DEF AgentEnds, ListFits, Types, Done, Full
<1>11. CASE AgentFails
  BY <1>11, <1>a, <1>b DEF AgentFails, ListFits, Types, Done, Full
<1>12. CASE WebSearch
  BY <1>12, <1>a, <1>b DEF WebSearch, ListFits, Types, Done, Full
<1>13. CASE CheckSites
  BY <1>13, <1>a, <1>b DEF CheckSites, ListFits, Types, Done, Full
<1>14. CASE CheckOver
  BY <1>14, <1>a, <1>b DEF CheckOver, ListFits, Types, Done, Full
<1>15. CASE SearchNames
  BY <1>15, <1>a, <1>b DEF SearchNames, ListFits, Types, Done, Full
<1>16. CASE NamesOver
  BY <1>16, <1>a, <1>b DEF NamesOver, ListFits, Types, Done, Full
<1>17. CASE Flush
  BY <1>17, <1>a, <1>b DEF Flush, ListFits, Types, Done, Full
<1>18. CASE ReviewsDone
  BY <1>18, <1>a, <1>b DEF ReviewsDone, ListFits, Types, Done, Full
<1>19. CASE LastHeld
  BY <1>19, <1>a, <1>b DEF LastHeld, ListFits, Types, Done, Full
<1>20. CASE Finish
  BY <1>20, <1>a, <1>b DEF Finish, ListFits, Types, Done, Full
<1>21. CASE SearchRefused
  BY <1>21, <1>a, <1>b DEF SearchRefused, ListFits, Types, Done, Full
<1>22. CASE Stop
  BY <1>22, <1>a, <1>b DEF Stop, ListFits, Types, Done, Full
<1>23. ASSUME NEW w \in Workers, Review(w) \/ ReviewRefused(w) PROVE ListFits'
  <2>1. worker[w].at \in Busy => worker[w].who \in Advertisers
    BY <1>a DEF Types, IInv, OnePlace, UnderReview
  <2>2. \/ accepted' = accepted
        \/ ~Done /\ worker[w].at \in Busy /\ accepted' = Append(accepted, worker[w].who)
    BY <1>23, <1>a, WorkerSteps
  <2>3. QED
    BY <1>a, <1>b, <2>1, <2>2 DEF ListFits, Types, Done, Full
<1>24. CASE UNCHANGED vars
  BY <1>24, <1>a, <1>b DEF ListFits, Types, Done, Full
<1>25. QED
  BY <1>1, <1>2, <1>3, <1>4, <1>5, <1>6, <1>7, <1>8, <1>9, <1>10, <1>11, <1>12, <1>13, 
     <1>14, <1>15, <1>16, <1>17, <1>18, <1>19, <1>20, <1>21, <1>22, <1>23, <1>24
  DEF Next, Main

(* The steps follow each other.                                            *)
LEMMA OrderKept == IInv /\ [Next]_vars => StepsInOrder'
<1> SUFFICES ASSUME IInv, [Next]_vars PROVE StepsInOrder'
  OBVIOUS
<1> USE DEF vars, Place, Area, Lists, Found, Reviews, Status, Others
<1>a. TypeOK /\ Types /\ StepsInOrder
  BY TypesFlat DEF IInv
<1>b. /\ setting.rings \in Nat /\ LastStep \in Nat /\ Len(Rounds) \in {2, 3}
      /\ \A r \in 1 .. Len(Rounds) :
           /\ RoundEnd(r) \in 1 .. LastStep /\ RoundEnd(r - 1) < RoundEnd(r)
           /\ Rounds[r] = RoundEnd(r)
      /\ RoundEnd(0) = 0 /\ RoundEnd(Len(Rounds)) = LastStep
  BY <1>a, RoundsGrow
<1>l. setting' = setting /\ LastStep' = LastStep /\ Rounds' = Rounds
  BY SettingStays
<1>e. /\ RoundEnd(round)' = RoundEnd(round') /\ RoundEnd(round - 1)' = RoundEnd(round' - 1)
  BY <1>l DEF RoundEnd
<1>1. CASE RoundBegins
  BY <1>1, <1>a, <1>b, <1>l, <1>e DEF RoundBegins, StepsInOrder, InStep, Types, Phases, NextRound
<1>2. CASE RoundsOver
  BY <1>2, <1>a, <1>b, <1>l, <1>e DEF RoundsOver, StepsInOrder, InStep, Types, Phases
<1>3. CASE StepBegins
  BY <1>3, <1>a, <1>b, <1>l, <1>e DEF StepBegins, StepsInOrder, InStep, Types, Phases
<1>4. CASE StepsOver
  BY <1>4, <1>a, <1>b, <1>l, <1>e DEF StepsOver, StepsInOrder, InStep, Types, Phases
<1>5. CASE EnterStep
  BY <1>5, <1>a, <1>b, <1>l, <1>e DEF EnterStep, StepsInOrder, InStep, Types, Phases, IsRing
<1>6. CASE Release
  BY <1>6, <1>a, <1>b, <1>l, <1>e DEF Release, StepsInOrder, InStep, Types, Phases
<1>7. CASE Released
  BY <1>7, <1>a, <1>b, <1>l, <1>e DEF Released, StepsInOrder, InStep, Types, Phases
<1>8. CASE Go
  BY <1>8, <1>a, <1>b, <1>l, <1>e DEF Go, StepsInOrder, InStep, Types, Phases
<1>9. CASE AgentFinds
  BY <1>9, <1>a, <1>b, <1>l, <1>e DEF AgentFinds, StepsInOrder, InStep, Types, Phases
<1>10. CASE AgentEnds
  BY <1>10, <1>a, <1>b, <1>l, <1>e DEF AgentEnds, StepsInOrder, InStep, Types, Phases
<1>11. CASE AgentFails
  BY <1>11, <1>a, <1>b, <1>l, <1>e DEF AgentFails, StepsInOrder, InStep, Types, Phases, TakeOver
<1>12. CASE WebSearch
  BY <1>12, <1>a, <1>b, <1>l, <1>e DEF WebSearch, StepsInOrder, InStep, Types, Phases
<1>13. CASE CheckSites
  BY <1>13, <1>a, <1>b, <1>l, <1>e DEF CheckSites, StepsInOrder, InStep, Types, Phases
<1>14. CASE CheckOver
  BY <1>14, <1>a, <1>b, <1>l, <1>e DEF CheckOver, StepsInOrder, InStep, Types, Phases
<1>15. CASE SearchNames
  BY <1>15, <1>a, <1>b, <1>l, <1>e DEF SearchNames, StepsInOrder, InStep, Types, Phases
<1>16. CASE NamesOver
  BY <1>16, <1>a, <1>b, <1>l, <1>e DEF NamesOver, StepsInOrder, InStep, Types, Phases
<1>17. CASE Flush
  BY <1>17, <1>a, <1>b, <1>l, <1>e DEF Flush, StepsInOrder, InStep, Types, Phases
<1>18. CASE ReviewsDone
  BY <1>18, <1>a, <1>b, <1>l, <1>e DEF ReviewsDone, StepsInOrder, InStep, Types, Phases
<1>19. CASE LastHeld
  BY <1>19, <1>a, <1>b, <1>l, <1>e DEF LastHeld, StepsInOrder, InStep, Types, Phases
<1>20. CASE Finish
  BY <1>20, <1>a, <1>b, <1>l, <1>e DEF Finish, StepsInOrder, InStep, Types, Phases
<1>21. CASE SearchRefused
  BY <1>21, <1>a, <1>b, <1>l, <1>e DEF SearchRefused, StepsInOrder, InStep, Types, Phases
<1>22. CASE Stop
  BY <1>22, <1>a, <1>b, <1>l, <1>e DEF Stop, StepsInOrder, InStep, Types, Phases
<1>23. ASSUME NEW w \in Workers, Review(w) \/ ReviewRefused(w) PROVE StepsInOrder'
  BY <1>23, <1>a, <1>b, <1>l, <1>e, WorkerLeaves DEF StepsInOrder, InStep, Types
<1>24. CASE UNCHANGED vars
  BY <1>24, <1>a, <1>b, <1>l, <1>e DEF StepsInOrder, InStep, Types, Phases
<1>25. QED
  BY <1>1, <1>2, <1>3, <1>4, <1>5, <1>6, <1>7, <1>8, <1>9, <1>10, <1>11, <1>12, <1>13, 
     <1>14, <1>15, <1>16, <1>17, <1>18, <1>19, <1>20, <1>21, <1>22, <1>23, <1>24
  DEF Next, Main

(* Nobody is at work outside the reviews.                                  *)
LEMMA AwaitedKept == IInv /\ [Next]_vars => ReviewsAwaited'
<1> SUFFICES ASSUME IInv, [Next]_vars PROVE ReviewsAwaited'
  OBVIOUS
<1> USE DEF vars, Place, Area, Lists, Found, Reviews, Status, Others
<1>a. ReviewsAwaited
  BY DEF IInv
<1>1. CASE RoundBegins
  BY <1>1, <1>a DEF RoundBegins, ReviewsAwaited, NobodyAtWork
<1>2. CASE RoundsOver
  BY <1>2, <1>a DEF RoundsOver, ReviewsAwaited, NobodyAtWork
<1>3. CASE StepBegins
  BY <1>3, <1>a DEF StepBegins, ReviewsAwaited, NobodyAtWork
<1>4. CASE StepsOver
  BY <1>4, <1>a DEF StepsOver, ReviewsAwaited, NobodyAtWork
<1>5. CASE EnterStep
  BY <1>5, <1>a DEF EnterStep, ReviewsAwaited, NobodyAtWork
<1>6. CASE Release
  BY <1>6, <1>a DEF Release, ReviewsAwaited, NobodyAtWork
<1>7. CASE Released
  BY <1>7, <1>a DEF Released, ReviewsAwaited, NobodyAtWork
<1>8. CASE Go
  BY <1>8, <1>a DEF Go, ReviewsAwaited, NobodyAtWork
<1>9. CASE AgentFinds
  BY <1>9, <1>a DEF AgentFinds, ReviewsAwaited, NobodyAtWork
<1>10. CASE AgentEnds
  BY <1>10, <1>a DEF AgentEnds, ReviewsAwaited, NobodyAtWork
<1>11. CASE AgentFails
  BY <1>11, <1>a DEF AgentFails, ReviewsAwaited, NobodyAtWork
<1>12. CASE WebSearch
  BY <1>12, <1>a DEF WebSearch, ReviewsAwaited, NobodyAtWork
<1>13. CASE CheckSites
  BY <1>13, <1>a DEF CheckSites, ReviewsAwaited, NobodyAtWork
<1>14. CASE CheckOver
  BY <1>14, <1>a DEF CheckOver, ReviewsAwaited, NobodyAtWork
<1>15. CASE SearchNames
  BY <1>15, <1>a DEF SearchNames, ReviewsAwaited, NobodyAtWork
<1>16. CASE NamesOver
  BY <1>16, <1>a DEF NamesOver, ReviewsAwaited, NobodyAtWork
<1>17. CASE Flush
  BY <1>17, <1>a DEF Flush, ReviewsAwaited, NobodyAtWork
<1>18. CASE ReviewsDone
  BY <1>18, <1>a DEF ReviewsDone, ReviewsAwaited, NobodyAtWork
<1>19. CASE LastHeld
  BY <1>19, <1>a DEF LastHeld, ReviewsAwaited, NobodyAtWork
<1>20. CASE Finish
  BY <1>20, <1>a DEF Finish, ReviewsAwaited, NobodyAtWork
<1>21. CASE SearchRefused
  BY <1>21, <1>a DEF SearchRefused, ReviewsAwaited, NobodyAtWork
<1>22. CASE Stop
  BY <1>22, <1>a DEF Stop, ReviewsAwaited, NobodyAtWork
<1>23. ASSUME NEW w \in Workers, Review(w) \/ ReviewRefused(w) PROVE ReviewsAwaited'
  <2>1. phase \in {"review", "ended"}
    BY <1>23, <1>a DEF ReviewsAwaited, NobodyAtWork, Review, PickUp, StartReview, TurnDown,
                   PassReview, Take, ReviewRefused
  <2>2. QED
    BY <1>23, <2>1, WorkerLeaves DEF ReviewsAwaited
<1>24. CASE UNCHANGED vars
  BY <1>24, <1>a DEF ReviewsAwaited, NobodyAtWork
<1>25. QED
  BY <1>1, <1>2, <1>3, <1>4, <1>5, <1>6, <1>7, <1>8, <1>9, <1>10, <1>11, <1>12, <1>13, 
     <1>14, <1>15, <1>16, <1>17, <1>18, <1>19, <1>20, <1>21, <1>22, <1>23, <1>24
  DEF Next, Main
(* Listing somebody new.                                                   *)
LEMMA ListedMore ==
  ASSUME NEW s \in Seq(Advertisers), IsInjective(s), NEW a \in Advertisers, a \notin Range(s)
  PROVE  IsInjective(Append(s, a)) /\ Range(Append(s, a)) = Range(s) \cup {a}
<1> DEFINE t == Append(s, a)
<1>1. Len(s) \in Nat /\ DOMAIN s = 1 .. Len(s) /\ DOMAIN t = 1 .. Len(s) + 1
  OBVIOUS
<1>2. \A i \in 1 .. Len(s) : t[i] = s[i] /\ s[i] \in Range(s)
  BY DEF Range
<1>3. t[Len(s) + 1] = a
  OBVIOUS
<1> HIDE DEF t
<1>4. Range(t) = Range(s) \cup {a}
  <2>1. Range(t) = {t[i] : i \in 1 .. Len(s) + 1} /\ Range(s) = {s[i] : i \in 1 .. Len(s)}
    BY <1>1 DEF Range
  <2>2. \A i \in 1 .. Len(s) + 1 : i \in 1 .. Len(s) \/ i = Len(s) + 1
    BY <1>1
  <2>3. \A i \in 1 .. Len(s) : i \in 1 .. Len(s) + 1
    BY <1>1
  <2>4. Len(s) + 1 \in 1 .. Len(s) + 1
    BY <1>1
  <2>5. QED
    BY <1>2, <1>3, <2>1, <2>2, <2>3, <2>4
<1>5. IsInjective(t)
  <2>1. \A i, j \in 1 .. Len(s) : s[i] = s[j] => i = j
    BY <1>1 DEF IsInjective
  <2>2. \A i \in 1 .. Len(s) + 1 : i \in 1 .. Len(s) \/ i = Len(s) + 1
    BY <1>1
  <2>3. \A i, j \in 1 .. Len(s) + 1 : t[i] = t[j] => i = j
    BY <1>2, <1>3, <2>1, <2>2
  <2>4. QED
    BY <1>1, <2>3 DEF IsInjective
<1>6. QED
  BY <1>4, <1>5 DEF t

(* Nobody is in two places.                                                *)
LEMMA PlaceKept == IInv /\ [Next]_vars => OnePlace'
<1> SUFFICES ASSUME IInv, [Next]_vars PROVE OnePlace'
  OBVIOUS
<1> USE DEF vars, Place, Area, Lists, Found, Reviews, Status, Others
<1>a. OnePlace /\ Types
  BY TypesFlat DEF IInv
<1>u. worker' = worker => UnderReview' = UnderReview
  BY DEF UnderReview
<1>1. CASE RoundBegins
  BY <1>1, <1>a, <1>u DEF RoundBegins, OnePlace, Listed
<1>2. CASE RoundsOver
  BY <1>2, <1>a, <1>u DEF RoundsOver, OnePlace, Listed
<1>3. CASE StepBegins
  BY <1>3, <1>a, <1>u DEF StepBegins, OnePlace, Listed
<1>4. CASE StepsOver
  BY <1>4, <1>a, <1>u DEF StepsOver, OnePlace, Listed
<1>5. CASE EnterStep
  <2>1. todo' \subseteq held
    BY <1>5 DEF EnterStep, HeldInside
  <2>2. UNCHANGED <<accepted, held, seen, pending, batch, worker>>
    BY <1>5 DEF EnterStep
  <2>3. QED
    BY <1>a, <1>u, <2>1, <2>2 DEF OnePlace, Listed
<1>6. CASE Release
  <2>1. PICK a \in todo : /\ todo' = todo \ {a} /\ held' = held \ {a}
                          /\ accepted' = Append(accepted, a)
                          /\ UNCHANGED <<worker, batch, pending, seen>>
    BY <1>6 DEF Release
  <2>2. a \in held /\ a \in Advertisers /\ a \notin Listed /\ a \in seen
    BY <1>a, <2>1 DEF OnePlace, Types
  <2>3. IsInjective(accepted') /\ Listed' = Listed \cup {a}
    BY <1>a, <2>1, <2>2, ListedMore DEF OnePlace, Types, Listed
  <2>4. QED
    BY <1>6, <1>a, <1>u, <2>1, <2>2, <2>3 DEF OnePlace
<1>7. CASE Released
  BY <1>7, <1>a, <1>u DEF Released, OnePlace, Listed
<1>8. CASE Go
  BY <1>8, <1>a, <1>u DEF Go, OnePlace, Listed
<1>9. CASE AgentFinds
  BY <1>9, <1>a, <1>u DEF AgentFinds, OnePlace, Listed
<1>10. CASE AgentEnds
  BY <1>10, <1>a, <1>u DEF AgentEnds, OnePlace, Listed
<1>11. CASE AgentFails
  BY <1>11, <1>a, <1>u DEF AgentFails, OnePlace, Listed
<1>12. CASE WebSearch
  BY <1>12, <1>a, <1>u DEF WebSearch, OnePlace, Listed
<1>13. CASE CheckSites
  <2>1. seen' = seen \cup pending' /\ pending' \cap seen = {}
    <3>1. \E answered : pending' = NewOn(answered)
      BY <1>13 DEF CheckSites
    <3>2. pending' \cap seen = {}
      BY <3>1 DEF NewOn
    <3>3. QED
      BY <1>13, <3>2 DEF CheckSites
  <2>2. UNCHANGED <<accepted, held, batch, worker, todo>>
    BY <1>13 DEF CheckSites
  <2>3. QED
    BY <1>a, <1>u, <2>1, <2>2 DEF OnePlace, Listed
<1>14. CASE CheckOver
  BY <1>14, <1>a, <1>u DEF CheckOver, OnePlace, Listed
<1>15. CASE SearchNames
  <2>1. PICK found \in SUBSET (Advertisers \ seen) :
          seen' = seen \cup found /\ pending' \subseteq found
    BY <1>15 DEF SearchNames
  <2>2. UNCHANGED <<accepted, held, batch, worker, todo>>
    BY <1>15 DEF SearchNames
  <2>3. QED
    BY <1>a, <1>u, <2>1, <2>2 DEF OnePlace, Listed
<1>16. CASE NamesOver
  BY <1>16, <1>a, <1>u DEF NamesOver, OnePlace, Listed
<1>17. CASE Flush
  BY <1>17, <1>a, <1>u DEF Flush, OnePlace, Listed
<1>18. CASE ReviewsDone
  BY <1>18, <1>a, <1>u DEF ReviewsDone, OnePlace, Listed
<1>19. CASE LastHeld
  BY <1>19, <1>a, <1>u DEF LastHeld, OnePlace, Listed
<1>20. CASE Finish
  BY <1>20, <1>a, <1>u DEF Finish, OnePlace, Listed
<1>21. CASE SearchRefused
  BY <1>21, <1>a, <1>u DEF SearchRefused, OnePlace, Listed
<1>22. CASE Stop
  BY <1>22, <1>a, <1>u DEF Stop, OnePlace, Listed
<1>23. ASSUME NEW w \in Workers, Review(w) \/ ReviewRefused(w) PROVE OnePlace'
  <2> DEFINE me == worker[w].who
  <2>1. TypeOK /\ worker \in [Workers -> Worker]
    BY <1>a DEF IInv, Types
  <2>2. UNCHANGED <<seen, pending, todo>>
    BY <1>23, WorkerLeaves
  <2>3. PICK x \in Worker :
          /\ worker' = [worker EXCEPT ![w] = x]
          /\ \/ /\ x.at = "qualify" /\ worker[w].at = "free" /\ ~Done
                /\ x.who \in batch /\ batch' = batch \ {x.who}
                /\ UNCHANGED <<accepted, held>>
             \/ /\ \E a \in batch : batch' = batch \ {a}
                /\ x = worker[w] /\ x.at = "free"
                /\ UNCHANGED <<accepted, held>>
             \/ /\ worker[w].at \in Busy /\ x.at \in Busy /\ x.who = worker[w].who
                /\ UNCHANGED <<accepted, held, batch>>
             \/ /\ worker[w].at \in Busy /\ x.at \notin Busy /\ UNCHANGED batch
                /\ x.at = "free" \/ (x.at = "failed" /\ ReviewRefused(w))
                /\ \/ UNCHANGED <<accepted, held>>
                   \/ /\ ~countryWide /\ ~Inside(worker[w].who)
                      /\ held' = held \cup {worker[w].who} /\ UNCHANGED accepted
                   \/ ~Done /\ accepted' = Append(accepted, worker[w].who) /\ UNCHANGED held
    BY <1>23, <2>1, WorkerSteps
  <2>4. \A v \in Workers : worker'[v] = IF v = w THEN x ELSE worker[v]
    BY <2>1, <2>3
  <2>5. \A v \in Workers : worker[v].at \in Busy => worker[v].who \in UnderReview
    BY DEF UnderReview
  <2>6. \A a \in UnderReview : \E v \in Workers : worker[v].at \in Busy /\ worker[v].who = a
    BY DEF UnderReview
  <2>7. \A a \in UnderReview' : \E v \in Workers : worker'[v].at \in Busy /\ worker'[v].who = a
    BY DEF UnderReview
  <2>8. \A v, u \in Workers : worker[v].at \in Busy /\ worker[u].at \in Busy
                               /\ worker[v].who = worker[u].who => v = u
    BY <1>a DEF OnePlace
  <2>9. CASE x.at \in Busy /\ x.who \in batch /\ batch' = batch \ {x.who}
             /\ UNCHANGED <<accepted, held>> /\ worker[w].at \notin Busy
    <3>1. UnderReview' \subseteq UnderReview \cup {x.who}
      BY <2>4, <2>5, <2>7
    <3>2. \A v, u \in Workers : worker'[v].at \in Busy /\ worker'[u].at \in Busy
                                 /\ worker'[v].who = worker'[u].who => v = u
      BY <1>a, <2>4, <2>5, <2>8, <2>9 DEF OnePlace
    <3> DEFINE you == x.who
    <3>3. /\ you \in batch /\ batch' = batch \ {you} /\ UnderReview' \subseteq UnderReview \cup {you}
          /\ UNCHANGED <<accepted, held>>
      BY <2>9, <3>1
    <3> HIDE DEF you
    <3>4. UnderReview' \subseteq seen' /\ batch' \subseteq seen'
      BY <1>a, <2>2, <3>3 DEF OnePlace
    <3>5. UnderReview' \cap (Listed' \cup held' \cup pending' \cup batch') = {}
      BY <1>a, <2>2, <3>3 DEF OnePlace, Listed
    <3>6. QED
      BY <1>a, <2>2, <3>2, <3>3, <3>4, <3>5 DEF OnePlace, Listed
  <2>10. CASE /\ worker'[w].at \in Busy => worker[w].at \in Busy /\ worker'[w].who = me
              /\ batch' \subseteq batch /\ UNCHANGED <<accepted, held>>
    <3>1. UnderReview' \subseteq UnderReview
      BY <2>4, <2>5, <2>7, <2>10
    <3>2. \A v, u \in Workers : worker'[v].at \in Busy /\ worker'[u].at \in Busy
                                 /\ worker'[v].who = worker'[u].who => v = u
      BY <2>4, <2>8, <2>10
    <3>3. QED
      BY <1>a, <2>2, <2>10, <3>1, <3>2 DEF OnePlace, Listed
  <2>11. CASE /\ worker[w].at \in Busy /\ x.at \notin Busy /\ UNCHANGED batch
              /\ \/ held' = held \cup {me} /\ UNCHANGED accepted
                 \/ accepted' = Append(accepted, me) /\ UNCHANGED held
    <3>1. UnderReview' \subseteq UnderReview \ {me} /\ me \in UnderReview
      BY <2>4, <2>5, <2>7, <2>8, <2>11
    <3>2. \A v, u \in Workers : worker'[v].at \in Busy /\ worker'[u].at \in Busy
                                 /\ worker'[v].who = worker'[u].who => v = u
      BY <2>4, <2>8, <2>11
    <3>3. /\ me \in seen /\ me \in Advertisers /\ me \notin Listed
          /\ me \notin held /\ me \notin pending /\ me \notin batch
      BY <1>a, <3>1 DEF OnePlace, Types
    <3> HIDE DEF me
    <3>4. CASE held' = held \cup {me} /\ UNCHANGED accepted
      BY <1>a, <2>2, <2>11, <3>1, <3>2, <3>3, <3>4 DEF OnePlace, Listed
    <3>5. CASE accepted' = Append(accepted, me) /\ UNCHANGED held
      <4>1. IsInjective(accepted') /\ Listed' = Listed \cup {me}
        BY <1>a, <3>3, <3>5, ListedMore DEF OnePlace, Types, Listed
      <4>2. QED
        BY <1>a, <2>2, <2>11, <3>1, <3>2, <3>3, <3>5, <4>1 DEF OnePlace
    <3>6. QED
      BY <2>11, <3>4, <3>5
  <2>12. QED
    BY <2>3, <2>4, <2>9, <2>10, <2>11 DEF Busy
<1>24. CASE UNCHANGED vars
  BY <1>24, <1>a, <1>u DEF OnePlace, Listed
<1>25. QED
  BY <1>1, <1>2, <1>3, <1>4, <1>5, <1>6, <1>7, <1>8, <1>9, <1>10, <1>11, <1>12, <1>13, 
     <1>14, <1>15, <1>16, <1>17, <1>18, <1>19, <1>20, <1>21, <1>22, <1>23, <1>24
  DEF Next, Main

(* A list is full for good.                                                *)
LEMMA FullStays == IInv /\ TypeOK' /\ [Next]_vars => (Done => Done')
<1> SUFFICES ASSUME IInv, TypeOK', [Next]_vars, Done PROVE Done'
  OBVIOUS
<1> USE DEF vars, Place, Area, Lists, Found, Reviews, Status, Others
<1>1. TypeOK /\ TypeOK' /\ accepted \in Seq(Advertisers) /\ Target \in Nat
  BY GoogleAssumption DEF IInv, TypeOK
<1>2. stopped' = stopped \/ stopped' = TRUE
  <2>1. ASSUME NEW w \in Workers, Review(w) \/ ReviewRefused(w) PROVE stopped' = stopped
    BY <2>1, WorkerLeaves
  <2>2. QED
    BY <2>1 DEF Next, Main, RoundBegins, RoundsOver, StepBegins, StepsOver, EnterStep, Release,
                Released, Go, AgentFinds, AgentEnds, AgentFails, WebSearch, CheckSites, CheckOver,
                SearchNames, NamesOver, Flush, ReviewsDone, LastHeld, Finish, SearchRefused, Stop
<1>3. accepted' = accepted \/ \E a : accepted' = Append(accepted, a)
  <2>1. ASSUME NEW w \in Workers, Review(w) \/ ReviewRefused(w)
        PROVE  accepted' = accepted \/ \E a : accepted' = Append(accepted, a)
    BY <1>1, <2>1, WorkerSteps
  <2>2. QED
    BY <2>1 DEF Next, Main, RoundBegins, RoundsOver, StepBegins, StepsOver, EnterStep, Release,
                Released, Go, AgentFinds, AgentEnds, AgentFails, WebSearch, CheckSites, CheckOver,
                SearchNames, NamesOver, Flush, ReviewsDone, LastHeld, Finish, SearchRefused, Stop
<1>4. Len(accepted') >= Len(accepted)
  BY <1>1, <1>3
<1>5. Len(accepted) \in Nat /\ Len(accepted') \in Nat
  BY <1>1 DEF TypeOK
<1>6. QED
  BY <1>1, <1>2, <1>4, <1>5 DEF Done, Full

(* Held rivals come before new searches.                                   *)
LEMMA RipeKept == IInv /\ TypeOK' /\ [Next]_vars => ReleasedFirst'
<1> SUFFICES ASSUME IInv /\ TypeOK', [Next]_vars PROVE ReleasedFirst'
  OBVIOUS
<1> USE DEF vars, Place, Area, Lists, Found, Reviews, Status, Others
<1>a. /\ Types /\ ReleasedFirst /\ StepsInOrder /\ ReviewsAwaited
      /\ OnePlace
  BY TypesFlat DEF IInv
<1>b. setting' = setting
  BY SettingStays
<1>d. ~Done' => ~Done
  BY FullStays
<1>c. SUFFICES ASSUME ~Done', ~Done PROVE ReleasedFirst'
  BY <1>d DEF ReleasedFirst
<1>1. CASE RoundBegins
  BY <1>1, <1>a, <1>b, <1>c DEF RoundBegins, ReleasedFirst, Ripe, Inside, InStep, StepsInOrder
<1>2. CASE RoundsOver
  BY <1>2, <1>a, <1>b, <1>c DEF RoundsOver, ReleasedFirst, Ripe, Inside, InStep
<1>3. CASE StepBegins
  BY <1>3, <1>a, <1>b, <1>c DEF StepBegins, ReleasedFirst, Ripe, Inside, InStep
<1>4. CASE StepsOver
  BY <1>4, <1>a, <1>b, <1>c DEF StepsOver, ReleasedFirst, Ripe, Inside, InStep
<1>5. CASE EnterStep
  <2>1. phase = "enter" /\ phase' = "release" /\ UNCHANGED held
    BY <1>5 DEF EnterStep
  <2>2. Ripe = {} /\ step >= 1 /\ step \in Nat /\ reach \in Nat /\ setting.rings \in Nat
        /\ (setting.rings > 0 => reach >= 1)
    BY <1>a, <1>c, <2>1, RoundsGrow, TypesFlat DEF ReleasedFirst, StepsInOrder, InStep, Types
  <2>3. \A a \in held : setting.place[a] \in Nat \ {0}
    BY <1>a, RoundsGrow, TypesFlat DEF Types, Setting
  <2>4. CASE /\ IsRing(step) /\ reach' = step /\ countryWide' = countryWide
             /\ todo' = IF step > 1 THEN HeldInside(step) ELSE {}
    <3>1. CASE countryWide
      BY <1>b, <1>c, <2>1, <2>2, <2>4, <3>1 DEF ReleasedFirst, Ripe, InStep
    <3>2. CASE ~countryWide /\ step > 1
      BY <1>b, <1>c, <2>1, <2>2, <2>4, <3>2 DEF ReleasedFirst, Ripe, InStep, Inside, HeldInside
    <3>3. CASE ~countryWide /\ step = 1
      <4>1. \A a \in held : ~(setting.place[a] <= reach)
        BY <2>2, <3>3 DEF Ripe, Inside
      <4>2. reach >= 1
        BY <2>2, <2>4, <3>3 DEF IsRing
      <4>3. \A a \in held : ~(setting.place[a] <= 1)
        BY <2>2, <2>3, <4>1, <4>2
      <4>4. Ripe' = {}
        BY <1>b, <2>1, <2>4, <3>3, <4>3 DEF Ripe, Inside
      <4>5. QED
        BY <2>1, <4>4 DEF ReleasedFirst, InStep
    <3>4. QED
      BY <2>2, <3>1, <3>2, <3>3
  <2>5. CASE ~IsRing(step) /\ ~countryWide /\ todo' = held
    BY <2>1, <2>5 DEF ReleasedFirst, Ripe, InStep
  <2>6. CASE ~IsRing(step) /\ countryWide /\ todo' = {} /\ UNCHANGED Area
    BY <1>b, <2>1, <2>2, <2>6 DEF ReleasedFirst, Ripe, InStep, Inside
  <2>7. QED
    BY <1>5, <2>4, <2>5, <2>6 DEF EnterStep
<1>6. CASE Release
  BY <1>6, <1>a, <1>b, <1>c DEF Release, ReleasedFirst, Ripe, Inside, InStep
<1>7. CASE Released
  BY <1>7, <1>a, <1>b, <1>c DEF Released, ReleasedFirst, Ripe, Inside, InStep
<1>8. CASE Go
  BY <1>8, <1>a, <1>b, <1>c DEF Go, ReleasedFirst, Ripe, Inside, InStep
<1>9. CASE AgentFinds
  BY <1>9, <1>a, <1>b, <1>c DEF AgentFinds, ReleasedFirst, Ripe, Inside, InStep
<1>10. CASE AgentEnds
  BY <1>10, <1>a, <1>b, <1>c DEF AgentEnds, ReleasedFirst, Ripe, Inside, InStep
<1>11. CASE AgentFails
  BY <1>11, <1>a, <1>b, <1>c DEF AgentFails, ReleasedFirst, Ripe, Inside, InStep
<1>12. CASE WebSearch
  BY <1>12, <1>a, <1>b, <1>c DEF WebSearch, ReleasedFirst, Ripe, Inside, InStep
<1>13. CASE CheckSites
  BY <1>13, <1>a, <1>b, <1>c DEF CheckSites, ReleasedFirst, Ripe, Inside, InStep
<1>14. CASE CheckOver
  BY <1>14, <1>a, <1>b, <1>c DEF CheckOver, ReleasedFirst, Ripe, Inside, InStep
<1>15. CASE SearchNames
  BY <1>15, <1>a, <1>b, <1>c DEF SearchNames, ReleasedFirst, Ripe, Inside, InStep
<1>16. CASE NamesOver
  BY <1>16, <1>a, <1>b, <1>c DEF NamesOver, ReleasedFirst, Ripe, Inside, InStep
<1>17. CASE Flush
  BY <1>17, <1>a, <1>b, <1>c DEF Flush, ReleasedFirst, Ripe, Inside, InStep
<1>18. CASE ReviewsDone
  BY <1>18, <1>a, <1>b, <1>c DEF ReviewsDone, ReleasedFirst, Ripe, Inside, InStep
<1>19. CASE LastHeld
  BY <1>19, <1>a, <1>b, <1>c DEF LastHeld, ReleasedFirst, Ripe, Inside, InStep
<1>20. CASE Finish
  BY <1>20, <1>a, <1>b, <1>c DEF Finish, ReleasedFirst, Ripe, Inside, InStep
<1>21. CASE SearchRefused
  BY <1>21, <1>a, <1>b, <1>c DEF SearchRefused, ReleasedFirst, Ripe, Inside, InStep
<1>22. CASE Stop
  BY <1>22, <1>a, <1>b, <1>c DEF Stop, ReleasedFirst, Ripe, Inside, InStep
<1>23. ASSUME NEW w \in Workers, Review(w) \/ ReviewRefused(w) PROVE ReleasedFirst'
  <2>1. phase \in {"review", "ended"}
    BY <1>23, <1>a DEF ReviewsAwaited, NobodyAtWork, Review, PickUp, StartReview, TurnDown,
                   PassReview, Take, ReviewRefused
  <2>2. \/ held' = held
        \/ ~countryWide /\ ~Inside(worker[w].who) /\ held' = held \cup {worker[w].who}
    BY <1>23, WorkerSteps DEF IInv
  <2>3. UNCHANGED <<countryWide, reach>> /\ phase' \in {phase, "ended"}
    BY <1>23, WorkerLeaves
  <2>4. Ripe' \subseteq Ripe
    BY <1>b, <2>2, <2>3 DEF Ripe, Inside
  <2>5. QED
    BY <1>a, <1>c, <2>1, <2>3, <2>4 DEF ReleasedFirst, InStep
<1>24. CASE UNCHANGED vars
  BY <1>24, <1>a, <1>b, <1>c DEF ReleasedFirst, Ripe, Inside, InStep
<1>25. QED
  BY <1>1, <1>2, <1>3, <1>4, <1>5, <1>6, <1>7, <1>8, <1>9, <1>10, <1>11, <1>12, <1>13, 
     <1>14, <1>15, <1>16, <1>17, <1>18, <1>19, <1>20, <1>21, <1>22, <1>23, <1>24
  DEF Next, Main

(* No site is paid for twice.                                              *)
LEMMA CountKept == IInv /\ [Next]_vars => SitesCounted'
<1> SUFFICES ASSUME IInv, [Next]_vars PROVE SitesCounted'
  OBVIOUS
<1> USE DEF vars, Place, Area, Lists, Found, Reviews, Status, Others
<1>a. TypeOK /\ Types /\ SitesCounted
  BY TypesFlat DEF IInv
<1>1. CASE RoundBegins
  BY <1>1, <1>a DEF RoundBegins, SitesCounted, SitesPaidOnce
<1>2. CASE RoundsOver
  BY <1>2, <1>a DEF RoundsOver, SitesCounted, SitesPaidOnce
<1>3. CASE StepBegins
  BY <1>3, <1>a DEF StepBegins, SitesCounted, SitesPaidOnce
<1>4. CASE StepsOver
  BY <1>4, <1>a DEF StepsOver, SitesCounted, SitesPaidOnce
<1>5. CASE EnterStep
  BY <1>5, <1>a DEF EnterStep, SitesCounted, SitesPaidOnce
<1>6. CASE Release
  BY <1>6, <1>a DEF Release, SitesCounted, SitesPaidOnce
<1>7. CASE Released
  BY <1>7, <1>a DEF Released, SitesCounted, SitesPaidOnce
<1>8. CASE Go
  BY <1>8, <1>a DEF Go, SitesCounted, SitesPaidOnce
<1>9. CASE AgentFinds
  BY <1>9, <1>a DEF AgentFinds, SitesCounted, SitesPaidOnce
<1>10. CASE AgentEnds
  BY <1>10, <1>a DEF AgentEnds, SitesCounted, SitesPaidOnce
<1>11. CASE AgentFails
  BY <1>11, <1>a DEF AgentFails, SitesCounted, SitesPaidOnce
<1>12. CASE WebSearch
  BY <1>12, <1>a DEF WebSearch, SitesCounted, SitesPaidOnce
<1>13. CASE CheckSites
  <2>1. PICK slice \in kSubset(SliceSize, sites) :
          sites' = sites \ slice /\ checked' = checked \cup slice
    BY <1>13 DEF CheckSites, CheckedAfter
  <2>2. used' = [used EXCEPT ![Source] = used[Source] + SliceSize] /\ SliceSize > 0
    BY <1>13 DEF CheckSites
  <2>3. slice \subseteq sites /\ Cardinality(slice) = SliceSize
    BY <2>1 DEF kSubset
  <2>4. /\ SliceSize \in Int /\ SliceSize <= Allowance - used[Source]
        /\ IsFiniteSet(sites) /\ IsFiniteSet(checked)
        /\ Source \in {"web", "sponsored"}
        /\ used["web"] \in Nat /\ used["sponsored"] \in Nat
    BY <1>a, SlicePaid
  <2>5. IsFiniteSet(slice) /\ checked \cap slice = {}
    BY <1>a, <2>3, <2>4, FS_Subset DEF SitesCounted
  <2>6. Cardinality(checked') = Cardinality(checked) + SliceSize
    <3>1. Cardinality(checked \cup slice)
            = Cardinality(checked) + Cardinality(slice) - Cardinality(checked \cap slice)
      BY <2>4, <2>5, FS_Union
    <3>2. Cardinality(checked \cap slice) = 0 /\ Cardinality(checked) \in Nat
      BY <2>4, <2>5, FS_EmptySet, FS_CardinalityType
    <3>3. QED
      BY <2>1, <2>3, <2>4, <3>1, <3>2
  <2>7. sites' \cap checked' = {}
    BY <1>a, <2>1 DEF SitesCounted
  <2>8. Cardinality(checked) = used["web"] + used["sponsored"]
        /\ used["web"] <= WebChecks /\ used["sponsored"] <= SponsoredChecks
    BY <1>a DEF SitesCounted, SitesPaidOnce
  <2>9. WebChecks \in Nat /\ SponsoredChecks \in Nat
    BY GoogleAssumption
  <2> DEFINE n == SliceSize
  <2>10. CASE mode = "agent"
    <3>1. /\ used'["sponsored"] = used["sponsored"] + n /\ used'["web"] = used["web"]
          /\ n <= SponsoredChecks - used["sponsored"] /\ n \in Int
      BY <1>a, <2>2, <2>4, <2>10 DEF Types, Source, Allowance
    <3> HIDE DEF n
    <3>2. used'["sponsored"] <= SponsoredChecks
          /\ used'["web"] + used'["sponsored"] = used["web"] + used["sponsored"] + n
      BY <2>4, <2>8, <2>9, <3>1
    <3>3. QED
      BY <2>6, <2>7, <2>8, <3>1, <3>2 DEF SitesCounted, SitesPaidOnce, n
  <2>11. CASE mode # "agent"
    <3>1. /\ used'["web"] = used["web"] + n /\ used'["sponsored"] = used["sponsored"]
          /\ n <= WebChecks - used["web"] /\ n \in Int
      BY <1>a, <2>2, <2>4, <2>11 DEF Types, Source, Allowance
    <3> HIDE DEF n
    <3>2. used'["web"] <= WebChecks
          /\ used'["web"] + used'["sponsored"] = used["web"] + used["sponsored"] + n
      BY <2>4, <2>8, <2>9, <3>1
    <3>3. QED
      BY <2>6, <2>7, <2>8, <3>1, <3>2 DEF SitesCounted, SitesPaidOnce, n
  <2>12. QED
    BY <2>10, <2>11
<1>14. CASE CheckOver
  BY <1>14, <1>a DEF CheckOver, SitesCounted, SitesPaidOnce
<1>15. CASE SearchNames
  BY <1>15, <1>a DEF SearchNames, SitesCounted, SitesPaidOnce
<1>16. CASE NamesOver
  BY <1>16, <1>a DEF NamesOver, SitesCounted, SitesPaidOnce
<1>17. CASE Flush
  BY <1>17, <1>a DEF Flush, SitesCounted, SitesPaidOnce
<1>18. CASE ReviewsDone
  BY <1>18, <1>a DEF ReviewsDone, SitesCounted, SitesPaidOnce
<1>19. CASE LastHeld
  BY <1>19, <1>a DEF LastHeld, SitesCounted, SitesPaidOnce
<1>20. CASE Finish
  BY <1>20, <1>a DEF Finish, SitesCounted, SitesPaidOnce
<1>21. CASE SearchRefused
  BY <1>21, <1>a DEF SearchRefused, SitesCounted, SitesPaidOnce
<1>22. CASE Stop
  BY <1>22, <1>a DEF Stop, SitesCounted, SitesPaidOnce
<1>23. ASSUME NEW w \in Workers, Review(w) \/ ReviewRefused(w) PROVE SitesCounted'
  BY <1>23, <1>a, WorkerLeaves DEF SitesCounted, SitesPaidOnce
<1>24. CASE UNCHANGED vars
  BY <1>24, <1>a DEF SitesCounted, SitesPaidOnce
<1>25. QED
  BY <1>1, <1>2, <1>3, <1>4, <1>5, <1>6, <1>7, <1>8, <1>9, <1>10, <1>11, <1>12, <1>13, 
     <1>14, <1>15, <1>16, <1>17, <1>18, <1>19, <1>20, <1>21, <1>22, <1>23, <1>24
  DEF Next, Main

(* No step is left out.                                                    *)
LEMMA SearchedKept == IInv /\ TypeOK' /\ [Next]_vars => StepsSearched'
<1> SUFFICES ASSUME IInv /\ TypeOK', [Next]_vars PROVE StepsSearched'
  OBVIOUS
<1> USE DEF vars, Place, Area, Lists, Found, Reviews, Status, Others
<1>a. Types /\ StepsSearched /\ StepsInOrder /\ ReviewsAwaited
  BY TypesFlat DEF IInv
<1>b. /\ setting.rings \in Nat /\ LastStep \in Nat /\ LastStep = setting.rings + 2
      /\ RoundEnd(Len(Rounds)) = LastStep
  BY TypesFlat, <1>a, RoundsGrow DEF LastStep
<1>l. LastStep' = LastStep
  BY SettingStays
<1>d. Done => Done'
  BY FullStays
<1>1. CASE RoundBegins
  BY <1>1, <1>a, <1>b, <1>l, <1>d DEF RoundBegins, StepsSearched, StepsInOrder, InStep, Types, NobodyAtWork
<1>2. CASE RoundsOver
  BY <1>2, <1>a, <1>b, <1>l, <1>d DEF RoundsOver, StepsSearched, StepsInOrder, InStep, Types, NobodyAtWork, IsRing
<1>3. CASE StepBegins
  BY <1>3, <1>a, <1>b, <1>l, <1>d DEF StepBegins, StepsSearched, StepsInOrder, InStep, Types, NobodyAtWork
<1>4. CASE StepsOver
  BY <1>4, <1>a, <1>b, <1>l, <1>d DEF StepsOver, StepsSearched, StepsInOrder, InStep, Types, NobodyAtWork
<1>5. CASE EnterStep
  BY <1>5, <1>a, <1>b, <1>l, <1>d DEF EnterStep, StepsSearched, StepsInOrder, InStep, Types, NobodyAtWork
<1>6. CASE Release
  BY <1>6, <1>a, <1>b, <1>l, <1>d DEF Release, StepsSearched, StepsInOrder, InStep, Types, NobodyAtWork
<1>7. CASE Released
  <2>1. /\ phase \in {"release", "lastRelease"} /\ (Done \/ todo = {})
        /\ UNCHANGED <<mode, covered, held, searched, outcome>>
    BY <1>7 DEF Released
  <2>2. CASE phase = "lastRelease"
    BY <1>7, <1>a, <1>l, <1>d, <2>1, <2>2 DEF Released, StepsSearched, InStep
  <2>3. CASE phase = "release" /\ step < last
    <3>1. step \in Nat /\ last \in Nat
      BY <1>a, <1>b DEF Types
    <3>2. mode = "agent"
      BY <1>a, <2>3, <3>1 DEF StepsInOrder, InStep
    <3>3. phase' = "enter" /\ 1 .. covered \subseteq searched
      BY <1>7, <1>a, <2>3, <3>2 DEF Released, StepsSearched, InStep
    <3>4. QED
      BY <1>a, <1>l, <2>1, <3>2, <3>3 DEF StepsSearched
  <2>4. CASE phase = "release" /\ ~(step < last)
    BY <1>7, <1>a, <1>l, <2>1, <2>4 DEF Released, StepsSearched, InStep
  <2>5. QED
    BY <2>1, <2>2, <2>3, <2>4
<1>8. CASE Go
  BY <1>8, <1>a, <1>b, <1>l, <1>d DEF Go, StepsSearched, StepsInOrder, InStep, Types, NobodyAtWork
<1>9. CASE AgentFinds
  BY <1>9, <1>a, <1>b, <1>l, <1>d DEF AgentFinds, StepsSearched, StepsInOrder, InStep, Types, NobodyAtWork
<1>10. CASE AgentEnds
  BY <1>10, <1>a, <1>b, <1>l, <1>d DEF AgentEnds, StepsSearched, StepsInOrder, InStep, Types, NobodyAtWork
<1>11. CASE AgentFails
  BY <1>11, <1>a, <1>b, <1>l, <1>d DEF AgentFails, StepsSearched, StepsInOrder, InStep, Types, NobodyAtWork, TakeOver
<1>12. CASE WebSearch
  BY <1>12, <1>a, <1>b, <1>l, <1>d DEF WebSearch, StepsSearched, StepsInOrder, InStep, Types, NobodyAtWork
<1>13. CASE CheckSites
  BY <1>13, <1>a, <1>b, <1>l, <1>d DEF CheckSites, StepsSearched, StepsInOrder, InStep, Types, NobodyAtWork
<1>14. CASE CheckOver
  BY <1>14, <1>a, <1>b, <1>l, <1>d DEF CheckOver, StepsSearched, StepsInOrder, InStep, Types, NobodyAtWork
<1>15. CASE SearchNames
  BY <1>15, <1>a, <1>b, <1>l, <1>d DEF SearchNames, StepsSearched, StepsInOrder, InStep, Types, NobodyAtWork
<1>16. CASE NamesOver
  BY <1>16, <1>a, <1>b, <1>l, <1>d DEF NamesOver, StepsSearched, StepsInOrder, InStep, Types, NobodyAtWork
<1>17. CASE Flush
  BY <1>17, <1>a, <1>b, <1>l, <1>d DEF Flush, StepsSearched, StepsInOrder, InStep, Types, NobodyAtWork
<1>18. CASE ReviewsDone
  BY <1>18, <1>a, <1>b, <1>l, <1>d DEF ReviewsDone, StepsSearched, StepsInOrder, InStep, Types, NobodyAtWork
<1>19. CASE LastHeld
  BY <1>19, <1>a, <1>b, <1>l, <1>d DEF LastHeld, StepsSearched, StepsInOrder, InStep, Types, NobodyAtWork
<1>20. CASE Finish
  BY <1>20, <1>a, <1>b, <1>l, <1>d DEF Finish, StepsSearched, StepsInOrder, InStep, Types, NobodyAtWork, ReviewsAwaited, Done
<1>21. CASE SearchRefused
  BY <1>21, <1>a, <1>b, <1>l, <1>d DEF SearchRefused, StepsSearched, StepsInOrder, InStep, Types, NobodyAtWork, Failure
<1>22. CASE Stop
  BY <1>22, <1>a, <1>b, <1>l, <1>d DEF Stop, StepsSearched, StepsInOrder, InStep, Types, NobodyAtWork
<1>23. ASSUME NEW w \in Workers, Review(w) \/ ReviewRefused(w) PROVE StepsSearched'
  <2>1. /\ phase \in {"review", "ended"} /\ ~NobodyAtWork
        /\ outcome \notin {"partial", "failed"}
    BY <1>23, <1>a DEF ReviewsAwaited, StepsSearched, NobodyAtWork, Review, PickUp, StartReview,
                   TurnDown, PassReview, Take, ReviewRefused
  <2>2. QED
    BY <1>23, <1>a, <1>l, <2>1, WorkerLeaves DEF StepsSearched, InStep
<1>24. CASE UNCHANGED vars
  BY <1>24, <1>a, <1>b, <1>l, <1>d DEF StepsSearched, StepsInOrder, InStep, Types, NobodyAtWork
<1>25. QED
  BY <1>1, <1>2, <1>3, <1>4, <1>5, <1>6, <1>7, <1>8, <1>9, <1>10, <1>11, <1>12, <1>13, 
     <1>14, <1>15, <1>16, <1>17, <1>18, <1>19, <1>20, <1>21, <1>22, <1>23, <1>24
  DEF Next, Main

-----------------------------------------------------------------------------
(* The theorems.                                                           *)

LEMMA InitHolds == Init => IInv
<1> SUFFICES ASSUME Init PROVE IInv
  OBVIOUS
<1>1. setting \in Setting /\ setting.rings \in Nat /\ LastStep \in Nat
      /\ LastStep = setting.rings + 2
  BY GoogleAssumption DEF Init, Setting, LastStep
<1>2. Types
  <2>1. worker \in [Workers -> Worker] /\ used \in [{"web", "sponsored"} -> Nat]
    BY DEF Init, Worker, Free
  <2>2. accepted \in Seq(Advertisers)
    BY DEF Init
  <2>3. reach \in Nat /\ countryWide \in BOOLEAN
    BY <1>1 DEF Init
  <2>4. step = 0 /\ last = 0 /\ covered = 0 /\ 0 \in 0 .. LastStep
    BY <1>1 DEF Init
  <2>5. mode \in {"agent", "web", "last"}
    BY DEF Init
  <2>6. QED
    BY <2>1, <2>2, <2>3, <2>4, <2>5 DEF Init, Types, Phases
<1>3. TypeOK
  BY <1>2, TypesFlat
<1>4. ListFits
  BY GoogleAssumption DEF Init, ListFits
<1>5. StepsInOrder
  BY <1>1, <1>3, RoundsGrow DEF Init, StepsInOrder, InStep
<1>6. UnderReview = {} /\ NobodyAtWork
  BY DEF Init, UnderReview, Busy, Free, NobodyAtWork
<1>7. Listed = {} /\ IsInjective(accepted)
  BY DEF Init, Listed, Range, IsInjective
<1>8. OnePlace
  BY <1>6, <1>7 DEF Init, OnePlace, Busy, Free
<1>9. ReviewsAwaited
  BY <1>6 DEF ReviewsAwaited
<1>10. ReleasedFirst
  BY DEF Init, ReleasedFirst, Ripe, InStep
<1>11. SitesCounted
  BY GoogleAssumption, FS_EmptySet DEF Init, SitesCounted, SitesPaidOnce
<1>12. StepsSearched
  BY <1>1 DEF Init, StepsSearched, InStep
<1>13. QED
  BY <1>3, <1>4, <1>5, <1>8, <1>9, <1>10, <1>11, <1>12 DEF IInv

(* Every step of the search and of its parallel reviews keeps the          *)
(* invariant.                                                              *)
LEMMA StepKeeps == IInv /\ [Next]_vars => IInv'
<1> SUFFICES ASSUME IInv, [Next]_vars PROVE IInv'
  OBVIOUS
<1>1. TypeOK' /\ ListFits' /\ StepsInOrder' /\ OnePlace' /\ ReviewsAwaited' /\ SitesCounted'
  BY TypesKept, ListKept, OrderKept, PlaceKept, AwaitedKept, CountKept
<1>2. ReleasedFirst' /\ StepsSearched'
  BY <1>1, FullStays, RipeKept, SearchedKept
<1>3. QED
  BY <1>1, <1>2 DEF IInv

THEOREM InductiveInvariant == Spec => []IInv
  BY InitHolds, StepKeeps, PTL DEF Spec

(* The list both searches and the parallel reviews share fits and holds    *)
(* nobody twice, and its types are kept (tryAcceptFromAds, releaseHeld).   *)
THEOREM ListsSound == Spec => []ListSound
<1>1. IInv => ListSound
  BY DEF IInv, ListSound, ListedOnce, OnePlace
<1>2. QED
  BY <1>1, InductiveInvariant, PTL

(* Held rivals inside the area come before any new search (enterStep).     *)
THEOREM LocalsAlwaysFirst == Spec => []LocalsFirst
<1>1. IInv => LocalsFirst
  BY DEF IInv, ReleasedFirst, LocalsFirst, Searching, InStep, Ripe
<1>2. QED
  BY <1>1, InductiveInvariant, PTL

(* No site's ads are fetched twice, and the agent and the web search keep  *)
(* to their allowances (budgets).                                          *)
THEOREM SitesArePaidOnce == Spec => []SitesPaidOnce
<1>1. IInv => SitesPaidOnce
  BY DEF IInv, SitesCounted
<1>2. QED
  BY <1>1, InductiveInvariant, PTL

(* A search short of its target has searched every step, wherever its      *)
(* agent failed, and holds nobody back.                                    *)
THEOREM EveryStepTried == Spec => []NothingLeftUntried
<1>1. IInv => NothingLeftUntried
  BY DEF IInv, StepsSearched, NothingLeftUntried
<1>2. QED
  BY <1>1, InductiveInvariant, PTL
====
