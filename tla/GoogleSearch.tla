---------------------------- MODULE GoogleSearch ----------------------------
(***************************************************************************)
(* One Google or YouTube competitor search (googleSearch.ts): its steps,   *)
(* ring by ring and then country-wide, the rounds of the search agent that *)
(* may run them first, the web search that runs them instead or after it,  *)
(* the sites whose ads are fetched, and the reviews of their advertisers,  *)
(* AD_REVIEW_BATCH at a time, which share the list they fill.              *)
(*                                                                         *)
(* The address of an advertiser, and the advertisers whose ads a site      *)
(* carries, are fixed by the setting.  The verdict of a review is left     *)
(* open, and with it the bar it is made at and every check of the copy.    *)
(* The run's own writes are in RunStore.                                   *)
(***************************************************************************)
EXTENDS Integers, Sequences, FiniteSets, FiniteSetsExt, Functions

CONSTANTS Advertisers, Sites,
          Settings,    \* bound: the searches, each with its market
          Workers,     \* AD_REVIEW_BATCH of them
          Target,      \* TARGET_COMPETITORS
          StepChecks,  \* MAX_DOMAIN_CHECKS_PER_STEP
          WebChecks, SponsoredChecks, \* MAX_DOMAIN_CHECKS_TOTAL, MAX_SPONSORED_DOMAIN_CHECKS
          NameQueries  \* bound: batches of advertisers a step finds by name

Far == 10
Unknown == 11

(* rings: 0 when the search is not local; place: the ring of an address,   *)
(* counted from 1, Far or Unknown.                                         *)
Setting == [rings : Nat, agent : BOOLEAN,
            place : [Advertisers -> Nat \ {0}],
            ads : [Sites -> SUBSET Advertisers]]

ASSUME GoogleAssumption ==
  /\ IsFiniteSet(Advertisers) /\ IsFiniteSet(Sites) /\ IsFiniteSet(Workers)
  /\ Workers # {} /\ Settings \subseteq Setting
  /\ {Target, StepChecks, WebChecks, SponsoredChecks} \subseteq Nat \ {0}
  /\ NameQueries \in Nat
  /\ \A s \in Settings : s.rings < Far

VARIABLES
  setting,
  phase,     \* where runGoogleFamilySearch is
  mode,      \* the loop it is in: the agent's rounds, the web steps, the last web steps
  step, last, \* the step entered, and the last one of its round
  round, covered, \* the agent's rounds so far, and the steps they covered
  back,      \* where the main flow goes on when the reviews are done
  reach,     \* rings that count as local (job.targetLocations)
  countryWide,
  accepted,  \* the rivals listed, in order
  held,      \* heldMismatches
  seen,      \* seenAdvertisers
  checked,   \* checkedDomains
  used,      \* budgets: sites whose ads were fetched, of the web and of the agent
  reported,  \* sites the agent has named
  sites,     \* sites left to check
  names,     \* batches of advertisers left to find by name in this step
  pending,   \* pendingReview
  batch,     \* advertisers no worker has taken up yet
  worker,    \* the parallel reviews
  todo,      \* held rivals a release has not come to yet
  stopped,   \* isSearchJobSuppressed
  outcome,   \* the status the search saved for itself
  searched   \* history: the steps searched, by a round of the agent or on the web

vars == <<setting, phase, mode, step, last, round, covered, back, reach, countryWide,
          accepted, held, seen, checked, used, reported, sites, names, pending, batch,
          worker, todo, stopped, outcome, searched>>

Place == <<phase, mode, step, last, round, covered, back>>
Area == <<reach, countryWide>>
Lists == <<accepted, held>>
Found == <<seen, checked, used, reported, sites, names, pending>>
Reviews == <<batch, worker>>
Status == <<stopped, outcome>>

Free == [at |-> "free", who |-> "none"]
Worker == [at : {"free", "qualify", "review", "take", "failed"},
           who : Advertisers \cup {"none"}]

Phases == {"next", "enter", "release", "go", "agent", "web", "check", "names", "flush",
           "review", "lastHeld", "lastRelease", "finish", "ended"}

(* The steps: one per ring, then two country-wide.                         *)
IsRing(i) == i <= setting.rings
LastStep == setting.rings + 2

TypeOK ==
  /\ setting \in Settings
  /\ phase \in Phases /\ mode \in {"agent", "web", "last"} /\ back \in {"check", "names"}
  /\ {step, last, covered} \subseteq 0 .. LastStep
  /\ {round, reach, names} \subseteq Nat
  /\ {countryWide, stopped} \subseteq BOOLEAN
  /\ accepted \in Seq(Advertisers)
  /\ {held, seen, pending, batch, todo} \subseteq SUBSET Advertisers
  /\ {checked, reported, sites} \subseteq SUBSET Sites
  /\ used \in [{"web", "sponsored"} -> Nat]
  /\ worker \in [Workers -> Worker]
  /\ outcome \in {"running", "completed", "partial", "failed", "error"}

(* groupIntoRounds: the last step of each round.                           *)
Rounds ==
  IF setting.rings = 0 THEN <<1, 2>>
  ELSE <<(setting.rings + 1) \div 2, setting.rings + 1, setting.rings + 2>>

Init ==
  /\ setting \in Settings
  /\ phase = "next" /\ mode = IF setting.agent THEN "agent" ELSE "web"
  /\ step = 0 /\ last = 0 /\ round = 0 /\ covered = 0 /\ back = "check"
  /\ reach = IF setting.rings > 0 THEN 1 ELSE 0
  /\ countryWide = (setting.rings = 0)
  /\ accepted = <<>> /\ held = {} /\ seen = {} /\ checked = {}
  /\ used = [b \in {"web", "sponsored"} |-> 0]
  /\ reported = {} /\ sites = {} /\ names = 0 /\ pending = {}
  /\ batch = {} /\ worker = [w \in Workers |-> Free]
  /\ todo = {} /\ stopped = FALSE /\ outcome = "running" /\ searched = {}

Listed == Range(accepted)
Full == Len(accepted) >= Target
Done == Full \/ stopped
Inside(a) == setting.place[a] <= reach

-----------------------------------------------------------------------------
(* The steps and the rounds.                                               *)

(* Fault: a round that found nobody is given again.                        *)
RoundAgain == IF accepted = <<>> THEN round ELSE round + 1

NextRound == round + 1

(* The agent is given the next round of steps.                             *)
RoundBegins ==
  /\ phase = "next" /\ mode = "agent" /\ ~Done /\ round < Len(Rounds)
  /\ round' = NextRound
  /\ step' = covered + 1 /\ last' = Rounds[round + 1]
  /\ phase' = "enter"
  /\ UNCHANGED <<setting, mode, covered, back, Area, Lists, Found, Reviews, todo, Status, searched>>

(* The agent's rounds are used up: the web search fills the list.          *)
RoundsOver ==
  /\ phase = "next" /\ mode = "agent" /\ ~Done /\ round = Len(Rounds)
  /\ mode' = "last" /\ step' = setting.rings
  /\ UNCHANGED <<setting, phase, last, round, covered, back, Area, Lists, Found, Reviews,
                 todo, Status, searched>>

(* The web search begins its next step.                                    *)
StepBegins ==
  /\ phase = "next" /\ mode # "agent" /\ ~Done /\ step < LastStep
  /\ step' = step + 1 /\ last' = step + 1
  /\ phase' = "enter"
  /\ UNCHANGED <<setting, mode, round, covered, back, Area, Lists, Found, Reviews, todo, Status, searched>>

StepsOver ==
  /\ phase = "next" /\ (Done \/ (mode # "agent" /\ step = LastStep))
  /\ phase' = "lastHeld"
  /\ UNCHANGED <<setting, mode, step, last, round, covered, back, Area, Lists, Found, Reviews,
                 todo, Status, searched>>

(* Fault: only the rivals inside the rings before it.                      *)
HeldBefore(ring) == {a \in held : setting.place[a] < ring}

HeldInside(ring) == {a \in held : setting.place[a] <= ring}

(* Entering a step sets the area: its ring, and the held rivals inside it  *)
(* come first, or the country, and all of them do.                         *)
EnterStep ==
  /\ phase = "enter" /\ phase' = "release"
  /\ \/ /\ IsRing(step)
        /\ reach' = step
        /\ todo' = IF step > 1 THEN HeldInside(step) ELSE {}
        /\ UNCHANGED countryWide
     \/ /\ ~IsRing(step) /\ ~countryWide
        /\ countryWide' = TRUE /\ todo' = held
        /\ UNCHANGED reach
     \/ /\ ~IsRing(step) /\ countryWide
        /\ todo' = {} /\ UNCHANGED Area
  /\ UNCHANGED <<setting, mode, step, last, round, covered, back, Lists, Found, Reviews, Status, searched>>

(* releaseHeld lists one more rival.                                       *)
Release ==
  /\ phase \in {"release", "lastRelease"} /\ ~Done
  /\ \E a \in todo :
       /\ todo' = todo \ {a} /\ held' = held \ {a}
       /\ accepted' = Append(accepted, a)
  /\ UNCHANGED <<setting, Place, Area, Found, Reviews, Status, searched>>

Released ==
  /\ phase \in {"release", "lastRelease"} /\ (Done \/ todo = {})
  /\ todo' = {}
  /\ IF phase = "lastRelease" THEN phase' = "finish" /\ UNCHANGED step
     ELSE IF step < last THEN phase' = "enter" /\ step' = step + 1
     ELSE phase' = "go" /\ UNCHANGED step
  /\ UNCHANGED <<setting, mode, last, round, covered, back, Area, Lists, Found, Reviews, Status, searched>>

(* The steps entered are searched; the last web steps do not look at Stop  *)
(* again before they search.                                               *)
Go ==
  /\ phase = "go"
  /\ phase' = IF Done /\ mode # "last" THEN "lastHeld"
              ELSE IF mode = "agent" THEN "agent" ELSE "web"
  /\ UNCHANGED <<setting, mode, step, last, round, covered, back, Area, Lists, Found, Reviews,
                 todo, Status, searched>>

-----------------------------------------------------------------------------
(* The agent, the web search and the sites they find.                      *)

Source == IF mode = "agent" THEN "sponsored" ELSE "web"
Allowance == IF mode = "agent" THEN SponsoredChecks ELSE WebChecks

(* The agent names sites; those with ads are checked as they come.         *)
AgentFinds ==
  /\ phase = "agent" /\ ~Done
  /\ \E finds \in (SUBSET (Sites \ reported)) \ {{}} :
       /\ reported' = reported \cup finds
       /\ \E withAds \in SUBSET finds : sites' = withAds \ checked
  /\ phase' = "check"
  /\ UNCHANGED <<setting, mode, step, last, round, covered, back, Area, Lists, seen, checked,
                 used, names, pending, Reviews, todo, Status, searched>>

(* The round is finished, or stopped with the run: its steps are covered.  *)
AgentEnds ==
  /\ phase = "agent"
  /\ covered' = last /\ phase' = "next"
  /\ searched' = searched \cup ((covered + 1) .. last)
  /\ UNCHANGED <<setting, mode, step, last, round, back, Area, Lists, Found, Reviews, todo,
                 Status>>

(* Fault: the steps of the failed round count as covered.                  *)
TakeOverLater == last

(* The last step the web search leaves out.                                *)
TakeOver == covered

(* The agent fails: the web search takes over from the steps covered.      *)
AgentFails ==
  /\ phase = "agent" /\ ~Done
  /\ mode' = "web" /\ step' = TakeOver /\ phase' = "next"
  /\ UNCHANGED <<setting, last, round, covered, back, Area, Lists, Found, Reviews, todo, Status, searched>>

(* The web search of a step: sites not checked yet, the likely ones kept.  *)
WebSearch ==
  /\ phase = "web"
  /\ \E found \in SUBSET (Sites \ checked) :
       /\ Cardinality(found) <= StepChecks
       /\ sites' = IF Done THEN {} ELSE found
  /\ names' = IF step = LastStep THEN 0 ELSE NameQueries
  /\ phase' = "check"
  /\ searched' = searched \cup {step}
  /\ UNCHANGED <<setting, mode, step, last, round, covered, back, Area, Lists, seen, checked,
                 used, reported, pending, Reviews, todo, Status>>

(* The sites fetched at once: as many as are left, as there are workers,   *)
(* and as the allowance still has.                                         *)
SliceSize == Min({Cardinality(sites), Cardinality(Workers), Allowance - used[Source]})

(* Fault: a site whose ads did not come may be fetched again.              *)
CheckedIfAnswered(slice, answered) == checked \cup answered

CheckedAfter(slice, answered) == checked \cup slice

NewOn(answered) == (UNION {setting.ads[s] : s \in answered}) \ seen

(* The ads of a batch of sites are fetched, some of them in vain, and the  *)
(* advertisers not seen yet are queued for review.                         *)
CheckSites ==
  /\ phase = "check" /\ ~Done /\ SliceSize > 0
  /\ \E slice \in kSubset(SliceSize, sites) :
       /\ sites' = sites \ slice
       /\ used' = [used EXCEPT ![Source] = @ + SliceSize]
       /\ \E answered \in SUBSET slice :
            /\ checked' = CheckedAfter(slice, answered)
            /\ pending' = NewOn(answered)
  /\ seen' = seen \cup pending'
  /\ phase' = "flush" /\ back' = "check"
  /\ UNCHANGED <<setting, mode, step, last, round, covered, Area, Lists, reported, names,
                 Reviews, todo, Status, searched>>

CheckOver ==
  /\ phase = "check" /\ (Done \/ SliceSize = 0)
  /\ sites' = {} /\ phase' = IF mode = "agent" THEN "agent" ELSE "names"
  /\ UNCHANGED <<setting, mode, step, last, round, covered, back, Area, Lists, seen, checked,
                 used, reported, names, pending, Reviews, todo, Status, searched>>

(* A batch of advertisers found by name, those seen left out, and the ads  *)
(* of each; some have none.                                                *)
SearchNames ==
  /\ phase = "names" /\ ~Done /\ names > 0
  /\ names' = names - 1
  /\ \E found \in SUBSET (Advertisers \ seen) :
       /\ Cardinality(found) <= Cardinality(Workers)
       /\ seen' = seen \cup found
       /\ pending' \in SUBSET found
  /\ phase' = "flush" /\ back' = "names"
  /\ UNCHANGED <<setting, mode, step, last, round, covered, Area, Lists, checked, used,
                 reported, sites, Reviews, todo, Status, searched>>

NamesOver ==
  /\ phase = "names" /\ (Done \/ names = 0)
  /\ phase' = "next"
  /\ UNCHANGED <<setting, mode, step, last, round, covered, back, Area, Lists, Found, Reviews,
                 todo, Status, searched>>

-----------------------------------------------------------------------------
(* The reviews.                                                            *)

(* flushReview: the batch goes to the workers; a stopped run drops it.     *)
Flush ==
  /\ phase = "flush" /\ phase' = "review"
  /\ batch' = IF stopped THEN {} ELSE pending
  /\ pending' = {}
  /\ UNCHANGED <<setting, mode, step, last, round, covered, back, Area, Lists, seen, checked,
                 used, reported, sites, names, worker, todo, Status, searched>>

ReviewsDone ==
  /\ phase = "review" /\ batch = {} /\ \A w \in Workers : worker[w].at = "free"
  /\ phase' = back
  /\ UNCHANGED <<setting, mode, step, last, round, covered, back, Area, Lists, Found, Reviews,
                 todo, Status, searched>>

Others == <<setting, mode, step, last, round, covered, back, Area, Found, todo, stopped,
            searched>>

(* A free worker takes up the next advertiser, unless the list is full.    *)
PickUp(w) ==
  /\ worker[w].at = "free"
  /\ \E a \in batch :
       /\ batch' = batch \ {a}
       /\ worker' = IF Done THEN worker
                    ELSE [worker EXCEPT ![w] = [Free EXCEPT !.at = "qualify", !.who = a]]
  /\ UNCHANGED <<Others, phase, Lists, outcome>>

(* The AI review starts, unless the list was filled meanwhile.             *)
StartReview(w) ==
  /\ worker[w].at = "qualify"
  /\ worker' = [worker EXCEPT ![w] = IF Done THEN Free ELSE [@ EXCEPT !.at = "review"]]
  /\ UNCHANGED <<Others, phase, Lists, batch, outcome>>

(* The advertiser is turned down, by a check of its ads or by its review,  *)
(* or the review fails.                                                    *)
TurnDown(w) ==
  /\ worker[w].at \in {"qualify", "review"}
  /\ worker' = [worker EXCEPT ![w] = Free]
  /\ UNCHANGED <<Others, phase, Lists, batch, outcome>>

(* Relevant: held when its address is outside the rings of a local search. *)
PassReview(w) ==
  /\ worker[w].at = "review"
  /\ IF countryWide \/ Inside(worker[w].who)
     THEN worker' = [worker EXCEPT ![w].at = "take"] /\ UNCHANGED held
     ELSE worker' = [worker EXCEPT ![w] = Free] /\ held' = held \cup {worker[w].who}
  /\ UNCHANGED <<Others, phase, accepted, batch, outcome>>

(* Fault: the list is not looked at again after the awaited checks.        *)
TakeAnyway(w) ==
  /\ worker[w].at = "take"
  /\ worker' = [worker EXCEPT ![w] = Free]
  /\ accepted' = Append(accepted, worker[w].who)
  /\ UNCHANGED <<Others, phase, held, batch, outcome>>

(* The slot is taken if one is still free.                                 *)
Take(w) ==
  /\ worker[w].at = "take"
  /\ worker' = [worker EXCEPT ![w] = Free]
  /\ accepted' = IF Done THEN accepted ELSE Append(accepted, worker[w].who)
  /\ UNCHANGED <<Others, phase, held, batch, outcome>>

Failure == IF stopped THEN outcome ELSE "error"

(* A review is refused its credits: the run fails with it, while the other *)
(* workers go on.                                                          *)
ReviewRefused(w) ==
  /\ worker[w].at = "review"
  /\ worker' = [worker EXCEPT ![w] = [Free EXCEPT !.at = "failed"]]
  /\ phase' = "ended" /\ outcome' = IF phase = "ended" THEN outcome ELSE Failure
  /\ UNCHANGED <<Others, Lists, batch>>

(* Any other call is refused, or the provider is out of credits.           *)
SearchRefused ==
  /\ phase \in {"agent", "web", "check", "names"} /\ (phase = "web" \/ ~Done)
  /\ phase' = "ended" /\ outcome' = Failure
  /\ UNCHANGED <<Others, Lists, Reviews>>

-----------------------------------------------------------------------------
(* The end.                                                                *)

LastHeld ==
  /\ phase = "lastHeld"
  /\ IF held # {} /\ ~Done THEN phase' = "lastRelease" /\ todo' = held
                           ELSE phase' = "finish" /\ UNCHANGED todo
  /\ UNCHANGED <<setting, mode, step, last, round, covered, back, Area, Lists, Found, Reviews,
                 Status, searched>>

Finish ==
  /\ phase = "finish" /\ phase' = "ended"
  /\ outcome' = IF stopped THEN outcome
                ELSE IF Full THEN "completed"
                ELSE IF accepted # <<>> THEN "partial" ELSE "failed"
  /\ UNCHANGED <<Others, Lists, Reviews>>

Stop ==
  /\ phase # "ended" /\ ~stopped /\ stopped' = TRUE
  /\ UNCHANGED <<setting, Place, Area, Lists, Found, Reviews, todo, outcome, searched>>

Main ==
  \/ RoundBegins \/ RoundsOver \/ StepBegins \/ StepsOver \/ EnterStep \/ Release \/ Released
  \/ Go \/ AgentFinds \/ AgentEnds \/ AgentFails \/ WebSearch \/ CheckSites \/ CheckOver
  \/ SearchNames \/ NamesOver \/ Flush \/ ReviewsDone \/ LastHeld \/ Finish

Review(w) == PickUp(w) \/ StartReview(w) \/ TurnDown(w) \/ PassReview(w) \/ Take(w)

Next ==
  \/ Main \/ SearchRefused \/ Stop
  \/ \E w \in Workers : Review(w) \/ ReviewRefused(w)

Spec == Init /\ [][Next]_vars /\ WF_vars(Main) /\ \A w \in Workers : WF_vars(Review(w))

-----------------------------------------------------------------------------
(* Properties.                                                             *)

(* The parallel reviews never fill the list past its target, those that go *)
(* on after another of them failed the run included (tryAcceptFromAds).    *)
ListFits == Len(accepted) <= Target

(* No advertiser is listed twice, or listed and held, whether its site,    *)
(* its name or a release brought it (seenAdvertisers, releaseHeld).        *)
ListedOnce == IsInjective(accepted) /\ Listed \cap held = {}

(* The list both searches and all parallel reviews share stays sound: it   *)
(* fits, and nobody is in it twice or still waiting for a ring.            *)
ListSound == TypeOK /\ ListFits /\ ListedOnce

Searching == phase \in {"agent", "web", "check", "names", "flush", "review"}

(* While a ring is searched no rival held is inside the rings, and once    *)
(* the country is searched none is held, unless the list is full or the    *)
(* run stopped: held rivals come before new searches (enterStep).          *)
LocalsFirst ==
  Searching /\ ~Done =>
    IF countryWide THEN held = {} ELSE \A a \in held : ~Inside(a)

(* Every site whose ads were fetched was fetched once, for the agent or    *)
(* for the web search, and each kept to its allowance (budgets).           *)
SitesPaidOnce ==
  /\ used["web"] + used["sponsored"] = Cardinality(checked)
  /\ used["web"] <= WebChecks /\ used["sponsored"] <= SponsoredChecks

(* A search that ends short of its target without an error has searched    *)
(* every step, wherever its agent failed, and holds nobody back.           *)
NothingLeftUntried ==
  outcome \in {"partial", "failed"} => searched = 1 .. LastStep /\ held = {}

(* Every search ends.                                                      *)
SearchEnds == <>(phase = "ended")
=============================================================================
