------------------------- MODULE MCCompetitorSearch -------------------------
(* Instances of CompetitorSearch small enough for TLC.                     *)
EXTENDS CompetitorSearch, TLC

CONSTANTS p1, p2, p3

MCPage(review, place, ads) ==
  [review |-> review, agency |-> TRUE, place |-> place, ads |-> ads]
MCNoAgency(review, place, ads) == [MCPage(review, place, ads) EXCEPT !.agency = FALSE]
MCMarket(a, b, c) == p1 :> a @@ p2 :> b @@ p3 :> c

MCLocal(rings, market) ==
  [rings |-> rings, preferLocal |-> TRUE, countries |-> 1, limit |-> 4, share |-> 2,
   cap |-> 1, slot |-> Target, page |-> market]
MCWide(prefer, countries, market) ==
  [rings |-> 0, preferLocal |-> prefer, countries |-> countries, limit |-> 3, share |-> 0,
   cap |-> 1, slot |-> 1, page |-> market]

(* Rivals in the home ring, in a wider one, elsewhere and with no address, *)
(* listed at once, only at the relaxed bar, or with too few ads; a page    *)
(* that is relevant, at the relaxed bar only, but is no agency.            *)
MCSettings ==
  {MCLocal(3, MCMarket(MCPage("strict", 0, 1), MCPage("relaxed", 1, 1), MCPage("strict", Unknown, 1))),
   MCLocal(2, MCMarket(MCPage("strict", 1, 1), MCPage("relaxed", 0, 2), MCPage("strict", Far, 1))),
   MCWide(TRUE, 2, MCMarket(MCPage("strict", Far, 2), MCPage("relaxed", 0, 1), MCPage("barred", 0, 2))),
   MCWide(FALSE, 1, MCMarket(MCPage("strict", Far, 2), MCPage("relaxed", 0, 2), MCPage("strict", 0, 1))),
   MCWide(FALSE, 1, MCMarket(MCPage("strict", Far, 2), MCNoAgency("relaxed", 0, 2), MCPage("relaxed", 0, 2)))}
=============================================================================
