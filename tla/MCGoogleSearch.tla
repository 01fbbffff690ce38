--------------------------- MODULE MCGoogleSearch ---------------------------
(* Instances of GoogleSearch small enough for TLC.                         *)
EXTENDS GoogleSearch, TLC

CONSTANTS a1, a2, a3, s1, s2

MCSearch(rings, agent, x, y, z) ==
  [rings |-> rings, agent |-> agent, place |-> a1 :> x @@ a2 :> y @@ a3 :> z,
   ads |-> s1 :> {a1, a2} @@ s2 :> {a2, a3}]

(* Country-wide and local searches, on the web and with the agent, of      *)
(* rivals in the first ring, in the second, elsewhere and with no address. *)
MCSettings ==
  {MCSearch(0, agent, Far, Far, Far) : agent \in BOOLEAN}
    \cup {MCSearch(2, agent, 1, 2, Unknown) : agent \in BOOLEAN}
    \cup {MCSearch(1, TRUE, 1, Far, Unknown)}
=============================================================================
