----------------------------- MODULE SpendProofs -----------------------------
(***************************************************************************)
(* Proofs about what billable runs spend, for every set of users, periods, *)
(* reservations and calls, every cost and any number of parallel calls.    *)
(*                                                                         *)
(* What the runs spend is bounded: SpendInv relates, of every run, the     *)
(* calls that have left and are not recorded to what its hold still pays   *)
(* for, and, of every period, the balance to what the runs may still take  *)
(* out of it with no hold.  Last, a call whose outcome is unknown keeps    *)
(* the hold that pays for it (CoveredOK).                                  *)
(***************************************************************************)
EXTENDS CreditProofs

-----------------------------------------------------------------------------
(* Totals.                                                                 *)

(* A total is no larger than one over more elements or larger values.      *)
LEMMA TotalMonotone ==
  ASSUME NEW f, NEW g, NEW S, NEW T, S \subseteq T, IsFiniteSet(T),
         \A x \in S : f[x] \in Nat, \A x \in T : g[x] \in Nat,
         \A x \in S : f[x] <= g[x]
  PROVE  Total(f, S) <= Total(g, T)
<1>1. IsFiniteSet(AllUnits(g, T))
  BY TotalType, Zenon
<1>2. \A x \in S : Units(f, x) \subseteq Units(g, x)
  BY DEF Units
<1>3. AllUnits(f, S) \subseteq AllUnits(g, T)
  BY <1>2, Zenon DEF AllUnits
<1>4. QED
  BY <1>1, <1>3, FS_Subset, Zenon DEF Total

(* Zeros add nothing.                                                      *)
LEMMA TotalNonzero ==
  ASSUME NEW f, NEW S, \A x \in S : f[x] \in Nat
  PROVE  Total(f, S) = Total(f, {x \in S : f[x] # 0})
<1>1. \A x \in S : f[x] = 0 => Units(f, x) = {}
  BY DEF Units
<1>2. AllUnits(f, S) = AllUnits(f, {x \in S : f[x] # 0})
  BY <1>1, Zenon DEF AllUnits
<1>3. QED
  BY <1>2 DEF Total

(* Where one value alone may fall, by d at most, so may the total.         *)
LEMMA TotalChange ==
  ASSUME NEW f, NEW g, NEW S, NEW x \in S, IsFiniteSet(S), NEW d \in Int,
         \A y \in S : f[y] \in Nat /\ g[y] \in Nat,
         \A y \in S \ {x} : f[y] <= g[y],
         f[x] <= g[x] + d
  PROVE  Total(f, S) <= Total(g, S) + d
<1>1. /\ Total(f, S) = Total(f, S \ {x}) + f[x]
      /\ Total(g, S) = Total(g, S \ {x}) + g[x]
  BY TotalSplit, Zenon
<1>2. IsFiniteSet(S \ {x})
  BY FS_RemoveElement, Zenon
<1>3. Total(f, S \ {x}) <= Total(g, S \ {x})
  BY <1>2, TotalMonotone
<1>4. Total(f, S \ {x}) \in Nat /\ Total(g, S \ {x}) \in Nat
  BY <1>2, TotalType
<1>5. QED
  BY <1>1, <1>3, <1>4

-----------------------------------------------------------------------------
(* What a run may spend.                                                   *)

(* What n calls may cost.                                                  *)
Cost(n) == Ceiling * n

(* The calls a run has in flight beyond the first.                         *)
Siblings == MaxParallel - 1

(* What a run with reservation v may have taken out of period p with no    *)
(* hold for it, when n of its calls have left and are not recorded: a call *)
(* on an empty hold is one fewer that may still do so.                     *)
Owed(v, n, p) ==
  IF v.period # p \/ (v.status = "open" /\ v.amount > 0) THEN 0
  ELSE Cost(Uncovered(v) - n)

(* The open hold pays for all calls but the uncovered ones; with no open   *)
(* hold there are no others.                                               *)
Backing(v, n) ==
  IF v.status = "open" THEN Cost(n) <= Cost(Siblings) + v.amount
                       ELSE n <= Uncovered(v)

(* A run of a limited user that holds something is within its budget, but  *)
(* for w charged with no hold; beyond it go only the uncovered calls.  D is*)
(* the history of the accounts: D.limited, the users who have always been  *)
(* limited, and D.hand, what was cut and corrected of each by hand.        *)
Within(v, n, w, D) ==
  v.user \in D.limited =>
  IF v.status = "open"
  THEN IF v.amount > 0
       THEN v.settled + v.amount <= Budget + w
       ELSE v.settled + Cost(n) <= Budget + Cost(Siblings) + w
  ELSE v.settled + v.amount <= Budget + Cost(Siblings) + w

RunSound(v, n, w, D) ==
  /\ v.status # "unused" => v.user \in Users
  /\ v.status = "unused" => n = 0 /\ v.period \notin PeriodIds
  /\ n <= MaxParallel
  /\ Backing(v, n)
  /\ Within(v, n, w, D)

(* What n calls cost grows by a ceiling with each.                         *)
LEMMA CostFacts ==
  /\ Ceiling \in Nat /\ Ceiling > 0 /\ Budget \in Nat /\ MaxParallel \in Nat /\ MaxParallel >= 1
  /\ \A n \in Nat : Cost(n) \in Nat /\ Cost(n + 1) = Cost(n) + Ceiling
  /\ \A m, n \in Nat : m <= n => Cost(m) <= Cost(n)
  /\ Cost(0) = 0
<1>1. Ceiling \in Nat /\ Ceiling > 0 /\ Budget \in Nat
      /\ MaxParallel \in Nat /\ MaxParallel >= 1
  <2>1. Ceiling > 0 /\ MaxParallel \in Nat \ {0}
    BY RunAssumption
  <2>2. QED
    BY <2>1, RunConstants, CreditAssumption
<1>2. ASSUME NEW n \in Nat
      PROVE  Cost(n) \in Nat /\ Cost(n + 1) = Cost(n) + Ceiling
  <2>1. Ceiling * (n + 1) = Ceiling * n + Ceiling /\ Ceiling * n \in Nat
    BY <1>1
  <2>2. QED
    BY <2>1 DEF Cost
<1>3. ASSUME NEW m \in Nat, NEW n \in Nat, m <= n
      PROVE  Cost(m) <= Cost(n)
  <2>1. PICK d \in Nat : n = m + d
    <3>1. n - m \in Nat /\ n = m + (n - m)
      BY <1>3
    <3>2. QED
      BY <3>1
  <2>2. Ceiling * (m + d) = Ceiling * m + Ceiling * d
    BY <1>1
  <2>3. Ceiling * d >= 0 /\ Ceiling * m \in Nat /\ Ceiling * d \in Nat
    BY <1>1
  <2> QED
    BY <2>1, <2>2, <2>3 DEF Cost
<1>4. Cost(0) = 0
  BY <1>1 DEF Cost
<1>5. QED
  BY <1>1, <1>2, <1>3, <1>4

(* Fewer calls than a cost pays for.                                       *)
LEMMA CostOrder ==
  ASSUME NEW n \in Nat
  PROVE  /\ \A m \in Nat : Cost(n) < Cost(m) + Ceiling => n <= m
         /\ n > 0 => n - 1 \in Nat /\ Cost(n - 1) = Cost(n) - Ceiling
<1>1. ASSUME NEW m \in Nat, Cost(n) < Cost(m) + Ceiling, n >= m + 1
      PROVE  FALSE
  <2>1. m + 1 \in Nat /\ Cost(m + 1) = Cost(m) + Ceiling
    BY CostFacts
  <2>2. Cost(m + 1) <= Cost(n)
    BY <1>1, <2>1, CostFacts
  <2>3. Cost(n) \in Nat /\ Cost(m) \in Nat /\ Ceiling \in Nat
    BY CostFacts
  <2>4. QED
    BY <1>1, <2>1, <2>2, <2>3
<1>2. ASSUME n > 0 PROVE n - 1 \in Nat /\ Cost(n - 1) = Cost(n) - Ceiling
  <2>1. n - 1 \in Nat /\ (n - 1) + 1 = n
    BY <1>2
  <2>2. Cost((n - 1) + 1) = Cost(n - 1) + Ceiling /\ Cost(n - 1) \in Nat
    BY <2>1, CostFacts
  <2>3. QED
    BY <2>1, <2>2, CostFacts
<1>3. QED
  BY <1>1, <1>2

(* Uncovered calls: all in parallel, or all but one.                       *)
LEMMA RunFigures ==
  /\ Ceiling \in Nat /\ Ceiling > 0 /\ Budget \in Nat
  /\ MaxParallel \in Nat /\ Siblings \in Nat /\ MaxParallel = Siblings + 1
  /\ Cost(Siblings) \in Nat
<1>1. /\ Ceiling \in Nat /\ Ceiling > 0 /\ Budget \in Nat
      /\ MaxParallel \in Nat /\ MaxParallel >= 1
  BY CostFacts
<1>2. Siblings \in Nat /\ MaxParallel = Siblings + 1
  BY <1>1 DEF Siblings
<1>3. Cost(Siblings) \in Nat
  BY <1>2, CostFacts
<1>4. QED
  BY <1>1, <1>2, <1>3

LEMMA UncoveredFacts ==
  ASSUME NEW v
  PROVE  /\ Uncovered(v) = Siblings \/ Uncovered(v) = Siblings + 1
         /\ Uncovered(v) \in Nat
         /\ v.status = "expired" => Uncovered(v) = Siblings + 1
<1>1. Siblings \in Nat /\ MaxParallel = Siblings + 1
  BY RunFigures
<1>2. /\ Uncovered(v) = Siblings \/ Uncovered(v) = MaxParallel
      /\ v.status = "expired" => Uncovered(v) = MaxParallel
  BY DEF Uncovered, Siblings
<1>3. QED
  BY <1>1, <1>2

(* A hold that is not open, or is empty, leaves no call to be paid for by  *)
(* anything but what is uncovered.                                         *)
LEMMA OwedFacts ==
  ASSUME NEW v \in Reservation, NEW n \in Nat, Backing(v, n), NEW p
  PROVE  /\ v.status # "open" \/ v.amount = 0 => n <= Uncovered(v)
         /\ Owed(v, n, p) \in Nat /\ Owed(v, n, p) <= Cost(Uncovered(v))
<1>1. v.amount \in Nat
  BY DEF Reservation
<1>2. ASSUME v.status # "open" \/ v.amount = 0 PROVE n <= Uncovered(v)
  <2>1. CASE v.status = "open"
    <3>1. Cost(n) <= Cost(Siblings)
      BY <1>2, <2>1, RunFigures DEF Backing
    <3>2. Cost(n) \in Nat
      BY CostFacts
    <3>3. n <= Siblings
      BY <3>1, <3>2, RunFigures, CostOrder
    <3>4. QED
      BY <3>3, UncoveredFacts, RunFigures
  <2>2. CASE v.status # "open"
    BY <2>2 DEF Backing
  <2>3. QED
    BY <2>1, <2>2
<1>3. CASE v.period # p \/ (v.status = "open" /\ v.amount > 0)
  BY <1>1, <1>2, <1>3, UncoveredFacts, CostFacts DEF Owed
<1>4. CASE ~(v.period # p \/ (v.status = "open" /\ v.amount > 0))
  <2>1. n <= Uncovered(v)
    BY <1>1, <1>2, <1>4
  <2>2. Uncovered(v) - n \in Nat /\ Uncovered(v) - n <= Uncovered(v) /\ Uncovered(v) \in Nat
    BY <2>1, UncoveredFacts
  <2>3. Cost(Uncovered(v) - n) \in Nat /\ Cost(Uncovered(v) - n) <= Cost(Uncovered(v))
    BY <2>2, CostFacts
  <2>4. QED
    BY <1>4, <2>1, <2>3 DEF Owed
<1>5. QED
  BY <1>3, <1>4

(* What is owed, with fewer calls or more uncovered.                       *)
LEMMA OwedGrows ==
  ASSUME NEW v \in Reservation, NEW u \in Reservation, NEW n \in Nat, NEW m \in Nat,
         Backing(v, n), Backing(u, m), NEW p,
         u.period = v.period,
         (v.status = "open" /\ v.amount > 0) \/ ~(u.status = "open" /\ u.amount > 0),
         (v.status = "open" /\ v.amount > 0) \/ Uncovered(v) - n <= Uncovered(u) - m
  PROVE  Owed(v, n, p) <= Owed(u, m, p)
<1>1. Owed(u, m, p) \in Nat
  BY OwedFacts
<1>2. CASE v.period # p \/ (v.status = "open" /\ v.amount > 0)
  BY <1>1, <1>2 DEF Owed
<1>3. CASE ~(v.period # p \/ (v.status = "open" /\ v.amount > 0))
  <2>1. /\ Owed(v, n, p) = Cost(Uncovered(v) - n)
        /\ Owed(u, m, p) = Cost(Uncovered(u) - m)
    BY <1>3 DEF Owed
  <2>2. n <= Uncovered(v) /\ v.amount \in Nat
    BY <1>3, OwedFacts DEF Reservation
  <2>3. Uncovered(v) \in Nat /\ Uncovered(u) \in Nat
    BY UncoveredFacts
  <2>4. Uncovered(v) - n \in Nat /\ Uncovered(u) - m \in Nat
    BY <1>3, <2>2, <2>3
  <2>5. QED
    BY <1>3, <2>1, <2>4, CostFacts
<1>4. QED
  BY <1>2, <1>3

(* A run with fewer calls out and more charged with no hold is as sound.   *)
LEMMA FewerSound ==
  ASSUME NEW v \in Reservation, NEW n \in Nat, NEW w \in Nat, NEW D, RunSound(v, n, w, D),
         NEW m \in Nat, m <= n, NEW z \in Nat, w <= z
  PROVE  RunSound(v, m, z, D) /\ \A p : Owed(v, n, p) <= Owed(v, m, p)
<1>1. Cost(m) <= Cost(n) /\ Cost(m) \in Nat /\ Cost(n) \in Nat
  BY CostFacts
<1>2. v.amount \in Nat /\ v.settled \in Nat
  BY DEF Reservation
<1>3. Backing(v, m)
  BY <1>1, <1>2, RunFigures, UncoveredFacts DEF RunSound, Backing
<1>4. Within(v, m, z, D)
  BY <1>1, <1>2, RunFigures DEF RunSound, Within
<1>5. RunSound(v, m, z, D)
  BY <1>3, <1>4, RunFigures DEF RunSound
<1>6. ASSUME NEW p PROVE Owed(v, n, p) <= Owed(v, m, p)
  <2>1. Uncovered(v) \in Nat
    BY UncoveredFacts
  <2>2. Backing(v, n) /\ Uncovered(v) - n <= Uncovered(v) - m
    BY <2>1 DEF RunSound
  <2>3. QED
    BY <1>3, <2>2, OwedGrows
<1>7. QED
  BY <1>5, <1>6

(* A hold that goes, whole or spent, leaves the run within its bounds when *)
(* the calls still out are uncovered.                                      *)
LEMMA ClosedSound ==
  ASSUME NEW v \in Reservation, NEW n \in Nat, NEW w \in Nat, NEW D, RunSound(v, n, w, D),
         v.status \in HeldStatuses,
         NEW u \in Reservation, u.status \in {"settled", "expired"},
         u.amount = 0, u.settled <= v.settled + v.amount,
         v.status = "open" => u.settled = v.settled,
         u.user = v.user, u.period = v.period,
         n <= Uncovered(u)
  PROVE  RunSound(u, n, w, D) /\ \A p : Owed(v, n, p) <= Owed(u, n, p)
<1>1. v.amount \in Nat /\ v.settled \in Nat /\ u.settled \in Nat /\ Cost(n) \in Nat
  BY CostFacts DEF Reservation
<1>2. Backing(u, n)
  BY DEF Backing
<1>3. Within(u, n, w, D)
  BY <1>1, RunFigures DEF RunSound, Within, HeldStatuses
<1>4. RunSound(u, n, w, D)
  BY <1>2, <1>3 DEF RunSound, HeldStatuses
<1>5. ASSUME NEW p PROVE Owed(v, n, p) <= Owed(u, n, p)
  <2>1. Uncovered(v) = Siblings /\ Siblings \in Nat /\ Uncovered(u) \in Nat
    BY UncoveredFacts, RunFigures DEF HeldStatuses, Uncovered, Siblings
  <2>2. Uncovered(v) - n <= Uncovered(u) - n
    BY <2>1, UncoveredFacts
  <2>3. QED
    BY <1>2, <2>2, OwedGrows DEF RunSound
<1>6. QED
  BY <1>4, <1>5

(* The roll moves the hold to another period, and nothing else.            *)
LEMMA CarriedSound ==
  ASSUME NEW v \in Reservation, NEW n \in Nat, NEW w \in Nat, NEW D, RunSound(v, n, w, D),
         NEW u \in Reservation, u.status = v.status, u.amount = v.amount,
         u.settled = v.settled, u.user = v.user, u.period = v.period \/ v.status # "unused"
  PROVE  RunSound(u, n, w, D)
BY DEF RunSound, Backing, Within, Uncovered

(* With a ceiling held and the budget kept one more call may leave.        *)
LEMMA ToppedUpSound ==
  ASSUME NEW u \in Reservation, NEW n \in Nat, NEW w \in Nat, NEW D,
         u.status = "open", u.user \in Users, u.amount >= Ceiling,
         u.user \in D.limited => u.settled + u.amount <= Budget + w, n <= MaxParallel
  PROVE  RunSound(u, n, w, D) /\ \A p : Owed(u, n, p) = 0
<1>1. u.amount \in Nat /\ u.settled \in Nat
  BY DEF Reservation
<1>2. Cost(n) <= Cost(Siblings) + Ceiling
  <2>1. Cost(n) <= Cost(Siblings + 1)
    BY RunFigures, CostFacts
  <2>2. Cost(Siblings + 1) = Cost(Siblings) + Ceiling
    BY RunFigures, CostFacts
  <2>3. QED
    BY <2>1, <2>2
<1>3. Cost(n) \in Nat
  BY CostFacts
<1>4. Backing(u, n)
  BY <1>1, <1>2, <1>3, RunFigures DEF Backing
<1>5. Within(u, n, w, D)
  BY <1>1, RunFigures DEF Within
<1>6. QED
  BY <1>1, <1>4, <1>5, RunFigures DEF RunSound, Owed

(* A run starts with no call, and a hold within its budget.                *)
LEMMA NewRunSound ==
  ASSUME NEW u \in Reservation, NEW w \in Nat, NEW D,
         u.status = "open", u.user \in Users, u.settled = 0,
         u.amount <= Budget
  PROVE  RunSound(u, 0, w, D)
<1>1. u.amount \in Nat /\ Cost(0) = 0
  BY CostFacts DEF Reservation
<1>2. Backing(u, 0) /\ Within(u, 0, w, D)
  BY <1>1, RunFigures DEF Backing, Within
<1>3. QED
  BY <1>2, RunFigures DEF RunSound

(* A call whose outcome is unknown keeps the hold and leaves one fewer.    *)
LEMMA ParkedSound ==
  ASSUME NEW v \in Reservation, NEW n \in Nat, NEW w \in Nat, NEW D, RunSound(v, n, w, D), n > 0,
         v.status = "open", NEW u \in Reservation, u.status = "pending_reconciliation",
         u.amount = v.amount, u.settled = v.settled, u.user = v.user, u.period = v.period
  PROVE  RunSound(u, n - 1, w, D) /\ \A p : Owed(v, n, p) <= Owed(u, n - 1, p)
<1>1. n - 1 \in Nat /\ Cost(n) \in Nat
  BY CostOrder, CostFacts
<1>2. v.amount \in Nat /\ v.settled \in Nat
  BY DEF Reservation
<1>3. Uncovered(u) = Siblings /\ Uncovered(v) = Siblings
  BY DEF Uncovered, Siblings
<1>4. n - 1 <= Siblings
  BY RunFigures DEF RunSound
<1>5. Backing(u, n - 1)
  BY <1>3, <1>4 DEF Backing
<1>6. Within(u, n - 1, w, D)
  BY <1>1, <1>2, RunFigures DEF RunSound, Within
<1>7. RunSound(u, n - 1, w, D)
  BY <1>1, <1>4, <1>5, <1>6, RunFigures DEF RunSound
<1>8. ASSUME NEW p PROVE Owed(v, n, p) <= Owed(u, n - 1, p)
  <2>1. Uncovered(v) - n <= Uncovered(u) - (n - 1)
    BY <1>3, RunFigures
  <2>2. QED
    BY <1>1, <1>5, <2>1, OwedGrows DEF RunSound
<1>9. QED
  BY <1>7, <1>8

(* A call recorded with no open hold takes what was owed for it.           *)
LEMMA LateSound ==
  ASSUME NEW v \in Reservation, NEW n \in Nat, NEW w \in Nat, NEW D, RunSound(v, n, w, D), n > 0,
         v.status # "open", NEW e \in Nat
  PROVE  /\ RunSound(v, n - 1, w + e, D)
         /\ Owed(v, n, v.period) + Ceiling = Owed(v, n - 1, v.period)
         /\ \A p : Owed(v, n, p) <= Owed(v, n - 1, p)
<1>1. n - 1 \in Nat /\ n - 1 <= n /\ w + e \in Nat /\ w <= w + e
  BY CostOrder
<1>2. RunSound(v, n - 1, w + e, D) /\ \A p : Owed(v, n, p) <= Owed(v, n - 1, p)
  BY <1>1, FewerSound
<1>3. Owed(v, n, v.period) + Ceiling = Owed(v, n - 1, v.period)
  <2>1. n <= Uncovered(v) /\ Uncovered(v) \in Nat
    BY UncoveredFacts DEF RunSound, Backing
  <2>2. Uncovered(v) - n \in Nat /\ Uncovered(v) - (n - 1) = (Uncovered(v) - n) + 1
    BY <2>1
  <2>3. Cost((Uncovered(v) - n) + 1) = Cost(Uncovered(v) - n) + Ceiling
    BY <2>2, CostFacts
  <2>4. QED
    BY <2>2, <2>3 DEF Owed
<1>4. QED
  BY <1>2, <1>3

(* A call recorded against an open hold is paid for by what it gives back, *)
(* or by what was owed for it.                                             *)
LEMMA ReducedSound ==
  ASSUME NEW v \in Reservation, NEW n \in Nat, NEW w \in Nat, NEW D, RunSound(v, n, w, D), n > 0,
         v.status = "open", NEW c \in Nat, NEW e \in Nat, c <= Ceiling + e,
         NEW u \in Reservation, u.status = "open",
         NEW released \in Nat, released = Least(v.amount, Ceiling),
         u.amount = v.amount - released, u.settled = v.settled + c,
         u.user = v.user, u.period = v.period
  PROVE  /\ RunSound(u, n - 1, w + e, D)
         /\ Owed(v, n, v.period) + c <= Owed(u, n - 1, v.period) + released + e
         /\ \A p : p # v.period => Owed(v, n, p) <= Owed(u, n - 1, p)
<1>1. n - 1 \in Nat /\ Cost(n - 1) = Cost(n) - Ceiling /\ Cost(n) \in Nat
      /\ Cost(n - 1) \in Nat
  BY CostOrder, CostFacts
<1>2. v.amount \in Nat /\ v.settled \in Nat /\ u.amount \in Nat
  BY DEF Reservation
<1>3. n - 1 <= Siblings /\ Cost(n - 1) <= Cost(Siblings)
  <2>1. n - 1 <= Siblings
    BY RunFigures DEF RunSound
  <2>2. QED
    BY <1>1, <2>1, RunFigures, CostFacts
<1>4. Cost(n) <= Cost(Siblings) + v.amount
  BY DEF RunSound, Backing
<1>5. Backing(u, n - 1)
  BY <1>1, <1>2, <1>3, <1>4, RunFigures DEF Backing, Least
<1>6. Within(u, n - 1, w + e, D)
  <2>1. CASE v.amount > Ceiling
    BY <1>1, <1>2, <1>3, <2>1, RunFigures DEF Within, RunSound, Least
  <2>2. CASE v.amount <= Ceiling
    BY <1>1, <1>2, <1>3, <1>4, <2>2, RunFigures DEF Within, RunSound, Least
  <2>3. QED
    BY <1>2, <2>1, <2>2, RunFigures
<1>7. RunSound(u, n - 1, w + e, D)
  BY <1>1, <1>5, <1>6, RunFigures DEF RunSound
<1>8. ASSUME NEW p, p # v.period PROVE Owed(v, n, p) <= Owed(u, n - 1, p)
  BY <1>8 DEF Owed
<1>9. Owed(v, n, v.period) + c <= Owed(u, n - 1, v.period) + released + e
  <2>1. Owed(v, n, v.period) \in Nat /\ Owed(u, n - 1, v.period) \in Nat
    BY <1>1, <1>5, OwedFacts DEF RunSound
  <2>2. CASE v.amount >= Ceiling
    <3>1. Owed(v, n, v.period) = 0 /\ released = Ceiling
      BY <1>2, <2>2, RunFigures DEF Owed, Least
    <3>2. QED
      BY <2>1, <3>1, RunFigures
  <2>3. CASE v.amount < Ceiling
    <3>1. u.amount = 0 /\ released = v.amount
      BY <1>2, <2>3, RunFigures DEF Least
    <3>2. Uncovered(u) = Siblings /\ Uncovered(v) = Siblings
      BY DEF Uncovered, Siblings
    <3>3. Owed(u, n - 1, v.period) = Cost(Siblings - (n - 1))
      BY <3>1, <3>2 DEF Owed
    <3>4. n <= Siblings
      <4>1. Cost(n) < Cost(Siblings) + Ceiling
        BY <1>1, <1>2, <1>4, <2>3, RunFigures
      <4>2. QED
        BY <4>1, RunFigures, CostOrder
    <3>5. Siblings - n \in Nat /\ Siblings - (n - 1) = (Siblings - n) + 1
      BY <3>4, RunFigures
    <3>6. Cost((Siblings - n) + 1) = Cost(Siblings - n) + Ceiling /\ Cost(Siblings - n) \in Nat
      BY <3>5, CostFacts
    <3>7. Owed(v, n, v.period) <= Cost(Siblings - n)
      BY <3>2, <3>6 DEF Owed
    <3>8. Owed(u, n - 1, v.period) = Cost(Siblings - n) + Ceiling
      BY <3>3, <3>5, <3>6
    <3>9. QED
      BY <1>2, <2>1, <3>1, <3>6, <3>7, <3>8, RunFigures
  <2>4. QED
    BY <1>2, <2>2, <2>3, RunFigures
<1>10. QED
  BY <1>7, <1>8, <1>9

(* A charge with no hold is allowed for.                                   *)
LEMMA IncurredSound ==
  ASSUME NEW v \in Reservation, NEW n \in Nat, NEW w \in Nat, NEW D, RunSound(v, n, w, D),
         NEW c \in Nat, NEW z \in Nat, w + c <= z,
         NEW u \in Reservation, u.status = v.status, u.amount = v.amount,
         u.settled = v.settled \/ u.settled = v.settled + c,
         u.user = v.user, u.period = v.period
  PROVE  RunSound(u, n, z, D) /\ \A p : Owed(u, n, p) = Owed(v, n, p)
<1>1. v.amount \in Nat /\ v.settled \in Nat /\ Cost(n) \in Nat
  BY CostFacts DEF Reservation
<1>2. Backing(u, n)
  BY DEF RunSound, Backing, Uncovered
<1>3. Within(u, n, z, D)
  BY <1>1, RunFigures DEF RunSound, Within
<1>4. QED
  BY <1>2, <1>3 DEF RunSound, Owed, Uncovered

-----------------------------------------------------------------------------
(* The books of all runs.  N counts the calls of each run that have left   *)
(* and are not recorded; W and P are what was charged with no hold, by run *)
(* and by period.                                                          *)

Dues(b, N, q) == [r \in ReservationIds |-> Owed(b.resv[r], N[r], q)]

Debts(b, N, q) == Total(Dues(b, N, q), ReservationIds)

(* The current period of a user who has always been limited.               *)
Watched(pr, D) == pr.status = "current" /\ pr.user \in D.limited

Healthy(pr, D) ==
  /\ pr.consumed + D.hand[pr.user] >= 0
  /\ pr.reserved <= pr.allowance + D.hand[pr.user]

(* A current period is overdrawn by no more than its runs owe it, what was *)
(* charged with no hold and what was cut by hand; without its charges it is*)
(* overdrawn by the last alone.                                            *)
Solvent(b, N, P, q, D) ==
  /\ Healthy(b.period[q], D)
  /\ Available(b.period[q]) + P[q] + D.hand[b.period[q].user] + Debts(b, N, q) >= 0

RunsSound(b, N, W, D) == \A r \in ReservationIds : RunSound(b.resv[r], N[r], W[r], D)

InBounds(b, N, W, P, D) ==
  /\ RunsSound(b, N, W, D)
  /\ \A q \in PeriodIds : Watched(b.period[q], D) => Solvent(b, N, P, q, D)

Counts(N, W, P, D) ==
  /\ N \in [ReservationIds -> Nat] /\ W \in [ReservationIds -> Nat] /\ P \in [PeriodIds -> Nat]
  /\ \A u \in D.limited : D.hand[u] \in Nat

(* What is owed to a period is finitely many natural numbers.              *)
LEMMA DuesFacts ==
  ASSUME NEW b \in BooksType, NEW N, NEW W, NEW P, NEW D,
         Counts(N, W, P, D), RunsSound(b, N, W, D), NEW q
  PROVE  /\ IsFiniteSet(ReservationIds)
         /\ \A r \in ReservationIds : /\ Dues(b, N, q)[r] = Owed(b.resv[r], N[r], q)
                                      /\ Dues(b, N, q)[r] \in Nat
         /\ Debts(b, N, q) \in Nat
<1>1. IsFiniteSet(ReservationIds)
  BY CreditAssumption
<1>2. ASSUME NEW r \in ReservationIds
      PROVE  Dues(b, N, q)[r] = Owed(b.resv[r], N[r], q) /\ Dues(b, N, q)[r] \in Nat
  <2>1. b.resv[r] \in Reservation /\ N[r] \in Nat /\ Backing(b.resv[r], N[r])
    BY DEF BooksType, Counts, RunsSound, RunSound
  <2>2. Owed(b.resv[r], N[r], q) \in Nat
    BY <2>1, OwedFacts
  <2>3. QED
    BY <2>2 DEF Dues
<1>3. Debts(b, N, q) \in Nat
  BY <1>1, <1>2, TotalType, Zenon DEF Debts
<1>4. QED
  BY <1>1, <1>2, <1>3

(* What is owed to a period falls by no more than what one run owes less.  *)
LEMMA DebtsChange ==
  ASSUME NEW b \in BooksType, NEW N, NEW W, NEW P, NEW D,
         Counts(N, W, P, D), RunsSound(b, N, W, D),
         NEW c \in BooksType, NEW M, NEW X, NEW Q, Counts(M, X, Q, D), RunsSound(c, M, X, D),
         NEW q, NEW r \in ReservationIds, NEW d \in Int,
         \A s \in ReservationIds \ {r} : Owed(b.resv[s], N[s], q) <= Owed(c.resv[s], M[s], q),
         Owed(b.resv[r], N[r], q) <= Owed(c.resv[r], M[r], q) + d
  PROVE  Debts(b, N, q) <= Debts(c, M, q) + d
<1> DEFINE f == Dues(b, N, q)
           g == Dues(c, M, q)
<1>1. /\ IsFiniteSet(ReservationIds)
      /\ \A s \in ReservationIds : /\ f[s] = Owed(b.resv[s], N[s], q) /\ f[s] \in Nat
  BY DuesFacts
<1>2. \A s \in ReservationIds : /\ g[s] = Owed(c.resv[s], M[s], q) /\ g[s] \in Nat
  BY DuesFacts
<1> HIDE DEF f, g
<1>3. Total(f, ReservationIds) <= Total(g, ReservationIds) + d
  BY <1>1, <1>2, TotalChange
<1>4. QED
  BY <1>3 DEF Debts, f, g

(* Where every run owes at least as much, so do all.                       *)
LEMMA DebtsGrow ==
  ASSUME NEW b \in BooksType, NEW N, NEW W, NEW P, NEW D,
         Counts(N, W, P, D), RunsSound(b, N, W, D),
         NEW c \in BooksType, NEW M, NEW X, NEW Q, Counts(M, X, Q, D), RunsSound(c, M, X, D), NEW q,
         \A s \in ReservationIds : Owed(b.resv[s], N[s], q) <= Owed(c.resv[s], M[s], q)
  PROVE  Debts(b, N, q) <= Debts(c, M, q)
<1> DEFINE f == Dues(b, N, q)
           g == Dues(c, M, q)
<1>1. /\ IsFiniteSet(ReservationIds)
      /\ \A s \in ReservationIds : /\ f[s] = Owed(b.resv[s], N[s], q) /\ f[s] \in Nat
  BY DuesFacts
<1>2. \A s \in ReservationIds : /\ g[s] = Owed(c.resv[s], M[s], q) /\ g[s] \in Nat
  BY DuesFacts
<1> HIDE DEF f, g
<1>3. Total(f, ReservationIds) <= Total(g, ReservationIds)
  BY <1>1, <1>2, TotalMonotone
<1>4. QED
  BY <1>3 DEF Debts, f, g

(* The figures of a period.                                                *)
LEMMA Balance ==
  ASSUME NEW b \in BooksType, NEW q \in PeriodIds
  PROVE  /\ b.period[q].allowance \in Int /\ b.period[q].consumed \in Int
         /\ b.period[q].reserved \in Nat
         /\ Available(b.period[q]) \in Int
         /\ Available(b.period[q])
              = b.period[q].allowance - b.period[q].consumed - b.period[q].reserved
BY DEF BooksType, Period, Available

(* A period overdrawn by hand alone is solvent whatever it is owed.        *)
LEMMA Afresh ==
  ASSUME NEW c \in BooksType, NEW M, NEW X, NEW Q, NEW D,
         Counts(M, X, Q, D), RunsSound(c, M, X, D),
         NEW q \in PeriodIds, Watched(c.period[q], D), Healthy(c.period[q], D),
         Available(c.period[q]) + D.hand[c.period[q].user] >= 0
  PROVE  Solvent(c, M, Q, q, D)
<1>1. /\ Debts(c, M, q) \in Nat /\ Q[q] \in Nat /\ Available(c.period[q]) \in Int
      /\ D.hand[c.period[q].user] \in Nat
  BY DuesFacts, Balance DEF Counts, Watched
<1>2. QED
  BY <1>1 DEF Solvent

(* A period stays solvent when its balance and what it is owed only grow.  *)
LEMMA StillSolvent ==
  ASSUME NEW b \in BooksType, NEW N, NEW W, NEW P, NEW D,
         Counts(N, W, P, D), RunsSound(b, N, W, D),
         NEW c \in BooksType, NEW M, NEW X, NEW Q, Counts(M, X, Q, D), RunsSound(c, M, X, D),
         NEW q \in PeriodIds, Solvent(b, N, P, q, D), Healthy(c.period[q], D),
         Watched(c.period[q], D), c.period[q].user = b.period[q].user,
         \A s \in ReservationIds : Owed(b.resv[s], N[s], q) <= Owed(c.resv[s], M[s], q),
         P[q] <= Q[q], Available(b.period[q]) <= Available(c.period[q])
  PROVE  Solvent(c, M, Q, q, D)
<1>1. Debts(b, N, q) <= Debts(c, M, q)
  BY DebtsGrow
<1>2. /\ Debts(b, N, q) \in Nat /\ Debts(c, M, q) \in Nat
      /\ P[q] \in Nat /\ Q[q] \in Nat
      /\ Available(b.period[q]) \in Int /\ Available(c.period[q]) \in Int
      /\ D.hand[c.period[q].user] \in Nat
  BY DuesFacts, Balance DEF Counts, Watched
<1>3. QED
  BY <1>1, <1>2 DEF Solvent

(* It stays so too when one run owes more by as much as the balance falls, *)
(* or the fall was charged with no hold.                                   *)
LEMMA SolventByOne ==
  ASSUME NEW b \in BooksType, NEW N, NEW W, NEW P, NEW D,
         Counts(N, W, P, D), RunsSound(b, N, W, D),
         NEW c \in BooksType, NEW M, NEW X, NEW Q, Counts(M, X, Q, D), RunsSound(c, M, X, D),
         NEW q \in PeriodIds, Solvent(b, N, P, q, D), Healthy(c.period[q], D),
         Watched(c.period[q], D), c.period[q].user = b.period[q].user,
         NEW r \in ReservationIds,
         \A s \in ReservationIds \ {r} : Owed(b.resv[s], N[s], q) <= Owed(c.resv[s], M[s], q),
         P[q] + Available(b.period[q]) + Owed(b.resv[r], N[r], q)
           <= Q[q] + Available(c.period[q]) + Owed(c.resv[r], M[r], q)
  PROVE  Solvent(c, M, Q, q, D)
<1> DEFINE before == Owed(b.resv[r], N[r], q)
           after  == Owed(c.resv[r], M[r], q)
           d      == before - after
<1>1. before \in Nat /\ after \in Nat
  <2>1. /\ b.resv[r] \in Reservation /\ N[r] \in Nat /\ Backing(b.resv[r], N[r])
        /\ c.resv[r] \in Reservation /\ M[r] \in Nat /\ Backing(c.resv[r], M[r])
    BY DEF BooksType, Counts, RunsSound, RunSound
  <2>2. QED
    BY <2>1, OwedFacts
<1> HIDE DEF before, after
<1>2. d \in Int /\ before <= after + d
  BY <1>1
<1> HIDE DEF d
<1>3. Debts(b, N, q) <= Debts(c, M, q) + d
  BY <1>2, DebtsChange DEF before, after
<1>4. /\ Debts(b, N, q) \in Nat /\ Debts(c, M, q) \in Nat
      /\ P[q] \in Nat /\ Q[q] \in Nat
      /\ Available(b.period[q]) \in Int /\ Available(c.period[q]) \in Int
      /\ D.hand[c.period[q].user] \in Nat
  BY DuesFacts, Balance DEF Counts, Watched
<1>5. P[q] + Available(b.period[q]) + before <= Q[q] + Available(c.period[q]) + after
  BY DEF before, after
<1>6. QED
  BY <1>1, <1>3, <1>4, <1>5 DEF Solvent, d

(* Recovery expires holds and gives what they held back.                   *)
LEMMA RecoveredSound ==
  ASSUME NEW b, BooksInv(b), NEW N, NEW W, NEW P, NEW D,
         Counts(N, W, P, D), InBounds(b, N, W, P, D),
         NEW S \in SUBSET Lapsed(b.resv)
  PROVE  InBounds(Recovered(b, S), N, W, P, D)
<1> DEFINE freed(p) == Total(AmountOf(b.resv), {r \in S : b.resv[r].period = p})
           c == Recovered(b, S)
<1>1. /\ b \in BooksType
      /\ b.period \in [PeriodIds -> Period] /\ b.resv \in [ReservationIds -> Reservation]
  BY DEF BooksInv, BooksType
<1>2. S \subseteq ReservationIds /\ \A r \in S : b.resv[r].status = "open"
  BY DEF Lapsed
<1>3. c \in BooksType
  BY RecoveredInv DEF BooksInv
<1>4. /\ \A p \in PeriodIds :
           c.period[p] = [b.period[p] EXCEPT !.reserved = AtLeastZero(@ - freed(p))]
      /\ \A r \in ReservationIds :
           c.resv[r] = IF r \in S THEN Closed(b.resv[r], "expired") ELSE b.resv[r]
  BY <1>1 DEF Recovered, BooksType
<1> HIDE DEF c
<1>5. ASSUME NEW p \in PeriodIds PROVE freed(p) \in Nat
  <2>1. {r \in S : b.resv[r].period = p} \in SUBSET ReservationIds
    BY <1>2
  <2>2. QED
    BY <1>1, <2>1, HoldsFinite, TotalType, Zenon
<1> HIDE DEF freed
<1>6. ASSUME NEW r \in ReservationIds
      PROVE  /\ RunSound(c.resv[r], N[r], W[r], D)
             /\ \A q : Owed(b.resv[r], N[r], q) <= Owed(c.resv[r], N[r], q)
  <2>1. /\ b.resv[r] \in Reservation /\ N[r] \in Nat /\ W[r] \in Nat
        /\ RunSound(b.resv[r], N[r], W[r], D)
    BY <1>1 DEF Counts, InBounds, RunsSound
  <2>2. CASE r \in S
    <3> DEFINE v == b.resv[r]
               u == Closed(v, "expired")
    <3>1. v.status = "open" /\ v.status \in HeldStatuses
      BY <1>2, <2>2 DEF HeldStatuses
    <3>2. u \in Reservation /\ u.status = "expired" /\ u.period = v.period /\ u.user = v.user
      BY <2>1, ClosedFields
    <3>3. u.amount = 0 /\ u.settled = v.settled /\ v.amount \in Nat /\ v.settled \in Nat
      BY <2>1 DEF Closed, Reservation
    <3>4. N[r] <= Uncovered(u)
      BY <2>1, <3>2, UncoveredFacts, RunFigures DEF RunSound
    <3>5. c.resv[r] = u
      BY <1>4, <2>2
    <3> HIDE DEF u
    <3>6. u.settled <= v.settled + v.amount
      BY <3>3
    <3>7. RunSound(u, N[r], W[r], D) /\ \A q : Owed(v, N[r], q) <= Owed(u, N[r], q)
      BY <2>1, <3>1, <3>2, <3>3, <3>4, <3>6, ClosedSound
    <3>8. QED
      BY <3>5, <3>7
  <2>3. CASE r \notin S
    <3>1. c.resv[r] = b.resv[r]
      BY <1>4, <2>3
    <3>2. QED
      BY <2>1, <3>1, FewerSound
  <2>4. QED
    BY <2>2, <2>3
<1>7. RunsSound(c, N, W, D)
  BY <1>6 DEF RunsSound
<1>8. ASSUME NEW q \in PeriodIds, Watched(c.period[q], D)
      PROVE  Solvent(c, N, P, q, D)
  <2>1. b.period[q] \in Period /\ freed(q) \in Nat
    BY <1>1, <1>5
  <2>2. /\ c.period[q].status = b.period[q].status
        /\ c.period[q].user = b.period[q].user
        /\ c.period[q].allowance = b.period[q].allowance
        /\ c.period[q].consumed = b.period[q].consumed
        /\ c.period[q].reserved <= b.period[q].reserved
    <3> DEFINE rest == AtLeastZero(b.period[q].reserved - freed(q))
    <3>1. b.period[q].reserved \in Nat
      BY <2>1 DEF Period
    <3>2. rest <= b.period[q].reserved
      BY <2>1, <3>1 DEF AtLeastZero
    <3>3. c.period[q] = [b.period[q] EXCEPT !.reserved = rest]
      BY <1>4
    <3> HIDE DEF rest
    <3>4. QED
      BY <2>1, <3>2, <3>3 DEF Period
  <2>3. Solvent(b, N, P, q, D)
    BY <1>8, <2>2 DEF InBounds, Watched
  <2>4. Healthy(c.period[q], D) /\ Available(b.period[q]) <= Available(c.period[q])
    <3>1. D.hand[b.period[q].user] \in Nat
      BY <1>8, <2>2 DEF Watched, Counts
    <3>2. QED
      BY <1>1, <1>3, <2>2, <2>3, <3>1, Balance DEF Solvent, Healthy
  <2>5. P[q] <= P[q]
    BY DEF Counts
  <2>6. QED
    BY <1>1, <1>3, <1>6, <1>7, <1>8, <2>2, <2>3, <2>4, <2>5, StillSolvent DEF InBounds
<1>9. QED
  BY <1>7, <1>8 DEF InBounds, c

(* A new period with no hold and no charge is not overdrawn.               *)
LEMMA OpenedSound ==
  ASSUME NEW b, BooksInv(b), NEW N, NEW W, NEW P, NEW D,
         Counts(N, W, P, D), InBounds(b, N, W, P, D),
         NEW n \in PeriodIds, NEW new \in Period,
         new.consumed = 0, new.reserved = 0, new.allowance >= 0
  PROVE  InBounds(Opened(b, n, new), N, W, P, D)
<1> DEFINE c == Opened(b, n, new)
<1>1. b \in BooksType
  BY DEF BooksInv
<1>2. /\ c \in BooksType /\ c.resv = b.resv
      /\ c.period = [q \in PeriodIds |-> IF q = n THEN new ELSE b.period[q]]
  BY <1>1, OpenedFields
<1> HIDE DEF c
<1>3. RunsSound(c, N, W, D)
  BY <1>2 DEF InBounds, RunsSound
<1>4. ASSUME NEW q \in PeriodIds, Watched(c.period[q], D)
      PROVE  Solvent(c, N, P, q, D)
  <2>1. CASE q = n
    <3>1. c.period[q] = new
      BY <1>2, <2>1
    <3>2. D.hand[new.user] \in Nat
      BY <1>4, <3>1 DEF Watched, Counts
    <3>3. Healthy(c.period[q], D) /\ Available(c.period[q]) + D.hand[c.period[q].user] >= 0
      BY <3>1, <3>2 DEF Healthy, Available, Period
    <3>4. QED
      BY <1>2, <1>3, <1>4, <3>3, Afresh
  <2>2. CASE q # n
    <3>1. c.period[q] = b.period[q]
      BY <1>2, <2>2
    <3>2. Solvent(b, N, P, q, D)
      BY <1>4, <3>1 DEF InBounds
    <3>3. Debts(c, N, q) = Debts(b, N, q)
      BY <1>2 DEF Debts, Dues
    <3>4. QED
      BY <3>1, <3>2, <3>3 DEF Solvent
  <2>3. QED
    BY <2>1, <2>2
<1>5. QED
  BY <1>3, <1>4 DEF InBounds, c

(* The month after starts with its allowance less what is still held, which*)
(* the allowance covered.                                                  *)
LEMMA RolledSound ==
  ASSUME NEW b, BooksInv(b), NEW N, NEW W, NEW P, NEW D,
         Counts(N, W, P, D), InBounds(b, N, W, P, D),
         NEW u \in Users, NEW p \in CurrentOf(b.period, u),
         NEW n \in Fresh(b.period), NEW reset \in {"later", "due"}
  PROVE  InBounds(Rolled(b, p, n, reset), N, W, P, D)
<1> DEFINE c == Rolled(b, p, n, reset)
<1>1. /\ b \in BooksType
      /\ b.period \in [PeriodIds -> Period] /\ b.resv \in [ReservationIds -> Reservation]
  BY DEF BooksInv, BooksType
<1>2. /\ p \in PeriodIds /\ b.period[p].status = "current" /\ b.period[p].user = u
      /\ n \in PeriodIds /\ n # p
  BY DEF CurrentOf, Fresh
<1>3. RolledTo(b, p, n, reset, c)
  BY <1>2, RolledFields
<1> HIDE DEF c
<1>4. /\ c \in BooksType
      /\ c.period[p] = [b.period[p] EXCEPT !.status = "closed", !.reserved = 0]
      /\ c.period[n] = NewPeriod(b.period[p].user, b.period[p].allowance, reset,
                                 b.period[p].reserved)
      /\ \A q \in PeriodIds \ {n, p} : c.period[q] = b.period[q]
      /\ c.resv = [r \in ReservationIds |-> IF r \in HeldIn(b.resv, p)
                                            THEN [b.resv[r] EXCEPT !.period = n]
                                            ELSE b.resv[r]]
  BY <1>3 DEF RolledTo
<1>5. ASSUME NEW r \in ReservationIds
      PROVE  /\ RunSound(c.resv[r], N[r], W[r], D)
             /\ \A q \in PeriodIds \ {n, p} :
                  Owed(b.resv[r], N[r], q) <= Owed(c.resv[r], N[r], q)
  <2>1. /\ b.resv[r] \in Reservation /\ c.resv[r] \in Reservation
        /\ N[r] \in Nat /\ W[r] \in Nat
        /\ RunSound(b.resv[r], N[r], W[r], D)
    BY <1>1, <1>4 DEF Counts, InBounds, RunsSound, BooksType
  <2>2. CASE r \in HeldIn(b.resv, p)
    <3>1. c.resv[r] = [b.resv[r] EXCEPT !.period = n] /\ b.resv[r].period = p
      BY <1>4, <2>2 DEF HeldIn
    <3>2. /\ c.resv[r].status = b.resv[r].status /\ c.resv[r].amount = b.resv[r].amount
          /\ c.resv[r].settled = b.resv[r].settled /\ c.resv[r].user = b.resv[r].user
          /\ c.resv[r].period = n
      BY <2>1, <3>1 DEF Reservation
    <3>3. RunSound(c.resv[r], N[r], W[r], D)
      <4>1. b.resv[r].status # "unused"
        BY <2>2 DEF HeldIn, HeldStatuses
      <4>2. QED
        BY <2>1, <3>2, <4>1, CarriedSound
    <3>4. ASSUME NEW q \in PeriodIds \ {n, p}
          PROVE  Owed(b.resv[r], N[r], q) <= Owed(c.resv[r], N[r], q)
      BY <3>1, <3>2 DEF Owed
    <3>5. QED
      BY <3>3, <3>4
  <2>3. CASE r \notin HeldIn(b.resv, p)
    <3>1. c.resv[r] = b.resv[r]
      BY <1>4, <2>3
    <3>2. QED
      BY <2>1, <3>1, FewerSound
  <2>4. QED
    BY <2>2, <2>3
<1>6. RunsSound(c, N, W, D)
  BY <1>5 DEF RunsSound
<1>7. ASSUME NEW q \in PeriodIds, Watched(c.period[q], D)
      PROVE  Solvent(c, N, P, q, D)
  <2>1. CASE q = n
    <3>1. /\ c.period[n].consumed = 0 /\ c.period[n].allowance = b.period[p].allowance
          /\ c.period[n].reserved = b.period[p].reserved
          /\ c.period[n].user = b.period[p].user
      BY <1>4 DEF NewPeriod
    <3>2. Solvent(b, N, P, p, D) /\ b.period[p] \in Period /\ D.hand[b.period[p].user] \in Nat
      BY <1>1, <1>2, <1>7, <2>1, <3>1 DEF InBounds, Watched, Counts
    <3>3. Healthy(c.period[n], D) /\ Available(c.period[n]) + D.hand[c.period[n].user] >= 0
      BY <3>1, <3>2 DEF Healthy, Available, Solvent, Period
    <3>4. QED
      BY <1>4, <1>6, <1>7, <2>1, <3>3, Afresh
  <2>2. CASE q = p
    <3>1. c.period[p].status = "closed"
      BY <1>1, <1>2, <1>4 DEF Period
    <3>2. QED
      BY <1>7, <2>2, <3>1 DEF Watched
  <2>3. CASE q \notin {n, p}
    <3>1. c.period[q] = b.period[q]
      BY <1>4, <2>3
    <3>2. Solvent(b, N, P, q, D) /\ Healthy(c.period[q], D)
      BY <1>7, <3>1 DEF InBounds, Solvent
    <3>3. P[q] <= P[q] /\ Available(b.period[q]) <= Available(c.period[q])
      BY <1>1, <3>1, Balance DEF Counts
    <3>4. \A r \in ReservationIds : Owed(b.resv[r], N[r], q) <= Owed(c.resv[r], N[r], q)
      BY <1>5, <2>3
    <3>5. QED
      BY <1>1, <1>4, <1>6, <1>7, <3>1, <3>2, <3>3, <3>4, StillSolvent DEF InBounds
  <2>4. QED
    BY <2>1, <2>2, <2>3
<1>8. QED
  BY <1>6, <1>7 DEF InBounds, c

(* So the period a transaction works on keeps all runs within bounds.      *)
LEMMA EnsuredSound ==
  ASSUME NEW b, BooksInv(b), NEW N, NEW W, NEW P, NEW D,
         Counts(N, W, P, D), InBounds(b, N, W, P, D),
         NEW u \in Users, NEW a \in Nat, NEW C \in SUBSET Cadences,
         NEW e \in EnsuredWith(b, u, a, C)
  PROVE  InBounds(e[1], N, W, P, D)
<1>1. CASE CurrentOf(b.period, u) = {}
  <2>1. PICK n \in Fresh(b.period), c \in C :
          e = <<Opened(b, n, NewPeriod(u, a, FirstReset(c), 0)), n>>
    BY <1>1 DEF EnsuredWith
  <2> DEFINE new == NewPeriod(u, a, FirstReset(c), 0)
  <2>2. new \in Period /\ new.consumed = 0 /\ new.reserved = 0 /\ new.allowance >= 0
    BY DEF NewPeriod, FirstReset, Period
  <2> HIDE DEF new
  <2>3. e[1] = Opened(b, n, new) /\ n \in PeriodIds
    BY <2>1 DEF new, Fresh
  <2>4. QED
    BY <2>2, <2>3, OpenedSound
<1>2. CASE CurrentOf(b.period, u) # {}
  <2>1. PICK p \in CurrentOf(b.period, u) :
          e \in IF b.period[p].reset = "due"
                THEN {<<Rolled(b, p, n, reset), n>> :
                        n \in Fresh(b.period), reset \in {"later", "due"}}
                ELSE {<<b, p>>}
    BY <1>2 DEF EnsuredWith
  <2>2. CASE b.period[p].reset = "due"
    <3>1. PICK n \in Fresh(b.period), reset \in {"later", "due"} :
            e = <<Rolled(b, p, n, reset), n>>
      BY <2>1, <2>2
    <3>2. e[1] = Rolled(b, p, n, reset)
      BY <3>1
    <3>3. QED
      BY <3>2, RolledSound
  <2>3. CASE b.period[p].reset # "due"
    <3>1. e[1] = b
      BY <2>1, <2>3
    <3>2. QED
      BY <3>1
  <2>4. QED
    BY <2>2, <2>3
<1>3. QED
  BY <1>1, <1>2

(* A funded hold: the balance it is taken from stays at or above zero.     *)
LEMMA HoldingSound ==
  ASSUME NEW b, BooksInv(b), NEW N, NEW W, NEW P, NEW D,
         Counts(N, W, P, D), InBounds(b, N, W, P, D),
         NEW r \in ReservationIds, NEW p \in PeriodIds, NEW x \in Nat, NEW v \in Reservation,
         Holding(b, r, p, x, v) \in BooksType, b.period[p].status = "current",
         v.period = p, b.resv[r].status # "unused" => b.resv[r].period = p,
         b.period[p].user \in D.limited => x <= Available(b.period[p]),
         NEW M, Counts(M, W, P, D), \A s \in ReservationIds \ {r} : M[s] = N[s],
         RunSound(v, M[r], W[r], D)
  PROVE  InBounds(Holding(b, r, p, x, v), M, W, P, D)
<1> DEFINE c == Holding(b, r, p, x, v)
<1>1. /\ b \in BooksType
      /\ b.period \in [PeriodIds -> Period] /\ b.resv \in [ReservationIds -> Reservation]
  BY DEF BooksInv, BooksType
<1>2. c \in BooksType
  OBVIOUS
<1>3. /\ c.period = [b.period EXCEPT ![p].reserved = @ + x]
      /\ c.resv = [b.resv EXCEPT ![r] = v]
  BY <1>1 DEF Holding, BooksType
<1> HIDE DEF c
<1>4. /\ c.resv[r] = v
      /\ \A s \in ReservationIds \ {r} : c.resv[s] = b.resv[s]
      /\ \A q \in PeriodIds \ {p} : c.period[q] = b.period[q]
  BY <1>1, <1>3
<1>5. RunsSound(c, M, W, D)
  BY <1>4 DEF InBounds, RunsSound
<1>6. ASSUME NEW q \in PeriodIds, Watched(c.period[q], D)
      PROVE  Solvent(c, M, P, q, D)
  <2>1. CASE q = p
    <3>1. /\ c.period[p].consumed = b.period[p].consumed
          /\ c.period[p].allowance = b.period[p].allowance
          /\ c.period[p].reserved = b.period[p].reserved + x
          /\ c.period[p].user = b.period[p].user
          /\ b.period[p] \in Period
      BY <1>1, <1>3 DEF Period
    <3>2. /\ Solvent(b, N, P, p, D) /\ D.hand[b.period[p].user] \in Nat
          /\ x <= Available(b.period[p])
      BY <1>1, <1>6, <2>1, <3>1 DEF InBounds, Watched, Counts
    <3>3. Healthy(c.period[p], D) /\ Available(c.period[p]) + D.hand[c.period[p].user] >= 0
      BY <3>1, <3>2 DEF Healthy, Available, Solvent, Period
    <3>4. QED
      BY <1>2, <1>5, <1>6, <2>1, <3>3, Afresh
  <2>2. CASE q # p
    <3>1. c.period[q] = b.period[q]
      BY <1>4, <2>2
    <3>2. Solvent(b, N, P, q, D) /\ Healthy(c.period[q], D)
      BY <1>6, <3>1 DEF InBounds, Solvent
    <3>3. P[q] <= P[q] /\ Available(b.period[q]) <= Available(c.period[q])
      BY <1>1, <3>1, Balance DEF Counts
    <3>4. ASSUME NEW s \in ReservationIds
          PROVE  Owed(b.resv[s], N[s], q) <= Owed(c.resv[s], M[s], q)
      <4>1. CASE s = r
        <5>1. Owed(v, M[r], q) = 0
          BY <2>2 DEF Owed
        <5>2. b.resv[r].period # q
          BY <2>2 DEF InBounds, RunsSound, RunSound
        <5>3. Owed(b.resv[r], N[r], q) = 0
          BY <5>2 DEF Owed
        <5>4. QED
          BY <1>4, <4>1, <5>1, <5>3
      <4>2. CASE s # r
        <5>1. Owed(b.resv[s], N[s], q) \in Nat
          BY <1>1, OwedFacts DEF InBounds, RunsSound, RunSound, Counts
        <5>2. QED
          BY <1>4, <4>2, <5>1
      <4>3. QED
        BY <4>1, <4>2
    <3>5. QED
      BY <1>1, <1>2, <1>5, <1>6, <3>1, <3>2, <3>3, <3>4, StillSolvent DEF InBounds
  <2>3. QED
    BY <2>1, <2>2
<1>7. QED
  BY <1>5, <1>6 DEF InBounds, c

(* One reservation and one period change, and what that run may owe makes  *)
(* up for the balance.                                                     *)
LEMMA SoundByOne ==
  ASSUME NEW b \in BooksType, NEW N, NEW W, NEW P, NEW D,
         Counts(N, W, P, D), InBounds(b, N, W, P, D),
         NEW c \in BooksType, NEW M, NEW X, NEW Q, Counts(M, X, Q, D),
         NEW r \in ReservationIds, NEW p \in PeriodIds,
         \A s \in ReservationIds \ {r} : c.resv[s] = b.resv[s] /\ M[s] <= N[s],
         \A s \in ReservationIds : W[s] <= X[s],
         \A q \in PeriodIds : P[q] <= Q[q],
         RunSound(c.resv[r], M[r], X[r], D),
         \A q \in PeriodIds \ {p} :
           c.period[q] = b.period[q] /\ Owed(b.resv[r], N[r], q) <= Owed(c.resv[r], M[r], q),
         c.period[p].status = b.period[p].status, c.period[p].user = b.period[p].user,
         Watched(b.period[p], D) /\ Healthy(b.period[p], D) => Healthy(c.period[p], D),
         P[p] + Available(b.period[p]) + Owed(b.resv[r], N[r], p)
           <= Q[p] + Available(c.period[p]) + Owed(c.resv[r], M[r], p)
  PROVE  InBounds(c, M, X, Q, D)
<1>1. ASSUME NEW s \in ReservationIds \ {r}
      PROVE  /\ RunSound(c.resv[s], M[s], X[s], D)
             /\ \A q : Owed(b.resv[s], N[s], q) <= Owed(c.resv[s], M[s], q)
  <2>1. /\ b.resv[s] \in Reservation /\ RunSound(b.resv[s], N[s], W[s], D)
        /\ N[s] \in Nat /\ M[s] \in Nat /\ W[s] \in Nat /\ X[s] \in Nat
    BY DEF BooksType, InBounds, RunsSound, Counts
  <2>2. QED
    BY <2>1, FewerSound
<1>2. RunsSound(b, N, W, D) /\ RunsSound(c, M, X, D)
  BY <1>1 DEF InBounds, RunsSound
<1>3. ASSUME NEW q \in PeriodIds, Watched(c.period[q], D)
      PROVE  Solvent(c, M, Q, q, D)
  <2>1. Solvent(b, N, P, q, D) /\ c.period[q].user = b.period[q].user
    BY <1>3 DEF InBounds, Watched
  <2>2. CASE q = p
    <3>1. Watched(b.period[p], D) /\ Healthy(c.period[q], D)
      BY <1>3, <2>1, <2>2 DEF Watched, Solvent
    <3>2. QED
      BY <1>1, <1>2, <1>3, <2>1, <2>2, <3>1, SolventByOne
  <2>3. CASE q # p
    <3>1. c.period[q] = b.period[q] /\ Available(b.period[q]) <= Available(c.period[q])
      BY <2>3, Balance
    <3>2. \A s \in ReservationIds : Owed(b.resv[s], N[s], q) <= Owed(c.resv[s], M[s], q)
      BY <1>1, <2>3
    <3>3. Healthy(c.period[q], D)
      BY <2>1, <3>1 DEF Solvent
    <3>4. QED
      BY <1>2, <1>3, <2>1, <3>1, <3>2, <3>3, StillSolvent
  <2>4. QED
    BY <2>2, <2>3
<1>4. QED
  BY <1>2, <1>3 DEF InBounds

-----------------------------------------------------------------------------
(* The calls of the runs.                                                  *)

(* The calls of r that have left and are not recorded.                     *)
Sent(r) == {k \in CallsOf(r) : attempt[k].step \in {"sent", "answered"} /\ ~Settled(k)}

Flying(r) == {k \in CallsOf(r) : InFlight(k)}

Counting == [r \in ReservationIds |-> Cardinality(Sent(r))]

(* What is known of the accounts.                                          *)
Desked == [hand |-> hand, limited |-> limited]

Unheld(cs, at, S) == Total(UnheldOf(cs, at), S)

RunCharged == [r \in ReservationIds |-> Unheld(call, attempt, CallsOf(r))]

PeriodCharged == [p \in PeriodIds |-> Unheld(call, attempt, CallsIn(call, p))]

(* A run has at most MaxParallel calls in flight; run alone, it ends with  *)
(* none; and no call is recorded that was not made.                        *)
CallsInv ==
  /\ \A k \in CallKeys : attempt[k].step = "idle" => ~Settled(k)
  /\ \A r \in ReservationIds :
       /\ Cardinality(Flying(r)) <= MaxParallel
       /\ MaxParallel = 1 /\ run[r] \in {"returning", "over"} => Flying(r) = {}

BooksSound == InBounds(Books, Counting, RunCharged, PeriodCharged, Desked)

SpendInv == IInv /\ AttemptsOK /\ CallsInv /\ HistoryOK /\ BooksSound

(* The part of one call's charge that had no hold.                         *)
LEMMA UnheldFacts ==
  ASSUME NEW cs \in [CallKeys -> Call], NEW at
  PROVE  \A k \in CallKeys :
           /\ UnheldOf(cs, at)[k] \in Nat /\ UnheldOf(cs, at)[k] <= cs[k].charge
           /\ at[k].step = "incurred" => UnheldOf(cs, at)[k] = cs[k].charge
           /\ cs[k].charge <= Ceiling + UnheldOf(cs, at)[k]
           /\ at[k].step # "incurred" /\ cs[k].charge <= Ceiling => UnheldOf(cs, at)[k] = 0
<1> SUFFICES ASSUME NEW k \in CallKeys
             PROVE  /\ UnheldOf(cs, at)[k] \in Nat /\ UnheldOf(cs, at)[k] <= cs[k].charge
                    /\ at[k].step = "incurred" => UnheldOf(cs, at)[k] = cs[k].charge
                    /\ cs[k].charge <= Ceiling + UnheldOf(cs, at)[k]
                    /\ at[k].step # "incurred" /\ cs[k].charge <= Ceiling
                         => UnheldOf(cs, at)[k] = 0
  OBVIOUS
<1>1. cs[k].charge \in Nat /\ Ceiling \in Nat
  BY CostFacts DEF Call
<1>2. UnheldOf(cs, at)[k] = IF at[k].step = "incurred" THEN cs[k].charge
                            ELSE AtLeastZero(cs[k].charge - Ceiling)
  BY DEF UnheldOf
<1>3. QED
  BY <1>1, <1>2 DEF AtLeastZero

(* What is charged with no hold only grows, and by a call newly charged.   *)
LEMMA UnheldGrows ==
  ASSUME NEW cs \in [CallKeys -> Call], NEW ct \in [CallKeys -> Call], NEW at, NEW bt,
         NEW S \in SUBSET CallKeys, NEW T \in SUBSET CallKeys,
         \A j \in S : \/ cs[j].charge = 0
                     \/ /\ j \in T /\ ct[j] = cs[j]
                        /\ at[j].step = "incurred" => bt[j].step = "incurred"
  PROVE  /\ Unheld(cs, at, S) \in Nat /\ Unheld(ct, bt, T) \in Nat
         /\ Unheld(cs, at, S) <= Unheld(ct, bt, T)
         /\ \A k \in T :
              (k \in S => cs[k].charge = 0) =>
                Unheld(cs, at, S) + UnheldOf(ct, bt)[k] <= Unheld(ct, bt, T)
<1> DEFINE f == UnheldOf(cs, at)
           g == UnheldOf(ct, bt)
           A == {j \in S : f[j] # 0}
<1>1. /\ \A j \in CallKeys : f[j] \in Nat /\ g[j] \in Nat
      /\ \A j \in CallKeys : cs[j].charge = 0 => f[j] = 0
  <2>1. \A j \in CallKeys : f[j] \in Nat /\ g[j] \in Nat /\ f[j] <= cs[j].charge
    BY UnheldFacts
  <2>2. QED
    BY <2>1
<1>2. ASSUME NEW j \in A PROVE j \in T /\ f[j] <= g[j]
  <2>1. j \in CallKeys /\ cs[j].charge # 0
    BY <1>1
  <2>2. /\ j \in T /\ ct[j] = cs[j]
        /\ at[j].step = "incurred" => bt[j].step = "incurred"
    BY <2>1
  <2>3. /\ at[j].step = "incurred" => f[j] = cs[j].charge
        /\ bt[j].step = "incurred" => g[j] = ct[j].charge
        /\ f[j] <= cs[j].charge
    BY <2>1, UnheldFacts
  <2>4. CASE bt[j].step = "incurred"
    BY <2>2, <2>3, <2>4
  <2>5. CASE bt[j].step # "incurred"
    <3>1. f[j] = AtLeastZero(cs[j].charge - Ceiling) /\ g[j] = AtLeastZero(ct[j].charge - Ceiling)
      BY <2>1, <2>2, <2>5 DEF UnheldOf
    <3>2. QED
      BY <1>1, <2>1, <2>2, <3>1
  <2>6. QED
    BY <2>4, <2>5
<1>3. Unheld(cs, at, S) = Total(f, S) /\ Unheld(ct, bt, T) = Total(g, T)
  BY DEF Unheld
<1> HIDE DEF f, g
<1>4. \A j \in S : f[j] \in Nat
  BY <1>1
<1>5. Total(f, S) = Total(f, A)
  BY <1>4, TotalNonzero
<1>6. A \subseteq S /\ A \subseteq T /\ IsFiniteSet(A) /\ IsFiniteSet(T) /\ A \subseteq CallKeys
  <2>1. A \subseteq S /\ A \subseteq T
    BY <1>2
  <2>2. A \subseteq CallKeys
    BY <2>1
  <2>3. IsFiniteSet(CallKeys)
    BY CreditAssumption
  <2>4. QED
    BY <2>1, <2>2, <2>3, FS_Subset
<1>7. ASSUME NEW k \in T, k \in S => cs[k].charge = 0
      PROVE  Total(f, A) + g[k] <= Total(g, T)
  <2>1. k \notin A
    BY <1>1, <1>7
  <2> HIDE DEF A
  <2>2. IsFiniteSet(T \ {k}) /\ A \subseteq T \ {k}
    BY <1>6, <2>1, FS_RemoveElement
  <2>3. /\ \A j \in A : f[j] \in Nat /\ f[j] <= g[j]
        /\ \A j \in T \ {k} : g[j] \in Nat
        /\ \A j \in T : g[j] \in Nat
    BY <1>1, <1>2, <1>6
  <2>4. Total(f, A) <= Total(g, T \ {k})
    BY <2>2, <2>3, TotalMonotone
  <2>5. Total(g, T) = Total(g, T \ {k}) + g[k]
    BY <1>6, <2>3, TotalSplit, Zenon
  <2>6. Total(f, A) \in Nat /\ Total(g, T \ {k}) \in Nat /\ g[k] \in Nat
    BY <1>6, <2>2, <2>3, TotalType
  <2>7. QED
    BY <2>4, <2>5, <2>6
<1>8. Total(f, A) \in Nat /\ Total(g, T) \in Nat /\ Total(f, A) <= Total(g, T)
  <2> HIDE DEF A
  <2>1. /\ \A j \in A : f[j] \in Nat /\ f[j] <= g[j]
        /\ \A j \in T : g[j] \in Nat
    BY <1>1, <1>2, <1>6
  <2>2. QED
    BY <1>6, <2>1, TotalType, TotalMonotone
<1>9. \A k \in T : UnheldOf(ct, bt)[k] = g[k]
  BY DEF g
<1>10. QED
  BY <1>3, <1>5, <1>7, <1>8, <1>9

(* The counts are natural numbers, and no call out is not in flight.       *)
LEMMA CountsFacts ==
  ASSUME AttemptsOK, HistoryOK, call \in [CallKeys -> Call]
  PROVE  /\ Counts(Counting, RunCharged, PeriodCharged, Desked)
         /\ \A r \in ReservationIds :
              /\ IsFiniteSet(Flying(r)) /\ IsFiniteSet(Sent(r)) /\ Sent(r) \subseteq Flying(r)
              /\ Counting[r] = Cardinality(Sent(r)) /\ Counting[r] \in Nat
              /\ Cardinality(Flying(r)) \in Nat
              /\ Counting[r] <= Cardinality(Flying(r))
<1>1. ASSUME NEW r \in ReservationIds
      PROVE  /\ IsFiniteSet(Flying(r)) /\ IsFiniteSet(Sent(r)) /\ Sent(r) \subseteq Flying(r)
             /\ Cardinality(Sent(r)) \in Nat /\ Cardinality(Flying(r)) \in Nat
             /\ Cardinality(Sent(r)) <= Cardinality(Flying(r))
  <2>1. Flying(r) \subseteq CallKeys /\ Sent(r) \subseteq Flying(r)
    BY DEF Flying, Sent, CallsOf, InFlight
  <2>2. IsFiniteSet(Flying(r))
    BY <2>1, CreditAssumption, FS_Subset
  <2>3. QED
    BY <2>1, <2>2, FS_Subset, FS_CardinalityType
<1>2. ASSUME NEW r \in ReservationIds PROVE RunCharged[r] \in Nat
  <2>1. CallsOf(r) \in SUBSET CallKeys
    BY DEF CallsOf
  <2>2. Unheld(call, attempt, CallsOf(r)) \in Nat
    BY <2>1, UnheldGrows
  <2>3. QED
    BY <2>2 DEF RunCharged
<1>3. ASSUME NEW p \in PeriodIds PROVE PeriodCharged[p] \in Nat
  <2>1. CallsIn(call, p) \in SUBSET CallKeys
    BY DEF CallsIn
  <2>2. Unheld(call, attempt, CallsIn(call, p)) \in Nat
    BY <2>1, UnheldGrows
  <2>3. QED
    BY <2>2 DEF PeriodCharged
<1>4. Counting \in [ReservationIds -> Nat]
  BY <1>1 DEF Counting
<1>5. RunCharged \in [ReservationIds -> Nat]
  BY <1>2 DEF RunCharged
<1>6. PeriodCharged \in [PeriodIds -> Nat]
  BY <1>3 DEF PeriodCharged
<1>7. \A u \in Desked.limited : Desked.hand[u] \in Nat
  BY DEF Desked, HistoryOK
<1>8. QED
  BY <1>1, <1>4, <1>5, <1>6, <1>7 DEF Counts, Counting

(* No figure changes, and no more calls are out.                           *)
LEMMA FiguresKept ==
  ASSUME NEW b \in BooksType, NEW N, NEW W, NEW P, NEW D,
         Counts(N, W, P, D), InBounds(b, N, W, P, D),
         NEW c \in BooksType, NEW M, NEW X, NEW Q, Counts(M, X, Q, D),
         \A s \in ReservationIds :
           /\ c.resv[s].status = b.resv[s].status /\ c.resv[s].amount = b.resv[s].amount
           /\ c.resv[s].settled = b.resv[s].settled /\ c.resv[s].user = b.resv[s].user
           /\ c.resv[s].period = b.resv[s].period
           /\ M[s] <= N[s] /\ W[s] <= X[s],
         \A q \in PeriodIds :
           /\ c.period[q].status = b.period[q].status
           /\ c.period[q].user = b.period[q].user
           /\ c.period[q].allowance = b.period[q].allowance
           /\ c.period[q].consumed = b.period[q].consumed
           /\ c.period[q].reserved = b.period[q].reserved
           /\ P[q] <= Q[q]
  PROVE  InBounds(c, M, X, Q, D)
<1>1. ASSUME NEW s \in ReservationIds
      PROVE  /\ RunSound(c.resv[s], M[s], X[s], D)
             /\ \A q : Owed(b.resv[s], N[s], q) <= Owed(c.resv[s], M[s], q)
  <2>1. /\ b.resv[s] \in Reservation /\ c.resv[s] \in Reservation
        /\ RunSound(b.resv[s], N[s], W[s], D)
        /\ N[s] \in Nat /\ M[s] \in Nat /\ W[s] \in Nat /\ X[s] \in Nat
    BY DEF BooksType, InBounds, RunsSound, Counts
  <2>2. /\ RunSound(b.resv[s], M[s], X[s], D)
        /\ \A q : Owed(b.resv[s], N[s], q) <= Owed(b.resv[s], M[s], q)
    BY <2>1, FewerSound
  <2>3. \A q : Owed(c.resv[s], M[s], q) = Owed(b.resv[s], M[s], q)
    BY DEF Owed, Uncovered
  <2>4. RunSound(c.resv[s], M[s], X[s], D)
    BY <2>1, <2>2, CarriedSound
  <2>5. QED
    BY <2>2, <2>3, <2>4
<1>2. RunsSound(b, N, W, D) /\ RunsSound(c, M, X, D)
  BY <1>1 DEF InBounds, RunsSound
<1>3. ASSUME NEW q \in PeriodIds, Watched(c.period[q], D)
      PROVE  Solvent(c, M, Q, q, D)
  <2>1. Solvent(b, N, P, q, D)
    BY <1>3 DEF InBounds, Watched
  <2>2. Healthy(c.period[q], D) /\ Available(b.period[q]) <= Available(c.period[q])
    BY <2>1, Balance DEF Solvent, Healthy
  <2>3. P[q] <= Q[q]
    OBVIOUS
  <2>4. \A s \in ReservationIds : Owed(b.resv[s], N[s], q) <= Owed(c.resv[s], M[s], q)
    BY <1>1
  <2>5. QED
    BY <1>2, <1>3, <2>1, <2>2, <2>3, <2>4, StillSolvent, Zenon
<1>4. QED
  BY <1>2, <1>3 DEF InBounds

-----------------------------------------------------------------------------
(* The steps.                                                              *)

(* Runs and calls are as they were.                                        *)
LEMMA CallsKept ==
  ASSUME UNCHANGED <<call, attempt>>
  PROVE  /\ Counting' = Counting /\ RunCharged' = RunCharged /\ PeriodCharged' = PeriodCharged
         /\ CallsInv /\ UNCHANGED run => CallsInv'
<1>1. /\ \A r : Sent(r)' = Sent(r) /\ CallsOf(r)' = CallsOf(r) /\ Flying(r)' = Flying(r)
      /\ \A k : Settled(k)' = Settled(k)
  BY DEF Sent, CallsOf, Flying, InFlight, Settled
<1>2. Counting' = Counting
  BY <1>1 DEF Counting
<1>3. RunCharged' = RunCharged /\ PeriodCharged' = PeriodCharged
  BY <1>1 DEF RunCharged, PeriodCharged, Unheld, UnheldOf, CallsOf, CallsIn
<1>4. CallsInv /\ UNCHANGED run => CallsInv'
  BY <1>1 DEF CallsInv
<1>5. QED
  BY <1>2, <1>3, <1>4

(* The counts are natural numbers before and after a step.                 *)
LEMMA CountsNow ==
  IInv /\ AttemptsOK /\ HistoryOK =>
    /\ Counts(Counting, RunCharged, PeriodCharged, Desked)
    /\ \A r \in ReservationIds :
         /\ IsFiniteSet(Flying(r)) /\ IsFiniteSet(Sent(r)) /\ Sent(r) \subseteq Flying(r)
         /\ Counting[r] = Cardinality(Sent(r)) /\ Cardinality(Flying(r)) \in Nat
         /\ Counting[r] <= Cardinality(Flying(r))
BY CountsFacts DEF IInv

LEMMA CountsNext ==
  IInv' /\ AttemptsOK' /\ HistoryOK' => Counts(Counting', RunCharged', PeriodCharged', Desked')
<1>1. (IInv /\ AttemptsOK /\ HistoryOK
         => Counts(Counting, RunCharged, PeriodCharged, Desked))'
  <2>1. IInv /\ AttemptsOK /\ HistoryOK => Counts(Counting, RunCharged, PeriodCharged, Desked)
    BY CountsNow
  <2>2. QED
    BY <2>1, PTL
<1>2. QED
  BY <1>1

(* What is known of the accounts stays.                                    *)
LEMMA DeskedKept == UNCHANGED <<hand, limited>> => Desked' = Desked
BY DEF Desked

(* No more calls are out than a run may have.                              *)
LEMMA CountingNext ==
  IInv' /\ AttemptsOK' /\ HistoryOK' /\ CallsInv' =>
    \A s \in ReservationIds : Counting'[s] \in Nat /\ Counting'[s] <= MaxParallel
<1>1. IInv /\ AttemptsOK /\ HistoryOK /\ CallsInv =>
        \A s \in ReservationIds : Counting[s] \in Nat /\ Counting[s] <= MaxParallel
  <2> SUFFICES ASSUME IInv, AttemptsOK, HistoryOK, CallsInv, NEW s \in ReservationIds
               PROVE  Counting[s] \in Nat /\ Counting[s] <= MaxParallel
    OBVIOUS
  <2>1. /\ Counting[s] \in Nat /\ Cardinality(Flying(s)) \in Nat
        /\ Counting[s] <= Cardinality(Flying(s)) /\ Cardinality(Flying(s)) <= MaxParallel
    BY CountsNow DEF CallsInv, Counts
  <2>2. QED
    BY <2>1, RunFigures
<1>2. (IInv /\ AttemptsOK /\ HistoryOK /\ CallsInv =>
         \A s \in ReservationIds : Counting[s] \in Nat /\ Counting[s] <= MaxParallel)'
  BY <1>1, PTL
<1>3. QED
  BY <1>2

(* A step saves books in bounds and leaves the calls alone.                *)
LEMMA SavedSound ==
  ASSUME NEW c \in BooksType, Save(c), UNCHANGED <<call, attempt, hand, limited>>,
         InBounds(c, Counting, RunCharged, PeriodCharged, Desked)
  PROVE  BooksSound'
<1>1. Books' = c
  BY SavedBooks
<1>2. QED
  BY <1>1, CallsKept, DeskedKept DEF BooksSound

(* Only r and its period change, and both stay what they are.              *)
OnlyAt(r) ==
  LET p == resv[r].period IN
  /\ \A s \in ReservationIds \ {r} : resv'[s] = resv[s]
  /\ \A q \in PeriodIds \ {p} : period'[q] = period[q]
  /\ resv'[r].period = p /\ resv'[r].user = resv[r].user
  /\ period'[p].status = period[p].status /\ period'[p].allowance = period[p].allowance
  /\ period'[p].user = period[p].user

(* Such a step stays within bounds when what the run owes makes up for the *)
(* balance.                                                                *)
LEMMA OneRunSound ==
  ASSUME IInv, IInv', NEW r \in ReservationIds, resv[r].status # "unused",
         NEW N, NEW W, NEW P, NEW D, Counts(N, W, P, D), InBounds(Books, N, W, P, D),
         NEW M, NEW X, NEW Q, Counts(M, X, Q, D), OnlyAt(r),
         \A s \in ReservationIds \ {r} : M[s] <= N[s],
         \A s \in ReservationIds : W[s] <= X[s],
         \A q \in PeriodIds : P[q] <= Q[q],
         RunSound(resv'[r], M[r], X[r], D),
         NEW p, p = resv[r].period,
         period'[p].consumed >= period[p].consumed,
         period'[p].reserved <= period[p].reserved,
         P[p] + Available(period[p]) + Owed(resv[r], N[r], p)
           <= Q[p] + Available(period'[p]) + Owed(resv'[r], M[r], p)
  PROVE  InBounds(Books', M, X, Q, D)
<1> DEFINE b == Books
           c == Books'
<1>1. /\ b.resv = resv /\ b.period = period /\ c.resv = resv' /\ c.period = period'
  BY DEF Books
<1>2. b \in BooksType /\ c \in BooksType
  BY DEF IInv, BooksInv
<1>3. p \in PeriodIds
  BY Reserved
<1> HIDE DEF b, c
<1>4. /\ \A s \in ReservationIds \ {r} : c.resv[s] = b.resv[s]
      /\ RunSound(c.resv[r], M[r], X[r], D)
      /\ c.period[p].status = b.period[p].status
      /\ c.period[p].user = b.period[p].user
      /\ P[p] + Available(b.period[p]) + Owed(b.resv[r], N[r], p)
           <= Q[p] + Available(c.period[p]) + Owed(c.resv[r], M[r], p)
  BY <1>1 DEF OnlyAt
<1>5. ASSUME NEW q \in PeriodIds \ {p}
      PROVE  c.period[q] = b.period[q] /\ Owed(b.resv[r], N[r], q) <= Owed(c.resv[r], M[r], q)
  <2>1. b.resv[r].period # q /\ c.resv[r].period # q
    BY <1>1, <1>5 DEF OnlyAt
  <2>2. Owed(b.resv[r], N[r], q) = 0 /\ Owed(c.resv[r], M[r], q) = 0
    BY <2>1 DEF Owed
  <2>3. QED
    BY <1>1, <1>5, <2>2 DEF OnlyAt
<1>6. Watched(b.period[p], D) /\ Healthy(b.period[p], D) => Healthy(c.period[p], D)
  <2>1. /\ b.period[p].consumed \in Int /\ c.period[p].consumed \in Int
        /\ b.period[p].reserved \in Nat /\ c.period[p].reserved \in Nat
        /\ b.period[p].allowance \in Int
    BY <1>2, <1>3, Balance
  <2>2. QED
    BY <1>1, <2>1 DEF Healthy, OnlyAt, Watched, Counts
<1>7. InBounds(b, N, W, P, D)
  BY DEF b
<1>8. InBounds(c, M, X, Q, D)
  BY <1>2, <1>3, <1>4, <1>5, <1>6, <1>7, SoundByOne
<1>9. QED
  BY <1>8 DEF c

(* The account's first period.                                             *)
LEMMA RegisterSound ==
  ASSUME SpendInv, NEW u \in Users, NEW a \in Allowances, RegisterUser(u, a)
  PROVE  BooksSound'
<1>1. PICK e \in EnsuredWith(Books, u, a, {"monthly"}) : Save(e[1])
  BY DEF RegisterUser, InitializeUserCredits
<1>2. a \in Nat /\ a \in Int /\ {"monthly"} \in SUBSET Cadences /\ BooksInv(Books)
      /\ UNCHANGED <<call, attempt, hand, limited>>
  BY CreditAssumption DEF Cadences, SpendInv, IInv, RegisterUser, InitializeUserCredits, history
<1>3. Counts(Counting, RunCharged, PeriodCharged, Desked)
      /\ InBounds(Books, Counting, RunCharged, PeriodCharged, Desked)
  BY CountsNow DEF SpendInv, BooksSound
<1>4. InBounds(e[1], Counting, RunCharged, PeriodCharged, Desked)
  BY <1>2, <1>3, EnsuredSound
<1>5. e[1] \in BooksType
  BY <1>2, EnsuredInv DEF Continues, BooksInv
<1>6. QED
  BY <1>1, <1>2, <1>4, <1>5, SavedSound

(* The sweep.                                                              *)
LEMMA SweepSound ==
  ASSUME SpendInv, NEW S \in SUBSET Lapsed(resv), Sweep(S)
  PROVE  BooksSound'
<1>1. S \in SUBSET Lapsed(Books.resv) /\ BooksInv(Books)
  BY DEF Books, SpendInv, IInv
<1>2. Counts(Counting, RunCharged, PeriodCharged, Desked)
      /\ InBounds(Books, Counting, RunCharged, PeriodCharged, Desked)
  BY CountsNow DEF SpendInv, BooksSound
<1> DEFINE c == Recovered(Books, S)
<1>3. c \in BooksType
  BY <1>1, RecoveredInv DEF BooksInv
<1>4. InBounds(c, Counting, RunCharged, PeriodCharged, Desked)
  BY <1>1, <1>2, RecoveredSound
<1>5. Save(c) /\ UNCHANGED <<call, attempt, hand, limited>>
  BY DEF Sweep, SweepAbandonedReservations, history
<1> HIDE DEF c
<1>6. QED
  BY <1>3, <1>4, <1>5, SavedSound

(* A figure of the books changes no hold and no balance.                   *)
LEMMA UnmovedSound ==
  ASSUME SpendInv, IInv', AttemptsOK', HistoryOK', UNCHANGED <<hand, limited>>,
         \A s \in ReservationIds :
           /\ resv'[s].status = resv[s].status /\ resv'[s].amount = resv[s].amount
           /\ resv'[s].settled = resv[s].settled /\ resv'[s].user = resv[s].user
           /\ resv'[s].period = resv[s].period
           /\ Counting'[s] <= Counting[s] /\ RunCharged[s] <= RunCharged'[s],
         \A q \in PeriodIds :
           /\ period'[q].status = period[q].status
           /\ period'[q].user = period[q].user
           /\ period'[q].allowance = period[q].allowance
           /\ period'[q].consumed = period[q].consumed
           /\ period'[q].reserved = period[q].reserved
           /\ PeriodCharged[q] <= PeriodCharged'[q]
  PROVE  BooksSound'
<1> DEFINE b == Books
           c == Books'
<1>1. /\ b.resv = resv /\ b.period = period /\ c.resv = resv' /\ c.period = period'
  BY DEF Books
<1>2. b \in BooksType /\ c \in BooksType
  BY DEF SpendInv, IInv, BooksInv
<1>3. Counts(Counting, RunCharged, PeriodCharged, Desked)
      /\ InBounds(b, Counting, RunCharged, PeriodCharged, Desked)
  BY CountsNow DEF SpendInv, BooksSound
<1>4. Counts(Counting', RunCharged', PeriodCharged', Desked)
  BY CountsNext, DeskedKept
<1> HIDE DEF b, c
<1>5. InBounds(c, Counting', RunCharged', PeriodCharged', Desked)
  BY <1>1, <1>2, <1>3, <1>4, FiguresKept
<1>6. QED
  BY <1>5, DeskedKept DEF BooksSound, c

-----------------------------------------------------------------------------
(* What a transaction leaves of the reservation and the period it rewrites.*)

(* The hold of r is gone, charge of it spent.                              *)
Ended(r, charge) ==
  LET p == resv[r].period IN
  /\ OnlyAt(r)
  /\ resv'[r] \in Reservation /\ resv'[r].status = "settled" /\ resv'[r].amount = 0
  /\ resv'[r].settled = resv[r].settled + charge
  /\ period'[p].consumed = period[p].consumed + charge
  /\ period'[p].reserved = period[p].reserved - resv[r].amount

(* Closing a reservation whose period is charged and freed.                *)
LEMMA EndedBy ==
  ASSUME IInv, NEW r \in ReservationIds, resv[r].status \in HeldStatuses,
         NEW p, p = resv[r].period, NEW charge \in Nat,
         period' = [period EXCEPT ![p].reserved = AtLeastZero(@ - resv[r].amount),
                                  ![p].consumed = @ + charge],
         resv' = [resv EXCEPT ![r] = Closed([resv[r] EXCEPT !.settled = @ + charge], "settled")]
  PROVE  Ended(r, charge)
<1> DEFINE held == resv[r].amount
           pr1  == [period[p] EXCEPT !.reserved = AtLeastZero(@ - held)]
           pr   == [pr1 EXCEPT !.consumed = @ + charge]
           w    == [resv[r] EXCEPT !.settled = @ + charge]
           v    == Closed(w, "settled")
<1>1. /\ p \in PeriodIds /\ resv[r] \in Reservation /\ period[p] \in Period
      /\ period \in [PeriodIds -> Period] /\ resv \in [ReservationIds -> Reservation]
      /\ Hold(resv[r]) \in Nat /\ Hold(resv[r]) <= period[p].reserved
  BY Reserved DEF HeldStatuses
<1>2. held \in Nat /\ held <= period[p].reserved
  BY <1>1 DEF Hold
<1>3. w \in Reservation /\ w.period = p /\ w.user = resv[r].user
      /\ w.settled = resv[r].settled + charge
  BY <1>1 DEF Reservation
<1>4. AtLeastZero(period[p].reserved - held) = period[p].reserved - held
  BY <1>1, <1>2 DEF AtLeastZero, Period
<1>5. period' = [period EXCEPT ![p] = pr] /\ resv' = [resv EXCEPT ![r] = v]
  BY <1>1
<1>6. /\ pr1 \in Period /\ pr1.status = period[p].status /\ pr1.user = period[p].user
      /\ pr1.reserved = period[p].reserved - held
      /\ pr1.allowance = period[p].allowance /\ pr1.consumed = period[p].consumed
  BY <1>1, <1>2, <1>4 DEF Period
<1> HIDE DEF pr1, w
<1>7. /\ pr.status = period[p].status /\ pr.reserved = period[p].reserved - held
      /\ pr.user = period[p].user
      /\ pr.allowance = period[p].allowance /\ pr.consumed = period[p].consumed + charge
  BY <1>6 DEF Period
<1>8. v \in Reservation /\ v.status = "settled" /\ v.period = p /\ v.user = resv[r].user
  BY <1>3, ClosedFields
<1>9. v.amount = 0 /\ v.settled = resv[r].settled + charge
  BY <1>3 DEF Closed, Reservation
<1> HIDE DEF pr, v
<1>10. resv'[r] = v /\ period'[p] = pr
  BY <1>1, <1>5
<1>11. OnlyAt(r)
  BY <1>1, <1>5, <1>7, <1>8, <1>10 DEF OnlyAt
<1>12. QED
  BY <1>7, <1>8, <1>9, <1>10, <1>11 DEF Ended

(* A run whose hold ends with the calls still out uncovered stays sound.   *)
LEMMA EndedSound ==
  ASSUME SpendInv, IInv', NEW r \in ReservationIds, resv[r].status \in HeldStatuses,
         NEW charge \in Nat, charge <= resv[r].amount, resv[r].status = "open" => charge = 0,
         Ended(r, charge), Counting[r] <= Uncovered(resv'[r]),
         UNCHANGED <<call, attempt, hand, limited>>
  PROVE  BooksSound'
<1> DEFINE n == Counting[r]
           w == RunCharged[r]
           v == resv[r]
           u == resv'[r]
           p == resv[r].period
           N == Counting
           W == RunCharged
           P == PeriodCharged
<1>1. /\ Counts(N, W, P, Desked) /\ InBounds(Books, N, W, P, Desked)
      /\ IInv
  BY CountsNow DEF SpendInv, BooksSound
<1>2. /\ n \in Nat /\ w \in Nat /\ RunSound(v, n, w, Desked)
      /\ \A q \in PeriodIds : P[q] \in Nat
  BY <1>1 DEF Counts, InBounds, RunsSound, Books
<1>3. /\ v \in Reservation /\ p \in PeriodIds /\ period[p] \in Period
      /\ v.amount \in Nat /\ v.settled \in Nat
  BY <1>1, Reserved DEF HeldStatuses, Reservation
<1>4. /\ OnlyAt(r) /\ u \in Reservation /\ u.status = "settled" /\ u.amount = 0
      /\ u.settled = v.settled + charge
      /\ period'[p].consumed = period[p].consumed + charge
      /\ period'[p].reserved = period[p].reserved - v.amount
      /\ u.period = v.period /\ u.user = v.user /\ period'[p].allowance = period[p].allowance
  BY DEF Ended, OnlyAt
<1> HIDE DEF n, w, v, u, p, N, W, P
<1>5. RunSound(u, n, w, Desked) /\ \A q : Owed(v, n, q) <= Owed(u, n, q)
  <2>1. /\ v.status \in HeldStatuses /\ (v.status = "open" => charge = 0)
        /\ charge <= v.amount /\ n <= Uncovered(u)
    BY DEF v, u, n
  <2>2. u.settled <= v.settled + v.amount /\ (v.status = "open" => u.settled = v.settled)
    BY <1>3, <1>4, <2>1
  <2>3. QED
    BY <1>2, <1>3, <1>4, <2>1, <2>2, ClosedSound
<1>6. /\ period[p].consumed \in Int /\ period[p].reserved \in Nat /\ period[p].allowance \in Int
  BY <1>3 DEF Period
<1>7. /\ period'[p].consumed >= period[p].consumed
      /\ period'[p].reserved <= period[p].reserved
      /\ Available(period[p]) <= Available(period'[p])
      /\ Available(period[p]) \in Int /\ Available(period'[p]) \in Int
  <2>1. charge <= v.amount
    BY DEF v
  <2>2. QED
    BY <1>3, <1>4, <1>6, <2>1 DEF Available
<1>8. Owed(v, n, p) <= Owed(u, n, p) /\ Owed(v, n, p) \in Nat /\ Owed(u, n, p) \in Nat
  BY <1>2, <1>3, <1>4, <1>5, OwedFacts DEF RunSound
<1>9. P[p] + Available(period[p]) + Owed(v, n, p) <= P[p] + Available(period'[p]) + Owed(u, n, p)
  BY <1>2, <1>3, <1>7, <1>8
<1>10. resv[r].status # "unused" /\ p = resv[r].period
  BY DEF HeldStatuses, p
<1>11. /\ RunSound(resv'[r], N[r], W[r], Desked)
       /\ P[p] + Available(period[p]) + Owed(resv[r], N[r], p)
            <= P[p] + Available(period'[p]) + Owed(resv'[r], N[r], p)
  BY <1>5, <1>9 DEF n, w, v, u, N, W
<1>12. /\ \A s \in ReservationIds \ {r} : N[s] <= N[s]
       /\ \A s \in ReservationIds : W[s] <= W[s]
       /\ \A q \in PeriodIds : P[q] <= P[q]
  BY <1>1 DEF Counts
<1>13. InBounds(Books', N, W, P, Desked)
  BY <1>1, <1>4, <1>7, <1>10, <1>11, <1>12, OneRunSound
<1>14. QED
  BY <1>13, CallsKept, DeskedKept DEF BooksSound, N, W, P

(* An administrator resolves a parked hold.                                *)
LEMMA ReconcileSound ==
  ASSUME SpendInv, IInv', NEW r \in ReservationIds, NEW billed \in BOOLEAN,
         Reconcile(r, billed)
  PROVE  BooksSound'
<1> DEFINE x == IF billed THEN resv[r].amount ELSE 0
           charge == Least(x, resv[r].amount)
           p == resv[r].period
<1>1. /\ resv[r].status = "pending_reconciliation" /\ IInv
      /\ period' = [period EXCEPT ![p].reserved = AtLeastZero(@ - resv[r].amount),
                                  ![p].consumed = @ + charge]
      /\ resv' = [resv EXCEPT ![r] = Closed([resv[r] EXCEPT !.settled = @ + charge], "settled")]
      /\ UNCHANGED <<call, attempt, hand, limited>>
  BY Zenon DEF Reconcile, ResolveReconciliation, Save, Books, SpendInv, history
<1>2. resv[r].amount \in Nat
  BY <1>1, Reserved DEF Reservation
<1>3. charge \in Nat /\ charge <= resv[r].amount
  BY <1>2 DEF Least
<1> HIDE DEF charge
<1>4. Ended(r, charge)
  BY <1>1, <1>3, EndedBy DEF HeldStatuses
<1>5. Counting[r] <= Uncovered(resv'[r])
  <2>1. RunSound(resv[r], Counting[r], RunCharged[r], Desked) /\ Counting[r] \in Nat
    BY <1>1, CountsNow DEF SpendInv, BooksSound, InBounds, RunsSound, Books, Counts
  <2>2. Uncovered(resv[r]) = Siblings
    BY <1>1 DEF Uncovered, Siblings
  <2>3. QED
    BY <1>1, <2>1, <2>2, UncoveredFacts, RunFigures DEF RunSound, Backing
<1>6. QED
  BY <1>1, <1>3, <1>4, <1>5, EndedSound, SMTT(30) DEF HeldStatuses

(* The finally of runBillable: a run alone has no call out when it comes   *)
(* to it, and one that rejects leaves them all uncovered.                  *)
LEMMA ReleaseSound ==
  ASSUME SpendInv, IInv', AttemptsOK', HistoryOK', NEW r \in ReservationIds, ReleaseRun(r)
  PROVE  BooksSound'
<1>1. /\ run[r] = "returning" /\ ReleaseReservation(r, "settled") /\ IInv
      /\ UNCHANGED <<call, attempt, hand, limited>>
  BY DEF ReleaseRun, ReleaseReservation, SpendInv, history
<1>2. CASE resv[r].status # "open"
  <2>1. UNCHANGED Books
    BY <1>1, <1>2 DEF ReleaseReservation, Books
  <2>2. QED
    BY <1>1, <2>1, CallsKept, DeskedKept DEF SpendInv, BooksSound
<1>3. CASE resv[r].status = "open"
  <2> DEFINE p == resv[r].period
  <2>1. resv[r] \in Reservation /\ p \in PeriodIds /\ period \in [PeriodIds -> Period]
        /\ resv \in [ReservationIds -> Reservation] /\ period[p] \in Period
    BY <1>1, <1>3, Reserved
  <2>2. /\ period' = [period EXCEPT ![p].reserved = AtLeastZero(@ - resv[r].amount)]
        /\ resv' = [resv EXCEPT ![r] = Closed(@, "settled")]
    BY <1>1, <1>3 DEF ReleaseReservation, Save, Books
  <2>3. [resv[r] EXCEPT !.settled = @ + 0] = resv[r]
    BY <2>1 DEF Reservation
  <2>4. resv' = [resv EXCEPT ![r] = Closed([resv[r] EXCEPT !.settled = @ + 0], "settled")]
    BY <2>1, <2>2, <2>3
  <2>5. period' = [period EXCEPT ![p].reserved = AtLeastZero(@ - resv[r].amount),
                                 ![p].consumed = @ + 0]
    <3> DEFINE pr == [period[p] EXCEPT !.reserved = AtLeastZero(@ - resv[r].amount)]
    <3>1. [pr EXCEPT !.consumed = @ + 0] = pr
      <4>1. AtLeastZero(period[p].reserved - resv[r].amount) \in Nat
        BY <2>1 DEF AtLeastZero, Period, Reservation
      <4>2. pr \in Period
        BY <2>1, <4>1 DEF Period
      <4> HIDE DEF pr
      <4>3. QED
        BY <4>2 DEF Period
    <3>2. period' = [period EXCEPT ![p] = [pr EXCEPT !.consumed = @ + 0]]
      BY <2>1, <2>2, <3>1
    <3>3. QED
      BY <2>1, <3>2
  <2>6. Ended(r, 0)
    BY <1>1, <1>3, <2>4, <2>5, EndedBy DEF HeldStatuses
  <2>7. Counting[r] <= Uncovered(resv'[r])
    <3>1. /\ RunSound(resv[r], Counting[r], RunCharged[r], Desked) /\ Counting[r] \in Nat
          /\ IsFiniteSet(Sent(r)) /\ Sent(r) \subseteq Flying(r)
          /\ Counting[r] = Cardinality(Sent(r))
      BY <1>1, CountsNow DEF SpendInv, BooksSound, InBounds, RunsSound, Books, Counts
    <3>2. CASE MaxParallel > 1
      <4>1. Uncovered(resv'[r]) = MaxParallel
        BY <2>6, <3>2 DEF Ended, Uncovered
      <4>2. QED
        BY <3>1, <4>1 DEF RunSound
    <3>3. CASE ~(MaxParallel > 1)
      <4>1. MaxParallel = 1
        BY <3>3, RunFigures
      <4>2. Flying(r) = {}
        BY <1>1, <4>1 DEF SpendInv, CallsInv
      <4>3. Counting[r] = 0
        BY <3>1, <4>2, FS_EmptySet
      <4>4. QED
        BY <4>3, UncoveredFacts
    <3>4. QED
      BY <3>2, <3>3
  <2>8. 0 <= resv[r].amount
    BY <2>1 DEF Reservation
  <2>9. QED
    BY <1>1, <1>3, <2>6, <2>7, <2>8, EndedSound DEF HeldStatuses
<1>4. QED
  BY <1>2, <1>3

-----------------------------------------------------------------------------
(* What happens to the calls.                                              *)

(* A charge stays, in its run, and so does what of it had no hold.         *)
RecordedKept ==
  \A j \in CallKeys :
    call[j].charge # 0 =>
      /\ attempt[j].step = "incurred" => attempt'[j].step = "incurred"
      /\ attempt'[j].run = attempt[j].run
      /\ call'[j] = call[j]

LEMMA ChargedGrow ==
  ASSUME IInv, IInv', RecordedKept
  PROVE  /\ \A r \in ReservationIds : RunCharged[r] <= RunCharged'[r]
         /\ \A p \in PeriodIds : PeriodCharged[p] <= PeriodCharged'[p]
<1>1. call \in [CallKeys -> Call] /\ call' \in [CallKeys -> Call]
  BY DEF IInv
<1>2. ASSUME NEW r \in ReservationIds PROVE RunCharged[r] <= RunCharged'[r]
  <2> DEFINE S == CallsOf(r)
             T == CallsOf(r)'
  <2>1. S \in SUBSET CallKeys /\ T \in SUBSET CallKeys
    BY DEF CallsOf
  <2>2. \A j \in S :
          \/ call[j].charge = 0
          \/ /\ j \in T /\ call'[j] = call[j]
             /\ attempt[j].step = "incurred" => attempt'[j].step = "incurred"
    BY DEF CallsOf, RecordedKept
  <2> HIDE DEF S, T
  <2>3. Unheld(call, attempt, S) <= Unheld(call', attempt', T)
    BY <1>1, <2>1, <2>2, UnheldGrows
  <2>4. RunCharged[r] = Unheld(call, attempt, S) /\ RunCharged'[r] = Unheld(call', attempt', T)
    BY DEF RunCharged, S, T, CallsOf
  <2>5. QED
    BY <2>3, <2>4
<1>3. ASSUME NEW p \in PeriodIds PROVE PeriodCharged[p] <= PeriodCharged'[p]
  <2> DEFINE S == CallsIn(call, p)
             T == CallsIn(call', p)
  <2>1. S \in SUBSET CallKeys /\ T \in SUBSET CallKeys
    BY DEF CallsIn
  <2>2. \A j \in S :
          \/ call[j].charge = 0
          \/ /\ j \in T /\ call'[j] = call[j]
             /\ attempt[j].step = "incurred" => attempt'[j].step = "incurred"
    BY DEF CallsIn, RecordedKept
  <2> HIDE DEF S, T
  <2>3. Unheld(call, attempt, S) <= Unheld(call', attempt', T)
    BY <1>1, <2>1, <2>2, UnheldGrows
  <2>4. /\ PeriodCharged[p] = Unheld(call, attempt, S)
        /\ PeriodCharged'[p] = Unheld(call', attempt', T)
    BY DEF PeriodCharged, S, T
  <2>5. QED
    BY <2>3, <2>4
<1>4. QED
  BY <1>2, <1>3

(* A call newly charged adds what of its charge had no hold.               *)
LEMMA ChargedMore ==
  ASSUME IInv, IInv', RecordedKept, NEW k \in CallKeys,
         call[k].charge = 0
  PROVE  /\ \A r \in ReservationIds :
              attempt'[k].run = r =>
                RunCharged[r] + UnheldOf(call', attempt')[k] <= RunCharged'[r]
         /\ \A p \in PeriodIds :
              call'[k].period = p =>
                PeriodCharged[p] + UnheldOf(call', attempt')[k] <= PeriodCharged'[p]
<1>1. call \in [CallKeys -> Call] /\ call' \in [CallKeys -> Call]
  BY DEF IInv
<1>2. ASSUME NEW r \in ReservationIds, attempt'[k].run = r
      PROVE  RunCharged[r] + UnheldOf(call', attempt')[k] <= RunCharged'[r]
  <2> DEFINE S == CallsOf(r)
             T == CallsOf(r)'
  <2>1. S \in SUBSET CallKeys /\ T \in SUBSET CallKeys /\ k \in T
    BY <1>2 DEF CallsOf
  <2>2. \A j \in S :
          \/ call[j].charge = 0
          \/ /\ j \in T /\ call'[j] = call[j]
             /\ attempt[j].step = "incurred" => attempt'[j].step = "incurred"
    BY DEF CallsOf, RecordedKept
  <2> HIDE DEF S, T
  <2>3. Unheld(call, attempt, S) + UnheldOf(call', attempt')[k] <= Unheld(call', attempt', T)
    BY <1>1, <2>1, <2>2, UnheldGrows
  <2>4. RunCharged[r] = Unheld(call, attempt, S) /\ RunCharged'[r] = Unheld(call', attempt', T)
    BY DEF RunCharged, S, T, CallsOf
  <2>5. QED
    BY <2>3, <2>4
<1>3. ASSUME NEW p \in PeriodIds, call'[k].period = p
      PROVE  PeriodCharged[p] + UnheldOf(call', attempt')[k] <= PeriodCharged'[p]
  <2> DEFINE S == CallsIn(call, p)
             T == CallsIn(call', p)
  <2>1. S \in SUBSET CallKeys /\ T \in SUBSET CallKeys /\ k \in T
    BY <1>3 DEF CallsIn
  <2>2. \A j \in S :
          \/ call[j].charge = 0
          \/ /\ j \in T /\ call'[j] = call[j]
             /\ attempt[j].step = "incurred" => attempt'[j].step = "incurred"
    BY DEF CallsIn, RecordedKept
  <2> HIDE DEF S, T
  <2>3. Unheld(call, attempt, S) + UnheldOf(call', attempt')[k] <= Unheld(call', attempt', T)
    BY <1>1, <2>1, <2>2, UnheldGrows
  <2>4. /\ PeriodCharged[p] = Unheld(call, attempt, S)
        /\ PeriodCharged'[p] = Unheld(call', attempt', T)
    BY DEF PeriodCharged, S, T
  <2>5. QED
    BY <2>3, <2>4
<1>4. QED
  BY <1>2, <1>3

(* Fewer calls out count less.                                             *)
LEMMA FewerOut ==
  ASSUME IInv, AttemptsOK, HistoryOK, NEW s \in ReservationIds, Sent(s)' \subseteq Sent(s)
  PROVE  Counting'[s] <= Counting[s]
<1>1. IsFiniteSet(Sent(s)) /\ Counting[s] = Cardinality(Sent(s))
  BY CountsNow
<1>2. Counting'[s] = Cardinality(Sent(s)')
  BY DEF Counting
<1>3. QED
  BY <1>1, <1>2, FS_Subset

(* More charged with no hold leaves the books in bounds.                   *)
LEMMA MoreCharged ==
  ASSUME NEW c \in BooksType, NEW M, NEW W, NEW P, NEW D,
         Counts(M, W, P, D), InBounds(c, M, W, P, D),
         NEW X, NEW Q, Counts(M, X, Q, D), \A s \in ReservationIds : W[s] <= X[s],
         \A q \in PeriodIds : P[q] <= Q[q]
  PROVE  InBounds(c, M, X, Q, D)
<1>1. \A s \in ReservationIds : M[s] <= M[s]
  BY DEF Counts
<1>2. QED
  BY <1>1, FiguresKept

(* A step of the calls alone that takes none out.                          *)
LEMMA QuietSound ==
  ASSUME SpendInv, IInv', AttemptsOK', HistoryOK', UNCHANGED <<vars, hand, limited>>, RecordedKept,
         \A s \in ReservationIds : Sent(s)' \subseteq Sent(s)
  PROVE  BooksSound'
<1>1. IInv /\ AttemptsOK /\ HistoryOK /\ UNCHANGED <<resv, period, hand, limited>>
  BY DEF SpendInv, vars
<1>2. \A s \in ReservationIds : Counting'[s] <= Counting[s] /\ RunCharged[s] <= RunCharged'[s]
  BY <1>1, FewerOut, ChargedGrow
<1>3. \A q \in PeriodIds : PeriodCharged[q] <= PeriodCharged'[q]
  BY <1>1, ChargedGrow
<1>4. QED
  BY <1>1, <1>2, <1>3, UnmovedSound

(* The deadline of a hold passes, or a month ends.                         *)
LEMMA TimeSound ==
  ASSUME SpendInv, IInv', AttemptsOK', HistoryOK', Time
  PROVE  BooksSound'
<1>1. UNCHANGED <<call, attempt, hand, limited>> /\ IInv /\ AttemptsOK
  BY DEF Time, HoldLapses, MonthEnds, ReservationLapses, ResetFallsDue, SpendInv, history
<1>2. /\ resv \in [ReservationIds -> Reservation] /\ period \in [PeriodIds -> Period]
  BY <1>1 DEF IInv, BooksInv, BooksType, Books
<1>3. /\ \A s \in ReservationIds :
           /\ resv'[s].status = resv[s].status /\ resv'[s].amount = resv[s].amount
           /\ resv'[s].settled = resv[s].settled /\ resv'[s].user = resv[s].user
           /\ resv'[s].period = resv[s].period
      /\ \A q \in PeriodIds :
           /\ period'[q].status = period[q].status
           /\ period'[q].user = period[q].user
           /\ period'[q].allowance = period[q].allowance
           /\ period'[q].consumed = period[q].consumed
           /\ period'[q].reserved = period[q].reserved
  <2>1. CASE \E r \in ReservationIds : HoldLapses(r)
    <3>1. PICK r \in ReservationIds : resv' = [resv EXCEPT ![r].lapsed = TRUE]
                                      /\ period' = period
      BY <2>1 DEF HoldLapses, ReservationLapses
    <3>2. \A s \in ReservationIds : resv[s] \in Reservation
      BY <1>2
    <3>3. QED
      BY <1>2, <3>1, <3>2 DEF Reservation
  <2>2. CASE \E p \in PeriodIds : MonthEnds(p)
    <3>1. PICK p \in PeriodIds : period' = [period EXCEPT ![p].reset = "due"]
                                 /\ resv' = resv
      BY <2>2 DEF MonthEnds, ResetFallsDue
    <3>2. \A q \in PeriodIds : period[q] \in Period
      BY <1>2
    <3>3. QED
      BY <1>2, <3>1, <3>2 DEF Period
  <2>3. QED
    BY <2>1, <2>2 DEF Time
<1>4. /\ \A s \in ReservationIds : Counting'[s] <= Counting[s] /\ RunCharged[s] <= RunCharged'[s]
      /\ \A q \in PeriodIds : PeriodCharged[q] <= PeriodCharged'[q]
  BY <1>1, CallsKept, CountsNow DEF Counts, SpendInv
<1>5. QED
  BY <1>1, <1>3, <1>4, UnmovedSound

(* No call is newly in flight, none is recorded that was not made, and a   *)
(* run that ends alone has none.                                           *)
LEMMA CallsStill ==
  ASSUME SpendInv, \A r \in ReservationIds : Flying(r)' \subseteq Flying(r),
         \A j \in CallKeys : attempt'[j].step = "idle" => ~Settled(j)',
         \A r \in ReservationIds :
           MaxParallel = 1 /\ run'[r] \in {"returning", "over"} =>
             run[r] \in {"returning", "over"} \/ Flying(r) = {}
  PROVE  CallsInv'
<1>1. ASSUME NEW r \in ReservationIds
      PROVE  /\ Cardinality(Flying(r)') <= MaxParallel
             /\ MaxParallel = 1 /\ run'[r] \in {"returning", "over"} => Flying(r)' = {}
  <2>1. /\ Cardinality(Flying(r)) <= MaxParallel /\ IsFiniteSet(Flying(r))
        /\ MaxParallel = 1 /\ run[r] \in {"returning", "over"} => Flying(r) = {}
    BY CountsNow DEF SpendInv, CallsInv
  <2>2. /\ Cardinality(Flying(r)') <= Cardinality(Flying(r))
        /\ Cardinality(Flying(r)') \in Nat /\ Cardinality(Flying(r)) \in Nat
    BY <2>1, FS_Subset, FS_CardinalityType
  <2>3. QED
    BY <2>1, <2>2, RunFigures
<1>2. QED
  BY <1>1 DEF CallsInv

(* The calls but k are as they were.                                       *)
OtherCalls(k) == \A j \in CallKeys \ {k} : attempt'[j] = attempt[j]

(* A call in flight goes on or ends; recorded calls stay recorded.         *)
LEMMA CallGoesOn ==
  ASSUME SpendInv, UNCHANGED run, NEW k \in CallKeys, OtherCalls(k),
         InFlight(k), attempt'[k].run = attempt[k].run, attempt'[k].step # "idle",
         \A j \in CallKeys : Settled(j) => Settled(j)',
         \A j \in CallKeys \ {k} : Settled(j)' => Settled(j)
  PROVE  /\ CallsInv'
         /\ \A s \in ReservationIds :
              (attempt'[k].step \in {"sent", "answered"} =>
                 attempt[k].step \in {"sent", "answered"}) => Sent(s)' \subseteq Sent(s)
<1>1. \A r \in ReservationIds : Flying(r)' \subseteq Flying(r)
  BY DEF Flying, CallsOf, InFlight, OtherCalls
<1>2. \A j \in CallKeys : attempt'[j].step = "idle" => ~Settled(j)'
  BY DEF OtherCalls, SpendInv, CallsInv
<1>3. CallsInv'
  BY <1>1, <1>2, CallsStill
<1>4. ASSUME NEW s \in ReservationIds,
             attempt'[k].step \in {"sent", "answered"} => attempt[k].step \in {"sent", "answered"}
      PROVE  Sent(s)' \subseteq Sent(s)
  BY <1>4 DEF Sent, CallsOf, OtherCalls
<1>5. QED
  BY <1>3, <1>4

(* A run goes from one state to another, its calls as they are.            *)
LEMMA RunMoves ==
  ASSUME SpendInv, NEW r \in ReservationIds, NEW state, UNCHANGED <<call, attempt>>,
         run' = [run EXCEPT ![r] = state],
         MaxParallel = 1 /\ state \in {"returning", "over"} =>
           run[r] \in {"returning", "over"} \/ Flying(r) = {}
  PROVE  CallsInv'
<1>1. \A s : Flying(s)' = Flying(s)
  BY DEF Flying, CallsOf, InFlight
<1>2. \A j \in CallKeys : attempt'[j].step = "idle" => ~Settled(j)'
  BY DEF SpendInv, CallsInv, Settled
<1>3. \A s \in ReservationIds :
        MaxParallel = 1 /\ run'[s] \in {"returning", "over"} =>
          run[s] \in {"returning", "over"} \/ Flying(s) = {}
  BY DEF SpendInv, AttemptsOK
<1>4. QED
  BY <1>1, <1>2, <1>3, CallsStill

(* The steps of runBillable after its hold.                                *)
LEMMA ReturnSound ==
  ASSUME SpendInv, NEW r \in ReservationIds, ReturnRun(r) \/ ReleaseFails(r)
  PROVE  BooksSound' /\ CallsInv'
<1>1. UNCHANGED vars /\ UNCHANGED <<call, attempt, Books, hand, limited>>
  BY DEF ReturnRun, ReleaseFails, vars, Books, history
<1>2. BooksSound'
  BY <1>1, CallsKept, DeskedKept DEF BooksSound, SpendInv
<1>3. CASE ReturnRun(r)
  <2>1. MaxParallel = 1 => Flying(r) = {}
    BY <1>3, RunFigures DEF ReturnRun, Rejects, Flying
  <2>2. QED
    BY <1>1, <1>2, <1>3, <2>1, RunMoves DEF ReturnRun
<1>4. CASE ReleaseFails(r)
  BY <1>1, <1>2, <1>4, RunMoves DEF ReleaseFails
<1>5. QED
  BY <1>3, <1>4

(* After a crash no call is out.                                           *)
LEMMA CrashSound ==
  ASSUME SpendInv, IInv', AttemptsOK', HistoryOK', Crash
  PROVE  BooksSound' /\ CallsInv'
<1>1. /\ run' = [r \in ReservationIds |-> IF Live(r) THEN "abandoned" ELSE run[r]]
      /\ attempt' = [k \in CallKeys |->
                       IF InFlight(k) THEN [attempt[k] EXCEPT !.step = "lost"] ELSE attempt[k]]
      /\ UNCHANGED vars /\ UNCHANGED <<call, hand, limited>>
  BY DEF Crash, vars, history
<1>2. ASSUME NEW k \in CallKeys
      PROVE  /\ InFlight(k) => attempt'[k].step = "lost"
             /\ ~InFlight(k) => attempt'[k] = attempt[k]
  <2>1. attempt[k] \in Attempt
    BY DEF SpendInv, AttemptsOK
  <2>2. QED
    BY <1>1, <2>1 DEF Attempt
<1>3. \A r \in ReservationIds : Sent(r)' \subseteq Sent(r) /\ Flying(r)' \subseteq Flying(r)
  BY <1>2 DEF Sent, Flying, CallsOf, InFlight
<1>4. RecordedKept
  BY <1>1, <1>2 DEF RecordedKept, InFlight
<1>5. BooksSound'
  BY <1>1, <1>3, <1>4, QuietSound
<1>6. \A j \in CallKeys : attempt'[j].step = "idle" => ~Settled(j)'
  BY <1>1, <1>2 DEF SpendInv, CallsInv, Settled
<1>7. \A r \in ReservationIds :
        run'[r] \in {"returning", "over"} => run[r] \in {"returning", "over"}
  BY <1>1
<1>8. CallsInv'
  BY <1>3, <1>6, <1>7, CallsStill
<1>9. QED
  BY <1>5, <1>8

(* A call is permitted while its run has fewer than MaxParallel in flight. *)
LEMMA PermitSound ==
  ASSUME SpendInv, IInv', AttemptsOK', HistoryOK', NEW k \in CallKeys, NEW r \in ReservationIds,
         NEW permitted \in BOOLEAN, PermitCall(k, r, permitted)
  PROVE  BooksSound' /\ CallsInv'
<1>1. /\ attempt[k].step = "idle" /\ MayCall(r) /\ UNCHANGED <<run, call>>
      /\ UNCHANGED <<vars, hand, limited>>
      /\ Cardinality({j \in CallsOf(r) : InFlight(j)}) < MaxParallel
      /\ attempt' = [attempt EXCEPT ![k].run = r,
                                    ![k].step = IF permitted THEN "permitted" ELSE "refused"]
  BY DEF PermitCall, vars, history
<1>2. attempt[k] \in Attempt /\ attempt \in [CallKeys -> Attempt]
  BY DEF SpendInv, AttemptsOK
<1>3. OtherCalls(k)
  BY <1>1, <1>2 DEF OtherCalls
<1>4. attempt'[k].run = r /\ attempt'[k].step \in {"permitted", "refused"}
  BY <1>1, <1>2 DEF Attempt
<1>5. \A s \in ReservationIds : Sent(s)' \subseteq Sent(s)
  BY <1>1, <1>3, <1>4 DEF Sent, CallsOf, OtherCalls, Settled
<1>6. RecordedKept
  <2>1. call[k].charge = 0
    BY <1>1 DEF SpendInv, CallsInv, IInv, Unrecorded, Settled
  <2>2. QED
    BY <1>1, <1>3, <2>1 DEF RecordedKept, OtherCalls
<1>7. BooksSound'
  BY <1>1, <1>5, <1>6, QuietSound
<1>8. ASSUME NEW s \in ReservationIds
      PROVE  /\ Cardinality(Flying(s)') <= MaxParallel
             /\ MaxParallel = 1 /\ run'[s] \in {"returning", "over"} => Flying(s)' = {}
  <2>1. /\ IsFiniteSet(Flying(s)) /\ Cardinality(Flying(s)) \in Nat
        /\ Cardinality(Flying(s)) <= MaxParallel
        /\ MaxParallel = 1 /\ run[s] \in {"returning", "over"} => Flying(s) = {}
    BY CountsNow DEF SpendInv, CallsInv
  <2>2. CASE s = r
    <3>1. Flying(s) = {j \in CallsOf(r) : InFlight(j)} /\ Cardinality(Flying(s)) < MaxParallel
      BY <1>1, <2>2 DEF Flying
    <3>2. Flying(s)' \subseteq Flying(s) \cup {k}
      BY <1>3, <2>2 DEF Flying, CallsOf, InFlight, OtherCalls
    <3>3. /\ IsFiniteSet(Flying(s) \cup {k})
          /\ Cardinality(Flying(s) \cup {k}) <= Cardinality(Flying(s)) + 1
          /\ Cardinality(Flying(s) \cup {k}) \in Nat
      <4>1. /\ IsFiniteSet(Flying(s) \cup {k})
            /\ Cardinality(Flying(s) \cup {k})
                 = IF k \in Flying(s) THEN Cardinality(Flying(s)) ELSE Cardinality(Flying(s)) + 1
        BY <2>1, FS_AddElement
      <4>2. QED
        BY <2>1, <4>1
    <3>4. /\ Cardinality(Flying(s)') <= Cardinality(Flying(s) \cup {k})
          /\ Cardinality(Flying(s)') \in Nat
      BY <3>2, <3>3, FS_Subset, FS_CardinalityType
    <3>5. Cardinality(Flying(s)') <= MaxParallel
      BY <2>1, <3>1, <3>3, <3>4, RunFigures
    <3>6. MaxParallel = 1 => run'[s] = "running"
      BY <1>1, <2>2, RunFigures DEF MayCall, Rejects
    <3>7. QED
      BY <3>5, <3>6
  <2>3. CASE s # r
    <3>1. Flying(s)' \subseteq Flying(s)
      BY <1>3, <1>4, <2>3 DEF Flying, CallsOf, InFlight, OtherCalls
    <3>2. /\ Cardinality(Flying(s)') <= Cardinality(Flying(s))
          /\ Cardinality(Flying(s)') \in Nat
      BY <2>1, <3>1, FS_Subset, FS_CardinalityType
    <3>3. QED
      BY <1>1, <2>1, <3>1, <3>2, RunFigures
  <2>4. QED
    BY <2>2, <2>3
<1>9. \A j \in CallKeys : attempt'[j].step = "idle" => ~Settled(j)'
  BY <1>1, <1>3, <1>4 DEF OtherCalls, SpendInv, CallsInv, Settled
<1>10. CallsInv'
  BY <1>8, <1>9 DEF CallsInv
<1>11. QED
  BY <1>7, <1>10

(* The provider answers a call that is out.                                *)
LEMMA AnswerSound ==
  ASSUME SpendInv, IInv', AttemptsOK', HistoryOK', NEW k \in CallKeys, NEW outcome, NEW cost,
         ProviderAnswers(k, outcome, cost)
  PROVE  BooksSound' /\ CallsInv'
<1>1. /\ attempt[k].step = "sent" /\ UNCHANGED <<run, call>>
      /\ UNCHANGED <<vars, hand, limited>>
      /\ attempt' = [attempt EXCEPT ![k].step = "answered", ![k].outcome = outcome,
                                    ![k].cost = cost]
  BY DEF ProviderAnswers, vars, history
<1>2. attempt[k] \in Attempt /\ attempt \in [CallKeys -> Attempt]
  BY DEF SpendInv, AttemptsOK
<1>3. OtherCalls(k)
  BY <1>1, <1>2 DEF OtherCalls
<1>4. attempt'[k].run = attempt[k].run /\ attempt'[k].step = "answered"
  BY <1>1, <1>2 DEF Attempt
<1>5. CallsInv' /\ \A s \in ReservationIds : Sent(s)' \subseteq Sent(s)
  <2>1. InFlight(k) /\ \A j \in CallKeys : Settled(j) = Settled(j)'
    BY <1>1 DEF InFlight, Settled
  <2>2. QED
    BY <1>1, <1>3, <1>4, <2>1, CallGoesOn
<1>6. RecordedKept
  BY <1>1, <1>3, <1>4 DEF RecordedKept, OtherCalls
<1>7. QED
  BY <1>1, <1>5, <1>6, QuietSound

-----------------------------------------------------------------------------
(* Holds.                                                                  *)

(* An administrator has not always been limited.                           *)
LEMMA LimitedUsers ==
  ASSUME HistoryOK, NEW u, Unlimited(u)
  PROVE  u \notin Desked.limited
BY DEF HistoryOK, Desked

(* A run starts with a funded hold within its budget.                      *)
LEMMA StartSound ==
  ASSUME SpendInv, IInv', AttemptsOK', HistoryOK', NEW r \in ReservationIds,
         NEW u \in Users, NEW scope \in Scopes, NEW limit, NEW result,
         StartRun(r, u, scope, limit, result)
  PROVE  BooksSound'
<1> DEFINE x == InitialHold
           v(p) == [user |-> u, period |-> p, status |-> "open", amount |-> x,
                    settled |-> 0, lapsed |-> FALSE, scope |-> scope]
           N == Counting
           W == RunCharged
           P == PeriodCharged
<1>1. PICK S \in SUBSET Lapsed(resv) :
        \/ Save(Recovered(Books, S))
        \/ \E e \in Ensured(Recovered(Books, S), u) :
             \/ Save(e[1])
             \/ /\ Unlimited(u) \/ x <= Available(e[1].period[e[2]])
                /\ Save(Holding(e[1], r, e[2], x, v(e[2])))
  BY DEF StartRun, ReserveCredits
<1>2. /\ UNCHANGED <<call, attempt, hand, limited>> /\ resv[r].status = "unused"
      /\ IInv /\ BooksInv(Books) /\ S \in SUBSET Lapsed(Books.resv)
      /\ Unlimited(u) => u \notin Desked.limited
  BY LimitedUsers DEF StartRun, ReserveCredits, SpendInv, IInv, Books, history
<1>3. Counts(N, W, P, Desked) /\ InBounds(Books, N, W, P, Desked)
  BY CountsNow DEF SpendInv, BooksSound
<1> DEFINE b == Recovered(Books, S)
<1>4. BooksInv(b) /\ UnusedKept(Books, b) /\ b \in BooksType
  BY <1>2, RecoveredInv DEF BooksInv
<1>5. InBounds(b, N, W, P, Desked)
  BY <1>2, <1>3, RecoveredSound
<1> HIDE DEF b
<1>6. CASE Save(b)
  BY <1>2, <1>4, <1>5, <1>6, SavedSound
<1>7. ASSUME NEW e \in Ensured(b, u),
             \/ Save(e[1])
             \/ /\ Unlimited(u) \/ x <= Available(e[1].period[e[2]])
                /\ Save(Holding(e[1], r, e[2], x, v(e[2])))
      PROVE  BooksSound'
  <2> DEFINE c == e[1]
             p == e[2]
  <2>1. Continues(b, u, c, p)
    BY <1>4, EnsuredBooks
  <2>2. InBounds(c, N, W, P, Desked)
    <3>1. e \in EnsuredWith(b, u, 0, Cadences) /\ Cadences \in SUBSET Cadences
      BY DEF Ensured
    <3>2. QED
      BY <1>3, <1>4, <1>5, <3>1, EnsuredSound
  <2> HIDE DEF c, p
  <2>3. /\ BooksInv(c) /\ p \in PeriodIds /\ c \in BooksType
        /\ c.period[p].status = "current" /\ c.period[p].user = u
    BY <2>1, Ongoing DEF BooksInv
  <2>4. c.resv[r].status = "unused"
    BY <1>2, <1>4, <2>1 DEF Continues, UnusedKept, Books
  <2>5. CASE Save(c)
    BY <1>2, <2>2, <2>3, <2>5, SavedSound
  <2>6. CASE /\ Unlimited(u) \/ x <= Available(c.period[p])
             /\ Save(Holding(c, r, p, x, v(p)))
    <3> DEFINE w == v(p)
    <3>1. x \in Nat /\ HeldBy(c.resv, r, p) = 0 /\ x <= Budget
      BY <2>4, RunConstants, RunAssumption, CreditAssumption DEF HeldBy, HeldStatuses
    <3>2. w \in Reservation /\ w.status = "open" /\ w.period = p /\ w.user = u
          /\ w.amount = x /\ w.settled = 0
      BY <2>3, <3>1 DEF Reservation, HeldStatuses
    <3> HIDE DEF w
    <3>3. /\ w.user = c.period[p].user /\ w.amount = HeldBy(c.resv, r, p) + x
          /\ c.resv[r].status \in HeldStatuses => c.resv[r].period = p
          /\ c.resv[r].status # "unused" => c.resv[r].period = p
      BY <2>3, <2>4, <3>1, <3>2 DEF HeldStatuses
    <3>4. Holding(c, r, p, x, w) \in BooksType
      BY <2>3, <3>1, <3>2, <3>3, HoldingInv DEF BooksInv
    <3>5. RunSound(w, N[r], W[r], Desked)
      <4>1. N[r] = 0 /\ W[r] \in Nat
        BY <1>3, <2>2, <2>4 DEF InBounds, RunsSound, RunSound, Counts
      <4>2. QED
        BY <3>1, <3>2, <4>1, NewRunSound
    <3>6. InBounds(Holding(c, r, p, x, w), N, W, P, Desked)
      <4>1. \A s \in ReservationIds \ {r} : N[s] = N[s]
        OBVIOUS
      <4>2. c.period[p].user \in Desked.limited => x <= Available(c.period[p])
        BY <1>2, <2>3, <2>6
      <4>3. QED
        BY <1>3, <2>2, <2>3, <4>2, <3>1, <3>2, <3>3, <3>4, <3>5, <4>1, HoldingSound
    <3>7. Save(Holding(c, r, p, x, w))
      BY <2>6 DEF w
    <3>8. QED
      BY <1>2, <3>4, <3>6, <3>7, SavedSound
  <2>7. QED
    BY <1>7, <2>5, <2>6 DEF c, p
<1>8. QED
  BY <1>1, <1>2, <1>6, <1>7 DEF b

(* A refused run is not started, and a started one runs.                   *)
LEMMA StartCalls ==
  ASSUME SpendInv, NEW r \in ReservationIds, NEW u, NEW scope, NEW limit, NEW result,
         StartRun(r, u, scope, limit, result)
  PROVE  CallsInv'
<1> DEFINE state == IF result = "ok" THEN "running" ELSE run[r]
<1>1. run' = [run EXCEPT ![r] = state] /\ UNCHANGED <<call, attempt>> /\ run[r] = "idle"
  BY DEF StartRun, ReserveCredits
<1>2. state \notin {"returning", "over"}
  BY <1>1
<1> HIDE DEF state
<1>3. QED
  BY <1>1, <1>2, RunMoves

(* A top-up is funded, reaches the ceiling and keeps within the budget.    *)
LEMMA TopUpsWithinBudget ==
  ASSUME NEW r, NEW ceiling \in Nat, NEW budget \in Nat, NEW x \in TopUps(r, ceiling, budget),
         resv[r].amount \in Nat, resv[r].settled \in Nat, resv[r].amount < ceiling,
         Available(period[resv[r].period]) \in Int
  PROVE  /\ resv[r].amount + x >= ceiling
         /\ ~Unlimited(resv[r].user) =>
              /\ x <= Available(period[resv[r].period])
              /\ resv[r].settled + resv[r].amount + x <= budget
<1>1. CASE Unlimited(resv[r].user)
  <2> DEFINE most == ceiling * TopUpMultiple
  <2>1. x = Most(ceiling, most) - resv[r].amount
    BY <1>1, Zenon DEF TopUps
  <2>2. most \in Int
    BY CreditAssumption
  <2> HIDE DEF most
  <2>3. QED
    BY <1>1, <2>1, <2>2 DEF Most
<1>2. CASE ~Unlimited(resv[r].user)
  <2> DEFINE amount == resv[r].amount
             settled == resv[r].settled
             free   == Available(period[resv[r].period])
             room   == AtLeastZero(budget - (settled + amount))
             most   == ceiling * TopUpMultiple
             want   == Least(most, room)
             topUp  == Most(ceiling, want) - amount
  <2>1. most \in Int
    BY CreditAssumption
  <2>2. room \in Int /\ (room >= ceiling => room = budget - (settled + amount))
    BY DEF AtLeastZero
  <2>3. /\ room >= ceiling
        /\ x = topUp \/ x = ceiling - amount
        /\ x <= free
    <3>1. /\ ~(room < ceiling)
          /\ (topUp <= free /\ x = topUp) \/ (ceiling - amount <= free /\ x = ceiling - amount)
      BY <1>2, Zenon DEF TopUps
    <3> HIDE DEF room, topUp, free, amount
    <3>2. room >= ceiling
      BY <2>2, <3>1
    <3>3. QED
      BY <3>1, <3>2
  <2> HIDE DEF room, most
  <2>4. want \in Int /\ want <= room
    BY <2>1, <2>2 DEF Least
  <2> HIDE DEF want
  <2>5. topUp \in Int /\ topUp <= room - amount /\ topUp >= ceiling - amount
    BY <2>2, <2>3, <2>4 DEF Most
  <2> HIDE DEF topUp
  <2>6. x \in Int /\ x <= room - amount /\ x >= ceiling - amount
    BY <2>2, <2>3, <2>5
  <2>7. amount \in Nat /\ settled \in Nat /\ room = budget - (settled + amount) /\ x <= free
    BY <2>2, <2>3
  <2> HIDE DEF amount, settled, free
  <2>8. amount + x >= ceiling /\ settled + amount + x <= budget /\ x <= free
    BY <2>6, <2>7
  <2>9. QED
    BY <1>2, <2>8 DEF amount, settled, free
<1>3. QED
  BY <1>1, <1>2

(* ensureHoldForStep: a call leaves with its ceiling held, within the      *)
(* budget, or it does not leave.                                           *)
LEMMA HoldSound ==
  ASSUME SpendInv, IInv', AttemptsOK', HistoryOK', NEW k \in CallKeys,
         NEW result, HoldForCall(k, result)
  PROVE  BooksSound' /\ CallsInv'
<1> DEFINE r == attempt[k].run
           p == resv[r].period
           N == Counting
           W == RunCharged
           P == PeriodCharged
           M == Counting'
           X == RunCharged'
           Q == PeriodCharged'
<1>1. /\ attempt[k].step = "permitted" /\ UNCHANGED <<run, account, call, hand, limited>>
      /\ attempt' = [attempt EXCEPT ![k].step = IF result = "ok" THEN "sent" ELSE "refused"]
      /\ EnsureReservationHold(r, Ceiling, Budget, result)
      /\ resv[r].status # "unused" /\ IInv /\ AttemptsOK /\ HistoryOK
  BY DEF HoldForCall, EnsureReservationHold, SpendInv
<1>2. attempt[k] \in Attempt /\ attempt \in [CallKeys -> Attempt] /\ r \in ReservationIds
  BY <1>1 DEF AttemptsOK, InFlight
<1>3. OtherCalls(k)
  BY <1>1, <1>2 DEF OtherCalls
<1>4. /\ attempt'[k].run = attempt[k].run /\ attempt'[k].step # "idle"
      /\ result # "ok" => attempt'[k].step = "refused"
  BY <1>1, <1>2 DEF Attempt
<1>5. /\ InFlight(k)
      /\ \A j \in CallKeys : Settled(j) = Settled(j)'
  BY <1>1 DEF InFlight, Settled
<1>6. CallsInv'
  BY <1>1, <1>3, <1>4, <1>5, CallGoesOn
<1>7. RecordedKept
  BY <1>1, <1>3, <1>4, <1>5 DEF RecordedKept, OtherCalls, InFlight
<1>8. /\ Counts(N, W, P, Desked) /\ Counts(M, X, Q, Desked) /\ InBounds(Books, N, W, P, Desked)
      /\ \A s \in ReservationIds : W[s] <= X[s]
      /\ \A q \in PeriodIds : P[q] <= Q[q]
  BY <1>1, <1>7, CountsNow, CountsNext, DeskedKept, ChargedGrow DEF SpendInv, BooksSound
<1>9. \A s \in ReservationIds \ {r} : Sent(s)' = Sent(s)
  BY <1>1, <1>3, <1>4 DEF Sent, CallsOf, OtherCalls, Settled
<1>10. \A s \in ReservationIds \ {r} : M[s] = N[s]
  BY <1>9 DEF Counting
<1>11. M[r] \in Nat /\ M[r] <= MaxParallel
  BY <1>2, <1>6, CountingNext
<1>12. /\ resv[r] \in Reservation /\ p \in PeriodIds /\ period[p] \in Period
       /\ resv \in [ReservationIds -> Reservation]
       /\ resv[r].amount \in Nat /\ resv[r].settled \in Nat
       /\ RunSound(resv[r], N[r], W[r], Desked) /\ resv[r].user \in Users
       /\ N[r] \in Nat /\ W[r] \in Nat /\ X[r] \in Nat /\ W[r] <= X[r]
  <2>1. /\ resv[r] \in Reservation /\ p \in PeriodIds /\ period[p] \in Period
        /\ resv \in [ReservationIds -> Reservation]
    BY <1>1, <1>2, Reserved
  <2>2. resv[r].amount \in Nat /\ resv[r].settled \in Nat
    BY <2>1 DEF Reservation
  <2>3. RunSound(resv[r], N[r], W[r], Desked)
    BY <1>2, <1>8 DEF InBounds, RunsSound, Books
  <2>4. resv[r].user \in Users
    BY <1>1, <2>3 DEF RunSound
  <2>5. N[r] \in Nat /\ W[r] \in Nat /\ X[r] \in Nat /\ W[r] <= X[r]
    BY <1>2, <1>8 DEF Counts
  <2>6. QED
    BY <2>1, <2>2, <2>3, <2>4, <2>5
<1>13. CASE result # "ok"
  <2>1. UNCHANGED <<vars, hand, limited>>
    BY <1>1, <1>13 DEF EnsureReservationHold, vars
  <2>2. \A s \in ReservationIds : Sent(s)' \subseteq Sent(s)
    BY <1>1, <1>3, <1>4, <1>13 DEF Sent, CallsOf, OtherCalls, Settled
  <2>3. QED
    BY <1>6, <1>7, <2>1, <2>2, QuietSound
<1>14. CASE /\ resv[r].status = "open" /\ resv[r].amount >= Ceiling
            /\ resv' = [resv EXCEPT ![r].lapsed = FALSE]
            /\ UNCHANGED <<period, ledger, carried>>
  <2> DEFINE v == resv[r]
             u == resv'[r]
  <2>1. /\ u \in Reservation /\ u.status = "open" /\ u.amount = v.amount
        /\ u.settled = v.settled /\ u.user = v.user /\ u.period = v.period
    BY <1>2, <1>12, <1>14 DEF Reservation, HeldStatuses
  <2>2. OnlyAt(r)
    BY <1>2, <1>12, <1>14, <2>1 DEF OnlyAt
  <2> HIDE DEF u
  <2>3. v.amount > 0 /\ v.status = "open" /\ v.amount >= Ceiling
    BY <1>12, <1>14, RunFigures
  <2>4. v.user \in Desked.limited => v.settled + v.amount <= Budget + W[r]
    BY <1>12, <2>3 DEF RunSound, Within
  <2>5. u.user \in Desked.limited => u.settled + u.amount <= Budget + X[r]
    BY <1>12, <2>1, <2>4, RunFigures
  <2>6. RunSound(u, M[r], X[r], Desked) /\ \A q : Owed(u, M[r], q) = 0
    <3>1. u.user \in Users /\ u.amount >= Ceiling
      BY <1>12, <2>1, <2>3
    <3>2. QED
      BY <1>11, <1>12, <2>1, <2>5, <3>1, ToppedUpSound
  <2>7. Owed(v, N[r], p) = 0
    BY <2>3, SMTT(30) DEF Owed
  <2>8. /\ period'[p] = period[p]
        /\ period[p].consumed \in Int /\ period[p].reserved \in Nat
        /\ Available(period[p]) \in Int /\ P[p] \in Nat /\ Q[p] \in Nat /\ P[p] <= Q[p]
    BY <1>8, <1>12, <1>14 DEF Period, Available, Counts
  <2>9. /\ period'[p].consumed >= period[p].consumed
        /\ period'[p].reserved <= period[p].reserved
        /\ P[p] + Available(period[p]) + Owed(v, N[r], p)
             <= Q[p] + Available(period'[p]) + Owed(u, M[r], p)
    BY <2>6, <2>7, <2>8
  <2>10. \A s \in ReservationIds \ {r} : M[s] <= N[s]
    BY <1>8, <1>10 DEF Counts
  <2> DEFINE pp == p
  <2>11. pp = resv[r].period
    OBVIOUS
  <2>12. InBounds(Books', M, X, Q, Desked)
    <3>1. /\ period'[pp].consumed >= period[pp].consumed
          /\ period'[pp].reserved <= period[pp].reserved
          /\ P[pp] + Available(period[pp]) + Owed(resv[r], N[r], pp)
               <= Q[pp] + Available(period'[pp]) + Owed(resv'[r], M[r], pp)
          /\ RunSound(resv'[r], M[r], X[r], Desked)
      BY <2>6, <2>9 DEF u
    <3> HIDE DEF pp, N, W, P, M, X, Q
    <3>2. QED
      BY <1>1, <1>2, <1>8, <2>2, <2>10, <2>11, <3>1, OneRunSound
  <2>13. QED
    BY <1>1, <1>6, <2>12, DeskedKept DEF BooksSound
<1>15. ASSUME resv[r].status = "open", resv[r].amount < Ceiling,
              NEW x \in TopUps(r, Ceiling, Budget), Save(Extended(Books, r, x, TRUE))
       PROVE  BooksSound' /\ CallsInv'
  <2> DEFINE w == [resv[r] EXCEPT !.amount = @ + x]
             v == [w EXCEPT !.lapsed = @ /\ ~TRUE]
             c == Holding(Books, r, p, x, v)
  <2>1. /\ Ceiling \in Nat /\ Budget \in Nat
        /\ Available(period[p]) \in Int
        /\ Unlimited(resv[r].user) => resv[r].user \notin Desked.limited
    BY <1>1, <1>12, RunFigures, LimitedUsers DEF Available, Period
  <2>2. x \in Nat
    BY <1>12, <1>15, <2>1, TopUpsGrow
  <2>3. /\ resv[r].amount + x >= Ceiling
        /\ resv[r].user \in Desked.limited =>
             /\ x <= Available(period[p])
             /\ resv[r].settled + resv[r].amount + x <= Budget
    BY <1>12, <1>15, <2>1, TopUpsWithinBudget
  <2>4. w \in Reservation /\ w.status = "open" /\ w.period = p
        /\ w.user = resv[r].user /\ w.amount = resv[r].amount + x /\ w.settled = resv[r].settled
    BY <1>12, <1>15, <2>2 DEF Reservation
  <2> HIDE DEF w
  <2>5. v \in Reservation /\ v.status = "open" /\ v.period = p
        /\ v.user = resv[r].user /\ v.amount = resv[r].amount + x /\ v.settled = resv[r].settled
    BY <2>4 DEF Reservation
  <2>6. Books.resv = resv /\ Books.period = period
    BY DEF Books
  <2>7. Extended(Books, r, x, TRUE) = c
    BY <2>6 DEF Extended, w
  <2>8. /\ Books.period[p].status = "current" /\ Books.period[p].user = v.user
        /\ HeldBy(Books.resv, r, p) = resv[r].amount
    BY <1>1, <1>2, <1>15, <2>5, <2>6 DEF IInv, BooksInv, HeldCurrent, HeldBy, HeldStatuses
  <2> HIDE DEF v
  <2> DEFINE pp == p
  <2> HIDE DEF pp
  <2>9. Holding(Books, r, pp, x, v) \in BooksType
    <3>1. /\ Books.resv[r].status \in HeldStatuses => Books.resv[r].period = pp
          /\ v.amount = HeldBy(Books.resv, r, pp) + x
          /\ pp \in PeriodIds /\ v.user = Books.period[pp].user
          /\ v.status = "open" /\ v.period = pp /\ Books.period[pp].status = "current"
      BY <1>12, <2>5, <2>6, <2>8 DEF pp
    <3>2. QED
      BY <1>1, <1>2, <2>2, <2>5, <3>1, HoldingInv DEF IInv, BooksInv
  <2>10. RunSound(v, M[r], W[r], Desked)
    <3>1. /\ v.user \in Users /\ v.amount >= Ceiling
          /\ v.user \in Desked.limited => v.settled + v.amount <= Budget + W[r]
      BY <1>12, <2>1, <2>2, <2>3, <2>5
    <3>2. QED
      BY <1>11, <1>12, <2>5, <3>1, ToppedUpSound
  <2>11. InBounds(Holding(Books, r, pp, x, v), M, W, P, Desked)
    <3>1. /\ Books.period[pp].status = "current" /\ v.period = pp /\ pp \in PeriodIds
          /\ Books.resv[r].status # "unused" => Books.resv[r].period = pp
          /\ Books.period[pp].user \in Desked.limited => x <= Available(Books.period[pp])
      BY <1>12, <2>3, <2>5, <2>6, <2>8 DEF pp
    <3>2. Counts(M, W, P, Desked) /\ BooksInv(Books)
      BY <1>1, <1>8 DEF Counts, IInv
    <3> HIDE DEF N, W, P, M
    <3>3. QED
      BY <1>2, <1>8, <1>10, <2>2, <2>5, <2>9, <2>10, <3>1, <3>2, HoldingSound
  <2>12. InBounds(c, M, X, Q, Desked) /\ c \in BooksType
    <3>1. Counts(M, W, P, Desked)
      BY <1>8 DEF Counts
    <3>2. c = Holding(Books, r, pp, x, v)
      BY DEF pp
    <3> HIDE DEF c, W, P, M, X, Q
    <3>3. QED
      BY <1>8, <2>9, <2>11, <3>1, <3>2, MoreCharged
  <2>13. Books' = c
    BY <1>15, <2>7, <2>12, SavedBooks
  <2>14. QED
    BY <1>1, <1>6, <2>12, <2>13, DeskedKept DEF BooksSound
<1>16. QED
  BY <1>1, <1>13, <1>14, <1>15 DEF EnsureReservationHold

-----------------------------------------------------------------------------
(* Settlements.                                                            *)

(* The period of r is charged and freed, and no other changes.             *)
Charges(r, charge, released) ==
  LET p == resv[r].period IN
  /\ OnlyAt(r) /\ resv[r].status # "unused"
  /\ charge \in Nat /\ released \in Nat
  /\ resv'[r] \in Reservation
  /\ period'[p].consumed = period[p].consumed + charge
  /\ period'[p].reserved = period[p].reserved - released

(* What settleProviderCall does with a reservation.                        *)
LEMMA SettledBy ==
  ASSUME IInv, NEW k \in CallKeys, NEW r \in ReservationIds, NEW reported \in Nat,
         NEW pending \in BOOLEAN, NEW release \in Nat,
         SettleAgainst(k, r, reported, pending, release),
         NEW charge, charge = IF pending THEN 0 ELSE reported,
         NEW released, released = IF resv[r].status = "open" /\ ~pending
                                  THEN Least(resv[r].amount, release) ELSE 0
  PROVE  /\ Charges(r, charge, released)
         /\ ~Settled(k) /\ Settled(k)'
         /\ call'[k].charge = charge /\ call'[k].period = resv[r].period
         /\ \A j \in CallKeys \ {k} : call'[j] = call[j]
         /\ resv[r].status # "open" => resv'[r] = resv[r]
         /\ resv[r].status = "open" /\ pending =>
              /\ resv'[r].status = "pending_reconciliation"
              /\ resv'[r].amount = resv[r].amount /\ resv'[r].settled = resv[r].settled
         /\ resv[r].status = "open" /\ ~pending =>
              /\ resv'[r].status = "open" /\ resv'[r].amount = resv[r].amount - released
              /\ resv'[r].settled = resv[r].settled + charge
<1> DEFINE p   == resv[r].period
           v   == IF resv[r].status # "open" THEN resv[r]
                  ELSE IF pending THEN Parked(resv[r])
                  ELSE Reduced(resv[r], released, charge)
           pr1 == [period[p] EXCEPT !.reserved = AtLeastZero(@ - released)]
           pr  == [pr1 EXCEPT !.consumed = @ + charge]
<1>1. resv[r].status # "unused" /\ ~Settled(k)
      /\ call' = [call EXCEPT ![k] = Recorded(pending, charge, p)]
  BY DEF SettleAgainst
<1>2. /\ p \in PeriodIds /\ resv[r] \in Reservation /\ period[p] \in Period
      /\ period \in [PeriodIds -> Period] /\ resv \in [ReservationIds -> Reservation]
      /\ Hold(resv[r]) \in Nat /\ Hold(resv[r]) <= period[p].reserved
      /\ call \in [CallKeys -> Call]
  BY <1>1, Reserved DEF IInv
<1>3. resv[r].amount \in Nat /\ resv[r].settled \in Nat /\ charge \in Nat
  BY <1>2 DEF Reservation
<1>4. /\ released \in Nat /\ released <= resv[r].amount /\ released <= Hold(resv[r])
  BY <1>2, <1>3 DEF Least, Hold, HeldStatuses
<1>5. period' = [period EXCEPT ![p] = pr] /\ resv' = [resv EXCEPT ![r] = v]
  <2>1. /\ period' = [period EXCEPT ![p].reserved = AtLeastZero(@ - released),
                                    ![p].consumed = @ + charge]
        /\ resv' = [resv EXCEPT ![r] = v]
    BY Zenon DEF SettleAgainst, Save, Books
  <2>2. QED
    BY <1>2, <2>1, ZenonT(30)
<1>6. /\ v \in Reservation /\ v.period = p /\ v.user = resv[r].user
      /\ resv[r].status # "open" => v = resv[r]
      /\ resv[r].status = "open" /\ pending =>
           /\ v.status = "pending_reconciliation"
           /\ v.amount = resv[r].amount /\ v.settled = resv[r].settled
      /\ resv[r].status = "open" /\ ~pending =>
           /\ v.status = "open" /\ v.amount = resv[r].amount - released
           /\ v.settled = resv[r].settled + charge
  <2>1. CASE resv[r].status # "open"
    BY <1>2, <2>1
  <2>2. CASE resv[r].status = "open" /\ pending
    <3>1. v = Parked(resv[r])
      BY <2>2
    <3>2. /\ v \in Reservation /\ v.status = "pending_reconciliation"
          /\ v.period = p /\ v.user = resv[r].user /\ v.amount = resv[r].amount
      BY <1>2, <3>1, ParkedFields
    <3>3. v.settled = resv[r].settled
      BY <1>2, <3>1 DEF Parked, Reservation
    <3> HIDE DEF v
    <3>4. QED
      BY <2>2, <3>2, <3>3
  <2>3. CASE resv[r].status = "open" /\ ~pending
    <3>1. v = Reduced(resv[r], released, charge)
      BY <2>3
    <3>2. v.settled = resv[r].settled + charge
      BY <1>2, <3>1 DEF Reduced, Reservation
    <3> HIDE DEF v
    <3>3. /\ v \in Reservation /\ v.status = resv[r].status /\ v.period = p
          /\ v.user = resv[r].user /\ v.amount = resv[r].amount - released
      BY <1>2, <1>3, <1>4, <3>1, ReducedFields
    <3>4. QED
      BY <2>3, <3>2, <3>3
  <2>4. QED
    BY <2>1, <2>2, <2>3
<1> HIDE DEF v
<1>7. AtLeastZero(period[p].reserved - released) = period[p].reserved - released
      /\ period[p].reserved - released \in Nat /\ period[p].reserved \in Nat
  <2>1. period[p].reserved \in Nat
    BY <1>2 DEF Period
  <2>2. released <= period[p].reserved
    BY <1>2, <1>4, <2>1
  <2>3. QED
    BY <1>4, <2>1, <2>2 DEF AtLeastZero
<1>8. /\ pr1 \in Period /\ pr1.status = period[p].status /\ pr1.user = period[p].user
      /\ pr1.reserved = period[p].reserved - released
      /\ pr1.allowance = period[p].allowance /\ pr1.consumed = period[p].consumed
  BY <1>2, <1>7 DEF Period
<1> HIDE DEF pr1
<1>9. /\ pr.status = period[p].status /\ pr.reserved = period[p].reserved - released
      /\ pr.user = period[p].user
      /\ pr.allowance = period[p].allowance /\ pr.consumed = period[p].consumed + charge
  BY <1>3, <1>8 DEF Period
<1> HIDE DEF pr
<1>10. resv'[r] = v /\ period'[p] = pr
  BY <1>2, <1>5
<1>11. OnlyAt(r)
  BY <1>2, <1>5, <1>6, <1>9, <1>10 DEF OnlyAt
<1>12. Charges(r, charge, released)
  BY <1>1, <1>3, <1>4, <1>6, <1>9, <1>10, <1>11 DEF Charges
<1>13. /\ call'[k] = Recorded(pending, charge, p)
       /\ \A j \in CallKeys \ {k} : call'[j] = call[j]
  BY <1>1, <1>2
<1>14. Settled(k)' /\ call'[k].charge = charge /\ call'[k].period = p
  BY <1>13 DEF Settled, Recorded
<1>15. QED
  BY <1>1, <1>6, <1>10, <1>12, <1>13, <1>14

(* Charging the period of a run whose debt makes up for it.                *)
LEMMA ChargedSound ==
  ASSUME UNCHANGED <<hand, limited>>,
         SpendInv, IInv', AttemptsOK', HistoryOK', NEW r \in ReservationIds, NEW charge, NEW released,
         Charges(r, charge, released), RecordedKept,
         \A s \in ReservationIds \ {r} : Counting'[s] = Counting[s],
         RunSound(resv'[r], Counting'[r], RunCharged'[r], Desked),
         NEW p, p = resv[r].period,
         PeriodCharged[p] + Owed(resv[r], Counting[r], p) + charge
           <= PeriodCharged'[p] + Owed(resv'[r], Counting'[r], p) + released
  PROVE  BooksSound'
<1> DEFINE N == Counting
           W == RunCharged
           P == PeriodCharged
           M == Counting'
           X == RunCharged'
           Q == PeriodCharged'
<1>1. IInv /\ AttemptsOK /\ OnlyAt(r) /\ resv[r].status # "unused"
      /\ charge \in Nat /\ released \in Nat /\ resv'[r] \in Reservation
  BY DEF SpendInv, Charges
<1>2. /\ Counts(N, W, P, Desked) /\ Counts(M, X, Q, Desked) /\ InBounds(Books, N, W, P, Desked)
      /\ \A s \in ReservationIds : W[s] <= X[s]
      /\ \A q \in PeriodIds : P[q] <= Q[q]
  BY <1>1, CountsNow, CountsNext, DeskedKept, ChargedGrow DEF SpendInv, BooksSound
<1>3. \A s \in ReservationIds \ {r} : M[s] <= N[s]
  BY <1>2 DEF Counts
<1>4. p \in PeriodIds /\ period[p] \in Period /\ resv[r] \in Reservation
  BY <1>1, Reserved
<1>5. /\ period[p].consumed \in Int /\ period[p].reserved \in Nat /\ period[p].allowance \in Int
      /\ period'[p].consumed = period[p].consumed + charge
      /\ period'[p].reserved = period[p].reserved - released
      /\ period'[p].allowance = period[p].allowance
  BY <1>4 DEF Period, Charges, OnlyAt
<1>6. /\ period'[p].consumed >= period[p].consumed
      /\ period'[p].reserved <= period[p].reserved
      /\ Available(period[p]) \in Int
      /\ Available(period'[p]) = Available(period[p]) - charge + released
  BY <1>1, <1>5 DEF Available
<1>7. /\ P[p] \in Nat /\ Q[p] \in Nat
      /\ Owed(resv[r], N[r], p) \in Nat /\ Owed(resv'[r], M[r], p) \in Nat
  <2>1. N[r] \in Nat /\ M[r] \in Nat /\ P[p] \in Nat /\ Q[p] \in Nat
    BY <1>2, <1>4 DEF Counts
  <2>2. Backing(resv[r], N[r]) /\ Backing(resv'[r], M[r])
    BY <1>2 DEF InBounds, RunsSound, RunSound, Books
  <2>3. QED
    BY <1>1, <1>4, <2>1, <2>2, OwedFacts
<1>8. P[p] + Available(period[p]) + Owed(resv[r], N[r], p)
        <= Q[p] + Available(period'[p]) + Owed(resv'[r], M[r], p)
  <2> DEFINE o == Owed(resv[r], N[r], p)
             oo == Owed(resv'[r], M[r], p)
             a == Available(period[p])
             aa == Available(period'[p])
  <2>1. o \in Nat /\ oo \in Nat /\ P[p] \in Nat /\ Q[p] \in Nat /\ a \in Int
        /\ aa = a - charge + released /\ P[p] + o + charge <= Q[p] + oo + released
    BY <1>6, <1>7
  <2> HIDE DEF o, oo, a, aa, P, Q
  <2>2. P[p] + a + o <= Q[p] + aa + oo
    BY <1>1, <2>1
  <2>3. QED
    BY <2>2 DEF o, oo, a, aa
<1>9. RunSound(resv'[r], M[r], X[r], Desked)
  OBVIOUS
<1> HIDE DEF N, W, P, M, X, Q
<1>10. InBounds(Books', M, X, Q, Desked)
  BY <1>1, <1>2, <1>3, <1>6, <1>8, <1>9, OneRunSound
<1>11. QED
  BY <1>10, DeskedKept DEF BooksSound, M, X, Q

(* One call more is recorded, of those of its run that are out.            *)
LEMMA OneFewer ==
  ASSUME SpendInv, NEW k \in CallKeys, OtherCalls(k), ~Settled(k), Settled(k)',
         attempt[k].step = "answered", attempt'[k].run = attempt[k].run,
         \A j \in CallKeys \ {k} : call'[j] = call[j], NEW r, r = attempt[k].run
  PROVE  /\ Counting[r] > 0 /\ Counting'[r] = Counting[r] - 1
         /\ \A s \in ReservationIds \ {r} : Counting'[s] = Counting[s]
         /\ RecordedKept /\ call[k].charge = 0
<1>1. r \in ReservationIds
  BY DEF SpendInv, AttemptsOK, InFlight
<1>2. IsFiniteSet(Sent(r)) /\ Counting[r] = Cardinality(Sent(r)) /\ k \in Sent(r)
  BY <1>1, CountsNow DEF SpendInv, Sent, CallsOf
<1>3. Sent(r)' = Sent(r) \ {k}
  BY DEF Sent, CallsOf, OtherCalls, Settled
<1>4. Counting'[r] = Cardinality(Sent(r)')
  BY <1>1 DEF Counting
<1>5. Cardinality(Sent(r) \ {k}) = Cardinality(Sent(r)) - 1
  BY <1>2, FS_RemoveElement
<1>6. Cardinality(Sent(r)) \in Nat /\ Cardinality(Sent(r)) # 0
  BY <1>2, FS_CardinalityType, FS_EmptySet
<1>7. ASSUME NEW s \in ReservationIds \ {r} PROVE Counting'[s] = Counting[s]
  <2>1. Sent(s)' = Sent(s)
    BY <1>7 DEF Sent, CallsOf, OtherCalls, Settled
  <2>2. QED
    BY <2>1 DEF Counting
<1>8. RecordedKept /\ call[k].charge = 0
  <2>1. call[k].charge = 0
    BY DEF SpendInv, IInv, Unrecorded, Settled
  <2>2. QED
    BY <2>1 DEF RecordedKept, OtherCalls
<1>9. QED
  BY <1>2, <1>3, <1>4, <1>5, <1>6, <1>7, <1>8

(* A call that is out is recorded: its cost is paid for by what the hold   *)
(* gives back, or was owed.                                                *)
LEMMA SettlementSound ==
  ASSUME SpendInv, IInv', AttemptsOK', HistoryOK', UNCHANGED <<hand, limited>>,
         NEW k \in CallKeys, OtherCalls(k), attempt[k].step = "answered",
         attempt'[k].run = attempt[k].run, Settlement(k)
  PROVE  BooksSound'
<1> DEFINE r == attempt[k].run
           pending == attempt[k].outcome = "unknown"
           reported == attempt[k].cost
           charge == IF pending THEN 0 ELSE reported
           released == IF resv[r].status = "open" /\ ~pending
                       THEN Least(resv[r].amount, Ceiling) ELSE 0
<1>1. /\ IInv /\ AttemptsOK /\ r \in ReservationIds /\ pending \in BOOLEAN
      /\ reported \in Costs \cup {0}
  BY AttemptFields DEF SpendInv, AttemptsOK, InFlight
<1>2. Ceiling \in Nat /\ reported \in Nat
  <2> HIDE DEF reported
  <2>1. Ceiling \in Nat /\ Costs \subseteq Nat
    BY RunFigures, RunConstants, CreditAssumption
  <2>2. CASE reported \in Costs
    BY <2>1, <2>2
  <2>3. CASE reported = 0
    BY <2>1, <2>3
  <2>4. QED
    BY <1>1, <2>1, <2>2, <2>3
<1>3. CASE SettleDuplicate(k)
  <2>1. UNCHANGED vars /\ UNCHANGED call
    BY <1>3 DEF SettleDuplicate, vars
  <2>2. \A s \in ReservationIds : Sent(s)' \subseteq Sent(s)
    BY <2>1 DEF Sent, CallsOf, OtherCalls, Settled
  <2>3. RecordedKept
    BY <2>1 DEF RecordedKept, OtherCalls
  <2>4. QED
    BY <2>1, <2>2, <2>3, QuietSound
<1>4. CASE SettleAgainst(k, r, reported, pending, Ceiling)
  <2> DEFINE n == Counting[r]
             w == RunCharged[r]
             z == RunCharged'[r]
             v == resv[r]
             u == resv'[r]
             p == resv[r].period
             e == UnheldOf(call', attempt')[k]
  <2>1. /\ Charges(r, charge, released)
        /\ ~Settled(k) /\ Settled(k)'
        /\ call'[k].charge = charge /\ call'[k].period = p
        /\ \A j \in CallKeys \ {k} : call'[j] = call[j]
        /\ v.status # "open" => u = v
        /\ v.status = "open" /\ pending =>
             /\ u.status = "pending_reconciliation"
             /\ u.amount = v.amount /\ u.settled = v.settled
        /\ v.status = "open" /\ ~pending =>
             /\ u.status = "open" /\ u.amount = v.amount - released
             /\ u.settled = v.settled + charge
    <3>1. /\ charge = IF pending THEN 0 ELSE reported
          /\ released = IF resv[r].status = "open" /\ ~pending
                        THEN Least(resv[r].amount, Ceiling) ELSE 0
      OBVIOUS
    <3> HIDE DEF charge, released, pending, reported, r
    <3>2. QED
      BY <1>1, <1>2, <1>4, <3>1, SettledBy
  <2>2. /\ n > 0 /\ Counting'[r] = n - 1 /\ RecordedKept /\ call[k].charge = 0
        /\ \A s \in ReservationIds \ {r} : Counting'[s] = Counting[s]
    BY <2>1, OneFewer, SMTT(30)
  <2>3. /\ v \in Reservation /\ u \in Reservation /\ p \in PeriodIds
        /\ charge \in Nat /\ released \in Nat
        /\ u.user = v.user /\ u.period = v.period /\ v.amount \in Nat
    BY <1>1, <2>1, Reserved, Zenon DEF Charges, OnlyAt, Reservation
  <2>4. /\ n \in Nat /\ w \in Nat /\ z \in Nat /\ RunSound(v, n, w, Desked)
        /\ PeriodCharged[p] \in Nat /\ PeriodCharged'[p] \in Nat
        /\ e \in Nat /\ charge <= Ceiling + e
        /\ w + e <= z /\ PeriodCharged[p] + e <= PeriodCharged'[p]
    <3>1. /\ Counts(Counting, RunCharged, PeriodCharged, Desked)
          /\ InBounds(Books, Counting, RunCharged, PeriodCharged, Desked)
      BY <1>1, CountsNow DEF SpendInv, BooksSound
    <3>2. Counts(Counting', RunCharged', PeriodCharged', Desked)
      BY CountsNext, DeskedKept
    <3>3. RunCharged[r] + e <= RunCharged'[r] /\ PeriodCharged[p] + e <= PeriodCharged'[p]
      BY <1>1, <2>1, <2>2, <2>3, ChargedMore
    <3>4. e \in Nat /\ charge <= Ceiling + e
      <4>1. call' \in [CallKeys -> Call]
        BY DEF IInv
      <4>2. QED
        BY <2>1, <4>1, UnheldFacts
    <3>5. QED
      BY <1>1, <2>3, <3>1, <3>2, <3>3, <3>4 DEF Counts, InBounds, RunsSound, Books
  <2>5. /\ pending => charge = 0
        /\ v.status # "open" \/ pending => released = 0
        /\ v.status = "open" /\ ~pending => released = Least(v.amount, Ceiling)
    BY <1>2
  <2> HIDE DEF n, w, z, v, u, p, e, charge, released, pending, reported
  <2>6. n - 1 \in Nat /\ w + e \in Nat /\ w <= w + e
    BY <2>2, <2>4
  <2>7. /\ RunSound(u, n - 1, w + e, Desked)
        /\ Owed(v, n, p) + charge <= Owed(u, n - 1, p) + released + e
    <3>1. CASE v.status # "open"
      <4>1. /\ RunSound(v, n - 1, w + e, Desked)
            /\ Owed(v, n, v.period) + Ceiling = Owed(v, n - 1, v.period)
        BY <2>2, <2>3, <2>4, <3>1, LateSound
      <4>2. Owed(v, n, p) \in Nat /\ Owed(u, n - 1, p) \in Nat /\ u = v /\ p = v.period
            /\ RunSound(u, n - 1, w + e, Desked)
        <5>1. u = v /\ p = v.period
          BY <2>1, <3>1 DEF u, v, p
        <5>2. Backing(v, n) /\ Backing(v, n - 1)
          BY <2>4, <4>1 DEF RunSound
        <5>3. QED
          BY <2>3, <2>4, <2>6, <4>1, <5>1, <5>2, OwedFacts
      <4>3. released = 0
        BY <2>5, <3>1
      <4>4. QED
        BY <1>2, <2>3, <2>4, <4>1, <4>2, <4>3
    <3>2. CASE v.status = "open" /\ pending
      <4>1. RunSound(u, n - 1, w + e, Desked) /\ Owed(v, n, p) <= Owed(u, n - 1, p)
        <5>1. RunSound(u, n - 1, w, Desked) /\ Owed(v, n, p) <= Owed(u, n - 1, p)
          BY <2>1, <2>2, <2>3, <2>4, <3>2, ParkedSound
        <5>2. QED
          BY <2>3, <2>4, <2>6, <5>1, FewerSound
      <4>2. charge = 0 /\ released = 0
        BY <2>5, <3>2
      <4>3. Owed(v, n, p) \in Nat /\ Owed(u, n - 1, p) \in Nat
        <5>1. Backing(v, n) /\ Backing(u, n - 1)
          BY <2>4, <4>1 DEF RunSound
        <5>2. QED
          BY <2>3, <2>4, <2>6, <5>1, OwedFacts
      <4>4. QED
        BY <2>4, <4>1, <4>2, <4>3
    <3>3. CASE v.status = "open" /\ ~pending
      <4>1. released = Least(v.amount, Ceiling) /\ p = v.period
        BY <2>5, <3>3 DEF v, p
      <4>2. QED
        BY <2>1, <2>2, <2>3, <2>4, <3>3, <4>1, ReducedSound
    <3>4. QED
      BY <3>1, <3>2, <3>3
  <2>8. RunSound(u, n - 1, z, Desked)
    BY <2>3, <2>4, <2>6, <2>7, FewerSound
  <2>9. PeriodCharged[p] + Owed(v, n, p) + charge
          <= PeriodCharged'[p] + Owed(u, n - 1, p) + released
    <3>1. Owed(v, n, p) \in Nat /\ Owed(u, n - 1, p) \in Nat
      <4>1. Backing(v, n) /\ Backing(u, n - 1)
        BY <2>4, <2>7 DEF RunSound
      <4>2. QED
        BY <2>3, <2>4, <2>6, <4>1, OwedFacts
    <3> DEFINE o == Owed(v, n, p)
               oo == Owed(u, n - 1, p)
    <3>2. o \in Nat /\ oo \in Nat /\ o + charge <= oo + released + e
      BY <2>7, <3>1
    <3> HIDE DEF o, oo
    <3>3. PeriodCharged[p] + o + charge <= PeriodCharged'[p] + oo + released
      BY <2>3, <2>4, <3>2
    <3>4. QED
      BY <3>3 DEF o, oo
  <2>10. /\ p = resv[r].period /\ RunSound(resv'[r], Counting'[r], RunCharged'[r], Desked)
         /\ PeriodCharged[p] + Owed(resv[r], Counting[r], p) + charge
              <= PeriodCharged'[p] + Owed(resv'[r], Counting'[r], p) + released
    BY <2>2, <2>8, <2>9 DEF n, z, v, u, p
  <2>11. QED
    BY <1>1, <2>1, <2>2, <2>10, ChargedSound
<1>5. QED
  BY <1>3, <1>4 DEF Settlement

(* A settlement, recorded or not, ends its call or leaves it out.          *)
LEMMA SettledCalls ==
  ASSUME SpendInv, UNCHANGED run, NEW k \in CallKeys, OtherCalls(k), InFlight(k),
         attempt'[k].run = attempt[k].run, attempt'[k].step # "idle",
         Settlement(k) \/ UNCHANGED vars
  PROVE  CallsInv'
<1>1. ASSUME NEW j \in CallKeys
      PROVE  (Settled(j) => Settled(j)') /\ (j # k => (Settled(j)' => Settled(j)))
  <2>1. CASE SettleAgainst(k, attempt[k].run, attempt[k].cost, attempt[k].outcome = "unknown",
                           Ceiling)
    <3>1. /\ ~Settled(k) /\ call \in [CallKeys -> Call]
          /\ call' = [call EXCEPT ![k] =
               Recorded(attempt[k].outcome = "unknown",
                        IF attempt[k].outcome = "unknown" THEN 0 ELSE attempt[k].cost,
                        resv[attempt[k].run].period)]
      BY <2>1, Zenon DEF SettleAgainst, SpendInv, IInv
    <3>2. j # k => call'[j] = call[j]
      BY <3>1
    <3>3. QED
      BY <3>1, <3>2, SMTT(30) DEF Settled
  <2>2. CASE UNCHANGED vars
    BY <2>2 DEF Settled, vars
  <2>3. QED
    BY <2>1, <2>2 DEF Settlement, SettleDuplicate
<1>2. /\ \A j \in CallKeys : Settled(j) => Settled(j)'
      /\ \A j \in CallKeys \ {k} : Settled(j)' => Settled(j)
  BY <1>1
<1>3. QED
  BY <1>2, CallGoesOn

LEMMA SettleSound ==
  ASSUME SpendInv, IInv', AttemptsOK', HistoryOK', NEW k \in CallKeys, SettleCall(k)
  PROVE  BooksSound' /\ CallsInv'
<1>1. /\ attempt[k].step = "answered" /\ Settlement(k) /\ UNCHANGED <<run, hand, limited>>
      /\ attempt' = [attempt EXCEPT ![k].step = "settled"]
  BY DEF SettleCall, Uncovers
<1>2. attempt[k] \in Attempt /\ attempt \in [CallKeys -> Attempt]
  BY DEF SpendInv, AttemptsOK
<1>3. /\ OtherCalls(k) /\ attempt'[k].run = attempt[k].run /\ attempt'[k].step # "idle"
      /\ InFlight(k)
  BY <1>1, <1>2 DEF OtherCalls, Attempt, InFlight
<1>4. QED
  BY <1>1, <1>3, SettlementSound, SettledCalls

(* A settlement that throws, committed or not.                             *)
LEMMA FailedSound ==
  ASSUME SpendInv, IInv', AttemptsOK', HistoryOK',
         NEW k \in CallKeys, NEW committed \in BOOLEAN, NEW outcome,
         SettlementFails(k, committed, outcome)
  PROVE  BooksSound' /\ CallsInv'
<1>1. /\ attempt[k].step = "answered" /\ UNCHANGED <<run, hand, limited>>
      /\ IF committed THEN Settlement(k) ELSE UNCHANGED vars
      /\ attempt' = [attempt EXCEPT ![k] =
           IF @.outcome = "succeeded" /\ ~@.caught
           THEN [@ EXCEPT !.outcome = outcome, !.cost = 0, !.caught = TRUE]
           ELSE [@ EXCEPT !.step = "lost"]]
  BY DEF SettlementFails, Uncovers
<1>2. attempt[k] \in Attempt /\ attempt \in [CallKeys -> Attempt]
  BY DEF SpendInv, AttemptsOK
<1>3. OtherCalls(k) /\ InFlight(k)
  BY <1>1, <1>2 DEF OtherCalls, InFlight
<1>4. attempt'[k].run = attempt[k].run /\ attempt'[k].step \in {"answered", "lost"}
  <2>1. CASE attempt[k].outcome = "succeeded" /\ ~attempt[k].caught
    <3>1. attempt'[k] = [attempt[k] EXCEPT !.outcome = outcome, !.cost = 0, !.caught = TRUE]
      BY <1>1, <1>2, <2>1
    <3>2. QED
      BY <1>1, <1>2, <3>1 DEF Attempt
  <2>2. CASE ~(attempt[k].outcome = "succeeded" /\ ~attempt[k].caught)
    <3>1. attempt'[k] = [attempt[k] EXCEPT !.step = "lost"]
      BY <1>1, <1>2, <2>2
    <3>2. QED
      BY <1>2, <3>1 DEF Attempt
  <2>3. QED
    BY <2>1, <2>2
<1>5. CallsInv'
  BY <1>1, <1>3, <1>4, SettledCalls
<1>6. CASE committed
  BY <1>1, <1>3, <1>4, <1>5, <1>6, SettlementSound
<1>7. CASE ~committed
  <2>1. UNCHANGED vars
    BY <1>1, <1>7
  <2>2. UNCHANGED call
    BY <2>1 DEF vars
  <2>3. \A s \in ReservationIds : Sent(s)' \subseteq Sent(s)
    BY <1>1, <1>3, <1>4, <2>2 DEF Sent, CallsOf, OtherCalls, Settled
  <2>4. RecordedKept
    BY <1>1, <1>3, <2>2 DEF RecordedKept, OtherCalls
  <2>5. QED
    BY <1>1, <1>5, <2>1, <2>3, <2>4, QuietSound
<1>8. QED
  BY <1>6, <1>7

(* No call that is out is touched by what Manus reports after the fact.    *)
LEMMA AfterTheFact ==
  ASSUME SpendInv, UNCHANGED run, NEW k \in CallKeys, OtherCalls(k),
         attempt[k].step \in {"idle", "incurred"}, attempt'[k].step = "incurred",
         \A j \in CallKeys \ {k} : call'[j] = call[j], Settled(k)',
         Settled(k) => call'[k] = call[k] /\ attempt'[k].run = attempt[k].run
  PROVE  /\ CallsInv' /\ RecordedKept
         /\ \A s \in ReservationIds : Sent(s)' = Sent(s)
         /\ Counting' = Counting
         /\ ~Settled(k) => call[k].charge = 0
<1>1. \A r \in ReservationIds : Flying(r)' \subseteq Flying(r)
  BY DEF Flying, CallsOf, InFlight, OtherCalls
<1>2. \A j \in CallKeys : attempt'[j].step = "idle" => ~Settled(j)'
  BY DEF OtherCalls, SpendInv, CallsInv, Settled
<1>3. CallsInv'
  BY <1>1, <1>2, CallsStill
<1>4. \A s \in ReservationIds : Sent(s)' = Sent(s)
  BY DEF Sent, CallsOf, OtherCalls, Settled
<1>5. Counting' = Counting
  BY <1>4 DEF Counting
<1>6. ~Settled(k) => call[k].charge = 0
  BY DEF SpendInv, IInv, Unrecorded, Settled
<1>7. RecordedKept
  BY <1>6 DEF RecordedKept, OtherCalls
<1>8. QED
  BY <1>3, <1>4, <1>5, <1>6, <1>7

(* recordIncurredUsage against the run's reservation, even one that has    *)
(* been given back.                                                        *)
LEMMA IncurredUsageSound ==
  ASSUME SpendInv, IInv', AttemptsOK', HistoryOK', NEW k \in CallKeys, NEW r \in ReservationIds,
         NEW cost \in Incurred, RecordIncurredUsage(k, r, cost)
  PROVE  BooksSound' /\ CallsInv'
<1>1. /\ attempt[k].step \in {"idle", "incurred"} /\ UNCHANGED <<run, hand, limited>>
      /\ SettleDuplicate(k) \/ SettleAgainst(k, r, cost, FALSE, 0)
      /\ attempt' = [attempt EXCEPT ![k].step = "incurred",
                                    ![k].run = IF Settled(k) THEN @ ELSE r]
      /\ IInv /\ AttemptsOK
  BY DEF RecordIncurredUsage, SpendInv, history
<1>2. attempt[k] \in Attempt /\ attempt \in [CallKeys -> Attempt]
  BY <1>1 DEF AttemptsOK
<1>3. OtherCalls(k)
  BY <1>1, <1>2 DEF OtherCalls
<1>4. /\ attempt'[k].step = "incurred"
      /\ attempt'[k].run = IF Settled(k) THEN attempt[k].run ELSE r
  BY <1>1, <1>2 DEF Attempt
<1>5. CASE SettleDuplicate(k)
  <2>1. UNCHANGED vars /\ UNCHANGED call /\ Settled(k) /\ Settled(k)'
    BY <1>5 DEF SettleDuplicate, vars, Settled
  <2>2. CallsInv' /\ RecordedKept /\ \A s \in ReservationIds : Sent(s)' = Sent(s)
    BY <1>1, <1>3, <1>4, <2>1, AfterTheFact
  <2>3. QED
    BY <1>1, <2>1, <2>2, QuietSound
<1>6. CASE SettleAgainst(k, r, cost, FALSE, 0)
  <2> DEFINE n == Counting[r]
             w == RunCharged[r]
             z == RunCharged'[r]
             v == resv[r]
             u == resv'[r]
             p == resv[r].period
  <2>1. cost \in Nat /\ FALSE \in BOOLEAN /\ 0 \in Nat
    BY RunConstants, CreditAssumption, Zenon
  <2>2. v \in Reservation /\ p \in PeriodIds /\ v.amount \in Nat /\ v.settled \in Nat
    BY <1>1, <1>6, Reserved, Zenon DEF SettleAgainst, Reservation
  <2>3. /\ Charges(r, cost, 0)
        /\ ~Settled(k) /\ Settled(k)'
        /\ call'[k].charge = cost /\ call'[k].period = p
        /\ \A j \in CallKeys \ {k} : call'[j] = call[j]
        /\ v.status # "open" => u = v
        /\ v.status = "open" =>
             u.status = "open" /\ u.amount = v.amount - 0 /\ u.settled = v.settled + cost
    <3> DEFINE parks == FALSE
               none == 0
    <3>1. /\ none = IF resv[r].status = "open" /\ ~parks THEN Least(resv[r].amount, none) ELSE 0
          /\ cost = IF parks THEN 0 ELSE cost
          /\ parks \in BOOLEAN /\ none \in Nat /\ ~parks /\ none = 0
      BY <2>2 DEF Least
    <3>2. SettleAgainst(k, r, cost, parks, none)
      BY <1>6, Zenon
    <3> HIDE DEF parks, none
    <3>3. /\ Charges(r, cost, none)
          /\ ~Settled(k) /\ Settled(k)'
          /\ call'[k].charge = cost /\ call'[k].period = resv[r].period
          /\ \A j \in CallKeys \ {k} : call'[j] = call[j]
          /\ resv[r].status # "open" => resv'[r] = resv[r]
          /\ resv[r].status = "open" /\ ~parks =>
               /\ resv'[r].status = "open" /\ resv'[r].amount = resv[r].amount - none
               /\ resv'[r].settled = resv[r].settled + cost
      BY <1>1, <2>1, <3>1, <3>2, SettledBy
    <3>4. QED
      BY <3>1, <3>3
  <2>4. CallsInv' /\ RecordedKept /\ Counting' = Counting /\ call[k].charge = 0
    BY <1>1, <1>3, <1>4, <2>3, AfterTheFact
  <2>5. RunCharged[r] + cost <= RunCharged'[r] /\ PeriodCharged[p] + cost <= PeriodCharged'[p]
    <3>1. call' \in [CallKeys -> Call]
      BY DEF IInv
    <3>2. UnheldOf(call', attempt')[k] = cost
      BY <1>4, <2>3, <3>1, UnheldFacts
    <3>3. attempt'[k].run = r
      BY <1>4, <2>3
    <3>4. /\ RunCharged[r] + UnheldOf(call', attempt')[k] <= RunCharged'[r]
          /\ PeriodCharged[p] + UnheldOf(call', attempt')[k] <= PeriodCharged'[p]
      BY <1>1, <2>2, <2>3, <2>4, <3>3, ChargedMore
    <3>5. QED
      BY <3>2, <3>4
  <2>6. /\ n \in Nat /\ w \in Nat /\ z \in Nat /\ RunSound(v, n, w, Desked)
        /\ PeriodCharged[p] \in Nat /\ PeriodCharged'[p] \in Nat
    <3>1. /\ Counts(Counting, RunCharged, PeriodCharged, Desked)
          /\ InBounds(Books, Counting, RunCharged, PeriodCharged, Desked)
      BY <1>1, CountsNow DEF SpendInv, BooksSound
    <3>2. Counts(Counting', RunCharged', PeriodCharged', Desked)
      BY <1>1, CountsNext, DeskedKept
    <3>3. QED
      BY <2>2, <3>1, <3>2 DEF Counts, InBounds, RunsSound, Books
  <2>7. /\ u \in Reservation /\ u.status = v.status /\ u.amount = v.amount
        /\ u.settled = v.settled \/ u.settled = v.settled + cost
        /\ u.user = v.user /\ u.period = v.period
    BY <2>2, <2>3 DEF Charges, OnlyAt
  <2> HIDE DEF n, w, z, v, u, p
  <2>8. w + cost <= z
    BY <2>5 DEF w, z
  <2>9. RunSound(u, n, z, Desked) /\ Owed(u, n, p) = Owed(v, n, p)
    BY <2>1, <2>2, <2>6, <2>7, <2>8, IncurredSound
  <2>10. PeriodCharged[p] + Owed(v, n, p) + cost <= PeriodCharged'[p] + Owed(u, n, p) + 0
    <3>1. Backing(v, n)
      BY <2>6 DEF RunSound
    <3>2. Owed(v, n, p) \in Nat
      BY <2>2, <2>6, <3>1, OwedFacts
    <3>3. QED
      BY <2>1, <2>5, <2>6, <2>9, <3>2
  <2>11. /\ p = resv[r].period /\ RunSound(resv'[r], Counting'[r], RunCharged'[r], Desked)
         /\ PeriodCharged[p] + Owed(resv[r], Counting[r], p) + cost
              <= PeriodCharged'[p] + Owed(resv'[r], Counting'[r], p) + 0
         /\ \A s \in ReservationIds \ {r} : Counting'[s] = Counting[s]
    BY <2>4, <2>9, <2>10 DEF n, z, v, u, p
  <2>12. QED
    BY <1>1, <2>3, <2>4, <2>11, ChargedSound
<1>7. QED
  BY <1>1, <1>5, <1>6

(* A charge with no hold and no run leaves the runs as sound.              *)
LEMMA SpentUnheld ==
  ASSUME NEW b, BooksInv(b), NEW N, NEW W, NEW P, NEW D,
         Counts(N, W, P, D), InBounds(b, N, W, P, D),
         NEW c \in BooksType, c.resv = b.resv, NEW p \in PeriodIds, NEW charge \in Nat,
         c.period[p].status = b.period[p].status, c.period[p].user = b.period[p].user,
         c.period[p].allowance = b.period[p].allowance,
         c.period[p].reserved = b.period[p].reserved,
         c.period[p].consumed = b.period[p].consumed + charge,
         \A q \in PeriodIds \ {p} : c.period[q] = b.period[q],
         NEW X, NEW Q, Counts(N, X, Q, D), \A r \in ReservationIds : W[r] <= X[r],
         \A q \in PeriodIds : P[q] <= Q[q], P[p] + charge <= Q[p]
  PROVE  InBounds(c, N, X, Q, D)
<1>1. b \in BooksType
  BY DEF BooksInv
<1>2. ASSUME NEW r \in ReservationIds PROVE RunSound(c.resv[r], N[r], X[r], D)
  <2>1. /\ b.resv[r] \in Reservation /\ RunSound(b.resv[r], N[r], W[r], D)
        /\ N[r] \in Nat /\ N[r] <= N[r] /\ W[r] \in Nat /\ X[r] \in Nat
    BY <1>1 DEF BooksType, InBounds, RunsSound, Counts
  <2>2. QED
    BY <2>1, FewerSound
<1>3. ASSUME NEW q \in PeriodIds, Watched(c.period[q], D)
      PROVE  Solvent(c, N, Q, q, D)
  <2>1. Debts(c, N, q) = Debts(b, N, q) /\ Debts(b, N, q) \in Nat
    BY <1>1, DuesFacts DEF Debts, Dues, InBounds
  <2>2. Solvent(b, N, P, q, D) /\ c.period[q].user = b.period[q].user
    BY <1>3 DEF InBounds, Watched
  <2>3. /\ P[q] \in Nat /\ Q[q] \in Nat /\ P[q] <= Q[q]
        /\ D.hand[b.period[q].user] \in Nat
        /\ b.period[q].allowance \in Int /\ b.period[q].consumed \in Int
        /\ b.period[q].reserved \in Nat
    BY <1>1, <1>3, <2>2, Balance DEF Counts, Watched
  <2>4. CASE q = p
    BY <2>1, <2>2, <2>3, <2>4 DEF Solvent, Healthy, Available
  <2>5. CASE q # p
    <3>1. c.period[q] = b.period[q]
      BY <2>5
    <3>2. QED
      BY <2>1, <2>2, <2>3, <3>1 DEF Solvent, Healthy, Available
  <2>6. QED
    BY <2>4, <2>5
<1>4. QED
  BY <1>2, <1>3 DEF InBounds, RunsSound

(* recordIncurredUsage with no run's context, for the user.                *)
LEMMA WithoutContextSound ==
  ASSUME SpendInv, IInv', AttemptsOK', HistoryOK', NEW k \in CallKeys, NEW u \in Users,
         NEW cost \in Incurred, RecordWithoutContext(k, u, cost)
  PROVE  BooksSound' /\ CallsInv'
<1>1. /\ attempt[k].step \in {"idle", "incurred"} /\ UNCHANGED <<run, hand, limited>>
      /\ SettleDuplicate(k) \/ SettleUnreserved(k, u, cost, FALSE)
      /\ attempt' = [attempt EXCEPT ![k].step = "incurred"]
      /\ IInv /\ AttemptsOK /\ BooksInv(Books)
  BY DEF RecordWithoutContext, SpendInv, IInv, history
<1>2. attempt[k] \in Attempt /\ attempt \in [CallKeys -> Attempt]
  BY <1>1 DEF AttemptsOK
<1>3. OtherCalls(k)
  BY <1>1, <1>2 DEF OtherCalls
<1>4. attempt'[k].step = "incurred" /\ attempt'[k].run = attempt[k].run
  BY <1>1, <1>2 DEF Attempt
<1>5. CASE SettleDuplicate(k)
  <2>1. UNCHANGED vars /\ UNCHANGED call /\ Settled(k) /\ Settled(k)'
    BY <1>5 DEF SettleDuplicate, vars, Settled
  <2>2. CallsInv' /\ RecordedKept /\ \A s \in ReservationIds : Sent(s)' = Sent(s)
    BY <1>1, <1>3, <1>4, <2>1, AfterTheFact
  <2>3. QED
    BY <1>1, <2>1, <2>2, QuietSound
<1>6. CASE SettleUnreserved(k, u, cost, FALSE)
  <2>1. PICK e \in Ensured(Books, u) :
          /\ call' = [call EXCEPT ![k] = Recorded(FALSE, cost, e[2])]
          /\ Save([e[1] EXCEPT !.period[e[2]].consumed = @ + cost,
                               !.ledger[e[2]].charges = @ - cost])
    BY <1>6 DEF SettleUnreserved
  <2>2. cost \in Nat /\ ~Settled(k)
    BY <1>6, RunConstants, CreditAssumption DEF SettleUnreserved
  <2> DEFINE b   == e[1]
             p   == e[2]
             pr  == [b.period[p] EXCEPT !.consumed = @ + cost]
             row == [b.ledger[p] EXCEPT !.charges = @ - cost]
             c   == [b EXCEPT !.period = [b.period EXCEPT ![p] = pr],
                              !.ledger = [b.ledger EXCEPT ![p] = row]]
  <2>3. Continues(Books, u, b, p)
    BY <1>1, EnsuredBooks
  <2>4. /\ Counts(Counting, RunCharged, PeriodCharged, Desked)
        /\ InBounds(b, Counting, RunCharged, PeriodCharged, Desked)
    <3>1. e \in EnsuredWith(Books, u, 0, Cadences) /\ Cadences \in SUBSET Cadences
      BY DEF Ensured
    <3>2. /\ Counts(Counting, RunCharged, PeriodCharged, Desked)
          /\ InBounds(Books, Counting, RunCharged, PeriodCharged, Desked)
      BY <1>1, CountsNow DEF SpendInv, BooksSound
    <3>3. QED
      BY <1>1, <3>1, <3>2, EnsuredSound
  <2> HIDE DEF b, p
  <2>5. /\ BooksInv(b) /\ p \in PeriodIds /\ b \in BooksType
        /\ b.period[p] \in Period /\ b.ledger[p] \in RowSums
        /\ b.period \in [PeriodIds -> Period] /\ b.ledger \in [PeriodIds -> RowSums]
    BY <2>3, Ongoing DEF BooksInv
  <2>6. /\ pr \in Period /\ pr.status = b.period[p].status
        /\ pr.user = b.period[p].user
        /\ pr.reserved = b.period[p].reserved /\ pr.allowance = b.period[p].allowance
        /\ pr.consumed = b.period[p].consumed + cost
    BY <2>2, <2>5 DEF Period
  <2>7. row \in RowSums
    BY <2>2, <2>5 DEF RowSums
  <2>8. Save(c)
    BY <2>1, <2>5 DEF b, p, BooksType
  <2> HIDE DEF pr, row
  <2>9. c \in BooksType /\ c.period = [b.period EXCEPT ![p] = pr] /\ c.resv = b.resv
    BY <2>5, <2>6, <2>7 DEF BooksType
  <2> HIDE DEF c
  <2>10. c.period[p] = pr /\ \A q \in PeriodIds \ {p} : c.period[q] = b.period[q]
    BY <2>5, <2>9
  <2>11. Books' = c
    BY <2>8, <2>9, SavedBooks
  <2>12. /\ call'[k] = Recorded(FALSE, cost, p) /\ Settled(k)'
         /\ \A j \in CallKeys \ {k} : call'[j] = call[j]
         /\ call'[k].charge = cost /\ call'[k].period = p
    <3>1. call' = [call EXCEPT ![k] = Recorded(FALSE, cost, p)] /\ call \in [CallKeys -> Call]
      BY <1>1, <2>1 DEF p, IInv
    <3>2. /\ call'[k] = Recorded(FALSE, cost, p)
          /\ \A j \in CallKeys \ {k} : call'[j] = call[j]
      BY <3>1
    <3>3. QED
      BY <3>2 DEF Recorded, Settled
  <2>13. CallsInv' /\ RecordedKept /\ Counting' = Counting /\ call[k].charge = 0
    BY <1>1, <1>3, <1>4, <2>2, <2>12, AfterTheFact
  <2>14. /\ PeriodCharged[p] + cost <= PeriodCharged'[p]
         /\ \A r \in ReservationIds : RunCharged[r] <= RunCharged'[r]
         /\ \A q \in PeriodIds : PeriodCharged[q] <= PeriodCharged'[q]
    <3>1. call' \in [CallKeys -> Call]
      BY DEF IInv
    <3>2. UnheldOf(call', attempt')[k] = cost
      BY <1>4, <2>12, <3>1, UnheldFacts
    <3>3. PeriodCharged[p] + UnheldOf(call', attempt')[k] <= PeriodCharged'[p]
      BY <1>1, <2>5, <2>12, <2>13, ChargedMore
    <3>4. QED
      BY <1>1, <2>13, <3>2, <3>3, ChargedGrow
  <2>15. Counts(Counting, RunCharged', PeriodCharged', Desked)
    BY <1>1, <2>13, CountsNext, DeskedKept
  <2>16. InBounds(c, Counting, RunCharged', PeriodCharged', Desked)
    <3>1. /\ c.period[p].status = b.period[p].status
          /\ c.period[p].user = b.period[p].user
          /\ c.period[p].allowance = b.period[p].allowance
          /\ c.period[p].reserved = b.period[p].reserved
          /\ c.period[p].consumed = b.period[p].consumed + cost
      BY <2>6, <2>10
    <3>2. QED
      BY <2>2, <2>4, <2>5, <2>9, <2>10, <2>14, <2>15, <3>1, SpentUnheld
  <2>17. QED
    BY <1>1, <2>11, <2>13, <2>16, DeskedKept DEF BooksSound
<1>7. QED
  BY <1>1, <1>5, <1>6

-----------------------------------------------------------------------------
(* All together.                                                           *)

(* Nothing has been held, spent or sent.                                   *)
LEMMA SpendInit == RunInit => SpendInv
<1> SUFFICES ASSUME RunInit PROVE SpendInv
  OBVIOUS
<1>1. IInv /\ AttemptsOK /\ HistoryOK
  BY InitInv, RunInitOK, HistoryInit DEF RunInit
<1>2. /\ \A k \in CallKeys : attempt[k].step = "idle" /\ attempt[k].run = "none"
      /\ \A r \in ReservationIds :
           resv[r].status = "unused" /\ resv[r].period = "nowhere" /\ resv[r].settled = 0
           /\ resv[r].amount = 0
      /\ \A p \in PeriodIds : period[p].status = "unused"
  BY DEF RunInit, Init
<1>3. \A r \in ReservationIds : Flying(r) = {}
  BY <1>2 DEF Flying, CallsOf, InFlight
<1>4. CallsInv
  <2>1. \A k \in CallKeys : ~Settled(k)
    BY DEF RunInit, Init, Settled
  <2>2. QED
    BY <1>3, <2>1, FS_EmptySet, RunFigures DEF CallsInv
<1>5. Counts(Counting, RunCharged, PeriodCharged, Desked)
  BY <1>1, CountsNow
<1>6. ASSUME NEW r \in ReservationIds PROVE RunSound(resv[r], Counting[r], RunCharged[r], Desked)
  <2>1. Counting[r] = 0
    <3>1. Sent(r) = {}
      BY <1>2 DEF Sent, CallsOf
    <3>2. QED
      BY <3>1, FS_EmptySet DEF Counting
  <2>2. RunCharged[r] \in Nat
    BY <1>5 DEF Counts
  <2>3. "nowhere" \notin PeriodIds
    BY CreditAssumption
  <2>4. QED
    BY <1>2, <2>1, <2>2, <2>3, RunFigures, UncoveredFacts DEF RunSound, Backing, Within
<1>7. BooksSound
  BY <1>2, <1>6 DEF BooksSound, InBounds, RunsSound, Books, Watched
<1>8. QED
  BY <1>1, <1>4, <1>7 DEF SpendInv

(* The desk touches no run and no call.                                    *)
LEMMA DeskCalls == Desk => UNCHANGED <<run, attempt, call>>
<1> SUFFICES ASSUME Desk PROVE UNCHANGED <<run, attempt, call>>
  OBVIOUS
<1>1. UNCHANGED <<run, attempt>>
  BY DEF Desk, RegisterUser, ChangeAllowance, ByHand, Grant, Correct, ChangeCadence,
         ChangeAccount, Sweep, Reconcile
<1>2. ASSUME NEW u, NEW a, RegisterUser(u, a) PROVE UNCHANGED call
  BY <1>2 DEF RegisterUser, InitializeUserCredits
<1>3. ASSUME NEW u, NEW s, ChangeAccount(u, s) PROVE UNCHANGED call
  BY <1>3 DEF ChangeAccount, UpdateUser
<1>4. ASSUME NEW S, Sweep(S) PROVE UNCHANGED call
  BY <1>4 DEF Sweep, SweepAbandonedReservations
<1>5. ASSUME NEW r, NEW billed, Reconcile(r, billed) PROVE UNCHANGED call
  BY <1>5 DEF Reconcile, ResolveReconciliation
<1>6. ASSUME NEW u, NEW a, ChangeAllowance(u, a) \/ Grant(u, a) PROVE UNCHANGED call
  BY <1>6 DEF ChangeAllowance, SetAllowance, Grant, AddCredits
<1>7. ASSUME NEW u, NEW d, Correct(u, d) PROVE UNCHANGED call
  BY <1>7 DEF Correct, RecordAdjustment
<1>8. ASSUME NEW u, NEW c, ChangeCadence(u, c) PROVE UNCHANGED call
  BY <1>8 DEF ChangeCadence, SetResetCadence
<1>9. QED
  BY <1>1, <1>2, <1>3, <1>4, <1>5, <1>6, <1>7, <1>8 DEF Desk

(* The period a transaction works on has the allowance of the one before.  *)
LEMMA EnsuredKeeps ==
  ASSUME NEW b, BooksInv(b), NEW u \in Users, NEW a \in Nat, NEW C \in SUBSET Cadences,
         NEW e \in EnsuredWith(b, u, a, C)
  PROVE  /\ \/ CurrentOf(b.period, u) = {} /\ e[1].period[e[2]].allowance = a
            \/ \E q \in CurrentOf(b.period, u) :
                 e[1].period[e[2]].allowance = b.period[q].allowance
         /\ \A r \in ReservationIds : /\ e[1].resv[r].status = b.resv[r].status
                                      /\ e[1].resv[r].amount = b.resv[r].amount
<1>1. b \in BooksType /\ b.resv \in [ReservationIds -> Reservation]
  BY DEF BooksInv, BooksType
<1>2. CASE CurrentOf(b.period, u) = {}
  <2>1. PICK n \in Fresh(b.period), c \in C :
          e = <<Opened(b, n, NewPeriod(u, a, FirstReset(c), 0)), n>>
    BY <1>2 DEF EnsuredWith
  <2> DEFINE new == NewPeriod(u, a, FirstReset(c), 0)
  <2>2. new \in Period /\ new.allowance = a /\ n \in PeriodIds
    BY DEF NewPeriod, FirstReset, Period, Fresh
  <2> HIDE DEF new
  <2>3. e[1] = Opened(b, n, new) /\ e[2] = n
    BY <2>1 DEF new
  <2>4. /\ e[1].resv = b.resv
        /\ e[1].period = [q \in PeriodIds |-> IF q = n THEN new ELSE b.period[q]]
    BY <1>1, <2>2, <2>3, OpenedFields
  <2>5. QED
    BY <1>2, <2>2, <2>3, <2>4
<1>3. CASE CurrentOf(b.period, u) # {}
  <2>1. PICK p \in CurrentOf(b.period, u) :
          e \in IF b.period[p].reset = "due"
                THEN {<<Rolled(b, p, n, reset), n>> :
                        n \in Fresh(b.period), reset \in {"later", "due"}}
                ELSE {<<b, p>>}
    BY <1>3 DEF EnsuredWith
  <2>2. CASE b.period[p].reset = "due"
    <3>1. PICK n \in Fresh(b.period), reset \in {"later", "due"} :
            e = <<Rolled(b, p, n, reset), n>>
      BY <2>1, <2>2
    <3>2. /\ p \in PeriodIds /\ b.period[p].status = "current" /\ b.period[p].user \in Users
          /\ n \in PeriodIds
      BY DEF CurrentOf, Fresh
    <3>3. RolledTo(b, p, n, reset, e[1]) /\ e[2] = n
      BY <3>1, <3>2, RolledFields
    <3>4. e[1].period[n].allowance = b.period[p].allowance
      BY <3>3 DEF RolledTo, NewPeriod
    <3>5. e[1].resv = [r \in ReservationIds |-> IF r \in HeldIn(b.resv, p)
                                                THEN [b.resv[r] EXCEPT !.period = n]
                                                ELSE b.resv[r]]
      BY <3>3 DEF RolledTo
    <3>6. ASSUME NEW r \in ReservationIds
          PROVE  /\ e[1].resv[r].status = b.resv[r].status
                 /\ e[1].resv[r].amount = b.resv[r].amount
      BY <1>1, <3>5 DEF Reservation
    <3>7. QED
      BY <3>3, <3>4, <3>6
  <2>3. CASE b.period[p].reset # "due"
    BY <2>1, <2>3
  <2>4. QED
    BY <2>2, <2>3
<1>4. QED
  BY <1>2, <1>3

(* A period whose figures worsen by x stays within bounds when x is added  *)
(* to what was done to its user by hand; nobody becomes limited.           *)
LEMMA ByHandSound ==
  ASSUME NEW b \in BooksType, NEW N, NEW W, NEW P, NEW D,
         Counts(N, W, P, D), InBounds(b, N, W, P, D),
         NEW c \in BooksType, c.resv = b.resv, NEW p \in PeriodIds, NEW x \in Nat,
         c.period[p].status = b.period[p].status, c.period[p].user = b.period[p].user,
         c.period[p].reserved = b.period[p].reserved,
         b.period[p].consumed <= c.period[p].consumed + x,
         b.period[p].allowance <= c.period[p].allowance + x,
         Available(b.period[p]) <= Available(c.period[p]) + x,
         \A q \in PeriodIds \ {p} : c.period[q] = b.period[q],
         NEW E, Counts(N, W, P, E), E.limited \subseteq D.limited,
         \A v \in E.limited : D.hand[v] <= E.hand[v],
         b.period[p].user \in E.limited =>
           D.hand[b.period[p].user] + x <= E.hand[b.period[p].user]
  PROVE  InBounds(c, N, W, P, E)
<1>1. ASSUME NEW r \in ReservationIds PROVE RunSound(c.resv[r], N[r], W[r], E)
  BY DEF InBounds, RunsSound, RunSound, Within
<1>2. ASSUME NEW q \in PeriodIds, Watched(c.period[q], E)
      PROVE  Solvent(c, N, P, q, E)
  <2>1. Debts(c, N, q) = Debts(b, N, q) /\ Debts(b, N, q) \in Nat
    BY DuesFacts DEF Debts, Dues, InBounds
  <2>2. /\ Solvent(b, N, P, q, D) /\ c.period[q].user = b.period[q].user
        /\ b.period[q].user \in E.limited
    BY <1>2 DEF InBounds, Watched
  <2>3. /\ P[q] \in Nat
        /\ b.period[q].allowance \in Int /\ b.period[q].consumed \in Int
        /\ b.period[q].reserved \in Nat
        /\ c.period[q].allowance \in Int /\ c.period[q].consumed \in Int
        /\ D.hand[b.period[q].user] \in Nat /\ E.hand[b.period[q].user] \in Nat
    BY <2>2, Balance DEF Counts
  <2> DEFINE h == D.hand[b.period[q].user]
             i == E.hand[b.period[q].user]
  <2>4. h \in Nat /\ i \in Nat /\ h <= i /\ (q = p => h + x <= i)
    BY <2>2, <2>3
  <2>5. /\ Healthy(b.period[q], D)
        /\ Available(b.period[q]) + P[q] + h + Debts(b, N, q) >= 0
        /\ b.period[q].consumed + h >= 0
        /\ b.period[q].reserved <= b.period[q].allowance + h
    BY <2>2 DEF Solvent, Healthy
  <2> HIDE DEF h, i
  <2>6. /\ c.period[q].consumed + i >= 0
        /\ c.period[q].reserved <= c.period[q].allowance + i
        /\ Available(c.period[q]) + P[q] + i + Debts(c, N, q) >= 0
    <3>1. Available(b.period[q]) \in Int /\ Available(c.period[q]) \in Int
      BY Balance
    <3>2. CASE q = p
      BY <2>1, <2>3, <2>4, <2>5, <3>1, <3>2
    <3>3. CASE q # p
      <4>1. c.period[q] = b.period[q]
        BY <3>3
      <4>2. QED
        BY <2>1, <2>3, <2>4, <2>5, <3>1, <4>1
    <3>4. QED
      BY <3>2, <3>3
  <2>7. QED
    BY <2>2, <2>6 DEF Solvent, Healthy, i
<1>3. QED
  BY <1>1, <1>2 DEF InBounds, RunsSound

(* A transaction of the credits route.                                     *)
LEMMA AdministeredSound ==
  ASSUME SpendInv, IInv', AttemptsOK', HistoryOK', UNCHANGED <<call, attempt, limited>>,
         NEW u \in Users, NEW e \in Ensured(Books, u), NEW p, p = e[2], NEW pr, NEW x \in Nat,
         resv' = e[1].resv, period' = [e[1].period EXCEPT ![p] = pr],
         pr.status = e[1].period[p].status, pr.user = e[1].period[p].user,
         pr.reserved = e[1].period[p].reserved,
         e[1].period[p].consumed <= pr.consumed + x,
         e[1].period[p].allowance <= pr.allowance + x,
         Available(e[1].period[p]) <= Available(pr) + x,
         \A v \in Users : hand[v] <= hand'[v],
         hand[u] + x <= hand'[u]
  PROVE  BooksSound'
<1> DEFINE b == e[1]
           c == Books'
           N == Counting
           W == RunCharged
           P == PeriodCharged
<1>1. Continues(Books, u, b, p)
  BY EnsuredBooks DEF SpendInv, IInv
<1>2. /\ BooksInv(b) /\ b \in BooksType /\ p \in PeriodIds /\ b.period[p].user = u
      /\ b.period \in [PeriodIds -> Period]
  BY <1>1, Ongoing DEF BooksInv
<1>3. c \in BooksType /\ c.resv = resv' /\ c.period = period'
  BY DEF Books, IInv, BooksInv
<1>4. Counts(N, W, P, Desked) /\ InBounds(Books, N, W, P, Desked)
  BY CountsNow DEF SpendInv, BooksSound
<1>5. InBounds(b, N, W, P, Desked)
  <2>1. e \in EnsuredWith(Books, u, 0, Cadences) /\ Cadences \in SUBSET Cadences
    BY DEF Ensured
  <2>2. QED
    BY <1>4, <2>1, EnsuredSound DEF SpendInv, IInv
<1>6. Counting' = N /\ RunCharged' = W /\ PeriodCharged' = P
  BY CallsKept
<1>7. Counts(N, W, P, Desked')
  BY <1>6, CountsNext
<1>8. /\ Desked'.limited = Desked.limited /\ Desked.limited \subseteq Users
      /\ \A v \in Users : Desked.hand[v] <= Desked'.hand[v]
      /\ Desked.hand[u] + x <= Desked'.hand[u]
  BY DEF Desked, SpendInv, HistoryOK
<1>9. c.period[p] = pr /\ \A q \in PeriodIds \ {p} : c.period[q] = b.period[q]
  BY <1>2, <1>3
<1>10. c.resv = b.resv
  BY <1>3
<1> DEFINE E == Desked'
           D == Desked
<1>11. /\ Counts(N, W, P, E) /\ E.limited \subseteq D.limited
       /\ \A v \in E.limited : D.hand[v] <= E.hand[v]
       /\ b.period[p].user \in E.limited =>
            D.hand[b.period[p].user] + x <= E.hand[b.period[p].user]
  BY <1>2, <1>7, <1>8
<1>12. /\ c.period[p].status = b.period[p].status /\ c.period[p].user = b.period[p].user
       /\ c.period[p].reserved = b.period[p].reserved
       /\ b.period[p].consumed <= c.period[p].consumed + x
       /\ b.period[p].allowance <= c.period[p].allowance + x
       /\ Available(b.period[p]) <= Available(c.period[p]) + x
  BY <1>9
<1> HIDE DEF b, c, N, W, P, D, E
<1>13. InBounds(b, N, W, P, D) /\ Counts(N, W, P, D)
  BY <1>4, <1>5 DEF D
<1>14. InBounds(c, N, W, P, E)
  BY <1>2, <1>3, <1>9, <1>10, <1>11, <1>12, <1>13, ByHandSound
<1>15. QED
  BY <1>6, <1>14 DEF BooksSound, c, E

(* A cut is at least what the allowance falls by.                          *)
LEMMA CutCovers ==
  ASSUME IInv, NEW u \in Users, NEW a \in Allowances, NEW e \in Ensured(Books, u)
  PROVE  e[1].period[e[2]].allowance <= a + Cut(u, a)
<1> DEFINE f == [p \in PeriodIds |-> AtLeastZero(period[p].allowance - a)]
           C == CurrentOf(period, u)
<1>1. /\ a \in Nat /\ period \in [PeriodIds -> Period] /\ Books.period = period
      /\ BooksInv(Books) /\ IsFiniteSet(C) /\ C \subseteq PeriodIds
  BY CreditAssumption, FS_Subset DEF IInv, BooksInv, BooksType, Books, CurrentOf
<1>2. \A p \in C : period[p].allowance \in Int /\ f[p] \in Nat /\ period[p].allowance <= a + f[p]
  BY <1>1 DEF Period, AtLeastZero
<1>3. Cut(u, a) = Total(f, C) /\ Cut(u, a) \in Nat
  BY CutsAreNatural DEF Cut
<1>4. e \in EnsuredWith(Books, u, 0, Cadences) /\ Cadences \in SUBSET Cadences /\ 0 \in Nat
  BY DEF Ensured
<1>5. \/ e[1].period[e[2]].allowance = 0
      \/ \E q \in C : e[1].period[e[2]].allowance = period[q].allowance
  <2>1. \/ CurrentOf(Books.period, u) = {} /\ e[1].period[e[2]].allowance = 0
        \/ \E q \in CurrentOf(Books.period, u) :
             e[1].period[e[2]].allowance = Books.period[q].allowance
    <3>1. BooksInv(Books)
      BY <1>1
    <3> DEFINE b == Books
    <3>2. BooksInv(b) /\ e \in EnsuredWith(b, u, 0, Cadences)
      BY <3>1, <1>4
    <3> HIDE DEF b
    <3>3. \/ CurrentOf(b.period, u) = {} /\ e[1].period[e[2]].allowance = 0
          \/ \E q \in CurrentOf(b.period, u) :
               e[1].period[e[2]].allowance = b.period[q].allowance
      BY ONLY <1>4, <3>2, EnsuredKeeps
    <3>4. QED
      BY <3>3 DEF b
  <2>2. QED
    BY <1>1, <2>1
<1> HIDE DEF f, C
<1>6. CASE e[1].period[e[2]].allowance = 0
  BY <1>1, <1>3, <1>6
<1>7. ASSUME NEW q \in C, e[1].period[e[2]].allowance = period[q].allowance
      PROVE  e[1].period[e[2]].allowance <= a + Cut(u, a)
  <2>1. Total(f, C) = Total(f, C \ {q}) + f[q]
    BY <1>1, <1>2, TotalSplit
  <2>2. Total(f, C \ {q}) \in Nat
    <3>1. IsFiniteSet(C \ {q}) /\ \A p \in C \ {q} : f[p] \in Nat
      BY <1>1, <1>2, FS_RemoveElement
    <3>2. QED
      BY <3>1, TotalType
  <2>3. QED
    BY <1>1, <1>2, <1>3, <1>7, <2>1, <2>2
<1>8. QED
  BY <1>5, <1>6, <1>7

(* setAllowance: the cut is remembered.                                    *)
LEMMA ChangeAllowanceSound ==
  ASSUME SpendInv, IInv', AttemptsOK', HistoryOK', NEW u \in Users, NEW a \in Allowances,
         ChangeAllowance(u, a)
  PROVE  BooksSound'
<1>1. PICK e \in Ensured(Books, u) :
        Save([e[1] EXCEPT !.period[e[2]].allowance = a,
                !.ledger[e[2]].allowance = @ + a - e[1].period[e[2]].allowance])
  BY DEF ChangeAllowance, SetAllowance
<1> DEFINE b  == e[1]
           p  == e[2]
           pr == [b.period[p] EXCEPT !.allowance = a]
           x  == Cut(u, a)
<1>2. Continues(Books, u, b, p)
  BY EnsuredBooks DEF SpendInv, IInv
<1>3. /\ b \in BooksType /\ p \in PeriodIds /\ b.period[p] \in Period /\ a \in Nat
      /\ IInv /\ HistoryOK
  BY <1>2, Ongoing, CreditAssumption DEF BooksInv, SpendInv
<1>4. period' = [b.period EXCEPT ![p] = pr] /\ resv' = b.resv
  BY <1>1, <1>3 DEF Save, BooksType
<1>5. /\ pr.status = b.period[p].status /\ pr.user = b.period[p].user
      /\ pr.reserved = b.period[p].reserved /\ pr.consumed = b.period[p].consumed
      /\ pr.allowance = a
  BY <1>3 DEF Period
<1>6. x \in Nat /\ b.period[p].allowance <= a + x
  BY <1>3, CutsAreNatural, CutCovers
<1>7. hand' = [hand EXCEPT ![u] = @ + x] /\ UNCHANGED <<call, attempt, limited>>
  BY DEF ChangeAllowance, ByHand, SetAllowance
<1> HIDE DEF x, pr
<1>8. hand[u] + x <= hand'[u] /\ \A v \in Users : hand[v] <= hand'[v]
  BY <1>3, <1>6, <1>7 DEF HistoryOK
<1>9. /\ b.period[p].consumed <= pr.consumed + x
      /\ b.period[p].allowance <= pr.allowance + x
      /\ Available(b.period[p]) <= Available(pr) + x
  BY <1>3, <1>5, <1>6 DEF Available, Period
<1>10. QED
  BY <1>4, <1>5, <1>6, <1>7, <1>8, <1>9, AdministeredSound

(* addCredits.                                                             *)
LEMMA GrantSound ==
  ASSUME SpendInv, IInv', AttemptsOK', HistoryOK', NEW u \in Users, NEW a \in Allowances,
         Grant(u, a)
  PROVE  BooksSound'
<1>1. PICK e \in Ensured(Books, u) :
        Save([e[1] EXCEPT !.period[e[2]].allowance = @ + a, !.ledger[e[2]].allowance = @ + a])
  BY DEF Grant, AddCredits
<1> DEFINE b  == e[1]
           p  == e[2]
           pr == [b.period[p] EXCEPT !.allowance = @ + a]
           x  == 0
<1>2. Continues(Books, u, b, p)
  BY EnsuredBooks DEF SpendInv, IInv
<1>3. /\ b \in BooksType /\ p \in PeriodIds /\ b.period[p] \in Period /\ a \in Nat
      /\ HistoryOK
  BY <1>2, Ongoing, CreditAssumption DEF BooksInv, SpendInv
<1>4. period' = [b.period EXCEPT ![p] = pr] /\ resv' = b.resv
  BY <1>1, <1>3 DEF Save, BooksType
<1>5. /\ pr.status = b.period[p].status /\ pr.user = b.period[p].user
      /\ pr.reserved = b.period[p].reserved /\ pr.consumed = b.period[p].consumed
      /\ pr.allowance = b.period[p].allowance + a
  BY <1>3 DEF Period
<1>6. UNCHANGED <<call, attempt, hand, limited>>
  BY DEF Grant, AddCredits, history
<1> HIDE DEF pr
<1>7. x \in Nat /\ hand[u] + x <= hand'[u] /\ \A v \in Users : hand[v] <= hand'[v]
  BY <1>3, <1>6 DEF HistoryOK
<1>8. /\ b.period[p].consumed <= pr.consumed + x
      /\ b.period[p].allowance <= pr.allowance + x
      /\ Available(b.period[p]) <= Available(pr) + x
  BY <1>3, <1>5 DEF Available, Period
<1>9. QED
  BY <1>4, <1>5, <1>6, <1>7, <1>8, AdministeredSound

(* recordAdjustment: the correction is remembered, whichever way it goes.  *)
LEMMA CorrectSound ==
  ASSUME SpendInv, IInv', AttemptsOK', HistoryOK', NEW u \in Users, NEW d \in Adjustments,
         Correct(u, d)
  PROVE  BooksSound'
<1>1. PICK e \in Ensured(Books, u) :
        Save([e[1] EXCEPT !.period[e[2]].consumed = @ - d,
                          !.ledger[e[2]].adjustments = @ + d])
  BY DEF Correct, RecordAdjustment
<1> DEFINE b  == e[1]
           p  == e[2]
           pr == [b.period[p] EXCEPT !.consumed = @ - d]
           x  == Most(d, -d)
<1>2. Continues(Books, u, b, p)
  BY EnsuredBooks DEF SpendInv, IInv
<1>3. /\ b \in BooksType /\ p \in PeriodIds /\ b.period[p] \in Period /\ d \in Int
      /\ HistoryOK
  BY <1>2, Ongoing, CreditAssumption DEF BooksInv, SpendInv
<1>4. period' = [b.period EXCEPT ![p] = pr] /\ resv' = b.resv
  BY <1>1, <1>3 DEF Save, BooksType
<1>5. /\ pr.status = b.period[p].status /\ pr.user = b.period[p].user
      /\ pr.reserved = b.period[p].reserved /\ pr.consumed = b.period[p].consumed - d
      /\ pr.allowance = b.period[p].allowance
  BY <1>3 DEF Period
<1>6. x \in Nat /\ d <= x /\ -d <= x
  BY <1>3 DEF Most
<1>7. hand' = [hand EXCEPT ![u] = @ + x] /\ UNCHANGED <<call, attempt, limited>>
  BY DEF Correct, ByHand, RecordAdjustment
<1> HIDE DEF x, pr
<1>8. hand[u] + x <= hand'[u] /\ \A v \in Users : hand[v] <= hand'[v]
  BY <1>3, <1>6, <1>7 DEF HistoryOK
<1>9. /\ b.period[p].consumed <= pr.consumed + x
      /\ b.period[p].allowance <= pr.allowance + x
      /\ Available(b.period[p]) <= Available(pr) + x
  BY <1>3, <1>5, <1>6 DEF Available, Period
<1>10. QED
  BY <1>4, <1>5, <1>6, <1>7, <1>8, <1>9, AdministeredSound

(* setResetCadence.                                                        *)
LEMMA ChangeCadenceSound ==
  ASSUME SpendInv, IInv', AttemptsOK', HistoryOK', NEW u \in Users, NEW k \in Cadences,
         ChangeCadence(u, k)
  PROVE  BooksSound'
<1>1. PICK e \in Ensured(Books, u) : Save([e[1] EXCEPT !.period[e[2]].reset = FirstReset(k)])
  BY DEF ChangeCadence, SetResetCadence
<1> DEFINE b  == e[1]
           p  == e[2]
           pr == [b.period[p] EXCEPT !.reset = FirstReset(k)]
           x  == 0
<1>2. Continues(Books, u, b, p)
  BY EnsuredBooks DEF SpendInv, IInv
<1>3. /\ b \in BooksType /\ p \in PeriodIds /\ b.period[p] \in Period /\ HistoryOK
  BY <1>2, Ongoing DEF BooksInv, SpendInv
<1>4. period' = [b.period EXCEPT ![p] = pr] /\ resv' = b.resv
  BY <1>1, <1>3 DEF Save, BooksType
<1>5. /\ pr.status = b.period[p].status /\ pr.user = b.period[p].user
      /\ pr.reserved = b.period[p].reserved /\ pr.consumed = b.period[p].consumed
      /\ pr.allowance = b.period[p].allowance
  BY <1>3 DEF Period
<1>6. UNCHANGED <<call, attempt, hand, limited>>
  BY DEF ChangeCadence, SetResetCadence, history
<1> HIDE DEF pr
<1>7. x \in Nat /\ hand[u] + x <= hand'[u] /\ \A v \in Users : hand[v] <= hand'[v]
  BY <1>3, <1>6 DEF HistoryOK
<1>8. /\ b.period[p].consumed <= pr.consumed + x
      /\ b.period[p].allowance <= pr.allowance + x
      /\ Available(b.period[p]) <= Available(pr) + x
  BY <1>3, <1>5 DEF Available, Period
<1>9. QED
  BY <1>4, <1>5, <1>6, <1>7, <1>8, AdministeredSound

(* A promotion: nothing is said of the user any more.                      *)
LEMMA ChangeAccountSound ==
  ASSUME SpendInv, IInv', AttemptsOK', HistoryOK', NEW u \in Users, NEW s, ChangeAccount(u, s)
  PROVE  BooksSound'
<1> DEFINE D == Desked
           E == Desked'
           N == Counting
           W == RunCharged
           P == PeriodCharged
<1>1. UNCHANGED <<Books, call, attempt>> /\ E.hand = D.hand /\ E.limited \subseteq D.limited
  BY DEF ChangeAccount, UpdateUser, Books, Desked
<1>2. /\ Counts(N, W, P, D) /\ InBounds(Books, N, W, P, D) /\ Books \in BooksType
  BY CountsNow DEF SpendInv, BooksSound, IInv, BooksInv
<1>3. Counting' = N /\ RunCharged' = W /\ PeriodCharged' = P
  BY <1>1, CallsKept
<1> HIDE DEF D, E, N, W, P
<1>4. ASSUME NEW r \in ReservationIds PROVE RunSound(Books.resv[r], N[r], W[r], E)
  BY <1>1, <1>2 DEF InBounds, RunsSound, RunSound, Within
<1>5. ASSUME NEW q \in PeriodIds, Watched(Books.period[q], E)
      PROVE  Solvent(Books, N, P, q, E)
  BY <1>1, <1>2, <1>5 DEF InBounds, Watched, Solvent, Healthy
<1>6. InBounds(Books, N, W, P, E)
  BY <1>4, <1>5 DEF InBounds, RunsSound
<1>7. QED
  BY <1>1, <1>3, <1>6 DEF BooksSound, E

(* The desk.                                                               *)
LEMMA DeskSound ==
  ASSUME SpendInv, IInv', AttemptsOK', HistoryOK', Desk
  PROVE  BooksSound' /\ CallsInv'
<1>1. UNCHANGED <<run, attempt, call>>
  BY DeskCalls
<1>2. CallsInv'
  BY <1>1, CallsKept DEF SpendInv
<1>3. CASE \E u \in Users :
             \/ \E a \in Allowances :
                  RegisterUser(u, a) \/ ChangeAllowance(u, a) \/ Grant(u, a)
             \/ \E d \in Adjustments : Correct(u, d)
             \/ \E c \in Cadences : ChangeCadence(u, c)
             \/ \E s \in Accounts : ChangeAccount(u, s)
  BY <1>2, <1>3, RegisterSound, ChangeAllowanceSound, GrantSound, CorrectSound,
     ChangeCadenceSound, ChangeAccountSound
<1>4. CASE \/ \E S \in SUBSET Lapsed(resv) : Sweep(S)
           \/ \E r \in ReservationIds, billed \in BOOLEAN : Reconcile(r, billed)
  BY <1>2, <1>4, SweepSound, ReconcileSound
<1>5. QED
  BY <1>3, <1>4 DEF Desk

(* runBillable.                                                            *)
LEMMA RunBillableSound ==
  ASSUME SpendInv, IInv', AttemptsOK', HistoryOK', RunBillable
  PROVE  BooksSound' /\ CallsInv'
<1>1. PICK r \in ReservationIds :
        \/ \E u \in Users, scope \in Scopes, limit \in Limits, result \in ReserveResults :
             StartRun(r, u, scope, limit, result)
        \/ ReturnRun(r) \/ ReleaseFails(r)
        \/ ReleaseRun(r)
  BY DEF RunBillable
<1>2. CASE ReturnRun(r) \/ ReleaseFails(r)
  BY <1>2, ReturnSound
<1>3. CASE ReleaseRun(r)
  <2>1. /\ UNCHANGED <<call, attempt>> /\ run[r] = "returning"
        /\ run' = [run EXCEPT ![r] = "over"]
    BY <1>3 DEF ReleaseRun, ReleaseReservation
  <2>2. CallsInv'
    BY <2>1, RunMoves
  <2>3. QED
    BY <1>3, <2>2, ReleaseSound
<1>4. CASE \E u \in Users, scope \in Scopes, limit \in Limits, result \in ReserveResults :
             StartRun(r, u, scope, limit, result)
  BY <1>4, StartSound, StartCalls
<1>5. QED
  BY <1>1, <1>2, <1>3, <1>4

(* meterProviderCall.                                                      *)
LEMMA MeterSound ==
  ASSUME SpendInv, IInv', AttemptsOK', HistoryOK', MeterProviderCall
  PROVE  BooksSound' /\ CallsInv'
BY PermitSound, HoldSound, AnswerSound, SettleSound, FailedSound, IncurredUsageSound,
   WithoutContextSound DEF MeterProviderCall

LEMMA SpendNext ==
  ASSUME SpendInv, [RunNext]_runVars
  PROVE  SpendInv'
<1>1. IInv /\ AttemptsOK /\ HistoryOK
  BY DEF SpendInv
<1>2. IInv' /\ AttemptsOK' /\ HistoryOK'
  BY <1>1, RunNextOK, NextInv, HistoryNext DEF BooksStep
<1>3. CASE Desk
  BY <1>2, <1>3, DeskSound DEF SpendInv
<1>4. CASE RunBillable
  BY <1>2, <1>4, RunBillableSound DEF SpendInv
<1>5. CASE MeterProviderCall
  BY <1>2, <1>5, MeterSound DEF SpendInv
<1>6. CASE Time
  <2>1. UNCHANGED <<call, attempt, run>>
    BY <1>6 DEF Time, HoldLapses, MonthEnds, ReservationLapses, ResetFallsDue
  <2>2. QED
    BY <1>2, <1>6, <2>1, TimeSound, CallsKept DEF SpendInv
<1>7. CASE Crash
  BY <1>2, <1>7, CrashSound DEF SpendInv
<1>8. CASE UNCHANGED runVars
  <2>1. UNCHANGED <<call, attempt, run, Books, hand, limited>>
    BY <1>8 DEF runVars, vars, Books, history
  <2>2. QED
    BY <1>2, <2>1, CallsKept, DeskedKept DEF SpendInv, BooksSound
<1>9. QED
  BY <1>3, <1>4, <1>5, <1>6, <1>7, <1>8 DEF RunNext

(* Whatever the calls cost, whoever is promoted and whatever is cut or     *)
(* corrected by hand, every run and period of a user who has always been   *)
(* limited stays within its bounds.                                        *)
THEOREM SpendInvariant == RunSpec => []SpendInv
<1>1. SpendInv /\ [RunNext]_runVars => SpendInv'
  BY SpendNext
<1>2. QED
  BY <1>1, SpendInit, PTL DEF RunSpec

(* The invariant bounds the overdraft: what is owed to a period is at most *)
(* a ceiling for every uncovered call.                                     *)
LEMMA SoundBooksBound == SpendInv => OverdraftBounded
<1> SUFFICES ASSUME SpendInv, NEW p \in PeriodIds,
                    period[p].status = "current", period[p].user \in limited
             PROVE  Available(period[p]) + ChargedUnheld(CallsIn(call, p)) + hand[period[p].user]
                      >= -Total([r \in ReservationIds |-> Ceiling * Uncovered(resv[r])],
                                ReservationIds)
  BY DEF OverdraftBounded
<1> DEFINE f == Dues(Books, Counting, p)
           g == [r \in ReservationIds |-> Ceiling * Uncovered(resv[r])]
<1>1. /\ Counts(Counting, RunCharged, PeriodCharged, Desked) /\ Books \in BooksType
      /\ InBounds(Books, Counting, RunCharged, PeriodCharged, Desked)
  BY CountsNow DEF SpendInv, BooksSound, IInv, BooksInv
<1>2. Books.period = period /\ Books.resv = resv
  BY DEF Books
<1>3. ASSUME NEW r \in ReservationIds
      PROVE  f[r] \in Nat /\ g[r] \in Nat /\ f[r] <= g[r]
  <2>1. resv[r] \in Reservation /\ Counting[r] \in Nat /\ Backing(resv[r], Counting[r])
    BY <1>1, <1>2 DEF BooksType, InBounds, RunsSound, RunSound, Counts
  <2>2. /\ Owed(resv[r], Counting[r], p) \in Nat
        /\ Owed(resv[r], Counting[r], p) <= Cost(Uncovered(resv[r]))
    BY <2>1, OwedFacts
  <2>3. Cost(Uncovered(resv[r])) \in Nat
    BY UncoveredFacts, CostFacts
  <2>4. f[r] = Owed(resv[r], Counting[r], p) /\ g[r] = Cost(Uncovered(resv[r]))
    BY <1>2 DEF Dues, Cost
  <2>5. QED
    BY <2>2, <2>3, <2>4
<1>4. Solvent(Books, Counting, PeriodCharged, p, Desked)
  BY <1>1, <1>2 DEF InBounds, Watched, Desked
<1>5. PeriodCharged[p] = ChargedUnheld(CallsIn(call, p))
  BY DEF PeriodCharged, Unheld, ChargedUnheld
<1>6. PeriodCharged[p] \in Nat /\ Available(period[p]) \in Int
  BY <1>1, <1>2, Balance DEF Counts
<1> DEFINE h == hand[period[p].user]
<1>12. h \in Nat
  BY DEF SpendInv, HistoryOK
<1> HIDE DEF f, g, h
<1>7. IsFiniteSet(ReservationIds)
  BY CreditAssumption
<1>8. /\ Total(f, ReservationIds) \in Nat /\ Total(g, ReservationIds) \in Nat
      /\ Total(f, ReservationIds) <= Total(g, ReservationIds)
  BY <1>3, <1>7, TotalType, TotalMonotone
<1>9. Available(period[p]) + PeriodCharged[p] + h + Total(f, ReservationIds) >= 0
  BY <1>2, <1>4 DEF Solvent, Debts, Desked, f, h
<1>10. Available(period[p]) + PeriodCharged[p] + h >= -Total(g, ReservationIds)
  BY <1>6, <1>8, <1>9, <1>12
<1>11. QED
  BY <1>5, <1>10 DEF g, h

(* And the budget of each run.                                             *)
LEMMA SoundRunsBound == SpendInv => BudgetBounded
<1> SUFFICES ASSUME SpendInv, NEW r \in ReservationIds, resv[r].user \in limited
             PROVE  resv[r].settled + resv[r].amount
                      <= Budget + (MaxParallel - 1) * Ceiling + ChargedUnheld(CallsOf(r))
  BY DEF BudgetBounded
<1>1. /\ Counts(Counting, RunCharged, PeriodCharged, Desked) /\ Books \in BooksType
      /\ InBounds(Books, Counting, RunCharged, PeriodCharged, Desked)
  BY CountsNow DEF SpendInv, BooksSound, IInv, BooksInv
<1>2. /\ resv[r] \in Reservation /\ Within(resv[r], Counting[r], RunCharged[r], Desked)
      /\ Counting[r] \in Nat /\ RunCharged[r] \in Nat
  BY <1>1 DEF Books, BooksType, InBounds, RunsSound, RunSound, Counts
<1>3. resv[r].amount \in Nat /\ resv[r].settled \in Nat
  BY <1>2 DEF Reservation
<1>4. RunCharged[r] = ChargedUnheld(CallsOf(r))
  BY DEF RunCharged, Unheld, ChargedUnheld
<1>5. Cost(Siblings) = (MaxParallel - 1) * Ceiling
  <2>1. Ceiling * Siblings = Siblings * Ceiling
    BY RunFigures
  <2>2. QED
    BY <2>1 DEF Cost, Siblings
<1>6. Cost(Counting[r]) \in Nat
  BY <1>2, CostFacts
<1>7. resv[r].settled + resv[r].amount <= Budget + Cost(Siblings) + RunCharged[r]
  BY <1>2, <1>3, <1>6, RunFigures DEF Within, Desked
<1>8. QED
  BY <1>4, <1>5, <1>7

(* Whatever holds lapse, calls are retried, settlements fail and runs      *)
(* reject or die, and whatever the calls cost, what the runs of a limited  *)
(* user spend is bounded by the balance and each run's share by its budget,*)
(* up to the ceilings of the calls that passed on one hold, the part of    *)
(* every charge no ceiling covers and what was cut or corrected by hand:   *)
(* ensureHoldForStep lets no call leave on a hold below its ceiling.        *)
THEOREM SpendIsBounded == RunSpec => []SpendBounded
<1>1. SpendInv => SpendBounded
  BY SoundBooksBound, SoundRunsBound DEF SpendBounded
<1>2. QED
  BY <1>1, SpendInvariant, PTL

-----------------------------------------------------------------------------
(* Calls whose outcome is unknown.                                         *)

(* A hold that pays for a call, or has ended.                              *)
KeptHold(v) ==
  v.status \in {"expired", "settled"} \/ (v.status \in HeldStatuses /\ v.amount >= Ceiling)

(* A covered call has left, and its run's hold pays for it.                *)
CoveredOK ==
  \A k \in covered :
    /\ attempt[k].step \in {"sent", "answered", "settled", "lost"}
    /\ attempt[k].run \in ReservationIds
    /\ KeptHold(resv[attempt[k].run])

(* No hold stops paying for a call.                                        *)
HoldsLast == \A r \in ReservationIds : KeptHold(resv[r]) => KeptHold(resv'[r])

(* Opening or rolling a period takes from no hold.                         *)
LEMMA EnsuredLast ==
  ASSUME NEW b, BooksInv(b), NEW u \in Users, NEW a \in Nat, NEW C \in SUBSET Cadences,
         NEW e \in EnsuredWith(b, u, a, C)
  PROVE  \A r \in ReservationIds : KeptHold(b.resv[r]) => KeptHold(e[1].resv[r])
BY EnsuredKeeps DEF KeptHold

(* A transaction of the desk on the user's period takes from no hold.      *)
LEMMA AdministeredLast ==
  ASSUME IInv, NEW u \in Users, NEW e \in Ensured(Books, u), resv' = e[1].resv
  PROVE  HoldsLast
<1>1. BooksInv(Books) /\ Books.resv = resv
  BY DEF IInv, Books
<1>2. e \in EnsuredWith(Books, u, 0, Cadences) /\ Cadences \in SUBSET Cadences /\ 0 \in Nat
  BY DEF Ensured
<1>3. \A r \in ReservationIds : KeptHold(Books.resv[r]) => KeptHold(e[1].resv[r])
  BY <1>1, <1>2, EnsuredLast
<1>4. QED
  BY <1>1, <1>3 DEF HoldsLast

(* A recovery ends holds and takes from none of the others.                *)
LEMMA RecoveredLast ==
  ASSUME NEW b, BooksInv(b), NEW S \in SUBSET Lapsed(b.resv), NEW r \in ReservationIds,
         KeptHold(b.resv[r])
  PROVE  KeptHold(Recovered(b, S).resv[r])
<1>1. b \in BooksType /\ b.resv[r] \in Reservation
  BY DEF BooksInv, BooksType
<1>2. Recovered(b, S).resv[r] = IF r \in S THEN Closed(b.resv[r], "expired") ELSE b.resv[r]
  BY <1>1 DEF Recovered, BooksType
<1>3. Closed(b.resv[r], "expired").status = "expired"
  BY <1>1, ClosedFields
<1>4. QED
  BY <1>2, <1>3 DEF KeptHold

LEMMA DeskLast ==
  ASSUME IInv, Desk
  PROVE  HoldsLast
<1>1. /\ BooksInv(Books) /\ Books.resv = resv /\ resv \in [ReservationIds -> Reservation]
  BY DEF IInv, Books, BooksInv, BooksType
<1>2. ASSUME NEW u \in Users, NEW e \in Ensured(Books, u)
      PROVE  e[1] \in BooksType /\ e[2] \in PeriodIds
  BY <1>1, <1>2, EnsuredBooks, Ongoing DEF BooksInv
<1>3. ASSUME NEW u \in Users, NEW a \in Allowances, RegisterUser(u, a) PROVE HoldsLast
  <2>1. PICK e \in EnsuredWith(Books, u, a, {"monthly"}) : Save(e[1])
    BY <1>3 DEF RegisterUser, InitializeUserCredits
  <2>2. a \in Nat /\ {"monthly"} \in SUBSET Cadences
    BY CreditAssumption DEF Cadences
  <2>3. \A r \in ReservationIds : KeptHold(Books.resv[r]) => KeptHold(e[1].resv[r])
    BY <1>1, <2>2, EnsuredLast
  <2>4. QED
    BY <1>1, <2>1, <2>3 DEF HoldsLast, Save
<1>4. ASSUME NEW u \in Users, NEW a \in Allowances, ChangeAllowance(u, a) PROVE HoldsLast
  <2>1. PICK e \in Ensured(Books, u) :
          Save([e[1] EXCEPT !.period[e[2]].allowance = a,
                  !.ledger[e[2]].allowance = @ + a - e[1].period[e[2]].allowance])
    BY <1>4 DEF ChangeAllowance, SetAllowance
  <2>2. QED
    BY <1>2, <2>1, AdministeredLast DEF Save, BooksType
<1>5. ASSUME NEW u \in Users, NEW a \in Allowances, Grant(u, a) PROVE HoldsLast
  <2>1. PICK e \in Ensured(Books, u) :
          Save([e[1] EXCEPT !.period[e[2]].allowance = @ + a, !.ledger[e[2]].allowance = @ + a])
    BY <1>5 DEF Grant, AddCredits
  <2>2. QED
    BY <1>2, <2>1, AdministeredLast DEF Save, BooksType
<1>6. ASSUME NEW u \in Users, NEW d \in Adjustments, Correct(u, d) PROVE HoldsLast
  <2>1. PICK e \in Ensured(Books, u) :
          Save([e[1] EXCEPT !.period[e[2]].consumed = @ - d,
                            !.ledger[e[2]].adjustments = @ + d])
    BY <1>6 DEF Correct, RecordAdjustment
  <2>2. QED
    BY <1>2, <2>1, AdministeredLast DEF Save, BooksType
<1>7. ASSUME NEW u \in Users, NEW c \in Cadences, ChangeCadence(u, c) PROVE HoldsLast
  <2>1. PICK e \in Ensured(Books, u) : Save([e[1] EXCEPT !.period[e[2]].reset = FirstReset(c)])
    BY <1>7 DEF ChangeCadence, SetResetCadence
  <2>2. QED
    BY <1>2, <2>1, AdministeredLast DEF Save, BooksType
<1>8. ASSUME NEW u \in Users, NEW s \in Accounts, ChangeAccount(u, s) PROVE HoldsLast
  BY <1>8 DEF ChangeAccount, UpdateUser, HoldsLast
<1>9. ASSUME NEW S \in SUBSET Lapsed(resv), Sweep(S) PROVE HoldsLast
  <2>1. resv' = Recovered(Books, S).resv
    BY <1>9 DEF Sweep, SweepAbandonedReservations, Save
  <2>2. QED
    BY <1>1, <2>1, RecoveredLast DEF HoldsLast
<1>10. ASSUME NEW r \in ReservationIds, NEW billed \in BOOLEAN, Reconcile(r, billed)
       PROVE  HoldsLast
  <2> DEFINE x == IF billed THEN resv[r].amount ELSE 0
             charge == Least(x, resv[r].amount)
             w == [resv[r] EXCEPT !.settled = @ + charge]
  <2>1. /\ resv' = [resv EXCEPT ![r] = Closed(w, "settled")]
        /\ resv[r].status = "pending_reconciliation"
    BY <1>10, Zenon DEF Reconcile, ResolveReconciliation, Save, Books
  <2>2. resv[r].amount \in Nat /\ resv[r] \in Reservation
    BY <1>1 DEF Reservation
  <2>3. charge \in Nat
    BY <2>2 DEF Least
  <2> HIDE DEF charge
  <2>4. w \in Reservation
    BY <2>2, <2>3 DEF Reservation
  <2> HIDE DEF w
  <2>5. Closed(w, "settled").status = "settled"
    BY <2>4, ClosedFields
  <2>6. QED
    BY <1>1, <2>1, <2>5 DEF HoldsLast, KeptHold
<1>11. QED
  BY <1>3, <1>4, <1>5, <1>6, <1>7, <1>8, <1>9, <1>10 DEF Desk

(* A run that starts takes a hold of its own; one that ends ends its hold. *)
LEMMA RunLast ==
  ASSUME IInv, RunBillable
  PROVE  HoldsLast
<1>1. /\ BooksInv(Books) /\ Books.resv = resv /\ resv \in [ReservationIds -> Reservation]
  BY DEF IInv, Books, BooksInv, BooksType
<1>2. PICK r \in ReservationIds :
        \/ \E u \in Users, scope \in Scopes, limit \in Limits, result \in ReserveResults :
             StartRun(r, u, scope, limit, result)
        \/ ReturnRun(r) \/ ReleaseFails(r)
        \/ ReleaseRun(r)
  BY DEF RunBillable
<1>3. CASE ReturnRun(r) \/ ReleaseFails(r)
  BY <1>3 DEF ReturnRun, ReleaseFails, vars, HoldsLast
<1>4. CASE ReleaseRun(r)
  <2>1. ReleaseReservation(r, "settled")
    BY <1>4 DEF ReleaseRun
  <2>2. UNCHANGED resv \/ resv' = [resv EXCEPT ![r] = Closed(@, "settled")]
    BY <2>1 DEF ReleaseReservation, Save, Books
  <2>3. Closed(resv[r], "settled").status = "settled"
    BY <1>1, ClosedFields
  <2>4. QED
    BY <1>1, <2>2, <2>3 DEF HoldsLast, KeptHold
<1>5. ASSUME NEW u \in Users, NEW scope \in Scopes, NEW limit, NEW result,
             StartRun(r, u, scope, limit, result)
      PROVE  HoldsLast
  <2> DEFINE v(p) == [user |-> u, period |-> p, status |-> "open", amount |-> InitialHold,
                      settled |-> 0, lapsed |-> FALSE, scope |-> scope]
  <2>1. PICK S \in SUBSET Lapsed(resv) :
          \/ Save(Recovered(Books, S))
          \/ \E e \in Ensured(Recovered(Books, S), u) :
               \/ Save(e[1])
               \/ Save(Holding(e[1], r, e[2], InitialHold, v(e[2])))
    BY <1>5 DEF StartRun, ReserveCredits
  <2>2. resv[r].status = "unused" /\ ~KeptHold(resv[r])
    BY <1>5 DEF StartRun, ReserveCredits, KeptHold, HeldStatuses
  <2> DEFINE b == Recovered(Books, S)
  <2>3. BooksInv(b)
    BY <1>1, RecoveredInv
  <2>4. \A s \in ReservationIds : KeptHold(resv[s]) => KeptHold(b.resv[s])
    BY <1>1, RecoveredLast
  <2> HIDE DEF b
  <2>5. CASE Save(b)
    BY <2>4, <2>5 DEF HoldsLast, Save
  <2>6. ASSUME NEW e \in Ensured(b, u),
               Save(e[1]) \/ Save(Holding(e[1], r, e[2], InitialHold, v(e[2])))
        PROVE  HoldsLast
    <3>1. e \in EnsuredWith(b, u, 0, Cadences) /\ Cadences \in SUBSET Cadences /\ 0 \in Nat
      BY DEF Ensured
    <3>2. \A s \in ReservationIds : KeptHold(b.resv[s]) => KeptHold(e[1].resv[s])
      BY <2>3, <3>1, EnsuredLast
    <3>3. e[1] \in BooksType
      BY <2>3, EnsuredBooks, Ongoing DEF BooksInv
    <3>4. CASE Save(e[1])
      BY <2>4, <3>2, <3>4 DEF HoldsLast, Save
    <3>5. CASE Save(Holding(e[1], r, e[2], InitialHold, v(e[2])))
      <4> DEFINE w == v(e[2])
      <4> HIDE DEF w
      <4>1. resv' = Holding(e[1], r, e[2], InitialHold, w).resv
        BY <3>5, Zenon DEF Save, w
      <4>2. resv' = [e[1].resv EXCEPT ![r] = w]
        BY <3>3, <4>1 DEF Holding, BooksType
      <4>3. \A s \in ReservationIds \ {r} : resv'[s] = e[1].resv[s]
        BY <3>3, <4>2 DEF BooksType
      <4>4. QED
        BY <2>2, <2>4, <3>2, <4>3 DEF HoldsLast
    <3>6. QED
      BY <2>6, <3>4, <3>5
  <2>7. QED
    BY <2>1, <2>5, <2>6 DEF b
<1>6. QED
  BY <1>2, <1>3, <1>4, <1>5

(* A call leaves with its ceiling held.                                    *)
LEMMA HoldLast ==
  ASSUME IInv, AttemptsOK, NEW k \in CallKeys, NEW result, HoldForCall(k, result)
  PROVE  HoldsLast /\ (result = "ok" => KeptHold(resv'[attempt[k].run]))
<1> DEFINE r == attempt[k].run
<1>1. /\ r \in ReservationIds /\ EnsureReservationHold(r, Ceiling, Budget, result)
      /\ resv[r].status # "unused"
  BY DEF HoldForCall, AttemptsOK, InFlight, EnsureReservationHold
<1>2. /\ resv[r] \in Reservation /\ resv \in [ReservationIds -> Reservation]
      /\ resv[r].amount \in Nat /\ resv[r].settled \in Nat
      /\ Available(period[resv[r].period]) \in Int
      /\ Ceiling \in Nat /\ Budget \in Nat /\ Books \in BooksType /\ Books.resv = resv
  <2>1. resv[r] \in Reservation /\ resv \in [ReservationIds -> Reservation]
        /\ period[resv[r].period] \in Period
    BY <1>1, Reserved
  <2>2. QED
    BY <2>1, RunFigures DEF Reservation, Period, Available, IInv, BooksInv, Books
<1>3. CASE result # "ok"
  BY <1>1, <1>3 DEF EnsureReservationHold, HoldsLast
<1>4. CASE /\ resv[r].status = "open" /\ resv[r].amount >= Ceiling
           /\ resv' = [resv EXCEPT ![r].lapsed = FALSE]
  <2>1. \A s \in ReservationIds : /\ resv'[s].status = resv[s].status
                                  /\ resv'[s].amount = resv[s].amount
    BY <1>2, <1>4 DEF Reservation
  <2>2. QED
    BY <1>1, <1>4, <2>1 DEF HoldsLast, KeptHold, HeldStatuses
<1>5. ASSUME resv[r].status = "open", resv[r].amount < Ceiling,
             NEW x \in TopUps(r, Ceiling, Budget), Save(Extended(Books, r, x, TRUE))
      PROVE  HoldsLast /\ KeptHold(resv'[r])
  <2> DEFINE w == [resv[r] EXCEPT !.amount = @ + x]
             v == [w EXCEPT !.lapsed = @ /\ ~TRUE]
  <2>1. x \in Nat /\ resv[r].amount + x >= Ceiling
    BY <1>2, <1>5, TopUpsGrow, TopUpsWithinBudget
  <2>2. w \in Reservation /\ w.status = "open" /\ w.amount = resv[r].amount + x
    BY <1>2, <1>5, <2>1 DEF Reservation
  <2> HIDE DEF w
  <2>3. v.status = "open" /\ v.amount = resv[r].amount + x
    BY <2>2 DEF Reservation
  <2>4. Extended(Books, r, x, TRUE) = Holding(Books, r, resv[r].period, x, v)
    BY <1>2 DEF Extended, w
  <2> HIDE DEF v
  <2>5. resv' = Holding(Books, r, resv[r].period, x, v).resv
    BY <1>5, <2>4 DEF Save
  <2>6. resv' = [resv EXCEPT ![r] = v]
    BY <1>2, <2>5 DEF Holding, BooksType
  <2>7. QED
    BY <1>1, <1>2, <2>1, <2>3, <2>6 DEF HoldsLast, KeptHold, HeldStatuses
<1>6. QED
  BY <1>1, <1>3, <1>4, <1>5 DEF EnsureReservationHold

(* A settlement takes from its own run's hold alone, and an unknown outcome*)
(* takes nothing.                                                          *)
LEMMA SettlementLast ==
  ASSUME IInv, AttemptsOK, NEW k \in CallKeys, InFlight(k), Settlement(k) \/ UNCHANGED vars
  PROVE  LET r == attempt[k].run IN
         /\ \A s \in ReservationIds \ {r} : resv'[s] = resv[s]
         /\ KeptHold(resv[r]) /\ resv'[r].amount >= resv[r].amount => KeptHold(resv'[r])
<1> DEFINE r == attempt[k].run
           pending == attempt[k].outcome = "unknown"
           charge == IF pending THEN 0 ELSE attempt[k].cost
           released == IF resv[r].status = "open" /\ ~pending
                       THEN Least(resv[r].amount, Ceiling) ELSE 0
<1>1. r \in ReservationIds /\ attempt[k].cost \in Nat /\ Ceiling \in Nat
  <2>1. attempt[k].cost \in Costs \cup {0} /\ Costs \subseteq Nat
    BY AttemptFields, RunConstants, CreditAssumption DEF AttemptsOK
  <2>2. Costs \cup {0} \subseteq Nat
    BY <2>1
  <2>3. attempt[k].cost \in Nat
    BY <2>1, <2>2, Zenon
  <2>4. QED
    BY <2>3, RunFigures DEF AttemptsOK
<1>2. CASE UNCHANGED vars
  BY <1>2 DEF vars
<1>3. CASE SettleAgainst(k, r, attempt[k].cost, pending, Ceiling)
  <2>1. pending \in BOOLEAN
    OBVIOUS
  <2>2. /\ charge = IF pending THEN 0 ELSE attempt[k].cost
        /\ released = IF resv[r].status = "open" /\ ~pending
                      THEN Least(resv[r].amount, Ceiling) ELSE 0
    OBVIOUS
  <2>3. SettleAgainst(k, r, attempt[k].cost, pending, Ceiling)
    BY <1>3
  <2> HIDE DEF pending, charge, released
  <2>4. /\ Charges(r, charge, released)
        /\ resv[r].status # "open" => resv'[r] = resv[r]
        /\ resv[r].status = "open" /\ pending =>
             /\ resv'[r].status = "pending_reconciliation"
             /\ resv'[r].amount = resv[r].amount /\ resv'[r].settled = resv[r].settled
        /\ resv[r].status = "open" /\ ~pending =>
             /\ resv'[r].status = "open" /\ resv'[r].amount = resv[r].amount - released
             /\ resv'[r].settled = resv[r].settled + charge
    <3> DEFINE s == r
               cost == attempt[k].cost
    <3>1. /\ charge = IF pending THEN 0 ELSE cost
          /\ released = IF resv[s].status = "open" /\ ~pending
                        THEN Least(resv[s].amount, Ceiling) ELSE 0
          /\ s \in ReservationIds /\ cost \in Nat /\ Ceiling \in Nat
      BY <1>1, <2>2
    <3>2. SettleAgainst(k, s, cost, pending, Ceiling)
      BY <2>3
    <3> HIDE DEF s, cost
    <3>3. /\ Charges(s, charge, released)
          /\ resv[s].status # "open" => resv'[s] = resv[s]
          /\ resv[s].status = "open" /\ pending =>
               /\ resv'[s].status = "pending_reconciliation"
               /\ resv'[s].amount = resv[s].amount /\ resv'[s].settled = resv[s].settled
          /\ resv[s].status = "open" /\ ~pending =>
               /\ resv'[s].status = "open" /\ resv'[s].amount = resv[s].amount - released
               /\ resv'[s].settled = resv[s].settled + charge
      BY <2>1, <3>1, <3>2, SettledBy
    <3>4. QED
      BY <3>3, Zenon DEF s
  <2>5. /\ resv[r].amount \in Nat /\ resv'[r].amount \in Nat
        /\ \A s \in ReservationIds \ {r} : resv'[s] = resv[s]
    BY <1>1, <2>4, Reserved DEF Charges, OnlyAt, Reservation
  <2>6. CASE resv[r].status # "open"
    BY <2>4, <2>5, <2>6
  <2>7. CASE resv[r].status = "open"
    <3>1. resv'[r].status \in HeldStatuses
      BY <2>1, <2>4, <2>7 DEF HeldStatuses
    <3>2. KeptHold(resv[r]) => resv[r].amount >= Ceiling
      BY <2>7 DEF KeptHold
    <3>3. QED
      BY <1>1, <2>5, <3>1, <3>2 DEF KeptHold
  <2>8. QED
    BY <2>6, <2>7
<1>4. QED
  BY <1>2, <1>3, Zenon DEF Settlement, SettleDuplicate

(* Late usage takes from no hold.                                          *)
LEMMA RecordLast ==
  ASSUME IInv, NEW k \in CallKeys, NEW cost \in Incurred,
         \/ \E r \in ReservationIds : RecordIncurredUsage(k, r, cost)
         \/ \E u \in Users : RecordWithoutContext(k, u, cost)
  PROVE  HoldsLast
<1>1. cost \in Nat
  BY RunConstants, CreditAssumption
<1>2. CASE UNCHANGED vars
  BY <1>2 DEF vars, HoldsLast
<1>3. ASSUME NEW r \in ReservationIds, RecordIncurredUsage(k, r, cost)
      PROVE  HoldsLast
  <2> DEFINE pending == FALSE
             none == 0
             charge == IF pending THEN 0 ELSE cost
             released == IF resv[r].status = "open" /\ ~pending
                         THEN Least(resv[r].amount, none) ELSE 0
  <2>1. SettleDuplicate(k) \/ SettleAgainst(k, r, cost, pending, none)
    BY <1>3, Zenon DEF RecordIncurredUsage
  <2>2. CASE SettleDuplicate(k)
    BY <1>2, <2>2 DEF SettleDuplicate
  <2>3. CASE SettleAgainst(k, r, cost, pending, none)
    <3>1. pending \in BOOLEAN /\ none \in Nat /\ ~pending
      OBVIOUS
    <3>2. /\ charge = IF pending THEN 0 ELSE cost
          /\ released = IF resv[r].status = "open" /\ ~pending
                        THEN Least(resv[r].amount, none) ELSE 0
      OBVIOUS
    <3>3. resv[r].status # "unused"
      BY <2>3, Zenon DEF SettleAgainst
    <3>4. resv[r].amount \in Nat
      BY <3>3, Reserved DEF Reservation
    <3>5. released = 0
      BY <3>4 DEF Least
    <3>6. SettleAgainst(k, r, cost, pending, none)
      BY <2>3
    <3> HIDE DEF pending, none, charge, released
    <3>7. /\ Charges(r, charge, released)
          /\ resv[r].status # "open" => resv'[r] = resv[r]
          /\ resv[r].status = "open" /\ ~pending =>
               /\ resv'[r].status = "open" /\ resv'[r].amount = resv[r].amount - released
               /\ resv'[r].settled = resv[r].settled + charge
      BY <1>1, <3>1, <3>2, <3>6, SettledBy
    <3>8. \A s \in ReservationIds \ {r} : resv'[s] = resv[s]
      BY <3>7 DEF Charges, OnlyAt
    <3>9. resv'[r].status = resv[r].status /\ resv'[r].amount = resv[r].amount
      BY <3>1, <3>4, <3>5, <3>7
    <3>10. QED
      BY <3>8, <3>9 DEF HoldsLast, KeptHold
  <2>4. QED
    BY <2>1, <2>2, <2>3
<1>4. ASSUME NEW u \in Users, RecordWithoutContext(k, u, cost)
      PROVE  HoldsLast
  <2> DEFINE pending == FALSE
             charge == IF pending THEN 0 ELSE cost
  <2>1. SettleDuplicate(k) \/ SettleUnreserved(k, u, cost, pending)
    BY <1>4, Zenon DEF RecordWithoutContext
  <2>2. CASE SettleDuplicate(k)
    BY <1>2, <2>2 DEF SettleDuplicate
  <2>3. CASE SettleUnreserved(k, u, cost, pending)
    <3> HIDE DEF charge
    <3>1. PICK e \in Ensured(Books, u) :
            Save([e[1] EXCEPT !.period[e[2]].consumed = @ + charge,
                              !.ledger[e[2]].charges = @ - charge])
      BY <2>3, Zenon DEF SettleUnreserved, charge
    <3>2. e[1] \in BooksType
      BY EnsuredBooks, Ongoing DEF IInv, BooksInv
    <3>3. QED
      BY <3>1, <3>2, AdministeredLast DEF Save, BooksType
  <2>4. QED
    BY <2>1, <2>2, <2>3
<1>5. QED
  BY <1>3, <1>4

(* Covered calls stay covered when only call k moves, as long as the holds *)
(* of the calls still covered last.                                        *)
LEMMA CoveredByOne ==
  ASSUME HistoryOK, CoveredOK, NEW k \in CallKeys, OtherCalls(k),
         covered' \ {k} \subseteq covered,
         \A j \in covered' \ {k} :
           KeptHold(resv[attempt[j].run]) => KeptHold(resv'[attempt[j].run]),
         k \in covered' =>
           /\ attempt'[k].step \in {"sent", "answered", "settled", "lost"}
           /\ attempt'[k].run \in ReservationIds
           /\ KeptHold(resv'[attempt'[k].run])
  PROVE  CoveredOK'
<1>1. ASSUME NEW j \in covered'
      PROVE  /\ attempt'[j].step \in {"sent", "answered", "settled", "lost"}
             /\ attempt'[j].run \in ReservationIds
             /\ KeptHold(resv'[attempt'[j].run])
  <2>1. CASE j = k
    BY <2>1
  <2>2. CASE j # k
    <3>1. j \in covered /\ j \in CallKeys /\ attempt'[j] = attempt[j]
      BY <2>2 DEF HistoryOK, OtherCalls
    <3>2. QED
      BY <2>2, <3>1 DEF CoveredOK
  <2>3. QED
    BY <2>1, <2>2
<1>2. QED
  BY <1>1 DEF CoveredOK, KeptHold

(* A step of meterProviderCall keeps covered calls covered.                *)
LEMMA MeterCovered ==
  ASSUME IInv, AttemptsOK, HistoryOK, CoveredOK, MeterProviderCall
  PROVE  CoveredOK'
<1>1. PICK k \in CallKeys :
        \/ \E r \in ReservationIds, permitted \in BOOLEAN : PermitCall(k, r, permitted)
        \/ \E result \in HoldResults : HoldForCall(k, result)
        \/ \E outcome \in {"succeeded", "unknown", "failed"}, cost \in Costs \cup {0} :
             ProviderAnswers(k, outcome, cost)
        \/ SettleCall(k)
        \/ \E committed \in BOOLEAN, outcome \in {"unknown", "failed"} :
             SettlementFails(k, committed, outcome)
        \/ \E cost \in Incurred :
             \/ \E r \in ReservationIds : RecordIncurredUsage(k, r, cost)
             \/ \E u \in Users : RecordWithoutContext(k, u, cost)
  BY DEF MeterProviderCall
<1>2. attempt[k] \in Attempt /\ attempt \in [CallKeys -> Attempt]
  BY DEF AttemptsOK
<1>3. k \in covered => /\ attempt[k].step \in {"sent", "answered", "settled", "lost"}
                       /\ attempt[k].run \in ReservationIds
                       /\ KeptHold(resv[attempt[k].run])
  BY DEF CoveredOK
<1>4. \A j \in covered : attempt[j].run \in ReservationIds
  BY DEF CoveredOK
<1>5. ASSUME HoldsLast, OtherCalls(k), covered' = covered, k \notin covered
      PROVE  CoveredOK'
  BY <1>4, <1>5, CoveredByOne DEF HoldsLast
<1>6. CASE \E r \in ReservationIds, permitted \in BOOLEAN : PermitCall(k, r, permitted)
  <2>1. PICK r \in ReservationIds, permitted \in BOOLEAN : PermitCall(k, r, permitted)
    BY <1>6
  <2>2. attempt[k].step = "idle" /\ UNCHANGED <<resv, covered>>
    BY <2>1 DEF PermitCall, vars, history
  <2>3. OtherCalls(k)
    BY <1>2, <2>1 DEF PermitCall, OtherCalls
  <2>4. QED
    BY <1>3, <1>5, <2>2, <2>3 DEF HoldsLast
<1>7. ASSUME NEW result \in HoldResults, HoldForCall(k, result) PROVE CoveredOK'
  <2> DEFINE step == IF result = "ok" THEN "sent" ELSE "refused"
  <2>1. /\ attempt[k].step = "permitted"
        /\ attempt' = [attempt EXCEPT ![k].step = step]
        /\ covered' = IF result = "ok" THEN covered \cup {k} ELSE covered
    BY <1>7 DEF HoldForCall
  <2>2. HoldsLast /\ (result = "ok" => KeptHold(resv'[attempt[k].run]))
    BY <1>7, HoldLast
  <2>3. attempt[k].run \in ReservationIds /\ k \notin covered
    BY <1>3, <2>1 DEF AttemptsOK, InFlight
  <2> HIDE DEF step
  <2>4. OtherCalls(k) /\ attempt'[k].run = attempt[k].run /\ attempt'[k].step = step
    BY <1>2, <2>1 DEF OtherCalls, Attempt
  <2>5. CASE result # "ok"
    BY <1>5, <2>1, <2>2, <2>3, <2>4, <2>5
  <2>6. CASE result = "ok"
    <3>1. step = "sent" /\ covered' = covered \cup {k}
      BY <2>1, <2>6 DEF step
    <3>2. QED
      BY <1>4, <2>2, <2>3, <2>4, <2>6, <3>1, CoveredByOne DEF HoldsLast
  <2>7. QED
    BY <2>5, <2>6
<1>8. ASSUME NEW outcome, NEW cost, ProviderAnswers(k, outcome, cost) PROVE CoveredOK'
  <2>1. /\ attempt' = [attempt EXCEPT ![k].step = "answered", ![k].outcome = outcome,
                                      ![k].cost = cost]
        /\ UNCHANGED <<resv, covered>>
    BY <1>8 DEF ProviderAnswers, vars, history
  <2>2. OtherCalls(k) /\ attempt'[k].run = attempt[k].run /\ attempt'[k].step = "answered"
    BY <1>2, <2>1 DEF OtherCalls, Attempt
  <2>3. QED
    BY <1>3, <2>1, <2>2, CoveredByOne
<1>9. ASSUME InFlight(k), attempt[k].step = "answered", Settlement(k) \/ UNCHANGED vars,
             OtherCalls(k), attempt'[k].run = attempt[k].run,
             attempt'[k].step \in {"answered", "settled", "lost"}, Uncovers(k)
      PROVE  CoveredOK'
  <2> DEFINE r == attempt[k].run
  <2>1. /\ \A s \in ReservationIds \ {r} : resv'[s] = resv[s]
        /\ KeptHold(resv[r]) /\ resv'[r].amount >= resv[r].amount => KeptHold(resv'[r])
    BY <1>9, SettlementLast
  <2>2. covered' = {j \in covered : attempt[j].run = r => resv'[r].amount >= resv[r].amount}
    BY <1>9 DEF Uncovers
  <2>3. ASSUME NEW j \in covered', KeptHold(resv[attempt[j].run])
        PROVE  KeptHold(resv'[attempt[j].run])
    <3>1. j \in covered /\ attempt[j].run \in ReservationIds
      BY <1>4, <2>2
    <3>2. CASE attempt[j].run = r
      BY <2>1, <2>2, <2>3, <3>2
    <3>3. CASE attempt[j].run # r
      BY <2>1, <2>3, <3>1, <3>3
    <3>4. QED
      BY <3>2, <3>3
  <2>4. covered' \subseteq covered
    BY <2>2
  <2>5. k \in covered' =>
          /\ attempt'[k].step \in {"sent", "answered", "settled", "lost"}
          /\ attempt'[k].run \in ReservationIds
          /\ KeptHold(resv'[attempt'[k].run])
    BY <1>3, <1>9, <2>3, <2>4
  <2>6. QED
    BY <1>9, <2>3, <2>4, <2>5, CoveredByOne
<1>10. CASE SettleCall(k)
  <2>1. /\ attempt[k].step = "answered" /\ Settlement(k) /\ Uncovers(k)
        /\ attempt' = [attempt EXCEPT ![k].step = "settled"]
    BY <1>10 DEF SettleCall
  <2>2. /\ OtherCalls(k) /\ attempt'[k].run = attempt[k].run /\ attempt'[k].step = "settled"
        /\ InFlight(k)
    BY <1>2, <2>1 DEF OtherCalls, Attempt, InFlight
  <2>3. QED
    BY <1>9, <2>1, <2>2
<1>11. ASSUME NEW committed \in BOOLEAN, NEW outcome, SettlementFails(k, committed, outcome)
       PROVE  CoveredOK'
  <2>1. /\ attempt[k].step = "answered" /\ (Settlement(k) \/ UNCHANGED vars) /\ Uncovers(k)
        /\ attempt' = [attempt EXCEPT ![k] =
             IF @.outcome = "succeeded" /\ ~@.caught
             THEN [@ EXCEPT !.outcome = outcome, !.cost = 0, !.caught = TRUE]
             ELSE [@ EXCEPT !.step = "lost"]]
    BY <1>11 DEF SettlementFails
  <2>2. OtherCalls(k) /\ InFlight(k)
    BY <1>2, <2>1 DEF OtherCalls, InFlight
  <2>3. attempt'[k].run = attempt[k].run /\ attempt'[k].step \in {"answered", "lost"}
    <3>1. CASE attempt[k].outcome = "succeeded" /\ ~attempt[k].caught
      <4>1. attempt'[k] = [attempt[k] EXCEPT !.outcome = outcome, !.cost = 0, !.caught = TRUE]
        BY <1>2, <2>1, <3>1
      <4>2. QED
        BY <1>2, <2>1, <4>1 DEF Attempt
    <3>2. CASE ~(attempt[k].outcome = "succeeded" /\ ~attempt[k].caught)
      <4>1. attempt'[k] = [attempt[k] EXCEPT !.step = "lost"]
        BY <1>2, <2>1, <3>2
      <4>2. QED
        BY <1>2, <4>1 DEF Attempt
    <3>3. QED
      BY <3>1, <3>2
  <2>4. QED
    BY <1>9, <2>1, <2>2, <2>3
<1>12. ASSUME NEW cost \in Incurred,
              \/ \E r \in ReservationIds : RecordIncurredUsage(k, r, cost)
              \/ \E u \in Users : RecordWithoutContext(k, u, cost)
       PROVE  CoveredOK'
  <2>1. HoldsLast
    BY <1>12, RecordLast
  <2>2. attempt[k].step \in {"idle", "incurred"} /\ covered' = covered /\ OtherCalls(k)
    <3>1. ASSUME NEW r \in ReservationIds, RecordIncurredUsage(k, r, cost)
          PROVE  attempt[k].step \in {"idle", "incurred"} /\ covered' = covered /\ OtherCalls(k)
      <4>1. /\ attempt[k].step \in {"idle", "incurred"} /\ UNCHANGED history
            /\ attempt' = [attempt EXCEPT ![k].step = "incurred",
                                          ![k].run = IF Settled(k) THEN @ ELSE r]
        BY <3>1, Zenon DEF RecordIncurredUsage
      <4>2. QED
        BY <1>2, <4>1 DEF history, OtherCalls
    <3>2. ASSUME NEW u \in Users, RecordWithoutContext(k, u, cost)
          PROVE  attempt[k].step \in {"idle", "incurred"} /\ covered' = covered /\ OtherCalls(k)
      <4>1. /\ attempt[k].step \in {"idle", "incurred"} /\ UNCHANGED history
            /\ attempt' = [attempt EXCEPT ![k].step = "incurred"]
        BY <3>2, Zenon DEF RecordWithoutContext
      <4>2. QED
        BY <1>2, <4>1 DEF history, OtherCalls
    <3>3. QED
      BY <1>12, <3>1, <3>2
  <2>3. QED
    BY <1>3, <1>5, <2>1, <2>2
<1>13. QED
  BY <1>1, <1>6, <1>7, <1>8, <1>10, <1>11, <1>12

(* A step that moves no call keeps covered calls covered.                  *)
LEMMA CoveredStill ==
  ASSUME CoveredOK, HoldsLast, UNCHANGED <<attempt, covered>>
  PROVE  CoveredOK'
BY DEF CoveredOK, HoldsLast, KeptHold

LEMMA CoveredNext ==
  ASSUME IInv, AttemptsOK, HistoryOK, CoveredOK, [RunNext]_runVars
  PROVE  CoveredOK'
<1>1. CASE Desk
  <2>1. UNCHANGED <<attempt, covered>>
    BY <1>1 DEF Desk, RegisterUser, ChangeAllowance, ByHand, Grant, Correct, ChangeCadence,
                ChangeAccount, Sweep, Reconcile, history
  <2>2. QED
    BY <1>1, <2>1, DeskLast, CoveredStill
<1>2. CASE RunBillable
  <2>1. UNCHANGED <<attempt, covered>>
    BY <1>2 DEF RunBillable, StartRun, ReturnRun, ReleaseRun, ReleaseFails, history
  <2>2. QED
    BY <1>2, <2>1, RunLast, CoveredStill
<1>3. CASE MeterProviderCall
  BY <1>3, MeterCovered
<1>4. CASE Time
  <2>1. UNCHANGED <<attempt, covered>>
    BY <1>4 DEF Time, HoldLapses, MonthEnds, history
  <2>2. \A s \in ReservationIds : /\ resv'[s].status = resv[s].status
                                  /\ resv'[s].amount = resv[s].amount
    <3>1. resv \in [ReservationIds -> Reservation]
      BY DEF IInv, BooksInv, BooksType, Books
    <3>2. UNCHANGED resv \/ \E r \in ReservationIds : resv' = [resv EXCEPT ![r].lapsed = TRUE]
      BY <1>4 DEF Time, HoldLapses, MonthEnds, ReservationLapses, ResetFallsDue
    <3>3. QED
      BY <3>1, <3>2 DEF Reservation
  <2>3. HoldsLast
    BY <2>2 DEF HoldsLast, KeptHold
  <2>4. QED
    BY <2>1, <2>3, CoveredStill
<1>5. CASE Crash
  <2>1. /\ attempt' = [k \in CallKeys |->
                         IF InFlight(k) THEN [attempt[k] EXCEPT !.step = "lost"] ELSE attempt[k]]
        /\ UNCHANGED <<resv, covered>>
    BY <1>5 DEF Crash, vars, history
  <2>2. ASSUME NEW k \in covered
        PROVE  /\ attempt'[k].step \in {"sent", "answered", "settled", "lost"}
               /\ attempt'[k].run = attempt[k].run
    <3>1. k \in CallKeys /\ attempt[k] \in Attempt
      BY DEF HistoryOK, AttemptsOK
    <3>2. CASE InFlight(k)
      <4>1. attempt'[k] = [attempt[k] EXCEPT !.step = "lost"]
        BY <2>1, <3>1, <3>2
      <4>2. QED
        BY <3>1, <4>1 DEF Attempt
    <3>3. CASE ~InFlight(k)
      BY <2>1, <3>1, <3>3 DEF CoveredOK
    <3>4. QED
      BY <3>2, <3>3
  <2>3. QED
    BY <2>1, <2>2 DEF CoveredOK, KeptHold
<1>6. CASE UNCHANGED runVars
  BY <1>6 DEF runVars, vars, history, CoveredOK, KeptHold
<1>7. QED
  BY <1>1, <1>2, <1>3, <1>4, <1>5, <1>6 DEF RunNext

(* A call whose outcome is unknown is recorded by the settlement of the    *)
(* answer it got.                                                          *)
LEMMA RecordedPending ==
  ASSUME IInv, [RunNext]_runVars, NEW k \in CallKeys,
         call'[k].status = "pending", ~Settled(k)
  PROVE  /\ attempt[k].step = "answered"
         /\ SettleAgainst(k, attempt[k].run, attempt[k].cost, TRUE, Ceiling)
<1>1. call'[k] # call[k] /\ call \in [CallKeys -> Call]
  BY DEF Settled, IInv
<1>2. ~UNCHANGED call
  BY <1>1
<1>3. ASSUME NEW j \in CallKeys, NEW r, NEW x, NEW pending \in BOOLEAN, NEW release,
             SettleAgainst(j, r, x, pending, release)
      PROVE  j = k /\ pending
  <2>1. PICK charge, p : call' = [call EXCEPT ![j] = Recorded(pending, charge, p)]
    BY <1>3 DEF SettleAgainst
  <2>2. j = k
    BY <1>1, <2>1
  <2>3. call'[k] = Recorded(pending, charge, p)
    BY <1>1, <2>1, <2>2
  <2>4. QED
    BY <2>2, <2>3 DEF Recorded
<1>4. ASSUME NEW j \in CallKeys, NEW u, NEW x, SettleUnreserved(j, u, x, FALSE)
      PROVE  FALSE
  <2>1. PICK charge, p : call' = [call EXCEPT ![j] = Recorded(FALSE, charge, p)]
    BY <1>4 DEF SettleUnreserved
  <2>2. j = k
    BY <1>1, <2>1
  <2>3. call'[k] = Recorded(FALSE, charge, p)
    BY <1>1, <2>1, <2>2
  <2>4. QED
    BY <2>3 DEF Recorded
<1>5. ASSUME NEW j, SettleDuplicate(j) PROVE FALSE
  BY <1>2, <1>5 DEF SettleDuplicate, vars
<1>6. ASSUME NEW j \in CallKeys, attempt[j].step = "answered", Settlement(j)
      PROVE  /\ attempt[k].step = "answered"
             /\ SettleAgainst(k, attempt[k].run, attempt[k].cost, TRUE, Ceiling)
  <2> DEFINE pending == attempt[j].outcome = "unknown"
  <2>1. SettleAgainst(j, attempt[j].run, attempt[j].cost, pending, Ceiling)
    BY <1>5, <1>6 DEF Settlement
  <2>2. pending \in BOOLEAN
    OBVIOUS
  <2> HIDE DEF pending
  <2>3. j = k /\ pending
    BY <1>3, <2>1, <2>2
  <2>4. pending = TRUE
    BY <2>2, <2>3
  <2>5. QED
    BY <1>6, <2>1, <2>3, <2>4
<1>7. ~Desk
  BY <1>2, DeskCalls
<1>8. ~RunBillable
  <2>1. ASSUME NEW r, NEW u, NEW scope, NEW limit, NEW result,
               StartRun(r, u, scope, limit, result)
        PROVE  FALSE
    BY <1>2, <2>1 DEF StartRun, ReserveCredits
  <2>2. ASSUME NEW r, ReleaseRun(r) PROVE FALSE
    BY <1>2, <2>2 DEF ReleaseRun, ReleaseReservation
  <2>3. ASSUME NEW r, ReturnRun(r) \/ ReleaseFails(r) PROVE FALSE
    BY <1>2, <2>3 DEF ReturnRun, ReleaseFails, vars
  <2>4. QED
    BY <2>1, <2>2, <2>3 DEF RunBillable
<1>9. ~Time /\ ~Crash /\ ~UNCHANGED runVars
  BY <1>2 DEF Time, HoldLapses, MonthEnds, ReservationLapses, ResetFallsDue, Crash, runVars, vars
<1>10. PICK j \in CallKeys :
         \/ \E r \in ReservationIds, permitted \in BOOLEAN : PermitCall(j, r, permitted)
         \/ \E result \in HoldResults : HoldForCall(j, result)
         \/ \E outcome \in {"succeeded", "unknown", "failed"}, cost \in Costs \cup {0} :
              ProviderAnswers(j, outcome, cost)
         \/ SettleCall(j)
         \/ \E committed \in BOOLEAN, outcome \in {"unknown", "failed"} :
              SettlementFails(j, committed, outcome)
         \/ \E cost \in Incurred :
              \/ \E r \in ReservationIds : RecordIncurredUsage(j, r, cost)
              \/ \E u \in Users : RecordWithoutContext(j, u, cost)
  BY <1>7, <1>8, <1>9, SMTT(30) DEF RunNext, MeterProviderCall
<1>11. CASE \/ \E r \in ReservationIds, permitted \in BOOLEAN : PermitCall(j, r, permitted)
            \/ \E result \in HoldResults : HoldForCall(j, result)
            \/ \E outcome \in {"succeeded", "unknown", "failed"}, cost \in Costs \cup {0} :
                 ProviderAnswers(j, outcome, cost)
  BY <1>2, <1>11 DEF PermitCall, HoldForCall, EnsureReservationHold, ProviderAnswers, vars
<1>12. CASE SettleCall(j)
  BY <1>6, <1>12 DEF SettleCall
<1>13. CASE \E committed \in BOOLEAN, outcome \in {"unknown", "failed"} :
              SettlementFails(j, committed, outcome)
  <2>1. attempt[j].step = "answered" /\ (Settlement(j) \/ UNCHANGED vars)
    BY <1>13 DEF SettlementFails
  <2>2. QED
    BY <1>2, <1>6, <2>1 DEF vars
<1>14. ASSUME NEW cost \in Incurred, NEW r \in ReservationIds, RecordIncurredUsage(j, r, cost)
       PROVE  FALSE
  <2> DEFINE pending == FALSE
  <2>1. SettleAgainst(j, r, cost, pending, 0)
    BY <1>5, <1>14, Zenon DEF RecordIncurredUsage
  <2>2. pending \in BOOLEAN
    OBVIOUS
  <2>3. ~pending
    OBVIOUS
  <2> HIDE DEF pending
  <2>4. QED
    BY <1>3, <2>1, <2>2, <2>3
<1>15. ASSUME NEW cost \in Incurred, NEW u \in Users, RecordWithoutContext(j, u, cost)
       PROVE  FALSE
  BY <1>4, <1>5, <1>15 DEF RecordWithoutContext
<1>16. QED
  BY <1>10, <1>11, <1>12, <1>13, <1>14, <1>15

(* The settlement of a covered call whose outcome is unknown parks the     *)
(* run's hold with a ceiling in it.                                        *)
LEMMA PendingParks ==
  ASSUME IInv, AttemptsOK, HistoryOK, CoveredOK, [RunNext]_runVars, NEW k \in covered,
         NEW r, r = attempt[k].run,
         call'[k].status = "pending", ~Settled(k),
         resv[r].status \notin {"expired", "settled"}
  PROVE  resv'[r].status = "pending_reconciliation" /\ resv'[r].amount >= Ceiling
<1> DEFINE pending == TRUE
           charge == 0
           released == 0
<1>1. k \in CallKeys /\ r \in ReservationIds
  BY DEF HistoryOK, CoveredOK
<1>2. SettleAgainst(k, r, attempt[k].cost, TRUE, Ceiling)
  BY <1>1, RecordedPending
<1>3. attempt[k].cost \in Nat /\ Ceiling \in Nat
  <2>1. attempt[k].cost \in Costs \cup {0} /\ Costs \subseteq Nat
    BY <1>1, AttemptFields, RunConstants, CreditAssumption DEF AttemptsOK
  <2>2. Costs \cup {0} \subseteq Nat
    BY <2>1
  <2>3. attempt[k].cost \in Nat
    BY <2>1, <2>2, Zenon
  <2>4. QED
    BY <2>3, RunFigures
<1>4. resv[r].status \in HeldStatuses /\ resv[r].amount >= Ceiling
  BY DEF CoveredOK, KeptHold
<1>5. /\ resv[r].status # "open" => resv'[r] = resv[r]
      /\ resv[r].status = "open" /\ pending =>
           /\ resv'[r].status = "pending_reconciliation"
           /\ resv'[r].amount = resv[r].amount
  <2>1. /\ charge = IF pending THEN 0 ELSE attempt[k].cost
        /\ released = IF resv[r].status = "open" /\ ~pending
                      THEN Least(resv[r].amount, Ceiling) ELSE 0
        /\ pending \in BOOLEAN /\ pending
    OBVIOUS
  <2>2. SettleAgainst(k, r, attempt[k].cost, pending, Ceiling)
    BY <1>2, Zenon
  <2> HIDE DEF pending, charge, released
  <2>3. QED
    BY <1>1, <1>3, <2>1, <2>2, SettledBy, ZenonT(30)
<1>6. QED
  BY <1>4, <1>5 DEF HeldStatuses

(* Whatever the calls cost and however many go in parallel, a call whose   *)
(* outcome is unknown parks the reservation with a ceiling held for it,    *)
(* unless a sibling's settlement took from the hold, or the hold ended     *)
(* (settleProviderCall, ensureReservationHold).                            *)
THEOREM UnknownKeepsHold == RunSpec => UnknownOutcomeKeepsHold
<1> DEFINE Kept(k) ==
             LET r == attempt[k].run IN
             /\ call'[k].status = "pending" /\ ~Settled(k)
             /\ resv[r].status \notin {"expired", "settled"}
             => resv'[r].status = "pending_reconciliation" /\ resv'[r].amount >= Ceiling
           CoverInv == IInv /\ AttemptsOK /\ HistoryOK /\ CoveredOK
<1>1. RunInit => CoverInv
  BY SpendInit DEF RunInit, SpendInv, CoveredOK
<1>2. CoverInv /\ [RunNext]_runVars => CoverInv'
  BY RunNextOK, NextInv, HistoryNext, CoveredNext DEF BooksStep
<1>3. CoverInv /\ [RunNext]_runVars => [\A k \in covered : Kept(k)]_runVars
  BY PendingParks
<1>4. QED
  BY <1>1, <1>2, <1>3, PTL DEF RunSpec, UnknownOutcomeKeepsHold
=============================================================================
