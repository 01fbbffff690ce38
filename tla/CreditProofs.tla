---------------------------- MODULE CreditProofs ----------------------------
(***************************************************************************)
(* Proofs about the credit books and about the billable runs that spend    *)
(* them, for every set of users, periods, reservations and calls and every *)
(* amount.                                                                 *)
(*                                                                         *)
(* The operators of CreditLedger that a transaction is built from rewrite  *)
(* a record of books, so the invariant is stated of such a record          *)
(* (BooksInv) and each operator is shown to preserve it once; the actions  *)
(* follow.  The hold properties need each other: a roll is only safe       *)
(* because reserved is exactly what is held, and that is only so because   *)
(* held reservations never stay behind in a closed period.  Nothing in     *)
(* this part uses what is assumed of the runs.                             *)
(*                                                                         *)
(* Then, that the books implement one purse per user: what a transaction   *)
(* does to the purses is shown once for each operator on a record of       *)
(* books, and each action is then matched with a step of the purse.        *)
(*                                                                         *)
(* Last, the runs.  A billable run and its metered calls change the books  *)
(* only by the transactions of CreditLedger: every behaviour of MeteredRun *)
(* is one of CreditLedger, so what is proved of the books holds beneath    *)
(* the runs, whatever their calls, crashes and late answers do.            *)
(***************************************************************************)
EXTENDS MeteredRun, CreditRefinement, FiniteSetTheorems, TLAPS

-----------------------------------------------------------------------------
(* What the proofs about the credit books need to know of Total.           *)

(* One element contributes exactly f[x] units.                             *)
LEMMA UnitsSize ==
  ASSUME NEW f, NEW x, f[x] \in Nat
  PROVE  IsFiniteSet(Units(f, x)) /\ Cardinality(Units(f, x)) = f[x]
<1>1. IsFiniteSet(1..f[x]) /\ Cardinality(1..f[x]) = f[x]
  <2>1. 1 \in Int /\ f[x] \in Int
    OBVIOUS
  <2>2. /\ IsFiniteSet(1..f[x])
        /\ Cardinality(1..f[x]) = IF 1 > f[x] THEN 0 ELSE f[x] - 1 + 1
    BY <2>1, FS_Interval, Zenon
  <2>3. QED
    BY <2>2
<1>2. IsFiniteSet({x}) /\ Cardinality({x}) = 1
  BY FS_Singleton, Zenon
<1>3. /\ IsFiniteSet({x} \X (1..f[x]))
      /\ Cardinality({x} \X (1..f[x])) = Cardinality({x}) * Cardinality(1..f[x])
  BY <1>1, <1>2, FS_Product, Zenon
<1>4. QED
  BY <1>1, <1>2, <1>3 DEF Units

(* A total over a finite set is a natural number.                          *)
LEMMA TotalType ==
  ASSUME NEW f, NEW S, IsFiniteSet(S), \A x \in S : f[x] \in Nat
  PROVE  IsFiniteSet(AllUnits(f, S)) /\ Total(f, S) \in Nat
<1> DEFINE g == [x \in S |-> Units(f, x)]
<1>1. g \in Surjection(S, {Units(f, x) : x \in S})
  BY Zenon DEF Surjection
<1>2. IsFiniteSet({Units(f, x) : x \in S})
  BY <1>1, FS_Surjection, Zenon
<1>3. \A T \in {Units(f, x) : x \in S} : IsFiniteSet(T)
  BY UnitsSize, Zenon
<1>4. IsFiniteSet(AllUnits(f, S))
  BY <1>2, <1>3, FS_UNION, Zenon DEF AllUnits
<1>5. QED
  BY <1>4, FS_CardinalityType, Zenon DEF Total

(* The total over nothing is zero.                                         *)
LEMMA TotalEmpty ==
  ASSUME NEW f
  PROVE  Total(f, {}) = 0
<1>1. AllUnits(f, {}) = {}
  BY DEF AllUnits
<1>2. QED
  BY <1>1, FS_EmptySet, Zenon DEF Total

(* Only the values on the set matter.                                      *)
LEMMA TotalAgree ==
  ASSUME NEW f, NEW g, NEW S, \A x \in S : f[x] = g[x]
  PROVE  Total(f, S) = Total(g, S)
<1>1. \A x \in S : Units(f, x) = Units(g, x)
  BY DEF Units
<1>2. AllUnits(f, S) = AllUnits(g, S)
  BY <1>1, Zenon DEF AllUnits
<1>3. QED
  BY <1>2, Zenon DEF Total

(* Totals over disjoint sets add up.                                       *)
LEMMA TotalDisjoint ==
  ASSUME NEW f, NEW S, NEW T, IsFiniteSet(S), IsFiniteSet(T), S \cap T = {},
         \A x \in S \cup T : f[x] \in Nat
  PROVE  Total(f, S \cup T) = Total(f, S) + Total(f, T)
<1>1. AllUnits(f, S \cup T) = AllUnits(f, S) \cup AllUnits(f, T)
  BY Zenon DEF AllUnits
<1>2. AllUnits(f, S) \cap AllUnits(f, T) = {}
  <2> SUFFICES ASSUME NEW t \in AllUnits(f, S), t \in AllUnits(f, T)
               PROVE  FALSE
    BY Zenon
  <2>1. PICK x \in S : t \in Units(f, x)
    BY DEF AllUnits
  <2>2. PICK y \in T : t \in Units(f, y)
    BY DEF AllUnits
  <2>3. t[1] = x /\ t[1] = y
    BY <2>1, <2>2 DEF Units
  <2>4. QED
    BY <2>3, <2>1, <2>2
<1>3. IsFiniteSet(AllUnits(f, S)) /\ IsFiniteSet(AllUnits(f, T))
  BY TotalType, Zenon
<1>4. Cardinality(AllUnits(f, S) \cup AllUnits(f, T)) =
        Cardinality(AllUnits(f, S)) + Cardinality(AllUnits(f, T))
          - Cardinality(AllUnits(f, S) \cap AllUnits(f, T))
  BY <1>3, FS_Union, Zenon
<1>5. Cardinality(AllUnits(f, S) \cap AllUnits(f, T)) = 0
  BY <1>2, FS_EmptySet, Zenon
<1>6. Total(f, S) \in Nat /\ Total(f, T) \in Nat
  BY TotalType, Zenon
<1>7. /\ Total(f, S \cup T) = Cardinality(AllUnits(f, S) \cup AllUnits(f, T))
      /\ Total(f, S) = Cardinality(AllUnits(f, S))
      /\ Total(f, T) = Cardinality(AllUnits(f, T))
  BY <1>1, Zenon DEF Total
<1>8. QED
  BY <1>4, <1>5, <1>6, <1>7

(* The total over a single element is its value.                           *)
LEMMA TotalSingle ==
  ASSUME NEW f, NEW x, f[x] \in Nat
  PROVE  Total(f, {x}) = f[x]
<1>1. AllUnits(f, {x}) = Units(f, x)
  BY DEF AllUnits
<1>2. QED
  BY <1>1, UnitsSize, Zenon DEF Total

(* One element can be counted apart from the rest.                         *)
LEMMA TotalSplit ==
  ASSUME NEW f, NEW S, NEW x \in S, IsFiniteSet(S), \A y \in S : f[y] \in Nat
  PROVE  Total(f, S) = Total(f, S \ {x}) + f[x]
<1>1. S = (S \ {x}) \cup {x} /\ (S \ {x}) \cap {x} = {}
  OBVIOUS
<1>2. IsFiniteSet(S \ {x}) /\ IsFiniteSet({x})
  BY FS_RemoveElement, FS_Singleton, Zenon
<1>3. Total(f, (S \ {x}) \cup {x}) = Total(f, S \ {x}) + Total(f, {x})
  BY <1>1, <1>2, TotalDisjoint, Zenon
<1>4. QED
  BY <1>1, <1>3, TotalSingle

-----------------------------------------------------------------------------
(* The books.                                                              *)

BooksType ==
  [period : [PeriodIds -> Period], resv : [ReservationIds -> Reservation],
   ledger : [PeriodIds -> RowSums], carried : [PeriodIds -> Int]]

Held(rs, p) == Total(AmountOf(rs), HeldIn(rs, p))

(* What reservation r alone holds in period p.                             *)
HeldBy(rs, r, p) ==
  IF rs[r].status \in HeldStatuses /\ rs[r].period = p THEN rs[r].amount ELSE 0

OneCurrent(b) ==
  \A p, q \in PeriodIds :
    /\ b.period[p].status = "current" /\ b.period[q].status = "current"
    /\ b.period[p].user = b.period[q].user
    => p = q

HeldCurrent(b) ==
  \A r \in ReservationIds :
    b.resv[r].status \in HeldStatuses =>
      /\ b.resv[r].period \in PeriodIds
      /\ b.period[b.resv[r].period].status = "current"
      /\ b.period[b.resv[r].period].user = b.resv[r].user

Backed(b) == \A p \in PeriodIds : b.period[p].reserved = Held(b.resv, p)

ExplainedAt(b, p) ==
  /\ b.period[p].allowance = b.ledger[p].allowance
  /\ b.period[p].consumed =
       -(b.ledger[p].charges + b.ledger[p].reconciled + b.ledger[p].adjustments)
  /\ b.period[p].reserved = b.carried[p] - b.ledger[p].holds

Explained(b) == \A p \in PeriodIds : ExplainedAt(b, p)

(* A reservation that exists points to a period that exists.               *)
Placed(b) ==
  \A r \in ReservationIds :
    b.resv[r].status # "unused" =>
      /\ b.resv[r].period \in PeriodIds
      /\ b.period[b.resv[r].period].status # "unused"

Blank(b) ==
  \A p \in PeriodIds :
    b.period[p].status = "unused" =>
      b.period[p].allowance = 0 /\ b.period[p].consumed = 0 /\ b.period[p].reserved = 0

BooksInv(b) ==
  /\ b \in BooksType
  /\ OneCurrent(b)
  /\ HeldCurrent(b)
  /\ Backed(b)
  /\ Explained(b)
  /\ Placed(b)
  /\ Blank(b)

SameCharges(b, c) == \A p \in PeriodIds : c.ledger[p].charges = b.ledger[p].charges

UnusedKept(b, c) ==
  \A r \in ReservationIds : b.resv[r].status = "unused" => c.resv[r] = b.resv[r]

(* From b a transaction of u may go on with books c and current period p.  *)
Continues(b, u, c, p) ==
  BooksInv(c) /\ p \in CurrentOf(c.period, u) /\ SameCharges(b, c) /\ UnusedKept(b, c)

-----------------------------------------------------------------------------
(* Totals of holds.                                                        *)

(* The holds of a period are finitely many natural numbers.                *)
LEMMA HoldsFinite ==
  ASSUME NEW rs \in [ReservationIds -> Reservation], NEW S \in SUBSET ReservationIds
  PROVE  IsFiniteSet(S) /\ \A r \in S : AmountOf(rs)[r] \in Nat
<1>1. IsFiniteSet(S)
  BY CreditAssumption, FS_Subset, Zenon
<1>2. \A r \in S : AmountOf(rs)[r] = rs[r].amount
  BY DEF AmountOf
<1>3. \A r \in S : rs[r].amount \in Nat
  BY DEF Reservation
<1>4. QED
  BY <1>1, <1>2, <1>3

(* A hold total is a natural number.                                       *)
LEMMA HeldType ==
  ASSUME NEW rs \in [ReservationIds -> Reservation], NEW p
  PROVE  Held(rs, p) \in Nat
<1>1. HeldIn(rs, p) \in SUBSET ReservationIds
  BY DEF HeldIn
<1>2. QED
  BY <1>1, HoldsFinite, TotalType, Zenon DEF Held

(* One reservation's part of a hold total can be counted apart.            *)
LEMMA HeldSplit ==
  ASSUME NEW rs \in [ReservationIds -> Reservation], NEW r \in ReservationIds, NEW p
  PROVE  /\ Held(rs, p) = Total(AmountOf(rs), HeldIn(rs, p) \ {r}) + HeldBy(rs, r, p)
         /\ Total(AmountOf(rs), HeldIn(rs, p) \ {r}) \in Nat
<1> DEFINE S == HeldIn(rs, p)
<1>1. S \in SUBSET ReservationIds /\ S \ {r} \in SUBSET ReservationIds
  BY DEF HeldIn
<1>2. Total(AmountOf(rs), S) \in Nat /\ Total(AmountOf(rs), S \ {r}) \in Nat
  BY <1>1, HoldsFinite, TotalType, Zenon
<1>3. CASE r \in S
  <2>1. Total(AmountOf(rs), S) = Total(AmountOf(rs), S \ {r}) + AmountOf(rs)[r]
    BY <1>1, <1>3, HoldsFinite, TotalSplit, Zenon
  <2>2. AmountOf(rs)[r] = HeldBy(rs, r, p)
    BY <1>3 DEF AmountOf, HeldBy, HeldIn
  <2>3. QED
    BY <2>1, <2>2, <1>2 DEF Held
<1>4. CASE r \notin S
  <2>1. S \ {r} = S
    BY <1>4
  <2>2. HeldBy(rs, r, p) = 0
    BY <1>4 DEF HeldBy, HeldIn
  <2>3. QED
    BY <2>1, <2>2, <1>2 DEF Held
<1>5. QED
  BY <1>3, <1>4

(* Changing one reservation changes a hold total by that reservation's     *)
(* part of it.                                                             *)
LEMMA HeldChange ==
  ASSUME NEW rs \in [ReservationIds -> Reservation],
         NEW ts \in [ReservationIds -> Reservation],
         NEW r \in ReservationIds, NEW p,
         \A s \in ReservationIds : s # r => ts[s] = rs[s]
  PROVE  Held(ts, p) - HeldBy(ts, r, p) = Held(rs, p) - HeldBy(rs, r, p)
<1>1. HeldIn(ts, p) \ {r} = HeldIn(rs, p) \ {r}
  BY DEF HeldIn
<1>2. \A s \in HeldIn(rs, p) \ {r} : AmountOf(ts)[s] = AmountOf(rs)[s]
  BY DEF AmountOf, HeldIn
<1>3. Total(AmountOf(ts), HeldIn(rs, p) \ {r}) = Total(AmountOf(rs), HeldIn(rs, p) \ {r})
  BY <1>2, TotalAgree, Zenon
<1>4. HeldBy(rs, r, p) \in Nat /\ HeldBy(ts, r, p) \in Nat
  BY DEF HeldBy, Reservation
<1>5. /\ Held(rs, p) = Total(AmountOf(rs), HeldIn(rs, p) \ {r}) + HeldBy(rs, r, p)
      /\ Total(AmountOf(rs), HeldIn(rs, p) \ {r}) \in Nat
  BY HeldSplit, Zenon
<1>6. Held(ts, p) = Total(AmountOf(ts), HeldIn(ts, p) \ {r}) + HeldBy(ts, r, p)
  BY HeldSplit, Zenon
<1>7. Total(AmountOf(ts), HeldIn(ts, p) \ {r}) = Total(AmountOf(rs), HeldIn(rs, p) \ {r})
  BY <1>1, <1>3
<1>8. QED
  BY <1>4, <1>5, <1>6, <1>7

-----------------------------------------------------------------------------
(* The operators of a transaction.                                         *)

(* openPeriod changes only period n and its allowance row.                 *)
LEMMA OpenedFields ==
  ASSUME NEW b \in BooksType, NEW n \in PeriodIds, NEW new \in Period
  PROVE  /\ Opened(b, n, new) \in BooksType
         /\ Opened(b, n, new).resv = b.resv
         /\ Opened(b, n, new).carried = b.carried
         /\ Opened(b, n, new).period = [q \in PeriodIds |-> IF q = n THEN new ELSE b.period[q]]
         /\ \A q \in PeriodIds : q # n => Opened(b, n, new).ledger[q] = b.ledger[q]
         /\ Opened(b, n, new).ledger[n].allowance = b.ledger[n].allowance + new.allowance
         /\ Opened(b, n, new).ledger[n].holds = b.ledger[n].holds
         /\ Opened(b, n, new).ledger[n].charges = b.ledger[n].charges
         /\ Opened(b, n, new).ledger[n].reconciled = b.ledger[n].reconciled
         /\ Opened(b, n, new).ledger[n].adjustments = b.ledger[n].adjustments
<1> DEFINE ps == [q \in PeriodIds |-> IF q = n THEN new ELSE b.period[q]]
           ls == [q \in PeriodIds |->
                    IF q = n THEN [b.ledger[q] EXCEPT !.allowance = @ + new.allowance]
                             ELSE b.ledger[q]]
           o  == [b EXCEPT !.period = ps, !.ledger = ls]
<1>1. /\ b.period \in [PeriodIds -> Period] /\ b.resv \in [ReservationIds -> Reservation]
      /\ b.ledger \in [PeriodIds -> RowSums] /\ b.carried \in [PeriodIds -> Int]
  BY DEF BooksType
<1>2. ps \in [PeriodIds -> Period]
  BY <1>1
<1>3. new.allowance \in Int
  BY DEF Period
<1>4. \A q \in PeriodIds : [b.ledger[q] EXCEPT !.allowance = @ + new.allowance] \in RowSums
  BY <1>1, <1>3 DEF RowSums
<1>5. ls \in [PeriodIds -> RowSums]
  BY <1>1, <1>4, SMTT(30)
<1>6. /\ o.period = ps /\ o.ledger = ls /\ o.resv = b.resv /\ o.carried = b.carried
      /\ o \in BooksType
  BY <1>1, <1>2, <1>5 DEF BooksType
<1>7. Opened(b, n, new) = o
  BY DEF Opened
<1>8. /\ ls[n].allowance = b.ledger[n].allowance + new.allowance
      /\ ls[n].holds = b.ledger[n].holds
      /\ ls[n].charges = b.ledger[n].charges
      /\ ls[n].reconciled = b.ledger[n].reconciled
      /\ ls[n].adjustments = b.ledger[n].adjustments
  BY <1>1, <1>3 DEF RowSums
<1>9. \A q \in PeriodIds : q # n => ls[q] = b.ledger[q]
  BY <1>1
<1> HIDE DEF ps, ls, o
<1>10. QED
  BY <1>6, <1>7, <1>8, <1>9 DEF ps

(* A blank new period for a user without one keeps the books in order.     *)
LEMMA OpenedInv ==
  ASSUME NEW b, BooksInv(b), NEW u \in Users, CurrentOf(b.period, u) = {},
         NEW n \in Fresh(b.period), NEW new \in Period,
         new.user = u, new.status = "current", new.consumed = 0, new.reserved = 0
  PROVE  Continues(b, u, Opened(b, n, new), n)
<1> DEFINE o == Opened(b, n, new)
<1>0. n \in PeriodIds /\ b.period[n].status = "unused" /\ b \in BooksType
  BY DEF Fresh, BooksInv
<1>1. /\ o \in BooksType /\ o.resv = b.resv /\ o.carried = b.carried
      /\ o.period = [q \in PeriodIds |-> IF q = n THEN new ELSE b.period[q]]
      /\ \A q \in PeriodIds : q # n => o.ledger[q] = b.ledger[q]
      /\ o.ledger[n].allowance = b.ledger[n].allowance + new.allowance
      /\ o.ledger[n].holds = b.ledger[n].holds
      /\ o.ledger[n].charges = b.ledger[n].charges
      /\ o.ledger[n].reconciled = b.ledger[n].reconciled
      /\ o.ledger[n].adjustments = b.ledger[n].adjustments
  BY <1>0, OpenedFields
<1> HIDE DEF o
<1>2. /\ o.period[n] = new
      /\ \A q \in PeriodIds : q # n => o.period[q] = b.period[q]
  BY <1>0, <1>1
<1>3. OneCurrent(o)
  BY <1>0, <1>2 DEF BooksInv, OneCurrent, CurrentOf
<1>4. HeldCurrent(o)
  BY <1>0, <1>1, <1>2 DEF BooksInv, HeldCurrent
<1>5. Backed(o)
  BY <1>0, <1>1, <1>2 DEF BooksInv, Backed, Blank
<1>6. Explained(o)
  <2>1. b.period[n].allowance = 0 /\ b.period[n].consumed = 0 /\ b.period[n].reserved = 0
    BY <1>0 DEF BooksInv, Blank
  <2>2. b.ledger[n] \in RowSums /\ new.allowance \in Int /\ b.carried[n] \in Int
    BY <1>0 DEF BooksType, Period
  <2>3. ExplainedAt(b, n)
    BY <1>0 DEF BooksInv, Explained
  <2>4. ExplainedAt(o, n)
    BY <1>1, <1>2, <2>1, <2>2, <2>3 DEF ExplainedAt, RowSums
  <2>5. \A q \in PeriodIds : q # n => ExplainedAt(o, q)
    BY <1>1, <1>2 DEF BooksInv, Explained, ExplainedAt
  <2>6. QED
    BY <2>4, <2>5 DEF Explained
<1>7. Placed(o)
  BY <1>0, <1>1, <1>2 DEF BooksInv, Placed
<1>8. Blank(o)
  BY <1>0, <1>2 DEF BooksInv, Blank
<1>9. n \in CurrentOf(o.period, u)
  BY <1>0, <1>2 DEF CurrentOf
<1>10. SameCharges(b, o)
  BY <1>1 DEF SameCharges
<1>11. BooksInv(o)
  BY <1>1, <1>3, <1>4, <1>5, <1>6, <1>7, <1>8, Zenon DEF BooksInv
<1>12. QED
  BY <1>1, <1>9, <1>10, <1>11 DEF o, Continues, UnusedKept

(* The roll, field by field: period p keeps nothing held, period n gets it *)
(* all, with the reservations that hold it.                                *)
RolledTo(b, p, n, reset, o) ==
  /\ o \in BooksType
  /\ o.period[p] = [b.period[p] EXCEPT !.status = "closed", !.reserved = 0]
  /\ o.period[n] = NewPeriod(b.period[p].user, b.period[p].allowance, reset,
                             b.period[p].reserved)
  /\ \A q \in PeriodIds \ {n, p} : o.period[q] = b.period[q]
  /\ o.resv = [r \in ReservationIds |-> IF r \in HeldIn(b.resv, p)
                                        THEN [b.resv[r] EXCEPT !.period = n]
                                        ELSE b.resv[r]]
  /\ \A q \in PeriodIds : q # n => o.ledger[q] = b.ledger[q]
  /\ o.ledger[n].allowance = b.ledger[n].allowance + b.period[p].allowance
  /\ o.ledger[n].holds = b.ledger[n].holds
  /\ o.ledger[n].charges = b.ledger[n].charges
  /\ o.ledger[n].reconciled = b.ledger[n].reconciled
  /\ o.ledger[n].adjustments = b.ledger[n].adjustments
  /\ o.carried[p] = b.carried[p] - b.period[p].reserved
  /\ o.carried[n] = b.carried[n] + b.period[p].reserved
  /\ \A q \in PeriodIds \ {n, p} : o.carried[q] = b.carried[q]

(* maybeRollPeriod does what RolledTo says.                                *)
LEMMA RolledFields ==
  ASSUME NEW b, BooksInv(b), NEW p \in PeriodIds, b.period[p].status = "current",
         b.period[p].user \in Users,
         NEW n \in Fresh(b.period), NEW reset \in {"later", "due"}
  PROVE  RolledTo(b, p, n, reset, Rolled(b, p, n, reset))
<1> DEFINE held  == HeldIn(b.resv, p)
           carry == b.period[p].reserved
           ps == [b.period EXCEPT ![p] = [b.period[p] EXCEPT !.status = "closed",
                                                             !.reserved = @ - carry]]
           rs == [r \in ReservationIds |->
                    IF r \in held THEN [b.resv[r] EXCEPT !.period = n] ELSE b.resv[r]]
           cs == [b.carried EXCEPT ![p] = @ - carry, ![n] = @ + carry]
           c  == [b EXCEPT !.period = ps, !.resv = rs, !.carried = cs]
           new == NewPeriod(b.period[p].user, b.period[p].allowance, reset, carry)
           o  == Rolled(b, p, n, reset)
<1>1. /\ b \in BooksType
      /\ b.period \in [PeriodIds -> Period] /\ b.resv \in [ReservationIds -> Reservation]
      /\ b.ledger \in [PeriodIds -> RowSums] /\ b.carried \in [PeriodIds -> Int]
  BY DEF BooksInv, BooksType
<1>2. n \in PeriodIds /\ n # p
  BY DEF Fresh
<1>3. carry \in Nat /\ carry = Total(AmountOf(b.resv), held)
  BY <1>1 DEF BooksInv, Backed, Held, Period
<1>4. ps \in [PeriodIds -> Period]
      /\ ps[p] = [b.period[p] EXCEPT !.status = "closed", !.reserved = 0]
      /\ \A q \in PeriodIds : q # p => ps[q] = b.period[q]
  <2>1. b.period[p] \in Period
    BY <1>1
  <2>a. b.period[p].reserved - carry = 0
    BY <1>3
  <2>2. [b.period[p] EXCEPT !.status = "closed", !.reserved = @ - carry]
          = [b.period[p] EXCEPT !.status = "closed", !.reserved = 0]
    BY <2>a
  <2>3. [b.period[p] EXCEPT !.status = "closed", !.reserved = 0] \in Period
    BY <2>1 DEF Period
  <2>4. QED
    BY <1>1, <2>2, <2>3
<1>5. rs \in [ReservationIds -> Reservation]
  <2>1. \A r \in ReservationIds : [b.resv[r] EXCEPT !.period = n] \in Reservation
    BY <1>1, <1>2 DEF Reservation
  <2>2. QED
    BY <1>1, <2>1
<1>6. /\ cs \in [PeriodIds -> Int]
      /\ cs[p] = b.carried[p] - carry /\ cs[n] = b.carried[n] + carry
      /\ \A q \in PeriodIds \ {n, p} : cs[q] = b.carried[q]
  BY <1>1, <1>2, <1>3, SMTT(30)
<1>7. /\ c \in BooksType
      /\ c.period = ps /\ c.resv = rs /\ c.ledger = b.ledger /\ c.carried = cs
  BY <1>1, <1>4, <1>5, <1>6, Zenon DEF BooksType
<1>8. new \in Period /\ new.allowance = b.period[p].allowance
  BY <1>1, <1>3 DEF NewPeriod, Period
<1>9. o = Opened(c, n, new)
  <2>1. [b EXCEPT !.period[p] = [b.period[p] EXCEPT !.status = "closed", !.reserved = @ - carry],
                  !.resv = rs, !.carried = cs] = c
    BY <1>1
  <2>2. QED
    BY <1>3, <2>1 DEF Rolled
<1> HIDE DEF ps, rs, cs, c, new, o
<1>10. /\ Opened(c, n, new) \in BooksType
       /\ Opened(c, n, new).resv = rs
       /\ Opened(c, n, new).carried = cs
       /\ Opened(c, n, new).period = [q \in PeriodIds |-> IF q = n THEN new ELSE ps[q]]
       /\ \A q \in PeriodIds : q # n => Opened(c, n, new).ledger[q] = b.ledger[q]
       /\ Opened(c, n, new).ledger[n].allowance = b.ledger[n].allowance + new.allowance
       /\ Opened(c, n, new).ledger[n].holds = b.ledger[n].holds
       /\ Opened(c, n, new).ledger[n].charges = b.ledger[n].charges
       /\ Opened(c, n, new).ledger[n].reconciled = b.ledger[n].reconciled
       /\ Opened(c, n, new).ledger[n].adjustments = b.ledger[n].adjustments
  BY <1>2, <1>7, <1>8, OpenedFields
<1>11. /\ o \in BooksType /\ o.resv = rs
       /\ o.period[p] = ps[p] /\ o.period[n] = new
       /\ \A q \in PeriodIds \ {n, p} : o.period[q] = ps[q]
  BY <1>2, <1>9, <1>10
<1>12. /\ \A q \in PeriodIds : q # n => o.ledger[q] = b.ledger[q]
       /\ o.ledger[n].allowance = b.ledger[n].allowance + b.period[p].allowance
       /\ o.ledger[n].holds = b.ledger[n].holds
       /\ o.ledger[n].charges = b.ledger[n].charges
       /\ o.ledger[n].reconciled = b.ledger[n].reconciled
       /\ o.ledger[n].adjustments = b.ledger[n].adjustments
  BY <1>8, <1>9, <1>10
<1>13. o.carried = cs
  BY <1>9, <1>10
<1>14. \A q \in PeriodIds \ {n, p} : o.period[q] = b.period[q]
  BY <1>4, <1>11
<1>15. o.period[p] = [b.period[p] EXCEPT !.status = "closed", !.reserved = 0]
  BY <1>4, <1>11
<1>16. QED
  BY <1>6, <1>11, <1>12, <1>13, <1>14, <1>15 DEF rs, new, o, RolledTo

(* Rolling keeps the books in order: every hold of p moves to n, and       *)
(* reserved moves with it.                                                 *)
LEMMA RolledInv ==
  ASSUME NEW b, BooksInv(b), NEW u \in Users, NEW p \in CurrentOf(b.period, u),
         NEW n \in Fresh(b.period), NEW reset \in {"later", "due"}
  PROVE  Continues(b, u, Rolled(b, p, n, reset), n)
<1> DEFINE carry == b.period[p].reserved
           held  == HeldIn(b.resv, p)
           o     == Rolled(b, p, n, reset)
<1>0. /\ b \in BooksType /\ n \in PeriodIds /\ b.period[n].status = "unused"
      /\ p \in PeriodIds /\ n # p /\ b.period[p].status = "current" /\ b.period[p].user = u
  BY DEF Fresh, BooksInv, CurrentOf
<1>a. /\ b.period \in [PeriodIds -> Period] /\ b.resv \in [ReservationIds -> Reservation]
      /\ b.ledger \in [PeriodIds -> RowSums] /\ b.carried \in [PeriodIds -> Int]
  BY <1>0 DEF BooksType
<1>b. b.period[p].user \in Users
  BY <1>0
<1>r. RolledTo(b, p, n, reset, o)
  BY <1>0, <1>b, RolledFields, Zenon
<1>1. /\ o \in BooksType
      /\ o.period[p] = [b.period[p] EXCEPT !.status = "closed", !.reserved = 0]
      /\ o.period[n] = NewPeriod(b.period[p].user, b.period[p].allowance, reset, carry)
      /\ \A q \in PeriodIds \ {n, p} : o.period[q] = b.period[q]
  BY <1>r, Zenon DEF RolledTo
<1>2. o.resv = [r \in ReservationIds |-> IF r \in held THEN [b.resv[r] EXCEPT !.period = n]
                                                      ELSE b.resv[r]]
  BY <1>r, Zenon DEF RolledTo
<1>3. /\ \A q \in PeriodIds : q # n => o.ledger[q] = b.ledger[q]
      /\ o.ledger[n].allowance = b.ledger[n].allowance + b.period[p].allowance
      /\ o.ledger[n].holds = b.ledger[n].holds
      /\ o.ledger[n].charges = b.ledger[n].charges
      /\ o.ledger[n].reconciled = b.ledger[n].reconciled
      /\ o.ledger[n].adjustments = b.ledger[n].adjustments
  BY <1>r, Zenon DEF RolledTo
<1>4. /\ o.carried[p] = b.carried[p] - carry
      /\ o.carried[n] = b.carried[n] + carry
      /\ \A q \in PeriodIds \ {n, p} : o.carried[q] = b.carried[q]
  BY <1>r, Zenon DEF RolledTo
<1> HIDE DEF carry, held, o
<1>5. /\ o.period[p].status = "closed" /\ o.period[p].reserved = 0
      /\ o.period[p].allowance = b.period[p].allowance
      /\ o.period[p].consumed = b.period[p].consumed
      /\ o.period[n].status = "current" /\ o.period[n].user = u
      /\ o.period[n].reserved = carry /\ o.period[n].consumed = 0
      /\ o.period[n].allowance = b.period[p].allowance
  BY <1>0, <1>a, <1>1 DEF Period, NewPeriod
<1>c. \A q \in PeriodIds : q = n \/ q = p \/ o.period[q] = b.period[q]
  BY <1>1
<1>6. OneCurrent(o)
  <2> SUFFICES ASSUME NEW q \in PeriodIds, NEW s \in PeriodIds,
                      o.period[q].status = "current", o.period[s].status = "current",
                      o.period[q].user = o.period[s].user
               PROVE  q = s
    BY DEF OneCurrent
  <2>1. OneCurrent(b)
    BY DEF BooksInv
  <2>2. q # p /\ s # p
    BY <1>5
  <2>3. q # n => b.period[q].status = "current" /\ b.period[q].user # u
    BY <1>0, <1>c, <2>1, <2>2 DEF OneCurrent
  <2>4. s # n => b.period[s].status = "current" /\ b.period[s].user # u
    BY <1>0, <1>c, <2>1, <2>2 DEF OneCurrent
  <2>5. CASE q = n \/ s = n
    BY <1>5, <1>c, <2>2, <2>3, <2>4, <2>5
  <2>6. CASE q # n /\ s # n
    <3>1. o.period[q] = b.period[q] /\ o.period[s] = b.period[s]
      BY <1>c, <2>2, <2>6
    <3>2. QED
      BY <2>1, <3>1 DEF OneCurrent
  <2>7. QED
    BY <2>5, <2>6
<1>7. \A r \in ReservationIds :
        /\ r \in held => o.resv[r] = [b.resv[r] EXCEPT !.period = n]
        /\ r \notin held => o.resv[r] = b.resv[r]
  BY <1>2
<1>8. ASSUME NEW r \in ReservationIds
      PROVE  /\ r \in held => o.resv[r].period = n
             /\ r \notin held => o.resv[r].period = b.resv[r].period
             /\ o.resv[r].status = b.resv[r].status
             /\ o.resv[r].user = b.resv[r].user
             /\ o.resv[r].amount = b.resv[r].amount
  <2>1. b.resv[r] \in Reservation
    BY <1>a
  <2>2. CASE r \in held
    BY <2>1, <2>2, <1>7 DEF Reservation
  <2>3. CASE r \notin held
    BY <2>3, <1>7
  <2>4. QED
    BY <2>2, <2>3
<1>9. \A r \in held : b.resv[r].user = u
  BY <1>0 DEF held, HeldIn, BooksInv, HeldCurrent
<1>10. HeldCurrent(o)
  <2> SUFFICES ASSUME NEW r \in ReservationIds, b.resv[r].status \in HeldStatuses
               PROVE  /\ o.resv[r].period \in PeriodIds
                      /\ o.period[o.resv[r].period].status = "current"
                      /\ o.period[o.resv[r].period].user = o.resv[r].user
    BY <1>8 DEF HeldCurrent
  <2>1. CASE r \in held
    BY <2>1, <1>0, <1>5, <1>8, <1>9
  <2>2. CASE r \notin held
    <3>1. /\ b.resv[r].period \in PeriodIds \ {n, p}
          /\ b.period[b.resv[r].period].status = "current"
          /\ b.period[b.resv[r].period].user = b.resv[r].user
      BY <2>2, <1>0 DEF held, HeldIn, BooksInv, HeldCurrent
    <3>2. QED
      BY <2>2, <3>1, <1>1, <1>8
  <2>3. QED
    BY <2>1, <2>2
<1>11. HeldIn(b.resv, n) = {}
  BY <1>0 DEF HeldIn, BooksInv, HeldCurrent
<1>12. Backed(o)
  <2>1. HeldIn(o.resv, n) = held /\ HeldIn(o.resv, p) = {}
    BY <1>0, <1>8, <1>11 DEF HeldIn, held
  <2>2. \A r \in ReservationIds : AmountOf(o.resv)[r] = AmountOf(b.resv)[r]
    BY <1>8 DEF AmountOf
  <2>3. Held(o.resv, n) = carry
    <3>1. held \subseteq ReservationIds
      BY DEF held, HeldIn
    <3>2. Total(AmountOf(o.resv), held) = Total(AmountOf(b.resv), held)
      BY <2>2, <3>1, TotalAgree, Zenon
    <3>3. Total(AmountOf(b.resv), held) = carry
      BY <1>0 DEF carry, held, BooksInv, Backed, Held
    <3>4. QED
      BY <2>1, <3>2, <3>3 DEF Held
  <2>4. Held(o.resv, p) = 0
    BY <2>1, TotalEmpty, Zenon DEF Held
  <2>5. ASSUME NEW q \in PeriodIds \ {n, p}
        PROVE  o.period[q].reserved = Held(o.resv, q)
    <3>1. HeldIn(o.resv, q) = HeldIn(b.resv, q)
      BY <1>8 DEF HeldIn, held
    <3>2. HeldIn(b.resv, q) \subseteq ReservationIds
      BY DEF HeldIn
    <3>3. Total(AmountOf(o.resv), HeldIn(b.resv, q)) = Total(AmountOf(b.resv), HeldIn(b.resv, q))
      BY <2>2, <3>2, TotalAgree, Zenon
    <3>4. b.period[q].reserved = Total(AmountOf(b.resv), HeldIn(b.resv, q))
      BY DEF BooksInv, Backed, Held
    <3>5. o.period[q] = b.period[q]
      BY <1>1
    <3>6. QED
      BY <3>1, <3>3, <3>4, <3>5 DEF Held
  <2>6. QED
    BY <1>5, <2>3, <2>4, <2>5 DEF Backed
<1>13. Explained(o)
  <2>1. ExplainedAt(b, n) /\ ExplainedAt(b, p)
    BY <1>0 DEF BooksInv, Explained
  <2>2. b.period[n].allowance = 0 /\ b.period[n].consumed = 0 /\ b.period[n].reserved = 0
    BY <1>0 DEF BooksInv, Blank
  <2>3. /\ b.ledger[n] \in RowSums /\ b.carried[n] \in Int /\ b.carried[p] \in Int
        /\ b.ledger[p] \in RowSums /\ b.period[p] \in Period /\ carry \in Nat
    BY <1>0, <1>a DEF carry, Period
  <2>4. ExplainedAt(o, n)
    <3>a. /\ b.ledger[n].allowance \in Int /\ b.ledger[n].holds \in Int
          /\ b.ledger[n].charges \in Int /\ b.ledger[n].reconciled \in Int
          /\ b.ledger[n].adjustments \in Int
      BY <2>3 DEF RowSums
    <3>b. /\ b.ledger[n].allowance = 0
          /\ 0 = -(b.ledger[n].charges + b.ledger[n].reconciled + b.ledger[n].adjustments)
          /\ 0 = b.carried[n] - b.ledger[n].holds
      BY <2>1, <2>2 DEF ExplainedAt
    <3>1. /\ b.ledger[n].allowance = 0
          /\ b.ledger[n].charges + b.ledger[n].reconciled + b.ledger[n].adjustments = 0
          /\ b.ledger[n].holds = b.carried[n]
      BY <3>a, <3>b, <2>3
    <3>2. b.period[p].allowance \in Int
      BY <2>3 DEF Period
    <3>3. o.period[n].allowance = o.ledger[n].allowance
      BY <1>3, <1>5, <3>1, <3>2
    <3>4. o.period[n].consumed =
            -(o.ledger[n].charges + o.ledger[n].reconciled + o.ledger[n].adjustments)
      BY <1>3, <1>5, <3>1
    <3>5. o.period[n].reserved = o.carried[n] - o.ledger[n].holds
      BY <1>3, <1>4, <1>5, <3>1, <2>3
    <3>6. QED
      BY <3>3, <3>4, <3>5 DEF ExplainedAt
  <2>5. ExplainedAt(o, p)
    BY <1>0, <1>3, <1>4, <1>5, <2>1, <2>3 DEF ExplainedAt, RowSums, Period, carry
  <2>6. \A q \in PeriodIds \ {n, p} : ExplainedAt(o, q)
    BY <1>1, <1>3, <1>4 DEF BooksInv, Explained, ExplainedAt
  <2>7. QED
    BY <2>4, <2>5, <2>6 DEF Explained
<1>14. Placed(o)
  <2>1. Placed(b)
    BY DEF BooksInv
  <2>2. QED
    BY <1>0, <1>5, <1>8, <1>c, <2>1 DEF Placed
<1>15. Blank(o)
  <2>1. Blank(b)
    BY DEF BooksInv
  <2>2. QED
    BY <1>5, <1>c, <2>1 DEF Blank
<1>16. n \in CurrentOf(o.period, u) /\ SameCharges(b, o)
  BY <1>0, <1>3, <1>5 DEF CurrentOf, SameCharges
<1>17. \A r \in ReservationIds : b.resv[r].status = "unused" => o.resv[r] = b.resv[r]
  BY <1>7 DEF held, HeldIn, HeldStatuses
<1>18. BooksInv(o)
  BY <1>1, <1>6, <1>10, <1>12, <1>13, <1>14, <1>15, Zenon DEF BooksInv
<1>19. QED
  BY <1>16, <1>17, <1>18 DEF o, Continues, UnusedKept

(* ensureCurrentPeriod keeps the books in order, whichever way it goes.    *)
LEMMA EnsuredInv ==
  ASSUME NEW b, BooksInv(b), NEW u \in Users, NEW a \in Int, NEW C \in SUBSET Cadences,
         NEW e \in EnsuredWith(b, u, a, C)
  PROVE  Continues(b, u, e[1], e[2])
<1>1. CASE CurrentOf(b.period, u) = {}
  <2>1. PICK n \in Fresh(b.period), c \in C :
          e = <<Opened(b, n, NewPeriod(u, a, FirstReset(c), 0)), n>>
    BY <1>1 DEF EnsuredWith
  <2> DEFINE new == NewPeriod(u, a, FirstReset(c), 0)
  <2>2. /\ new \in Period /\ new.user = u /\ new.status = "current"
        /\ new.consumed = 0 /\ new.reserved = 0
    BY DEF NewPeriod, FirstReset, Period
  <2> HIDE DEF new
  <2>3. e[1] = Opened(b, n, new) /\ e[2] = n
    BY <2>1 DEF new
  <2>4. Continues(b, u, Opened(b, n, new), n)
    BY <1>1, <2>2, OpenedInv
  <2>5. QED
    BY <2>3, <2>4
<1>2. CASE CurrentOf(b.period, u) # {}
  <2>1. PICK p \in CurrentOf(b.period, u) :
          e \in IF b.period[p].reset = "due"
                THEN {<<Rolled(b, p, n, reset), n>> :
                        n \in Fresh(b.period), reset \in {"later", "due"}}
                ELSE {<<b, p>>}
    BY <1>2 DEF EnsuredWith
  <2>2. CASE b.period[p].reset = "due"
    <3>1. PICK n \in Fresh(b.period), reset \in {"later", "due"} :
            e = <<Rolled(b, p, n, reset), n>>
      BY <2>1, <2>2
    <3>2. e[1] = Rolled(b, p, n, reset) /\ e[2] = n
      BY <3>1
    <3>3. Continues(b, u, Rolled(b, p, n, reset), n)
      BY RolledInv
    <3>4. QED
      BY <3>2, <3>3
  <2>3. CASE b.period[p].reset # "due"
    <3>1. e[1] = b /\ e[2] = p
      BY <2>1, <2>3
    <3>2. QED
      BY <3>1 DEF Continues, UnusedKept, SameCharges
  <2>4. QED
    BY <2>2, <2>3
<1>3. QED
  BY <1>1, <1>2

(* Only period p's figures change, none of them held.                      *)
Adjusting(b, c, p) ==
  /\ c \in BooksType
  /\ \A q \in PeriodIds \ {p} : c.period[q] = b.period[q] /\ c.ledger[q] = b.ledger[q]
  /\ c.resv = b.resv
  /\ c.carried = b.carried
  /\ c.period[p].status = b.period[p].status /\ b.period[p].status # "unused"
  /\ c.period[p].user = b.period[p].user
  /\ c.period[p].reserved = b.period[p].reserved
  /\ ExplainedAt(c, p)

(* A change of one period's figures that its row explains and that leaves  *)
(* its holds alone keeps the books in order.                               *)
LEMMA Adjusted ==
  ASSUME NEW b, BooksInv(b), NEW p \in PeriodIds, NEW c, Adjusting(b, c, p)
  PROVE  BooksInv(c)
<1>1. \A q \in PeriodIds : /\ c.period[q].status = b.period[q].status
                           /\ c.period[q].user = b.period[q].user
                           /\ c.period[q].reserved = b.period[q].reserved
                           /\ q # p => c.period[q] = b.period[q] /\ c.ledger[q] = b.ledger[q]
  BY DEF Adjusting
<1>2. c \in BooksType /\ c.resv = b.resv /\ c.carried = b.carried
  BY DEF Adjusting
<1>3. OneCurrent(c)
  BY <1>1 DEF BooksInv, OneCurrent
<1>4. HeldCurrent(c)
  BY <1>1, <1>2 DEF BooksInv, HeldCurrent
<1>5. Backed(c)
  BY <1>1, <1>2 DEF BooksInv, Backed
<1>6. Explained(c)
  <2>1. ExplainedAt(c, p)
    BY DEF Adjusting
  <2>2. \A q \in PeriodIds : ExplainedAt(b, q)
    BY DEF BooksInv, Explained
  <2>3. QED
    BY <1>1, <1>2, <2>1, <2>2 DEF Explained, ExplainedAt
<1>7. Placed(c)
  BY <1>1, <1>2 DEF BooksInv, Placed
<1>8. Blank(c)
  <2>1. Blank(b) /\ b.period[p].status # "unused"
    BY DEF BooksInv, Adjusting
  <2>2. QED
    BY <1>1, <2>1 DEF Blank
<1>9. QED
  BY <1>2, <1>3, <1>4, <1>5, <1>6, <1>7, <1>8, Zenon DEF BooksInv

(* Reservation r and the period p it belongs to change together, reserved  *)
(* by as much as what r holds.                                             *)
Posting(b, c, r, p) ==
  /\ c \in BooksType
  /\ \A q \in PeriodIds \ {p} : c.period[q] = b.period[q] /\ c.ledger[q] = b.ledger[q]
  /\ \A s \in ReservationIds \ {r} : c.resv[s] = b.resv[s]
  /\ c.carried = b.carried
  /\ c.period[p].status = b.period[p].status /\ b.period[p].status # "unused"
  /\ c.period[p].user = b.period[p].user
  /\ b.resv[r].status \in HeldStatuses => b.resv[r].period = p
  /\ c.resv[r].status # "unused" => c.resv[r].period = p
  /\ c.resv[r].status \in HeldStatuses =>
       c.period[p].status = "current" /\ c.period[p].user = c.resv[r].user
  /\ c.period[p].reserved - b.period[p].reserved
       = HeldBy(c.resv, r, p) - HeldBy(b.resv, r, p)
  /\ ExplainedAt(c, p)

(* A reservation and its period moving by the same amount keep the books in*)
(* order.                                                                  *)
LEMMA Posted ==
  ASSUME NEW b, BooksInv(b), NEW r \in ReservationIds, NEW p \in PeriodIds,
         NEW c, Posting(b, c, r, p)
  PROVE  BooksInv(c)
<1>1. \A q \in PeriodIds : /\ c.period[q].status = b.period[q].status
                           /\ c.period[q].user = b.period[q].user
                           /\ q # p => c.period[q] = b.period[q] /\ c.ledger[q] = b.ledger[q]
  BY DEF Posting
<1>2. /\ c \in BooksType /\ b \in BooksType /\ c.carried = b.carried
      /\ \A s \in ReservationIds : s # r => c.resv[s] = b.resv[s]
      /\ c.resv[r].status # "unused" => c.resv[r].period = p
  BY DEF Posting, BooksInv
<1>3. OneCurrent(c)
  BY <1>1 DEF BooksInv, OneCurrent
<1>4. HeldCurrent(c)
  <2> SUFFICES ASSUME NEW s \in ReservationIds, c.resv[s].status \in HeldStatuses
               PROVE  /\ c.resv[s].period \in PeriodIds
                      /\ c.period[c.resv[s].period].status = "current"
                      /\ c.period[c.resv[s].period].user = c.resv[s].user
    BY DEF HeldCurrent
  <2>1. CASE s = r
    BY <2>1, <1>2 DEF Posting, HeldStatuses
  <2>2. CASE s # r
    BY <2>2, <1>1, <1>2, SMTT(30) DEF BooksInv, HeldCurrent
  <2>3. QED
    BY <2>1, <2>2
<1>5. Backed(c)
  <2> SUFFICES ASSUME NEW q \in PeriodIds
               PROVE  c.period[q].reserved = Held(c.resv, q)
    BY DEF Backed
  <2>1. /\ b.resv \in [ReservationIds -> Reservation] /\ c.resv \in [ReservationIds -> Reservation]
        /\ b.period \in [PeriodIds -> Period] /\ c.period \in [PeriodIds -> Period]
    BY <1>2 DEF BooksType
  <2>2. /\ b.period[q].reserved \in Nat /\ c.period[q].reserved \in Nat
        /\ HeldBy(b.resv, r, q) \in Nat /\ HeldBy(c.resv, r, q) \in Nat
        /\ Held(b.resv, q) \in Nat /\ Held(c.resv, q) \in Nat
    BY <2>1, HeldType DEF Period, Reservation, HeldBy
  <2>3. Held(c.resv, q) - HeldBy(c.resv, r, q) = Held(b.resv, q) - HeldBy(b.resv, r, q)
    BY <1>2, <2>1, HeldChange
  <2>4. b.period[q].reserved = Held(b.resv, q)
    BY DEF BooksInv, Backed
  <2>5. c.period[q].reserved - b.period[q].reserved
          = HeldBy(c.resv, r, q) - HeldBy(b.resv, r, q)
    <3>1. CASE q = p
      BY <3>1 DEF Posting
    <3>2. CASE q # p
      <4>1. HeldBy(b.resv, r, q) = 0 /\ HeldBy(c.resv, r, q) = 0
        BY <3>2 DEF Posting, HeldBy, HeldStatuses
      <4>2. QED
        BY <3>2, <4>1, <1>1, <2>2
    <3>3. QED
      BY <3>1, <3>2
  <2>6. QED
    BY <2>2, <2>3, <2>4, <2>5
<1>6. Explained(c)
  <2>1. ExplainedAt(c, p)
    BY DEF Posting
  <2>2. \A q \in PeriodIds : ExplainedAt(b, q)
    BY DEF BooksInv, Explained
  <2>3. QED
    BY <1>1, <1>2, <2>1, <2>2 DEF Explained, ExplainedAt
<1>7. Placed(c)
  <2>1. Placed(b) /\ b.period[p].status # "unused"
    BY DEF BooksInv, Posting
  <2>2. QED
    BY <1>1, <1>2, <2>1 DEF Placed
<1>8. Blank(c)
  <2>1. Blank(b) /\ b.period[p].status # "unused"
    BY DEF BooksInv, Posting
  <2>2. QED
    BY <1>1, <2>1 DEF Blank
<1>9. QED
  BY <1>2, <1>3, <1>4, <1>5, <1>6, <1>7, <1>8, Zenon DEF BooksInv

(* Recovering lapsed holds gives each period back exactly what they held.  *)
LEMMA RecoveredInv ==
  ASSUME NEW b, BooksInv(b), NEW S \in SUBSET Lapsed(b.resv)
  PROVE  LET c == Recovered(b, S) IN
         BooksInv(c) /\ SameCharges(b, c) /\ UnusedKept(b, c)
<1> DEFINE F(p) == {r \in S : b.resv[r].period = p}
           freed(p) == Total(AmountOf(b.resv), F(p))
           ps == [p \in PeriodIds |->
                    [b.period[p] EXCEPT !.reserved = AtLeastZero(@ - freed(p))]]
           rs == [r \in ReservationIds |->
                    IF r \in S THEN Closed(b.resv[r], "expired") ELSE b.resv[r]]
           ls == [p \in PeriodIds |-> [b.ledger[p] EXCEPT !.holds = @ + freed(p)]]
           c  == [b EXCEPT !.period = ps, !.resv = rs, !.ledger = ls]
<1>1. /\ b \in BooksType
      /\ b.period \in [PeriodIds -> Period] /\ b.resv \in [ReservationIds -> Reservation]
      /\ b.ledger \in [PeriodIds -> RowSums] /\ b.carried \in [PeriodIds -> Int]
  BY DEF BooksInv, BooksType
<1>2. S \subseteq ReservationIds /\ \A r \in S : b.resv[r].status = "open"
  BY DEF Lapsed
<1>3. \A r \in ReservationIds : AmountOf(b.resv)[r] = b.resv[r].amount
  BY DEF AmountOf
<1>4. ASSUME NEW p \in PeriodIds
      PROVE  /\ freed(p) \in Nat
             /\ b.period[p].reserved = Total(AmountOf(b.resv), HeldIn(b.resv, p) \ F(p)) + freed(p)
             /\ Total(AmountOf(b.resv), HeldIn(b.resv, p) \ F(p)) \in Nat
  <2> DEFINE H == HeldIn(b.resv, p)
  <2>1. /\ F(p) \in SUBSET ReservationIds /\ H \ F(p) \in SUBSET ReservationIds
        /\ H \in SUBSET ReservationIds
        /\ F(p) \subseteq H
    BY <1>2 DEF HeldIn, HeldStatuses
  <2>2. H = (H \ F(p)) \cup F(p) /\ (H \ F(p)) \cap F(p) = {}
    BY <2>1
  <2>3. /\ IsFiniteSet(H \ F(p)) /\ IsFiniteSet(F(p))
        /\ \A r \in (H \ F(p)) \cup F(p) : AmountOf(b.resv)[r] \in Nat
        /\ \A r \in H \ F(p) : AmountOf(b.resv)[r] \in Nat
        /\ \A r \in F(p) : AmountOf(b.resv)[r] \in Nat
    BY <1>1, <2>1, <2>2, HoldsFinite, Zenon
  <2> HIDE DEF F, H
  <2>4. Total(AmountOf(b.resv), (H \ F(p)) \cup F(p))
          = Total(AmountOf(b.resv), H \ F(p)) + Total(AmountOf(b.resv), F(p))
    BY <2>2, <2>3, TotalDisjoint, Zenon
  <2>5. Total(AmountOf(b.resv), F(p)) \in Nat /\ Total(AmountOf(b.resv), H \ F(p)) \in Nat
    BY <2>3, TotalType, Zenon
  <2>6. b.period[p].reserved = Total(AmountOf(b.resv), H)
    BY DEF BooksInv, Backed, Held, H
  <2>7. QED
    BY <2>2, <2>4, <2>5, <2>6 DEF H
<1> HIDE DEF freed
<1>b. ASSUME NEW p \in PeriodIds
      PROVE  /\ freed(p) \in Nat /\ b.period[p].reserved \in Nat
             /\ freed(p) <= b.period[p].reserved
  <2>1. PICK t \in Nat : b.period[p].reserved = t + freed(p)
    BY <1>4, Zenon
  <2>2. freed(p) \in Nat
    BY <1>4, Zenon
  <2>3. QED
    BY <2>1, <2>2
<1>5. ASSUME NEW p \in PeriodIds
      PROVE  /\ ps[p] \in Period /\ ls[p] \in RowSums
             /\ ps[p].reserved = b.period[p].reserved - freed(p)
             /\ ps[p].user = b.period[p].user /\ ps[p].status = b.period[p].status
             /\ ps[p].allowance = b.period[p].allowance /\ ps[p].consumed = b.period[p].consumed
             /\ ls[p].holds = b.ledger[p].holds + freed(p)
             /\ ls[p].charges = b.ledger[p].charges /\ ls[p].allowance = b.ledger[p].allowance
             /\ ls[p].reconciled = b.ledger[p].reconciled
             /\ ls[p].adjustments = b.ledger[p].adjustments
  <2>1. b.period[p] \in Period /\ b.ledger[p] \in RowSums
    BY <1>1
  <2>2. /\ b.period[p].reserved - freed(p) \in Nat
        /\ AtLeastZero(b.period[p].reserved - freed(p)) = b.period[p].reserved - freed(p)
    BY <1>b DEF AtLeastZero
  <2>3. /\ ps[p] = [b.period[p] EXCEPT !.reserved = b.period[p].reserved - freed(p)]
        /\ ls[p] = [b.ledger[p] EXCEPT !.holds = @ + freed(p)]
    BY <2>2
  <2>4. freed(p) \in Nat
    BY <1>4
  <2> HIDE DEF ps, ls
  <2>5. QED
    BY <2>1, <2>2, <2>3, <2>4 DEF Period, RowSums
<1>6. ASSUME NEW r \in ReservationIds
      PROVE  /\ rs[r] \in Reservation
             /\ r \in S => rs[r].status = "expired"
             /\ r \notin S => rs[r] = b.resv[r]
             /\ rs[r].period = b.resv[r].period /\ rs[r].user = b.resv[r].user
  <2>1. b.resv[r] \in Reservation
    BY <1>1
  <2>2. CASE r \in S
    <3>1. rs[r] = Closed(b.resv[r], "expired")
      BY <2>2
    <3> HIDE DEF rs
    <3>2. rs[r] = [b.resv[r] EXCEPT !.amount = 0, !.status = "expired", !.lapsed = FALSE]
      BY <3>1 DEF Closed
    <3>3. /\ rs[r].status = "expired" /\ rs[r].period = b.resv[r].period
          /\ rs[r].user = b.resv[r].user
      BY <2>1, <3>2 DEF Reservation
    <3>4. rs[r] \in Reservation
      <4> DEFINE v == b.resv[r]
      <4>1. v \in Reservation
        BY <2>1
      <4> HIDE DEF v
      <4>2. [v EXCEPT !.amount = 0, !.status = "expired", !.lapsed = FALSE] \in Reservation
        BY <4>1 DEF Reservation
      <4>3. QED
        BY <3>2, <4>2 DEF v
    <3>5. QED
      BY <2>2, <3>3, <3>4
  <2>3. CASE r \notin S
    BY <2>1, <2>3
  <2>4. QED
    BY <2>2, <2>3
<1>7. ps \in [PeriodIds -> Period] /\ rs \in [ReservationIds -> Reservation]
      /\ ls \in [PeriodIds -> RowSums]
  BY <1>5, <1>6
<1>8. c = Recovered(b, S)
  BY DEF Recovered, freed
<1> HIDE DEF ps, rs, ls
<1>9. /\ c \in BooksType /\ c.period = ps /\ c.resv = rs /\ c.ledger = ls
      /\ c.carried = b.carried
  BY <1>1, <1>7 DEF BooksType
<1> HIDE DEF c
<1>10. OneCurrent(c)
  BY <1>5, <1>9 DEF BooksInv, OneCurrent
<1>11. HeldCurrent(c)
  BY <1>5, <1>6, <1>9 DEF BooksInv, HeldCurrent, HeldStatuses
<1>12. Backed(c)
  <2> SUFFICES ASSUME NEW p \in PeriodIds
               PROVE  ps[p].reserved = Held(rs, p)
    BY <1>9 DEF Backed
  <2>1. HeldIn(rs, p) = HeldIn(b.resv, p) \ F(p)
    BY <1>2, <1>6 DEF HeldIn, HeldStatuses
  <2>2. \A r \in HeldIn(b.resv, p) \ F(p) : AmountOf(rs)[r] = AmountOf(b.resv)[r]
    BY <1>6 DEF AmountOf, HeldIn
  <2> HIDE DEF F
  <2>3. Total(AmountOf(rs), HeldIn(b.resv, p) \ F(p))
          = Total(AmountOf(b.resv), HeldIn(b.resv, p) \ F(p))
    BY <2>2, TotalAgree, Zenon
  <2>4. Held(rs, p) = Total(AmountOf(b.resv), HeldIn(b.resv, p) \ F(p))
    BY <2>1, <2>3 DEF Held
  <2>5. QED
    BY <2>4, <1>4, <1>5
<1>13. Explained(c)
  <2> SUFFICES ASSUME NEW p \in PeriodIds
               PROVE  ExplainedAt(c, p)
    BY DEF Explained
  <2>1. ExplainedAt(b, p)
    BY DEF BooksInv, Explained
  <2>2. /\ b.carried[p] \in Int /\ b.ledger[p].holds \in Int /\ freed(p) \in Nat
    BY <1>1, <1>4 DEF RowSums
  <2>3. QED
    BY <1>5, <1>9, <2>1, <2>2 DEF ExplainedAt
<1>14. Placed(c)
  BY <1>2, <1>5, <1>6, <1>9 DEF BooksInv, Placed
<1>15. Blank(c)
  <2>1. ASSUME NEW p \in PeriodIds, b.period[p].status = "unused"
        PROVE  freed(p) = 0
    BY <2>1, <1>b DEF BooksInv, Blank
  <2>2. QED
    BY <2>1, <1>5, <1>9 DEF BooksInv, Blank
<1>16. SameCharges(b, c) /\ UnusedKept(b, c)
  BY <1>2, <1>5, <1>6, <1>9 DEF SameCharges, UnusedKept
<1>17. BooksInv(c)
  BY <1>9, <1>10, <1>11, <1>12, <1>13, <1>14, <1>15, Zenon DEF BooksInv
<1>18. QED
  BY <1>8, <1>16, <1>17

(* Holding x more for an open reservation of the period's owner.           *)
LEMMA HoldingInv ==
  ASSUME NEW b, BooksInv(b), NEW r \in ReservationIds, NEW p \in PeriodIds, NEW x \in Nat,
         NEW v \in Reservation, b.period[p].status = "current",
         v.status = "open", v.period = p, v.user = b.period[p].user,
         b.resv[r].status \in HeldStatuses => b.resv[r].period = p,
         v.amount = HeldBy(b.resv, r, p) + x
  PROVE  BooksInv(Holding(b, r, p, x, v)) /\ SameCharges(b, Holding(b, r, p, x, v))
<1> DEFINE c == Holding(b, r, p, x, v)
<1>1. /\ b \in BooksType
      /\ b.period \in [PeriodIds -> Period] /\ b.resv \in [ReservationIds -> Reservation]
      /\ b.ledger \in [PeriodIds -> RowSums] /\ b.carried \in [PeriodIds -> Int]
  BY DEF BooksInv, BooksType
<1>2. /\ c.period = [b.period EXCEPT ![p].reserved = @ + x]
      /\ c.resv = [b.resv EXCEPT ![r] = v]
      /\ c.ledger = [b.ledger EXCEPT ![p].holds = @ - x]
      /\ c.carried = b.carried
      /\ c = [b EXCEPT !.period = c.period, !.resv = c.resv, !.ledger = c.ledger]
  BY <1>1 DEF Holding, BooksType
<1> HIDE DEF c
<1>3. /\ c.period \in [PeriodIds -> Period]
      /\ c.resv \in [ReservationIds -> Reservation]
      /\ c.ledger \in [PeriodIds -> RowSums]
  <2>1. b.period[p] \in Period /\ b.ledger[p] \in RowSums
    BY <1>1
  <2>2. [b.period[p] EXCEPT !.reserved = @ + x] \in Period
    BY <2>1 DEF Period
  <2>3. [b.ledger[p] EXCEPT !.holds = @ - x] \in RowSums
    BY <2>1 DEF RowSums
  <2>4. QED
    BY <1>1, <1>2, <2>2, <2>3
<1>4. c \in BooksType
  BY <1>1, <1>2, <1>3 DEF BooksType
<1>5. /\ c.period[p].reserved = b.period[p].reserved + x
      /\ c.period[p].status = "current" /\ c.period[p].user = b.period[p].user
      /\ c.period[p].allowance = b.period[p].allowance
      /\ c.period[p].consumed = b.period[p].consumed
      /\ c.ledger[p].holds = b.ledger[p].holds - x
      /\ c.ledger[p].charges = b.ledger[p].charges
      /\ c.ledger[p].allowance = b.ledger[p].allowance
      /\ c.ledger[p].reconciled = b.ledger[p].reconciled
      /\ c.ledger[p].adjustments = b.ledger[p].adjustments
      /\ c.resv[r] = v
  BY <1>1, <1>2 DEF Period, RowSums
<1>6. /\ \A q \in PeriodIds \ {p} : c.period[q] = b.period[q] /\ c.ledger[q] = b.ledger[q]
      /\ \A s \in ReservationIds \ {r} : c.resv[s] = b.resv[s]
  BY <1>1, <1>2
<1>7. /\ b.period[p].reserved \in Nat /\ b.carried[p] \in Int /\ b.ledger[p].holds \in Int
      /\ HeldBy(b.resv, r, p) \in Nat
  BY <1>1 DEF Period, RowSums, Reservation, HeldBy
<1>8. ExplainedAt(c, p)
  <2>1. ExplainedAt(b, p)
    BY DEF BooksInv, Explained
  <2>2. QED
    BY <1>2, <1>5, <1>7, <2>1 DEF ExplainedAt
<1>9. HeldBy(c.resv, r, p) = v.amount
  BY <1>5 DEF HeldBy, HeldStatuses
<1>10. Posting(b, c, r, p)
  BY <1>2, <1>4, <1>5, <1>6, <1>7, <1>8, <1>9 DEF Posting
<1>11. SameCharges(b, c)
  BY <1>5, <1>6 DEF SameCharges
<1>12. QED
  BY <1>10, <1>11, Posted DEF c

-----------------------------------------------------------------------------
(* The inductive invariant.                                                *)

(* A key not recorded yet names no period and charges nothing.                                *)
Unrecorded ==
  \A k \in CallKeys :
    call[k].status = "unused" => call[k].period = "nowhere" /\ call[k].charge = 0

IInv ==
  /\ account \in [Users -> Accounts]
  /\ BooksInv(Books)
  /\ call \in [CallKeys -> Call]
  /\ Unrecorded
  /\ ChargedOnce

(* The books at the start are in order.                                    *)
LEMMA InitInv == Init => IInv
<1> SUFFICES ASSUME Init PROVE IInv
  OBVIOUS
<1>1. account \in [Users -> Accounts]
  BY DEF Init
<1>2. call \in [CallKeys -> Call] /\ Unrecorded
  BY DEF Init, Call, Unrecorded
<1>3. ChargedOnce
  <2> SUFFICES ASSUME NEW p \in PeriodIds
               PROVE  -ledger[p].charges = Total(ChargeOf(call), CallsIn(call, p))
    BY DEF ChargedOnce
  <2>1. CallsIn(call, p) = {}
    BY CreditAssumption DEF Init, CallsIn
  <2>2. Total(ChargeOf(call), {}) = 0
    BY TotalEmpty, Zenon
  <2>3. ledger[p].charges = 0
    BY DEF Init
  <2>4. QED
    BY <2>1, <2>2, <2>3
<1>4. \A p \in PeriodIds :
        /\ period[p] \in Period /\ period[p].status = "unused"
        /\ period[p].allowance = 0 /\ period[p].consumed = 0 /\ period[p].reserved = 0
  BY DEF Init, Period
<1>5. \A r \in ReservationIds : resv[r] \in Reservation /\ resv[r].status = "unused"
  BY DEF Init, Reservation
<1>6. \A p \in PeriodIds :
        /\ ledger[p] \in RowSums /\ ledger[p].allowance = 0 /\ ledger[p].holds = 0
        /\ ledger[p].charges = 0 /\ ledger[p].reconciled = 0 /\ ledger[p].adjustments = 0
        /\ carried[p] = 0
  BY DEF Init, RowSums
<1>7. Books \in BooksType
  <2>1. period \in [PeriodIds -> Period] /\ resv \in [ReservationIds -> Reservation]
        /\ ledger \in [PeriodIds -> RowSums] /\ carried \in [PeriodIds -> Int]
    BY <1>4, <1>5, <1>6 DEF Init
  <2>2. QED
    BY <2>1 DEF Books, BooksType
<1>8. Backed(Books)
  <2>1. \A p \in PeriodIds : HeldIn(resv, p) = {}
    BY <1>5 DEF HeldIn, HeldStatuses
  <2>2. Total(AmountOf(resv), {}) = 0
    BY TotalEmpty, Zenon
  <2>3. QED
    BY <1>4, <2>1, <2>2 DEF Backed, Held, Books
<1>9. OneCurrent(Books) /\ HeldCurrent(Books) /\ Placed(Books) /\ Blank(Books)
  BY <1>4, <1>5 DEF OneCurrent, HeldCurrent, Placed, Blank, Books, HeldStatuses
<1>10. Explained(Books)
  BY <1>4, <1>6 DEF Explained, ExplainedAt, Books
<1>11. QED
  BY <1>1, <1>2, <1>3, <1>7, <1>8, <1>9, <1>10 DEF IInv, BooksInv

(* What a transaction saves is the books after it.                         *)
LEMMA SavedBooks ==
  ASSUME NEW c \in BooksType, Save(c)
  PROVE  Books' = c
BY DEF BooksType, Save, Books

(* A transaction that records no provider call keeps the invariant when    *)
(* its books are in order and it writes no charge row.                     *)
LEMMA Uncharged ==
  ASSUME IInv, NEW c, BooksInv(c), SameCharges(Books, c), Save(c), UNCHANGED call,
         account' \in [Users -> Accounts]
  PROVE  IInv'
<1>1. Books' = c
  BY SavedBooks DEF BooksInv
<1>2. BooksInv(Books')
  BY <1>1
<1>3. call' \in [CallKeys -> Call] /\ Unrecorded'
  BY DEF IInv, Unrecorded
<1>4. ChargedOnce'
  <2>1. \A p \in PeriodIds : ledger'[p].charges = ledger[p].charges
    BY DEF SameCharges, Save, Books
  <2>2. QED
    BY <2>1 DEF IInv, ChargedOnce
<1>5. QED
  BY <1>2, <1>3, <1>4 DEF IInv

-----------------------------------------------------------------------------
(* Administration.                                                         *)

(* The books with another record for period p and another row sum.         *)
Rewritten(b, p, pr, row) ==
  [b EXCEPT !.period = [b.period EXCEPT ![p] = pr],
            !.ledger = [b.ledger EXCEPT ![p] = row]]

(* An administrator's change to a period, explained by its row.            *)
LEMMA RewrittenInv ==
  ASSUME NEW b, BooksInv(b), NEW p \in PeriodIds, b.period[p].status # "unused",
         NEW pr \in Period, NEW row \in RowSums,
         pr.status = b.period[p].status, pr.user = b.period[p].user,
         pr.reserved = b.period[p].reserved,
         row.holds = b.ledger[p].holds, row.charges = b.ledger[p].charges,
         pr.allowance = row.allowance,
         pr.consumed = -(row.charges + row.reconciled + row.adjustments)
  PROVE  BooksInv(Rewritten(b, p, pr, row)) /\ SameCharges(b, Rewritten(b, p, pr, row))
<1> DEFINE c == Rewritten(b, p, pr, row)
<1>1. /\ b \in BooksType
      /\ b.period \in [PeriodIds -> Period] /\ b.resv \in [ReservationIds -> Reservation]
      /\ b.ledger \in [PeriodIds -> RowSums] /\ b.carried \in [PeriodIds -> Int]
  BY DEF BooksInv, BooksType
<1>2. /\ c.period = [b.period EXCEPT ![p] = pr]
      /\ c.ledger = [b.ledger EXCEPT ![p] = row]
      /\ c.resv = b.resv /\ c.carried = b.carried
      /\ c \in BooksType
  BY <1>1 DEF BooksType, Rewritten
<1> HIDE DEF c
<1>3. /\ c.period[p] = pr /\ c.ledger[p] = row
      /\ \A q \in PeriodIds \ {p} : c.period[q] = b.period[q] /\ c.ledger[q] = b.ledger[q]
  BY <1>1, <1>2
<1>4. ExplainedAt(c, p)
  <2>1. ExplainedAt(b, p)
    BY DEF BooksInv, Explained
  <2>2. QED
    BY <1>2, <1>3, <2>1 DEF ExplainedAt
<1>5. Adjusting(b, c, p)
  BY <1>2, <1>3, <1>4 DEF Adjusting
<1>6. SameCharges(b, c)
  BY <1>3 DEF SameCharges
<1>7. QED
  BY <1>5, <1>6, Adjusted DEF c

(* What a transaction of u knows of the period it works on.                *)
LEMMA Ongoing ==
  ASSUME NEW b, NEW u, NEW c, NEW p, Continues(b, u, c, p)
  PROVE  /\ BooksInv(c) /\ p \in PeriodIds
         /\ c.period[p].status = "current" /\ c.period[p].user = u
         /\ c.period[p] \in Period /\ c.ledger[p] \in RowSums
         /\ c.period \in [PeriodIds -> Period] /\ c.ledger \in [PeriodIds -> RowSums]
         /\ ExplainedAt(c, p)
BY DEF Continues, CurrentOf, BooksInv, BooksType, Explained

(* The figures of a row and a period are integers.                         *)
LEMMA Figures ==
  ASSUME NEW pr \in Period, NEW row \in RowSums
  PROVE  /\ pr.allowance \in Int /\ pr.consumed \in Int /\ pr.reserved \in Nat
         /\ row.allowance \in Int /\ row.holds \in Int /\ row.charges \in Int
         /\ row.reconciled \in Int /\ row.adjustments \in Int
BY DEF Period, RowSums

(* Writing no charge row twice writes no charge row.                       *)
LEMMA SameChargesTrans ==
  ASSUME NEW b, NEW c, NEW d, SameCharges(b, c), SameCharges(c, d)
  PROVE  SameCharges(b, d)
BY DEF SameCharges

(* initializeUserCredits opens or rolls a period and keeps the invariant.  *)
LEMMA InitializeInv ==
  ASSUME IInv, NEW u \in Users, NEW a \in Allowances, NEW k \in Cadences,
         InitializeUserCredits(u, a, k)
  PROVE  IInv'
<1>1. PICK e \in EnsuredWith(Books, u, a, {k}) : Save(e[1])
  BY DEF InitializeUserCredits
<1>2. a \in Int /\ {k} \in SUBSET Cadences
  BY CreditAssumption
<1>3. Continues(Books, u, e[1], e[2])
  BY <1>2, EnsuredInv DEF IInv
<1>4. QED
  BY <1>1, <1>3, Uncharged DEF Continues, InitializeUserCredits, IInv

(* The first step of most transactions.                                    *)
LEMMA EnsuredBooks ==
  ASSUME NEW b, BooksInv(b), NEW u \in Users, NEW e \in Ensured(b, u)
  PROVE  Continues(b, u, e[1], e[2])
<1>1. e \in EnsuredWith(b, u, 0, Cadences)
  BY DEF Ensured
<1>2. QED
  BY <1>1, EnsuredInv

(* setAllowance keeps the invariant: its row is the change it makes.       *)
LEMMA SetAllowanceInv ==
  ASSUME IInv, NEW u \in Users, NEW a \in Allowances, SetAllowance(u, a)
  PROVE  IInv'
<1>1. PICK e \in Ensured(Books, u) :
        Save([e[1] EXCEPT !.period[e[2]].allowance = a,
                !.ledger[e[2]].allowance = @ + a - e[1].period[e[2]].allowance])
  BY DEF SetAllowance
<1> DEFINE b   == e[1]
           p   == e[2]
           pr  == [b.period[p] EXCEPT !.allowance = a]
           row == [b.ledger[p] EXCEPT !.allowance = @ + a - b.period[p].allowance]
<1>2. Continues(Books, u, b, p)
  BY EnsuredBooks DEF IInv
<1> HIDE DEF b, p
<1>3. /\ BooksInv(b) /\ p \in PeriodIds
      /\ b.period[p].status = "current" /\ b.period[p].user = u
      /\ b.period[p] \in Period /\ b.ledger[p] \in RowSums
      /\ b.period \in [PeriodIds -> Period] /\ b.ledger \in [PeriodIds -> RowSums]
      /\ ExplainedAt(b, p)
  BY <1>2, Ongoing
<1>4. a \in Int /\ b \in BooksType
  BY <1>3, CreditAssumption DEF BooksInv
<1>5. pr \in Period /\ row \in RowSums
  BY <1>3, <1>4, Figures DEF Period, RowSums
<1>6. /\ pr.status = b.period[p].status /\ pr.user = b.period[p].user
      /\ pr.reserved = b.period[p].reserved /\ pr.consumed = b.period[p].consumed
      /\ pr.allowance = a
      /\ row.holds = b.ledger[p].holds /\ row.charges = b.ledger[p].charges
      /\ row.reconciled = b.ledger[p].reconciled /\ row.adjustments = b.ledger[p].adjustments
      /\ row.allowance = b.ledger[p].allowance + a - b.period[p].allowance
  BY <1>3 DEF Period, RowSums
<1>7. row.allowance = a /\ pr.consumed = -(row.charges + row.reconciled + row.adjustments)
  BY <1>3, <1>4, <1>6, Figures DEF ExplainedAt
<1>8. Save(Rewritten(b, p, pr, row))
  BY <1>1, <1>4 DEF Rewritten, b, p, BooksType
<1> HIDE DEF pr, row
<1>9. /\ BooksInv(Rewritten(b, p, pr, row))
      /\ SameCharges(b, Rewritten(b, p, pr, row))
  BY <1>3, <1>5, <1>6, <1>7, RewrittenInv
<1>10. SameCharges(Books, Rewritten(b, p, pr, row))
  BY <1>2, <1>9, SameChargesTrans DEF Continues
<1>11. QED
  BY <1>8, <1>9, <1>10, Uncharged DEF SetAllowance, IInv

(* addCredits keeps the invariant.                                         *)
LEMMA AddCreditsInv ==
  ASSUME IInv, NEW u \in Users, NEW a \in Allowances, AddCredits(u, a)
  PROVE  IInv'
<1>1. PICK e \in Ensured(Books, u) :
        Save([e[1] EXCEPT !.period[e[2]].allowance = @ + a, !.ledger[e[2]].allowance = @ + a])
  BY DEF AddCredits
<1> DEFINE b   == e[1]
           p   == e[2]
           pr  == [b.period[p] EXCEPT !.allowance = @ + a]
           row == [b.ledger[p] EXCEPT !.allowance = @ + a]
<1>2. Continues(Books, u, b, p)
  BY EnsuredBooks DEF IInv
<1> HIDE DEF b, p
<1>3. /\ BooksInv(b) /\ p \in PeriodIds
      /\ b.period[p].status = "current" /\ b.period[p].user = u
      /\ b.period[p] \in Period /\ b.ledger[p] \in RowSums
      /\ b.period \in [PeriodIds -> Period] /\ b.ledger \in [PeriodIds -> RowSums]
      /\ ExplainedAt(b, p)
  BY <1>2, Ongoing
<1>4. a \in Int /\ b \in BooksType
  BY <1>3, CreditAssumption DEF BooksInv
<1>5. pr \in Period /\ row \in RowSums
  BY <1>3, <1>4, Figures DEF Period, RowSums
<1>6. /\ pr.status = b.period[p].status /\ pr.user = b.period[p].user
      /\ pr.reserved = b.period[p].reserved /\ pr.consumed = b.period[p].consumed
      /\ pr.allowance = b.period[p].allowance + a
      /\ row.holds = b.ledger[p].holds /\ row.charges = b.ledger[p].charges
      /\ row.reconciled = b.ledger[p].reconciled /\ row.adjustments = b.ledger[p].adjustments
      /\ row.allowance = b.ledger[p].allowance + a
  BY <1>3 DEF Period, RowSums
<1>7. /\ pr.allowance = row.allowance
      /\ pr.consumed = -(row.charges + row.reconciled + row.adjustments)
  BY <1>3, <1>4, <1>6, Figures DEF ExplainedAt
<1>8. Save(Rewritten(b, p, pr, row))
  BY <1>1, <1>4 DEF Rewritten, b, p, BooksType
<1> HIDE DEF pr, row
<1>9. /\ BooksInv(Rewritten(b, p, pr, row))
      /\ SameCharges(b, Rewritten(b, p, pr, row))
  BY <1>3, <1>5, <1>6, <1>7, RewrittenInv
<1>10. SameCharges(Books, Rewritten(b, p, pr, row))
  BY <1>2, <1>9, SameChargesTrans DEF Continues
<1>11. QED
  BY <1>8, <1>9, <1>10, Uncharged DEF AddCredits, IInv

(* recordAdjustment keeps the invariant: a refund is consumption undone.   *)
LEMMA RecordAdjustmentInv ==
  ASSUME IInv, NEW u \in Users, NEW d \in Adjustments, RecordAdjustment(u, d)
  PROVE  IInv'
<1>1. PICK e \in Ensured(Books, u) :
        Save([e[1] EXCEPT !.period[e[2]].consumed = @ - d,
                          !.ledger[e[2]].adjustments = @ + d])
  BY DEF RecordAdjustment
<1> DEFINE b   == e[1]
           p   == e[2]
           pr  == [b.period[p] EXCEPT !.consumed = @ - d]
           row == [b.ledger[p] EXCEPT !.adjustments = @ + d]
<1>2. Continues(Books, u, b, p)
  BY EnsuredBooks DEF IInv
<1> HIDE DEF b, p
<1>3. /\ BooksInv(b) /\ p \in PeriodIds
      /\ b.period[p].status = "current" /\ b.period[p].user = u
      /\ b.period[p] \in Period /\ b.ledger[p] \in RowSums
      /\ b.period \in [PeriodIds -> Period] /\ b.ledger \in [PeriodIds -> RowSums]
      /\ ExplainedAt(b, p)
  BY <1>2, Ongoing
<1>4. d \in Int /\ b \in BooksType
  BY <1>3, CreditAssumption DEF BooksInv
<1>5. pr \in Period /\ row \in RowSums
  BY <1>3, <1>4, Figures DEF Period, RowSums
<1>6. /\ pr.status = b.period[p].status /\ pr.user = b.period[p].user
      /\ pr.reserved = b.period[p].reserved /\ pr.allowance = b.period[p].allowance
      /\ pr.consumed = b.period[p].consumed - d
      /\ row.holds = b.ledger[p].holds /\ row.charges = b.ledger[p].charges
      /\ row.reconciled = b.ledger[p].reconciled /\ row.allowance = b.ledger[p].allowance
      /\ row.adjustments = b.ledger[p].adjustments + d
  BY <1>3 DEF Period, RowSums
<1>7. /\ pr.allowance = row.allowance
      /\ pr.consumed = -(row.charges + row.reconciled + row.adjustments)
  BY <1>3, <1>4, <1>6, Figures DEF ExplainedAt
<1>8. Save(Rewritten(b, p, pr, row))
  BY <1>1, <1>4 DEF Rewritten, b, p, BooksType
<1> HIDE DEF pr, row
<1>9. /\ BooksInv(Rewritten(b, p, pr, row))
      /\ SameCharges(b, Rewritten(b, p, pr, row))
  BY <1>3, <1>5, <1>6, <1>7, RewrittenInv
<1>10. SameCharges(Books, Rewritten(b, p, pr, row))
  BY <1>2, <1>9, SameChargesTrans DEF Continues
<1>11. QED
  BY <1>8, <1>9, <1>10, Uncharged, SMTT(30) DEF RecordAdjustment, IInv

(* setResetCadence moves a date and keeps the invariant.                   *)
LEMMA SetResetCadenceInv ==
  ASSUME IInv, NEW u \in Users, NEW k \in Cadences, SetResetCadence(u, k)
  PROVE  IInv'
<1>1. PICK e \in Ensured(Books, u) : Save([e[1] EXCEPT !.period[e[2]].reset = FirstReset(k)])
  BY DEF SetResetCadence
<1> DEFINE b   == e[1]
           p   == e[2]
           pr  == [b.period[p] EXCEPT !.reset = FirstReset(k)]
           row == b.ledger[p]
<1>2. Continues(Books, u, b, p)
  BY EnsuredBooks DEF IInv
<1> HIDE DEF b, p
<1>3. /\ BooksInv(b) /\ p \in PeriodIds
      /\ b.period[p].status = "current" /\ b.period[p].user = u
      /\ b.period[p] \in Period /\ b.ledger[p] \in RowSums
      /\ b.period \in [PeriodIds -> Period] /\ b.ledger \in [PeriodIds -> RowSums]
      /\ ExplainedAt(b, p)
  BY <1>2, Ongoing
<1>4. b \in BooksType
  BY <1>3 DEF BooksInv
<1>5. pr \in Period /\ row \in RowSums
  BY <1>3 DEF Period, FirstReset
<1>6. /\ pr.status = b.period[p].status /\ pr.user = b.period[p].user
      /\ pr.reserved = b.period[p].reserved /\ pr.allowance = b.period[p].allowance
      /\ pr.consumed = b.period[p].consumed
  BY <1>3 DEF Period
<1>7. /\ pr.allowance = row.allowance
      /\ pr.consumed = -(row.charges + row.reconciled + row.adjustments)
  BY <1>3, <1>6 DEF ExplainedAt
<1>8. Save(Rewritten(b, p, pr, row))
  <2>1. [b.ledger EXCEPT ![p] = row] = b.ledger
    BY <1>3
  <2>2. QED
    BY <1>1, <1>4, <2>1 DEF Rewritten, b, p, BooksType, Save
<1> DEFINE c == Rewritten(b, p, pr, row)
<1>9. BooksInv(c) /\ SameCharges(b, c)
  BY <1>3, <1>5, <1>6, <1>7, RewrittenInv
<1>10. SameCharges(Books, c)
  BY <1>2, <1>9, SameChargesTrans DEF Continues
<1> HIDE DEF c
<1>11. QED
  BY <1>8, <1>9, <1>10, Uncharged DEF SetResetCadence, IInv, c

(* updateUser leaves the books alone and keeps the invariant.              *)
LEMMA UpdateUserInv ==
  ASSUME IInv, NEW u \in Users, NEW s \in Accounts, UpdateUser(u, s)
  PROVE  IInv'
<1>1. account' \in [Users -> Accounts]
  BY DEF UpdateUser, IInv
<1>2. Books' = Books /\ call' = call /\ ledger' = ledger
  BY DEF UpdateUser, Books
<1>3. QED
  BY <1>1, <1>2 DEF IInv, Unrecorded, ChargedOnce

-----------------------------------------------------------------------------
(* Reservations.                                                           *)

(* sweepAbandonedReservations keeps the invariant, whichever holds lapsed. *)
LEMMA SweepInv ==
  ASSUME IInv, NEW S \in SUBSET Lapsed(resv), SweepAbandonedReservations(S)
  PROVE  IInv'
<1>1. S \in SUBSET Lapsed(Books.resv)
  BY DEF Books
<1>2. BooksInv(Recovered(Books, S)) /\ SameCharges(Books, Recovered(Books, S))
  BY <1>1, RecoveredInv DEF IInv
<1>3. QED
  BY <1>2, Uncharged DEF SweepAbandonedReservations, IInv

(* reserveCredits keeps the invariant, whichever way it ends.              *)
LEMMA ReserveCreditsInv ==
  ASSUME IInv, NEW r \in ReservationIds, NEW u \in Users, NEW x \in Amounts,
         NEW scope \in Scopes, NEW limit, NEW result,
         ReserveCredits(r, u, x, scope, limit, result)
  PROVE  IInv'
<1> DEFINE v(p) == [user |-> u, period |-> p, status |-> "open", amount |-> x,
                    settled |-> 0, lapsed |-> FALSE, scope |-> scope]
<1>1. PICK S \in SUBSET Lapsed(resv) :
        \/ Save(Recovered(Books, S))
        \/ \E e \in Ensured(Recovered(Books, S), u) :
             Save(e[1]) \/ Save(Holding(e[1], r, e[2], x, v(e[2])))
  BY DEF ReserveCredits
<1> DEFINE b == Recovered(Books, S)
<1>2. S \in SUBSET Lapsed(Books.resv)
  BY DEF Books
<1>3. BooksInv(b) /\ SameCharges(Books, b) /\ UnusedKept(Books, b)
  BY <1>2, RecoveredInv DEF IInv
<1>4. UNCHANGED <<account, call>> /\ resv[r].status = "unused" /\ account' \in [Users -> Accounts]
  BY DEF ReserveCredits, IInv
<1> HIDE DEF b
<1>5. CASE Save(b)
  BY <1>3, <1>4, <1>5, Uncharged
<1>6. ASSUME NEW e \in Ensured(b, u), Save(e[1]) \/ Save(Holding(e[1], r, e[2], x, v(e[2])))
      PROVE  IInv'
  <2> DEFINE c == e[1]
             p == e[2]
             h == Holding(c, r, p, x, v(p))
  <2>1. Continues(b, u, c, p)
    BY <1>3, EnsuredBooks
  <2> HIDE DEF c, p
  <2>2. /\ BooksInv(c) /\ p \in PeriodIds
        /\ c.period[p].status = "current" /\ c.period[p].user = u
    BY <2>1, Ongoing
  <2>3. SameCharges(Books, c)
    BY <1>3, <2>1, SameChargesTrans DEF Continues
  <2>4. c.resv[r].status = "unused"
    BY <1>3, <1>4, <2>1 DEF Continues, UnusedKept, Books
  <2>5. CASE Save(c)
    BY <1>4, <2>2, <2>3, <2>5, Uncharged
  <2>6. CASE Save(h)
    <3>1. x \in Nat /\ HeldBy(c.resv, r, p) = 0
      BY <2>4, CreditAssumption DEF HeldBy, HeldStatuses
    <3>2. v(p) \in Reservation /\ v(p).status = "open" /\ v(p).period = p /\ v(p).user = u
          /\ v(p).amount = x
      BY <2>2, <3>1 DEF Reservation, HeldStatuses
    <3> DEFINE w == v(p)
    <3> HIDE DEF w
    <3>3. /\ w \in Reservation /\ w.status = "open" /\ w.period = p
          /\ w.user = c.period[p].user /\ w.amount = HeldBy(c.resv, r, p) + x
          /\ c.resv[r].status \in HeldStatuses => c.resv[r].period = p
      BY <2>2, <2>4, <3>1, <3>2 DEF w, HeldStatuses
    <3>4. BooksInv(Holding(c, r, p, x, w)) /\ SameCharges(c, Holding(c, r, p, x, w))
      BY <2>2, <3>1, <3>3, HoldingInv
    <3>5. SameCharges(Books, Holding(c, r, p, x, w))
      BY <2>3, <3>4, SameChargesTrans
    <3>6. Save(Holding(c, r, p, x, w))
      BY <2>6 DEF w
    <3>7. QED
      BY <1>4, <3>4, <3>5, <3>6, Uncharged
  <2>7. QED
    BY <1>6, <2>5, <2>6 DEF c, p
<1>7. QED
  BY <1>1, <1>5, <1>6 DEF b

(* What a reservation record holds.                                        *)
Hold(v) == IF v.status \in HeldStatuses THEN v.amount ELSE 0

(* A reservation r, its period and the period's row sums are rewritten, in *)
(* step with each other.                                                   *)
Moving(r, p, pr, v, row) ==
  /\ r \in ReservationIds /\ resv[r].status # "unused" /\ p = resv[r].period
  /\ pr \in Period /\ v \in Reservation /\ row \in RowSums
  /\ pr.status = period[p].status /\ pr.user = period[p].user
  /\ v.period = p /\ v.user = resv[r].user
  /\ v.status \in HeldStatuses => resv[r].status \in HeldStatuses
  /\ pr.reserved - period[p].reserved = Hold(v) - Hold(resv[r])
  /\ ledger[p].holds - row.holds = Hold(v) - Hold(resv[r])
  /\ pr.allowance = row.allowance
  /\ pr.consumed = -(row.charges + row.reconciled + row.adjustments)
  /\ period' = [period EXCEPT ![p] = pr]
  /\ resv' = [resv EXCEPT ![r] = v]
  /\ ledger' = [ledger EXCEPT ![p] = row]
  /\ carried' = carried

(* What is known of the books of an existing reservation.                  *)
LEMMA Reserved ==
  ASSUME IInv, NEW r \in ReservationIds, resv[r].status # "unused"
  PROVE  /\ resv[r].period \in PeriodIds /\ resv[r] \in Reservation
         /\ period[resv[r].period] \in Period /\ ledger[resv[r].period] \in RowSums
         /\ period[resv[r].period].status # "unused"
         /\ ExplainedAt(Books, resv[r].period)
         /\ period \in [PeriodIds -> Period] /\ resv \in [ReservationIds -> Reservation]
         /\ ledger \in [PeriodIds -> RowSums] /\ carried \in [PeriodIds -> Int]
         /\ Hold(resv[r]) \in Nat
         /\ Hold(resv[r]) <= period[resv[r].period].reserved
<1>1. BooksInv(Books)
  BY DEF IInv
<1>2. /\ period \in [PeriodIds -> Period] /\ resv \in [ReservationIds -> Reservation]
      /\ ledger \in [PeriodIds -> RowSums] /\ carried \in [PeriodIds -> Int]
  BY <1>1 DEF BooksInv, BooksType, Books
<1>3. resv[r].period \in PeriodIds /\ period[resv[r].period].status # "unused"
  BY <1>1 DEF BooksInv, Placed, Books
<1>4. ExplainedAt(Books, resv[r].period)
  BY <1>1, <1>3 DEF BooksInv, Explained
<1>5. Hold(resv[r]) \in Nat /\ HeldBy(resv, r, resv[r].period) = Hold(resv[r])
  BY <1>2 DEF Hold, HeldBy, Reservation
<1>6. Hold(resv[r]) <= period[resv[r].period].reserved
  <2> DEFINE p == resv[r].period
  <2>1. period[p].reserved = Held(resv, p)
    BY <1>1, <1>3 DEF BooksInv, Backed, Books
  <2>2. /\ Held(resv, p) = Total(AmountOf(resv), HeldIn(resv, p) \ {r}) + HeldBy(resv, r, p)
        /\ Total(AmountOf(resv), HeldIn(resv, p) \ {r}) \in Nat
    BY <1>2, HeldSplit
  <2> DEFINE t == Total(AmountOf(resv), HeldIn(resv, p) \ {r})
  <2>3. period[p].reserved = t + Hold(resv[r]) /\ t \in Nat
    BY <1>5, <2>1, <2>2
  <2> HIDE DEF t, p
  <2>4. QED
    BY <1>5, <2>3 DEF p
<1>7. QED
  BY <1>2, <1>3, <1>4, <1>5, <1>6

(* Moving in step keeps the books in order.                                *)
LEMMA MovingInv ==
  ASSUME IInv, NEW r, NEW p, NEW pr, NEW v, NEW row, Moving(r, p, pr, v, row)
  PROVE  BooksInv(Books')
<1> DEFINE c == [period |-> period', resv |-> resv', ledger |-> ledger', carried |-> carried']
<1>1. r \in ReservationIds /\ resv[r].status # "unused" /\ p = resv[r].period
  BY DEF Moving
<1>2. /\ p \in PeriodIds /\ resv[r] \in Reservation
      /\ period[p] \in Period /\ ledger[p] \in RowSums
      /\ period[p].status # "unused" /\ ExplainedAt(Books, p)
      /\ period \in [PeriodIds -> Period] /\ resv \in [ReservationIds -> Reservation]
      /\ ledger \in [PeriodIds -> RowSums] /\ carried \in [PeriodIds -> Int]
      /\ Hold(resv[r]) \in Nat
  BY <1>1, Reserved
<1>3. /\ pr \in Period /\ v \in Reservation /\ row \in RowSums
      /\ period' = [period EXCEPT ![p] = pr] /\ resv' = [resv EXCEPT ![r] = v]
      /\ ledger' = [ledger EXCEPT ![p] = row] /\ carried' = carried
  BY DEF Moving
<1>4. /\ period' \in [PeriodIds -> Period] /\ resv' \in [ReservationIds -> Reservation]
      /\ ledger' \in [PeriodIds -> RowSums] /\ carried' \in [PeriodIds -> Int]
  BY <1>1, <1>2, <1>3
<1>5. c \in BooksType
  BY <1>4 DEF BooksType
<1>6. /\ c.period = period' /\ c.resv = resv' /\ c.ledger = ledger' /\ c.carried = carried'
      /\ Books.period = period /\ Books.resv = resv /\ Books.ledger = ledger
      /\ Books.carried = carried
  BY DEF Books
<1> HIDE DEF c
<1>7. /\ c.period[p] = pr /\ c.resv[r] = v /\ c.ledger[p] = row
      /\ \A q \in PeriodIds \ {p} : c.period[q] = period[q] /\ c.ledger[q] = ledger[q]
      /\ \A s \in ReservationIds \ {r} : c.resv[s] = resv[s]
  BY <1>1, <1>2, <1>3, <1>6
<1>8. /\ pr.status = period[p].status /\ pr.user = period[p].user
      /\ v.period = p /\ v.user = resv[r].user
      /\ v.status \in HeldStatuses => resv[r].status \in HeldStatuses
      /\ pr.reserved - period[p].reserved = Hold(v) - Hold(resv[r])
      /\ ledger[p].holds - row.holds = Hold(v) - Hold(resv[r])
      /\ pr.allowance = row.allowance
      /\ pr.consumed = -(row.charges + row.reconciled + row.adjustments)
  BY DEF Moving
<1>9. ExplainedAt(c, p)
  <2>1. period[p].reserved = carried[p] - ledger[p].holds
    BY <1>2, <1>6 DEF ExplainedAt
  <2>2. /\ period[p].reserved \in Nat /\ ledger[p].holds \in Int /\ carried[p] \in Int
        /\ pr.reserved \in Nat /\ row.holds \in Int
    BY <1>2, <1>3, Figures
  <2>3. pr.reserved = carried[p] - row.holds
    BY <1>8, <2>1, <2>2
  <2>4. QED
    BY <1>3, <1>6, <1>7, <1>8, <2>3 DEF ExplainedAt
<1>10. HeldBy(c.resv, r, p) = Hold(v) /\ HeldBy(resv, r, p) = Hold(resv[r])
  BY <1>1, <1>7, <1>8 DEF HeldBy, Hold
<1>11. v.status \in HeldStatuses => period[p].status = "current" /\ period[p].user = v.user
  BY <1>1, <1>6, <1>8 DEF IInv, BooksInv, HeldCurrent
<1>12. Posting(Books, c, r, p)
  BY <1>1, <1>2, <1>3, <1>5, <1>6, <1>7, <1>8, <1>9, <1>10, <1>11 DEF Posting
<1>13. BooksInv(c)
  BY <1>1, <1>2, <1>12, Posted DEF IInv
<1>14. QED
  BY <1>13 DEF c, Books

(* Such a move keeps the invariant when it writes no charge row.           *)
LEMMA Moved ==
  ASSUME IInv, NEW r, NEW p, NEW pr, NEW v, NEW row, Moving(r, p, pr, v, row),
         row.charges = ledger[p].charges, UNCHANGED <<account, call>>
  PROVE  IInv'
<1>1. BooksInv(Books')
  BY MovingInv
<1>2. ledger' = [ledger EXCEPT ![p] = row] /\ ledger \in [PeriodIds -> RowSums]
  BY DEF Moving, IInv, BooksInv, BooksType, Books
<1>3. \A q \in PeriodIds : ledger'[q].charges = ledger[q].charges
  BY <1>2
<1>4. QED
  BY <1>1, <1>3 DEF IInv, Unrecorded, ChargedOnce

(* A reservation that is still held after a step that only marks it.       *)
LEMMA Marked ==
  ASSUME IInv, NEW r \in ReservationIds, NEW v \in Reservation,
         resv[r].status \in HeldStatuses, v.status \in HeldStatuses,
         v.period = resv[r].period, v.user = resv[r].user, v.amount = resv[r].amount,
         resv' = [resv EXCEPT ![r] = v],
         UNCHANGED <<account, period, call, ledger, carried>>
  PROVE  IInv'
<1> DEFINE p == resv[r].period
<1>1. resv[r].status # "unused"
  BY DEF HeldStatuses
<1>2. /\ p \in PeriodIds /\ period[p] \in Period /\ ledger[p] \in RowSums
      /\ ExplainedAt(Books, p)
      /\ period \in [PeriodIds -> Period] /\ ledger \in [PeriodIds -> RowSums]
      /\ Hold(resv[r]) \in Nat
  BY <1>1, Reserved
<1> HIDE DEF p
<1>3. Hold(v) = Hold(resv[r])
  BY DEF Hold
<1>4. /\ period[p].allowance = ledger[p].allowance
      /\ period[p].consumed = -(ledger[p].charges + ledger[p].reconciled + ledger[p].adjustments)
  BY <1>2 DEF ExplainedAt, Books
<1>5. /\ period' = [period EXCEPT ![p] = period[p]]
      /\ ledger' = [ledger EXCEPT ![p] = ledger[p]]
  BY <1>2
<1>6. Moving(r, p, period[p], v, ledger[p])
  <2>1. /\ period[p].reserved - period[p].reserved = Hold(v) - Hold(resv[r])
        /\ ledger[p].holds - ledger[p].holds = Hold(v) - Hold(resv[r])
    BY <1>2, <1>3, Figures
  <2>2. QED
    BY <1>1, <1>2, <1>4, <1>5, <2>1 DEF Moving, p
<1>7. QED
  BY <1>6, Moved

(* touchReservation keeps the invariant.                                   *)
LEMMA TouchInv ==
  ASSUME IInv, NEW r \in ReservationIds, TouchReservation(r)
  PROVE  IInv'
<1> DEFINE v == [resv[r] EXCEPT !.lapsed = FALSE]
<1>1. resv[r].status = "open"
  BY DEF TouchReservation
<1>2. resv[r] \in Reservation /\ resv \in [ReservationIds -> Reservation]
  BY <1>1, Reserved
<1>3. /\ v \in Reservation /\ v.status = "open" /\ v.period = resv[r].period
      /\ v.user = resv[r].user /\ v.amount = resv[r].amount
  BY <1>1, <1>2 DEF Reservation
<1>4. resv' = [resv EXCEPT ![r] = v]
  BY <1>2 DEF TouchReservation
<1> HIDE DEF v
<1>5. QED
  BY <1>1, <1>3, <1>4, Marked DEF TouchReservation, HeldStatuses

(* A deadline that passes keeps the invariant.                             *)
LEMMA LapseInv ==
  ASSUME IInv, NEW r \in ReservationIds, ReservationLapses(r)
  PROVE  IInv'
<1> DEFINE v == [resv[r] EXCEPT !.lapsed = TRUE]
<1>1. resv[r].status = "open"
  BY DEF ReservationLapses
<1>2. resv[r] \in Reservation /\ resv \in [ReservationIds -> Reservation]
  BY <1>1, Reserved
<1>3. /\ v \in Reservation /\ v.status = "open" /\ v.period = resv[r].period
      /\ v.user = resv[r].user /\ v.amount = resv[r].amount
  BY <1>1, <1>2 DEF Reservation
<1>4. resv' = [resv EXCEPT ![r] = v]
  BY <1>2 DEF ReservationLapses
<1> HIDE DEF v
<1>5. QED
  BY <1>1, <1>3, <1>4, Marked DEF ReservationLapses, HeldStatuses

(* Parking changes the status and the deadline, nothing else.              *)
LEMMA ParkedFields ==
  ASSUME NEW v \in Reservation
  PROVE  /\ Parked(v) \in Reservation /\ Parked(v).status = "pending_reconciliation"
         /\ Parked(v).period = v.period /\ Parked(v).user = v.user
         /\ Parked(v).amount = v.amount
<1> DEFINE w == [v EXCEPT !.status = "pending_reconciliation"]
<1>1. /\ w \in Reservation /\ w.status = "pending_reconciliation"
      /\ w.period = v.period /\ w.user = v.user /\ w.amount = v.amount
  BY DEF Reservation, HeldStatuses
<1>2. Parked(v) = [w EXCEPT !.lapsed = FALSE]
  BY DEF Parked
<1> HIDE DEF w
<1>3. QED
  BY <1>1, <1>2 DEF Reservation

(* Closing leaves nothing held.                                            *)
LEMMA ClosedFields ==
  ASSUME NEW v \in Reservation, NEW status \in {"settled", "released", "expired"}
  PROVE  /\ Closed(v, status) \in Reservation /\ Closed(v, status).status = status
         /\ Closed(v, status).period = v.period /\ Closed(v, status).user = v.user
<1> DEFINE w == [v EXCEPT !.amount = 0]
           z == [w EXCEPT !.status = status]
<1>1. w \in Reservation /\ w.period = v.period /\ w.user = v.user
  BY DEF Reservation
<1> HIDE DEF w
<1>2. z \in Reservation /\ z.status = status /\ z.period = v.period /\ z.user = v.user
  BY <1>1 DEF Reservation
<1> HIDE DEF z
<1>3. Closed(v, status) = [z EXCEPT !.lapsed = FALSE]
  BY DEF Closed, z, w
<1>4. QED
  BY <1>2, <1>3 DEF Reservation

(* A top-up of an open reservation.                                        *)
LEMMA ExtendedInv ==
  ASSUME IInv, NEW r \in ReservationIds, NEW x \in Nat, NEW renewed \in BOOLEAN,
         resv[r].status = "open", Save(Extended(Books, r, x, renewed)),
         UNCHANGED <<account, call>>
  PROVE  IInv'
<1> DEFINE p == resv[r].period
           w == [resv[r] EXCEPT !.amount = @ + x]
           v == [w EXCEPT !.lapsed = @ /\ ~renewed]
<1>1. /\ p \in PeriodIds /\ resv[r] \in Reservation
  BY Reserved
<1>2. w \in Reservation /\ w.status = "open" /\ w.period = p
      /\ w.user = resv[r].user /\ w.amount = resv[r].amount + x
  BY <1>1 DEF Reservation
<1> HIDE DEF w
<1>3. v \in Reservation /\ v.status = "open" /\ v.period = p
      /\ v.user = resv[r].user /\ v.amount = resv[r].amount + x
  BY <1>2 DEF Reservation
<1>4. Books.resv = resv /\ Books.period = period
  BY DEF Books
<1>5. Extended(Books, r, x, renewed) = Holding(Books, r, p, x, v)
  BY <1>4 DEF Extended, w
<1>6. /\ Books.period[p].status = "current" /\ Books.period[p].user = v.user
      /\ HeldBy(Books.resv, r, p) = resv[r].amount
  BY <1>3, <1>4 DEF IInv, BooksInv, HeldCurrent, HeldBy, HeldStatuses
<1> HIDE DEF v, p
<1>7. /\ BooksInv(Holding(Books, r, p, x, v)) /\ SameCharges(Books, Holding(Books, r, p, x, v))
  <2>1. Books.resv[r].status \in HeldStatuses => Books.resv[r].period = p
    BY <1>4 DEF p
  <2>2. v.amount = HeldBy(Books.resv, r, p) + x
    BY <1>3, <1>6
  <2>3. p \in PeriodIds /\ v.user = Books.period[p].user /\ v.status = "open" /\ v.period = p
    BY <1>1, <1>3, <1>6 DEF p
  <2>4. QED
    BY <1>3, <1>6, <2>1, <2>2, <2>3, HoldingInv DEF IInv
<1>8. QED
  BY <1>5, <1>7, Uncharged DEF IInv

(* extendReservation keeps the invariant.                                  *)
LEMMA ExtendInv ==
  ASSUME IInv, NEW r \in ReservationIds, NEW x \in Amounts, ExtendReservation(r, x)
  PROVE  IInv'
BY ExtendedInv, CreditAssumption DEF ExtendReservation

(* A top-up is never negative: the hold was below the ceiling.             *)
LEMMA TopUpsGrow ==
  ASSUME NEW r, NEW ceiling \in Nat, NEW budget \in Nat, NEW x \in TopUps(r, ceiling, budget),
         resv[r].amount \in Nat, resv[r].settled \in Nat, resv[r].amount < ceiling
  PROVE  x \in Nat
<1> DEFINE amount == resv[r].amount
           room   == AtLeastZero(budget - (resv[r].settled + amount))
           want   == IF Unlimited(resv[r].user) THEN ceiling * TopUpMultiple
                                                ELSE Least(ceiling * TopUpMultiple, room)
           topUp  == Most(ceiling, want) - amount
<1>1. ceiling * TopUpMultiple \in Int
  BY CreditAssumption
<1>2. room \in Int
  BY DEF AtLeastZero
<1> HIDE DEF room
<1>3. want \in Int
  BY <1>1, <1>2 DEF Least
<1> HIDE DEF want
<1>4. topUp \in Nat
  BY <1>3 DEF Most
<1> HIDE DEF topUp
<1>5. x = topUp \/ x = ceiling - resv[r].amount
  BY Zenon DEF TopUps, topUp, want, room
<1>6. QED
  BY <1>4, <1>5

(* ensureReservationHold keeps the invariant, whichever way it ends.       *)
LEMMA EnsureHoldInv ==
  ASSUME IInv, NEW r \in ReservationIds, NEW ceiling \in Amounts, NEW budget \in Budgets,
         NEW result, EnsureReservationHold(r, ceiling, budget, result)
  PROVE  IInv'
<1>1. CASE /\ resv[r].status = "open" /\ resv' = [resv EXCEPT ![r].lapsed = FALSE]
           /\ UNCHANGED <<period, ledger, carried>>
  BY <1>1, TouchInv DEF EnsureReservationHold, TouchReservation
<1>2. ASSUME resv[r].status = "open", resv[r].amount < ceiling,
             NEW x \in TopUps(r, ceiling, budget), Save(Extended(Books, r, x, TRUE))
      PROVE  IInv'
  <2>1. resv[r] \in Reservation /\ ceiling \in Nat /\ budget \in Nat
    BY <1>2, Reserved, CreditAssumption
  <2>2. x \in Nat
    BY <1>2, <2>1, TopUpsGrow DEF Reservation
  <2>3. QED
    BY <1>2, <2>2, ExtendedInv DEF EnsureReservationHold
<1>3. CASE UNCHANGED <<period, resv, ledger, carried>>
  <2>1. Books' = Books /\ UNCHANGED <<account, call, ledger>>
    BY <1>3 DEF EnsureReservationHold, Books
  <2>2. QED
    BY <2>1 DEF IInv, Unrecorded, ChargedOnce
<1>4. QED
  BY <1>1, <1>2, <1>3 DEF EnsureReservationHold

(* releaseReservation keeps the invariant, whatever the final status.      *)
LEMMA ReleaseInv ==
  ASSUME IInv, NEW r \in ReservationIds, NEW final, ReleaseReservation(r, final)
  PROVE  IInv'
<1>1. resv[r].status # "unused"
  BY DEF ReleaseReservation
<1> DEFINE p    == resv[r].period
           held == resv[r].amount
           pr   == [period[p] EXCEPT !.reserved = AtLeastZero(@ - held)]
           row  == [ledger[p] EXCEPT !.holds = @ + held]
<1>2. /\ p \in PeriodIds /\ resv[r] \in Reservation
      /\ period[p] \in Period /\ ledger[p] \in RowSums
      /\ period[p].status # "unused" /\ ExplainedAt(Books, p)
      /\ period \in [PeriodIds -> Period] /\ resv \in [ReservationIds -> Reservation]
      /\ ledger \in [PeriodIds -> RowSums]
      /\ Hold(resv[r]) \in Nat /\ Hold(resv[r]) <= period[p].reserved
  BY <1>1, Reserved
<1>3. CASE UNCHANGED <<period, resv, ledger, carried>>
  <2>1. Books' = Books /\ UNCHANGED <<account, call, ledger>>
    BY <1>3 DEF ReleaseReservation, Books
  <2>2. QED
    BY <2>1 DEF IInv, Unrecorded, ChargedOnce
<1>4. CASE /\ resv[r].status = "open" /\ resv' = [resv EXCEPT ![r] = Parked(@)]
           /\ UNCHANGED <<period, ledger, carried>>
  <2>1. resv' = [resv EXCEPT ![r] = Parked(resv[r])]
    BY <1>2, <1>4
  <2>2. /\ resv[r].status \in HeldStatuses /\ Parked(resv[r]).status \in HeldStatuses
        /\ Parked(resv[r]) \in Reservation /\ Parked(resv[r]).period = resv[r].period
        /\ Parked(resv[r]).user = resv[r].user /\ Parked(resv[r]).amount = resv[r].amount
    BY <1>2, <1>4, ParkedFields DEF HeldStatuses
  <2> DEFINE v == Parked(resv[r])
  <2> HIDE DEF v
  <2>3. /\ v \in Reservation /\ v.status \in HeldStatuses /\ v.period = resv[r].period
        /\ v.user = resv[r].user /\ v.amount = resv[r].amount /\ resv' = [resv EXCEPT ![r] = v]
    BY <2>1, <2>2 DEF v
  <2>4. QED
    BY <1>4, <2>2, <2>3, Marked DEF ReleaseReservation
<1>5. CASE /\ resv[r].status = "open" /\ final \in {"settled", "released"}
           /\ Save([Books EXCEPT !.period[p].reserved = AtLeastZero(@ - held),
                                 !.resv[r] = Closed(@, final),
                                 !.ledger[p].holds = @ + held])
  <2> DEFINE v == Closed(resv[r], final)
  <2>1. /\ v \in Reservation /\ v.status = final
        /\ v.period = resv[r].period /\ v.user = resv[r].user
    BY <1>2, <1>5, ClosedFields
  <2>2. /\ period' = [period EXCEPT ![p] = pr]
        /\ resv' = [resv EXCEPT ![r] = v]
        /\ ledger' = [ledger EXCEPT ![p] = row]
        /\ carried' = carried
    BY <1>2, <1>5 DEF Save, Books
  <2> HIDE DEF v
  <2>3. Hold(resv[r]) = held /\ Hold(v) = 0 /\ held \in Nat /\ held <= period[p].reserved
    BY <1>2, <1>5, <2>1 DEF Hold, HeldStatuses
  <2>4. AtLeastZero(period[p].reserved - held) = period[p].reserved - held
        /\ period[p].reserved - held \in Nat /\ period[p].reserved \in Nat
    BY <1>2, <2>3, Figures DEF AtLeastZero
  <2>5. /\ pr \in Period /\ pr.status = period[p].status /\ pr.user = period[p].user
        /\ pr.reserved = period[p].reserved - held
        /\ pr.allowance = period[p].allowance /\ pr.consumed = period[p].consumed
    BY <1>2, <2>4 DEF Period
  <2>6. /\ row \in RowSums /\ row.holds = ledger[p].holds + held
        /\ row.charges = ledger[p].charges /\ row.allowance = ledger[p].allowance
        /\ row.reconciled = ledger[p].reconciled /\ row.adjustments = ledger[p].adjustments
    BY <1>2, <2>3 DEF RowSums
  <2>7. /\ pr.allowance = row.allowance
        /\ pr.consumed = -(row.charges + row.reconciled + row.adjustments)
    BY <1>2, <2>5, <2>6 DEF ExplainedAt, Books
  <2>8. /\ pr.reserved - period[p].reserved = Hold(v) - Hold(resv[r])
        /\ ledger[p].holds - row.holds = Hold(v) - Hold(resv[r])
    BY <1>2, <2>3, <2>4, <2>5, <2>6, Figures
  <2> HIDE DEF pr, row
  <2>9. Moving(r, p, pr, v, row)
    BY <1>1, <1>2, <1>5, <2>1, <2>2, <2>5, <2>6, <2>7, <2>8 DEF Moving, HeldStatuses
  <2>10. QED
    BY <2>6, <2>9, Moved DEF ReleaseReservation
<1>6. QED
  BY <1>1, <1>3, <1>4, <1>5 DEF ReleaseReservation

(* resolveReconciliation keeps the invariant: what it charges was held.    *)
LEMMA ResolveInv ==
  ASSUME IInv, NEW r \in ReservationIds, NEW x \in Nat, ResolveReconciliation(r, x)
  PROVE  IInv'
<1> DEFINE p    == resv[r].period
           held == resv[r].amount
           charge == Least(x, held)
           pr1  == [period[p] EXCEPT !.reserved = AtLeastZero(@ - held)]
           pr   == [pr1 EXCEPT !.consumed = @ + charge]
           row1 == [ledger[p] EXCEPT !.holds = @ + held]
           row  == [row1 EXCEPT !.reconciled = @ - charge]
           w    == [resv[r] EXCEPT !.settled = @ + charge]
           v    == Closed(w, "settled")
<1>1. resv[r].status = "pending_reconciliation" /\ x \in Nat
  BY CreditAssumption DEF ResolveReconciliation
<1>2. /\ p \in PeriodIds /\ resv[r] \in Reservation
      /\ period[p] \in Period /\ ledger[p] \in RowSums
      /\ period[p].status # "unused" /\ ExplainedAt(Books, p)
      /\ period \in [PeriodIds -> Period] /\ resv \in [ReservationIds -> Reservation]
      /\ ledger \in [PeriodIds -> RowSums]
      /\ Hold(resv[r]) \in Nat /\ Hold(resv[r]) <= period[p].reserved
  BY <1>1, Reserved
<1>3. Hold(resv[r]) = held /\ held \in Nat /\ held <= period[p].reserved
  BY <1>1, <1>2 DEF Hold, HeldStatuses
<1>4. charge \in Nat
  BY <1>1, <1>3 DEF Least
<1>5. w \in Reservation /\ w.period = p /\ w.user = resv[r].user
  BY <1>2, <1>4 DEF Reservation
<1>6. /\ AtLeastZero(period[p].reserved - held) = period[p].reserved - held
      /\ period[p].reserved - held \in Nat /\ period[p].reserved \in Nat
  BY <1>2, <1>3, Figures, SMTT(30) DEF AtLeastZero
<1>7. /\ period' = [period EXCEPT ![p] = pr]
      /\ resv' = [resv EXCEPT ![r] = v]
      /\ ledger' = [ledger EXCEPT ![p] = row]
      /\ carried' = carried /\ UNCHANGED <<account, call>>
  <2>1. /\ period' = [period EXCEPT ![p].reserved = AtLeastZero(@ - held), ![p].consumed = @ + charge]
        /\ resv' = [resv EXCEPT ![r] = Closed(w, "settled")]
        /\ ledger' = [ledger EXCEPT ![p].holds = @ + held, ![p].reconciled = @ - charge]
        /\ carried' = carried /\ UNCHANGED <<account, call>>
    BY Zenon DEF ResolveReconciliation, Save, Books
  <2>2. resv' = [resv EXCEPT ![r] = v]
    BY <1>2, <2>1
  <2>3. period' = [period EXCEPT ![p] = pr]
    BY <1>2, <2>1
  <2>4. ledger' = [ledger EXCEPT ![p] = row]
    BY <1>2, <2>1
  <2>5. QED
    BY <2>1, <2>2, <2>3, <2>4, Zenon
<1>8. /\ pr1 \in Period /\ pr1.status = period[p].status /\ pr1.user = period[p].user
      /\ pr1.reserved = period[p].reserved - held
      /\ pr1.allowance = period[p].allowance /\ pr1.consumed = period[p].consumed
  BY <1>2, <1>6 DEF Period
<1>9. /\ row1 \in RowSums /\ row1.holds = ledger[p].holds + held
      /\ row1.charges = ledger[p].charges /\ row1.allowance = ledger[p].allowance
      /\ row1.reconciled = ledger[p].reconciled /\ row1.adjustments = ledger[p].adjustments
  BY <1>2, <1>3 DEF RowSums
<1> HIDE DEF charge, pr1, row1, w
<1>10. /\ pr \in Period /\ pr.status = period[p].status /\ pr.user = period[p].user
       /\ pr.reserved = period[p].reserved - held
       /\ pr.allowance = period[p].allowance /\ pr.consumed = period[p].consumed + charge
  BY <1>4, <1>8 DEF Period
<1>11. /\ row \in RowSums /\ row.holds = ledger[p].holds + held
       /\ row.charges = ledger[p].charges /\ row.allowance = ledger[p].allowance
       /\ row.reconciled = ledger[p].reconciled - charge
       /\ row.adjustments = ledger[p].adjustments
  BY <1>4, <1>9 DEF RowSums
<1>12. /\ v \in Reservation /\ v.status = "settled" /\ v.period = p /\ v.user = resv[r].user
  BY <1>5, ClosedFields
<1> HIDE DEF pr, row, v
<1>13. Hold(v) = 0
  BY <1>12 DEF Hold, HeldStatuses
<1>14. /\ pr.allowance = row.allowance
       /\ pr.consumed = -(row.charges + row.reconciled + row.adjustments)
  BY <1>2, <1>4, <1>10, <1>11, Figures DEF ExplainedAt, Books
<1>15. /\ pr.reserved - period[p].reserved = Hold(v) - Hold(resv[r])
       /\ ledger[p].holds - row.holds = Hold(v) - Hold(resv[r])
  BY <1>2, <1>3, <1>6, <1>10, <1>11, <1>13, Figures
<1>16. Moving(r, p, pr, v, row)
  BY <1>1, <1>2, <1>7, <1>10, <1>11, <1>12, <1>14, <1>15 DEF Moving, HeldStatuses
<1>17. QED
  BY <1>7, <1>11, <1>16, Moved

-----------------------------------------------------------------------------
(* Settling provider calls.                                                *)

(* The charges of a period's calls are finitely many natural numbers.      *)
LEMMA ChargesFinite ==
  ASSUME NEW cs \in [CallKeys -> Call], NEW p
  PROVE  /\ IsFiniteSet(CallsIn(cs, p))
         /\ \A k \in CallsIn(cs, p) : ChargeOf(cs)[k] \in Nat
         /\ Total(ChargeOf(cs), CallsIn(cs, p)) \in Nat
<1>1. CallsIn(cs, p) \subseteq CallKeys
  BY DEF CallsIn
<1>2. IsFiniteSet(CallsIn(cs, p))
  BY <1>1, CreditAssumption, FS_Subset, Zenon
<1>3. \A k \in CallsIn(cs, p) : ChargeOf(cs)[k] \in Nat
  BY <1>1 DEF ChargeOf, Call
<1>4. QED
  BY <1>2, <1>3, TotalType, Zenon

(* Recording one new key with its charge, and writing that charge to the   *)
(* same period's rows, keeps rows and calls equal.                         *)
LEMMA Recording ==
  ASSUME IInv, NEW k \in CallKeys, NEW p \in PeriodIds, NEW charge \in Nat,
         NEW pending \in BOOLEAN, ~Settled(k),
         call' = [call EXCEPT ![k] = Recorded(pending, charge, p)],
         ledger \in [PeriodIds -> RowSums], ledger' \in [PeriodIds -> RowSums],
         ledger'[p].charges = ledger[p].charges - charge,
         \A q \in PeriodIds \ {p} : ledger'[q].charges = ledger[q].charges
  PROVE  call' \in [CallKeys -> Call] /\ Unrecorded' /\ ChargedOnce'
<1>1. call \in [CallKeys -> Call] /\ call[k].period = "nowhere" /\ p # "nowhere"
  BY CreditAssumption DEF IInv, Unrecorded, Settled
<1> DEFINE new == Recorded(pending, charge, p)
<1>2. new \in Call /\ new.status # "unused" /\ new.charge = charge /\ new.period = p
  BY DEF Recorded, Call
<1> HIDE DEF new
<1>3. /\ call' \in [CallKeys -> Call] /\ call'[k] = new
      /\ \A j \in CallKeys : j # k => call'[j] = call[j]
  BY <1>1, <1>2 DEF new
<1>4. Unrecorded'
  BY <1>2, <1>3 DEF IInv, Unrecorded
<1>5. \A j \in CallKeys : /\ ChargeOf(call)[j] = call[j].charge
                          /\ ChargeOf(call')[j] = call'[j].charge
  BY DEF ChargeOf
<1>6. ChargedOnce'
  <2> SUFFICES ASSUME NEW q \in PeriodIds
               PROVE  -ledger'[q].charges = Total(ChargeOf(call'), CallsIn(call', q))
    BY DEF ChargedOnce, ChargeOf, CallsIn
  <2>1. -ledger[q].charges = Total(ChargeOf(call), CallsIn(call, q))
    BY DEF IInv, ChargedOnce
  <2>2. \A j \in CallsIn(call, q) : ChargeOf(call')[j] = ChargeOf(call)[j]
    <3>1. k \notin CallsIn(call, q)
      BY <1>1, CreditAssumption DEF CallsIn
    <3>2. QED
      BY <1>3, <1>5, <3>1 DEF CallsIn
  <2>3. Total(ChargeOf(call'), CallsIn(call, q)) = Total(ChargeOf(call), CallsIn(call, q))
    BY <2>2, TotalAgree, Zenon
  <2>4. CASE q = p
    <3>1. CallsIn(call', q) \ {k} = CallsIn(call, q) /\ k \in CallsIn(call', q)
      BY <1>1, <1>2, <1>3, <2>4 DEF CallsIn
    <3>2. /\ IsFiniteSet(CallsIn(call', q))
          /\ \A j \in CallsIn(call', q) : ChargeOf(call')[j] \in Nat
      BY <1>3, ChargesFinite, Zenon
    <3>3. Total(ChargeOf(call'), CallsIn(call', q))
            = Total(ChargeOf(call'), CallsIn(call', q) \ {k}) + ChargeOf(call')[k]
      BY <3>1, <3>2, TotalSplit, Zenon
    <3>4. ChargeOf(call')[k] = charge
      BY <1>2, <1>3, <1>5
    <3>5. Total(ChargeOf(call'), CallsIn(call', q)) = -ledger[q].charges + charge
      BY <2>1, <2>3, <3>1, <3>3, <3>4
    <3>6. ledger[q].charges \in Int /\ ledger'[q].charges = ledger[q].charges - charge
      BY <2>4 DEF RowSums
    <3>7. QED
      BY <3>5, <3>6
  <2>5. CASE q # p
    <3>1. CallsIn(call', q) = CallsIn(call, q)
      <4>1. k \notin CallsIn(call, q) /\ k \notin CallsIn(call', q)
        BY <1>1, <1>2, <1>3, <2>5, CreditAssumption DEF CallsIn
      <4>2. QED
        BY <1>3, <4>1 DEF CallsIn
    <3>2. QED
      BY <2>1, <2>3, <2>5, <3>1
  <2>6. QED
    BY <2>4, <2>5
<1>7. QED
  BY <1>3, <1>4, <1>6

(* The reservation after a settlement that charged and gave back a part.   *)
LEMMA ReducedFields ==
  ASSUME NEW v \in Reservation, NEW released \in Nat, NEW charge \in Nat, released <= v.amount
  PROVE  /\ Reduced(v, released, charge) \in Reservation
         /\ Reduced(v, released, charge).status = v.status
         /\ Reduced(v, released, charge).period = v.period
         /\ Reduced(v, released, charge).user = v.user
         /\ Reduced(v, released, charge).amount = v.amount - released
<1> DEFINE z == [v EXCEPT !.amount = @ - released]
           w == [z EXCEPT !.settled = @ + charge]
<1>1. /\ z \in Reservation /\ z.status = v.status /\ z.period = v.period
      /\ z.user = v.user /\ z.amount = v.amount - released
  BY DEF Reservation
<1> HIDE DEF z
<1>2. /\ w \in Reservation /\ w.status = v.status /\ w.period = v.period
      /\ w.user = v.user /\ w.amount = v.amount - released
  BY <1>1 DEF Reservation
<1>3. Reduced(v, released, charge) = w
  BY DEF z, Reservation, Reduced
<1>4. QED
  BY <1>2, <1>3

(* settleProviderCall against a reservation keeps the invariant: the charge*)
(* is recorded with its key in the period that is charged.                 *)
LEMMA SettleAgainstInv ==
  ASSUME IInv, NEW k \in CallKeys, NEW r \in ReservationIds, NEW reported \in Nat,
         NEW pending \in BOOLEAN, NEW release \in Nat,
         SettleAgainst(k, r, reported, pending, release)
  PROVE  IInv'
<1> DEFINE p        == resv[r].period
           open     == resv[r].status = "open"
           charge   == IF pending THEN 0 ELSE reported
           released == IF open /\ ~pending THEN Least(resv[r].amount, release) ELSE 0
           v    == IF ~open THEN resv[r]
                   ELSE IF pending THEN Parked(resv[r])
                   ELSE Reduced(resv[r], released, charge)
           pr1  == [period[p] EXCEPT !.reserved = AtLeastZero(@ - released)]
           pr   == [pr1 EXCEPT !.consumed = @ + charge]
           row1 == [ledger[p] EXCEPT !.holds = @ + released]
           row  == [row1 EXCEPT !.charges = @ - charge]
<1>1. resv[r].status # "unused" /\ ~Settled(k)
      /\ call' = [call EXCEPT ![k] = Recorded(pending, charge, p)] /\ account' = account
  BY DEF SettleAgainst
<1>2. /\ p \in PeriodIds /\ resv[r] \in Reservation
      /\ period[p] \in Period /\ ledger[p] \in RowSums
      /\ period[p].status # "unused" /\ ExplainedAt(Books, p)
      /\ period \in [PeriodIds -> Period] /\ resv \in [ReservationIds -> Reservation]
      /\ ledger \in [PeriodIds -> RowSums]
      /\ Hold(resv[r]) \in Nat /\ Hold(resv[r]) <= period[p].reserved
  BY <1>1, Reserved
<1>3. resv[r].amount \in Nat /\ charge \in Nat
  BY <1>2 DEF Reservation
<1>4. /\ released \in Nat /\ released <= resv[r].amount
      /\ open => released <= Hold(resv[r])
      /\ ~open => released = 0
  BY <1>3, SMTT(30) DEF Least, Hold, HeldStatuses
<1>5. /\ period' = [period EXCEPT ![p] = pr]
      /\ resv' = [resv EXCEPT ![r] = v]
      /\ ledger' = [ledger EXCEPT ![p] = row]
      /\ carried' = carried
  <2>1. /\ period' = [period EXCEPT ![p].reserved = AtLeastZero(@ - released),
                                    ![p].consumed = @ + charge]
        /\ resv' = [resv EXCEPT ![r] = v]
        /\ ledger' = [ledger EXCEPT ![p].holds = @ + released, ![p].charges = @ - charge]
        /\ carried' = carried
    BY Zenon DEF SettleAgainst, Save, Books
  <2>2. period' = [period EXCEPT ![p] = pr]
    BY <1>2, <2>1
  <2>3. ledger' = [ledger EXCEPT ![p] = row]
    BY <1>2, <2>1
  <2>4. QED
    BY <2>1, <2>2, <2>3, Zenon
<1>6. /\ v \in Reservation /\ v.period = p /\ v.user = resv[r].user
      /\ v.status \in HeldStatuses => resv[r].status \in HeldStatuses
      /\ Hold(v) = Hold(resv[r]) - released
  <2>1. CASE ~open
    BY <1>2, <1>4, <2>1
  <2>2. CASE open /\ pending
    <3>1. v = Parked(resv[r])
      BY <2>2
    <3>2. released = 0
      BY <2>2
    <3>3. /\ v \in Reservation /\ v.status = "pending_reconciliation"
          /\ v.period = p /\ v.user = resv[r].user /\ v.amount = resv[r].amount
      BY <1>2, <3>1, ParkedFields
    <3> HIDE DEF v, released
    <3>4. QED
      BY <1>3, <2>2, <3>2, <3>3 DEF Hold, HeldStatuses
  <2>3. CASE open /\ ~pending
    <3>1. v = Reduced(resv[r], released, charge)
      BY <2>3
    <3> HIDE DEF v, released, charge
    <3>2. /\ v \in Reservation /\ v.status = resv[r].status /\ v.period = p
          /\ v.user = resv[r].user /\ v.amount = resv[r].amount - released
      BY <1>2, <1>3, <1>4, <3>1, ReducedFields
    <3>3. QED
      BY <1>3, <1>4, <2>3, <3>2 DEF Hold, HeldStatuses
  <2>4. QED
    BY <2>1, <2>2, <2>3
<1>7. released <= Hold(resv[r])
  BY <1>2, <1>4
<1> HIDE DEF released, charge, v
<1>8. /\ AtLeastZero(period[p].reserved - released) = period[p].reserved - released
      /\ period[p].reserved - released \in Nat /\ period[p].reserved \in Nat
  BY <1>2, <1>4, <1>7, Figures DEF AtLeastZero
<1>9. /\ pr1 \in Period /\ pr1.status = period[p].status /\ pr1.user = period[p].user
      /\ pr1.reserved = period[p].reserved - released
      /\ pr1.allowance = period[p].allowance /\ pr1.consumed = period[p].consumed
  BY <1>2, <1>8 DEF Period
<1>10. /\ row1 \in RowSums /\ row1.holds = ledger[p].holds + released
       /\ row1.charges = ledger[p].charges /\ row1.allowance = ledger[p].allowance
       /\ row1.reconciled = ledger[p].reconciled /\ row1.adjustments = ledger[p].adjustments
  BY <1>2, <1>4 DEF RowSums
<1> HIDE DEF pr1, row1
<1>11. /\ pr \in Period /\ pr.status = period[p].status /\ pr.user = period[p].user
       /\ pr.reserved = period[p].reserved - released
       /\ pr.allowance = period[p].allowance /\ pr.consumed = period[p].consumed + charge
  BY <1>3, <1>9 DEF Period
<1>12. /\ row \in RowSums /\ row.holds = ledger[p].holds + released
       /\ row.charges = ledger[p].charges - charge /\ row.allowance = ledger[p].allowance
       /\ row.reconciled = ledger[p].reconciled /\ row.adjustments = ledger[p].adjustments
  BY <1>3, <1>10 DEF RowSums
<1> HIDE DEF pr, row
<1>13. /\ pr.allowance = row.allowance
       /\ pr.consumed = -(row.charges + row.reconciled + row.adjustments)
  BY <1>2, <1>3, <1>11, <1>12, Figures DEF ExplainedAt, Books
<1>14. /\ pr.reserved - period[p].reserved = Hold(v) - Hold(resv[r])
       /\ ledger[p].holds - row.holds = Hold(v) - Hold(resv[r])
  BY <1>2, <1>4, <1>6, <1>8, <1>11, <1>12, Figures
<1>15. Moving(r, p, pr, v, row)
  BY <1>1, <1>2, <1>5, <1>6, <1>11, <1>12, <1>13, <1>14 DEF Moving
<1>16. BooksInv(Books')
  BY <1>15, MovingInv
<1>17. /\ ledger' \in [PeriodIds -> RowSums]
       /\ ledger'[p].charges = ledger[p].charges - charge
       /\ \A q \in PeriodIds \ {p} : ledger'[q].charges = ledger[q].charges
  BY <1>2, <1>5, <1>12
<1>18. call' \in [CallKeys -> Call] /\ Unrecorded' /\ ChargedOnce'
  BY <1>1, <1>2, <1>3, <1>17, Recording
<1>19. QED
  BY <1>1, <1>16, <1>18 DEF IInv

(* settleProviderCall without a reservation keeps the invariant.           *)
LEMMA SettleUnreservedInv ==
  ASSUME IInv, NEW k \in CallKeys, NEW u \in Users, NEW reported \in Nat,
         NEW pending \in BOOLEAN, SettleUnreserved(k, u, reported, pending)
  PROVE  IInv'
<1> DEFINE charge == IF pending THEN 0 ELSE reported
<1>1. PICK e \in Ensured(Books, u) :
        /\ call' = [call EXCEPT ![k] = Recorded(pending, charge, e[2])]
        /\ Save([e[1] EXCEPT !.period[e[2]].consumed = @ + charge,
                             !.ledger[e[2]].charges = @ - charge])
  BY DEF SettleUnreserved
<1>2. charge \in Nat /\ ~Settled(k) /\ account' = account
  BY DEF SettleUnreserved
<1> HIDE DEF charge
<1> DEFINE b   == e[1]
           p   == e[2]
           pr  == [b.period[p] EXCEPT !.consumed = @ + charge]
           row == [b.ledger[p] EXCEPT !.charges = @ - charge]
           c   == [b EXCEPT !.period = [b.period EXCEPT ![p] = pr],
                            !.ledger = [b.ledger EXCEPT ![p] = row]]
<1>3. Continues(Books, u, b, p)
  BY EnsuredBooks DEF IInv
<1> HIDE DEF b, p
<1>4. /\ BooksInv(b) /\ p \in PeriodIds
      /\ b.period[p].status = "current" /\ b.period[p].user = u
      /\ b.period[p] \in Period /\ b.ledger[p] \in RowSums
      /\ b.period \in [PeriodIds -> Period] /\ b.ledger \in [PeriodIds -> RowSums]
      /\ ExplainedAt(b, p)
  BY <1>3, Ongoing
<1>5. b \in BooksType
  BY <1>4 DEF BooksInv
<1>6. /\ pr \in Period /\ pr.status = b.period[p].status /\ pr.user = b.period[p].user
      /\ pr.reserved = b.period[p].reserved /\ pr.allowance = b.period[p].allowance
      /\ pr.consumed = b.period[p].consumed + charge
  BY <1>2, <1>4 DEF Period
<1>7. /\ row \in RowSums /\ row.holds = b.ledger[p].holds
      /\ row.charges = b.ledger[p].charges - charge
      /\ row.reconciled = b.ledger[p].reconciled /\ row.allowance = b.ledger[p].allowance
      /\ row.adjustments = b.ledger[p].adjustments
  BY <1>2, <1>4 DEF RowSums
<1>8. /\ pr.allowance = row.allowance
      /\ pr.consumed = -(row.charges + row.reconciled + row.adjustments)
  BY <1>2, <1>4, <1>6, <1>7, Figures DEF ExplainedAt
<1>9. Save(c)
  BY <1>1, <1>5 DEF b, p, BooksType
<1> HIDE DEF pr, row
<1>10. /\ c \in BooksType
       /\ c.period = [b.period EXCEPT ![p] = pr] /\ c.ledger = [b.ledger EXCEPT ![p] = row]
       /\ c.resv = b.resv /\ c.carried = b.carried
  BY <1>4, <1>5, <1>6, <1>7 DEF BooksType
<1> HIDE DEF c
<1>11. /\ c.period[p] = pr /\ c.ledger[p] = row
       /\ \A q \in PeriodIds \ {p} : c.period[q] = b.period[q] /\ c.ledger[q] = b.ledger[q]
  BY <1>4, <1>10
<1>12. ExplainedAt(c, p)
  BY <1>4, <1>6, <1>7, <1>8, <1>10, <1>11 DEF ExplainedAt
<1>13. Adjusting(b, c, p)
  BY <1>4, <1>6, <1>10, <1>11, <1>12 DEF Adjusting
<1>14. BooksInv(c)
  BY <1>4, <1>13, Adjusted
<1>15. Books' = c /\ ledger' = c.ledger
  BY <1>9, <1>10, SavedBooks DEF Save
<1>16. SameCharges(Books, b) /\ Books.ledger = ledger
  BY <1>3 DEF Continues, Books
<1>17. /\ ledger \in [PeriodIds -> RowSums] /\ ledger' \in [PeriodIds -> RowSums]
       /\ ledger'[p].charges = ledger[p].charges - charge
       /\ \A q \in PeriodIds \ {p} : ledger'[q].charges = ledger[q].charges
  <2>1. ledger \in [PeriodIds -> RowSums] /\ c.ledger \in [PeriodIds -> RowSums]
    BY <1>10, <1>16 DEF IInv, BooksInv, BooksType
  <2>2. \A q \in PeriodIds : b.ledger[q].charges = ledger[q].charges
    BY <1>16 DEF SameCharges
  <2>3. QED
    BY <1>4, <1>7, <1>11, <1>15, <2>1, <2>2
<1>18. call' = [call EXCEPT ![k] = Recorded(pending, charge, p)]
  BY <1>1 DEF p
<1>19. call' \in [CallKeys -> Call] /\ Unrecorded' /\ ChargedOnce'
  BY <1>2, <1>4, <1>17, <1>18, Recording
<1>20. QED
  BY <1>2, <1>14, <1>15, <1>19 DEF IInv

(* A month that ends keeps the invariant until somebody rolls it.          *)
LEMMA ResetInv ==
  ASSUME IInv, NEW p \in PeriodIds, ResetFallsDue(p)
  PROVE  IInv'
<1> DEFINE pr == [period[p] EXCEPT !.reset = "due"]
           c  == Rewritten(Books, p, pr, ledger[p])
<1>1. /\ period \in [PeriodIds -> Period] /\ ledger \in [PeriodIds -> RowSums]
      /\ Books.period = period /\ Books.ledger = ledger
      /\ BooksInv(Books) /\ Books \in BooksType
  BY DEF IInv, BooksInv, BooksType, Books
<1>2. period[p] \in Period /\ ledger[p] \in RowSums /\ ExplainedAt(Books, p)
  BY <1>1 DEF BooksInv, Explained
<1>3. /\ pr \in Period /\ pr.status = period[p].status /\ pr.user = period[p].user
      /\ pr.reserved = period[p].reserved /\ pr.allowance = period[p].allowance
      /\ pr.consumed = period[p].consumed
  BY <1>2 DEF Period
<1>4. Save(c)
  <2>1. period' = [period EXCEPT ![p] = pr] /\ UNCHANGED <<resv, ledger, carried>>
    BY <1>1 DEF ResetFallsDue
  <2>2. [ledger EXCEPT ![p] = ledger[p]] = ledger
    BY <1>1
  <2>3. QED
    BY <2>1, <2>2 DEF Rewritten, Save, Books
<1> HIDE DEF pr
<1>5. BooksInv(c) /\ SameCharges(Books, c)
  <2>1. /\ Books.period[p].status # "unused" /\ pr.status = Books.period[p].status
        /\ pr.user = Books.period[p].user /\ pr.reserved = Books.period[p].reserved
        /\ ledger[p].holds = Books.ledger[p].holds
        /\ ledger[p].charges = Books.ledger[p].charges
        /\ pr.allowance = ledger[p].allowance
        /\ pr.consumed = -(ledger[p].charges + ledger[p].reconciled + ledger[p].adjustments)
    BY <1>1, <1>2, <1>3 DEF ExplainedAt, ResetFallsDue
  <2>2. QED
    BY <1>1, <1>2, <1>3, <2>1, RewrittenInv
<1> HIDE DEF c
<1>6. QED
  BY <1>4, <1>5, Uncharged DEF ResetFallsDue, IInv

-----------------------------------------------------------------------------
(* Every step keeps the invariant.                                         *)
LEMMA NextInv ==
  ASSUME IInv, [Next]_vars
  PROVE  IInv'
<1>1. CASE Administer
  <2>1. PICK u \in Users :
          \/ \E a \in Allowances, c \in Cadences : InitializeUserCredits(u, a, c)
          \/ \E a \in Allowances : SetAllowance(u, a) \/ AddCredits(u, a)
          \/ \E d \in Adjustments : RecordAdjustment(u, d)
          \/ \E c \in Cadences : SetResetCadence(u, c)
          \/ \E s \in Accounts : UpdateUser(u, s)
    BY <1>1 DEF Administer
  <2>2. CASE \E a \in Allowances, c \in Cadences : InitializeUserCredits(u, a, c)
    BY <2>2, InitializeInv
  <2>3. CASE \E a \in Allowances : SetAllowance(u, a) \/ AddCredits(u, a)
    BY <2>3, SetAllowanceInv, AddCreditsInv
  <2>4. CASE \E d \in Adjustments : RecordAdjustment(u, d)
    BY <2>4, RecordAdjustmentInv
  <2>5. CASE \E c \in Cadences : SetResetCadence(u, c)
    BY <2>5, SetResetCadenceInv
  <2>6. CASE \E s \in Accounts : UpdateUser(u, s)
    BY <2>6, UpdateUserInv
  <2>7. QED
    BY <2>1, <2>2, <2>3, <2>4, <2>5, <2>6
<1>2. CASE Reserve
  <2>1. CASE \E S \in SUBSET Lapsed(resv) : SweepAbandonedReservations(S)
    BY <2>1, SweepInv
  <2>2. CASE \E r \in ReservationIds, u \in Users, x \in Amounts, scope \in Scopes,
                limit \in Limits, result \in ReserveResults :
               ReserveCredits(r, u, x, scope, limit, result)
    BY <2>2, ReserveCreditsInv
  <2>3. ASSUME NEW r \in ReservationIds,
               \/ TouchReservation(r)
               \/ \E x \in Amounts : ExtendReservation(r, x)
               \/ \E x \in Billable(r) : ResolveReconciliation(r, x)
               \/ \E x \in Amounts, budget \in Budgets, result \in HoldResults :
                    EnsureReservationHold(r, x, budget, result)
               \/ \E final \in {"settled", "released", "pending_reconciliation"} :
                    ReleaseReservation(r, final)
        PROVE  IInv'
    <3>1. resv \in [ReservationIds -> Reservation]
      BY DEF IInv, BooksInv, BooksType, Books
    <3>2. resv[r].amount \in Nat
      BY <2>3, <3>1 DEF Reservation
    <3>3. Amounts \subseteq Nat
      BY CreditAssumption
    <3>4. ASSUME NEW x \in Billable(r) PROVE x \in Nat
      BY <3>2, <3>3, <3>4 DEF Billable
    <3>5. QED
      BY <2>3, <3>4, TouchInv, ExtendInv, ResolveInv, EnsureHoldInv, ReleaseInv
  <2>4. QED
    BY <1>2, <2>1, <2>2, <2>3 DEF Reserve
<1>3. CASE SettleProviderCall
  <2>1. PICK k \in CallKeys :
          \/ SettleDuplicate(k)
          \/ \E x \in Amounts \cup {0}, pending \in BOOLEAN :
               \/ \E r \in ReservationIds, release \in Amounts \cup {0} :
                    SettleAgainst(k, r, x, pending, release)
               \/ \E u \in Users : SettleUnreserved(k, u, x, pending)
    BY <1>3 DEF SettleProviderCall
  <2>2. Amounts \cup {0} \subseteq Nat
    BY CreditAssumption
  <2>3. CASE SettleDuplicate(k)
    <3>1. Books' = Books /\ UNCHANGED <<account, call, ledger>>
      BY <2>3 DEF SettleDuplicate, vars, Books
    <3>2. QED
      BY <3>1 DEF IInv, Unrecorded, ChargedOnce
  <2>4. ASSUME NEW x \in Amounts \cup {0}, NEW pending \in BOOLEAN,
               NEW r \in ReservationIds, NEW release \in Amounts \cup {0},
               SettleAgainst(k, r, x, pending, release)
        PROVE  IInv'
    BY <2>2, <2>4, SettleAgainstInv
  <2>5. ASSUME NEW x \in Amounts \cup {0}, NEW pending \in BOOLEAN, NEW u \in Users,
               SettleUnreserved(k, u, x, pending)
        PROVE  IInv'
    BY <2>2, <2>5, SettleUnreservedInv
  <2>6. QED
    BY <2>1, <2>3, <2>4, <2>5
<1>4. CASE Clock
  BY <1>4, LapseInv, ResetInv DEF Clock
<1>5. CASE UNCHANGED vars
  <2>1. Books' = Books /\ UNCHANGED <<account, call, ledger>>
    BY <1>5 DEF vars, Books
  <2>2. QED
    BY <2>1 DEF IInv, Unrecorded, ChargedOnce
<1>6. QED
  BY <1>1, <1>2, <1>3, <1>4, <1>5 DEF Next

(* The inductive invariant holds in every behaviour of the books.          *)
THEOREM InductiveInvariant == Spec => []IInv
<1>1. Init => IInv
  BY InitInv
<1>2. IInv /\ [Next]_vars => IInv'
  BY NextInv
<1>3. QED
  BY <1>1, <1>2, PTL DEF Spec

(* No sequence of transactions leaves a field outside its type; reserved   *)
(* in particular never falls below zero (credit_periods, savePeriod).      *)
THEOREM TypeCorrect == Spec => []TypeOK
<1>1. IInv => TypeOK
  BY DEF IInv, BooksInv, BooksType, Books, TypeOK
<1>2. QED
  BY <1>1, InductiveInvariant, PTL

(* reservedSubunits is exactly the sum of the holds that point to the      *)
(* period, however many runs, sweeps, rolls and late settlements there are.*)
THEOREM HoldsBacked == Spec => []HoldsAreBacked
<1>1. IInv => HoldsAreBacked
  BY DEF IInv, BooksInv, Backed, Held, Books, HoldsAreBacked
<1>2. QED
  BY <1>1, InductiveInvariant, PTL

(* Whatever is held is held in its owner's current period.                 *)
THEOREM HoldsCurrent == Spec => []HoldsAreCurrent
<1>1. IInv => HoldsAreCurrent
  BY DEF IInv, BooksInv, HeldCurrent, Books, HoldsAreCurrent
<1>2. QED
  BY <1>1, InductiveInvariant, PTL

(* A user has at most one current period.                                  *)
THEOREM CurrentPeriodUnique == Spec => []OneCurrentPeriod
<1>1. IInv => OneCurrentPeriod
  BY DEF IInv, BooksInv, OneCurrent, Books, OneCurrentPeriod
<1>2. QED
  BY <1>1, InductiveInvariant, PTL

(* Every balance is the sum of its ledger rows, up to the carried holds.   *)
THEOREM BalancesExplained == Spec => []LedgerExplainsBalances
<1>1. IInv => LedgerExplainsBalances
  BY DEF IInv, BooksInv, Explained, ExplainedAt, Books, LedgerExplainsBalances
<1>2. QED
  BY <1>1, InductiveInvariant, PTL

(* Charge rows and recorded provider calls agree: no key is charged twice. *)
THEOREM KeysChargedOnce == Spec => []ChargedOnce
<1>1. IInv => ChargedOnce
  BY DEF IInv
<1>2. QED
  BY <1>1, InductiveInvariant, PTL

-----------------------------------------------------------------------------
(* Funding.                                                                *)

(* No hold of the reservations ss is above what it is in rs.               *)
NoneGrows(rs, ss) ==
  \A r \in ReservationIds :
    rs[r].amount \in Nat /\ ss[r].amount \in Nat /\ ss[r].amount <= rs[r].amount

(* A hold of books c that is above what it is in rs is paid for.           *)
Funded(rs, c) ==
  \A r \in ReservationIds :
    c.resv[r].amount > rs[r].amount =>
      Unlimited(c.resv[r].user) \/ Available(c.period[c.resv[r].period]) >= 0

LEMMA AmountsTyped ==
  ASSUME NEW b \in BooksType
  PROVE  \A r \in ReservationIds : b.resv[r] \in Reservation /\ b.resv[r].amount \in Nat
BY DEF BooksType, Reservation

(* What only lowers holds needs no funds.                                  *)
LEMMA ShrinkingIsFunded ==
  ASSUME NEW rs, NEW c, NoneGrows(rs, c.resv)
  PROVE  Funded(rs, c)
BY DEF NoneGrows, Funded

LEMMA ClosedHoldsNothing ==
  ASSUME NEW v \in Reservation, NEW status \in {"settled", "released", "expired"}
  PROVE  Closed(v, status).amount = 0
<1> DEFINE w == [v EXCEPT !.amount = 0]
<1>1. w.amount = 0 /\ w \in Reservation
  BY DEF Reservation
<1>2. Closed(v, status) = [w EXCEPT !.status = status, !.lapsed = FALSE]
  BY DEF Closed
<1> HIDE DEF w
<1> QED BY <1>1, <1>2 DEF Reservation

(* recoverAbandoned only ends holds.                                       *)
LEMMA RecoveredShrinks ==
  ASSUME NEW b, BooksInv(b), NEW S \in SUBSET Lapsed(b.resv)
  PROVE  NoneGrows(b.resv, Recovered(b, S).resv)
<1>1. b \in BooksType
  BY DEF BooksInv
<1>2. Recovered(b, S).resv =
        [r \in ReservationIds |-> IF r \in S THEN Closed(b.resv[r], "expired") ELSE b.resv[r]]
  BY <1>1 DEF Recovered, BooksType
<1>3. \A r \in ReservationIds : Closed(b.resv[r], "expired").amount = 0
  BY <1>1, AmountsTyped, ClosedHoldsNothing
<1> QED BY <1>1, <1>2, <1>3, AmountsTyped DEF NoneGrows

(* ensureCurrentPeriod moves holds, and changes none.                      *)
LEMMA EnsuredShrinks ==
  ASSUME NEW b, BooksInv(b), NEW u \in Users, NEW a \in Int, NEW C \in SUBSET Cadences,
         NEW e \in EnsuredWith(b, u, a, C)
  PROVE  NoneGrows(b.resv, e[1].resv)
<1>1. b \in BooksType
  BY DEF BooksInv
<1>2. CASE CurrentOf(b.period, u) = {}
  <2>1. PICK n \in Fresh(b.period), c \in C :
          e = <<Opened(b, n, NewPeriod(u, a, FirstReset(c), 0)), n>>
    BY <1>2 DEF EnsuredWith
  <2> DEFINE new == NewPeriod(u, a, FirstReset(c), 0)
  <2>2. new \in Period
    BY DEF NewPeriod, FirstReset, Period
  <2>3. n \in PeriodIds /\ e[1] = Opened(b, n, new)
    BY <2>1 DEF Fresh
  <2> HIDE DEF new
  <2>4. Opened(b, n, new).resv = b.resv
    BY <1>1, <2>2, <2>3, OpenedFields
  <2> QED BY <1>1, <2>3, <2>4, AmountsTyped DEF NoneGrows
<1>3. CASE CurrentOf(b.period, u) # {}
  <2>1. PICK p \in CurrentOf(b.period, u) :
          \/ e = <<b, p>>
          \/ \E n \in Fresh(b.period), reset \in {"later", "due"} :
               e = <<Rolled(b, p, n, reset), n>>
    BY <1>3 DEF EnsuredWith
  <2>2. CASE e = <<b, p>>
    BY <1>1, <2>2, AmountsTyped DEF NoneGrows
  <2>3. ASSUME NEW n \in Fresh(b.period), NEW reset \in {"later", "due"},
               e = <<Rolled(b, p, n, reset), n>>
        PROVE  NoneGrows(b.resv, e[1].resv)
    <3>1. p \in PeriodIds /\ b.period[p].status = "current" /\ b.period[p].user \in Users
      BY DEF CurrentOf
    <3>2. RolledTo(b, p, n, reset, Rolled(b, p, n, reset))
      BY <3>1, RolledFields
    <3>3. e[1].resv = [r \in ReservationIds |-> IF r \in HeldIn(b.resv, p)
                                               THEN [b.resv[r] EXCEPT !.period = n]
                                               ELSE b.resv[r]]
      BY <2>3, <3>2 DEF RolledTo
    <3>4. \A r \in ReservationIds : [b.resv[r] EXCEPT !.period = n].amount = b.resv[r].amount
      BY <1>1, AmountsTyped DEF Reservation
    <3> QED BY <1>1, <3>3, <3>4, AmountsTyped DEF NoneGrows
  <2> QED BY <2>1, <2>2, <2>3
<1> QED BY <1>2, <1>3

LEMMA NoneGrowsTrans ==
  ASSUME NEW rs, NEW ss, NEW ts, NoneGrows(rs, ss), NoneGrows(ss, ts)
  PROVE  NoneGrows(rs, ts)
BY DEF NoneGrows

(* A hold set up or extended within what is available stays funded.        *)
LEMMA HoldingFunded ==
  ASSUME NEW rs, NEW b, BooksInv(b), NoneGrows(rs, b.resv), NEW r \in ReservationIds,
         NEW p \in PeriodIds, NEW x \in Nat, NEW v, v.period = p,
         Unlimited(v.user) \/ x <= Available(b.period[p])
  PROVE  Funded(rs, Holding(b, r, p, x, v))
<1> DEFINE c == Holding(b, r, p, x, v)
<1>1. b \in BooksType /\ b.period \in [PeriodIds -> Period]
  BY DEF BooksInv, BooksType
<1>2. c.resv = [b.resv EXCEPT ![r] = v] /\ c.period = [b.period EXCEPT ![p].reserved = @ + x]
  BY <1>1 DEF Holding, BooksType
<1> HIDE DEF c
<1>3. c.resv[r] = v /\ \A s \in ReservationIds \ {r} : c.resv[s] = b.resv[s]
  BY <1>1, <1>2 DEF BooksType
<1>4. /\ c.period[p].allowance = b.period[p].allowance
      /\ c.period[p].consumed = b.period[p].consumed
      /\ c.period[p].reserved = b.period[p].reserved + x
  BY <1>1, <1>2 DEF Period
<1>5. /\ b.period[p].allowance \in Int /\ b.period[p].consumed \in Int
      /\ b.period[p].reserved \in Nat
  BY <1>1 DEF Period
<1>6. Unlimited(v.user) \/ Available(c.period[p]) >= 0
  BY <1>4, <1>5 DEF Available
<1>7. \A s \in ReservationIds \ {r} : ~(c.resv[s].amount > rs[s].amount)
  BY <1>3 DEF NoneGrows
<1> QED BY <1>3, <1>6, <1>7 DEF Funded, c

(* What a transaction saves is funded when its books are.                  *)
GrowthFunded ==
  \A r \in ReservationIds :
    resv'[r].amount > resv[r].amount =>
      Unlimited(resv'[r].user) \/ Available(period'[resv'[r].period]) >= 0

LEMMA SavedFunded ==
  ASSUME NEW c, Save(c), UNCHANGED account, Funded(resv, c)
  PROVE  GrowthFunded
BY DEF Save, Funded, GrowthFunded, Unlimited

LEMMA SavedShrinks ==
  ASSUME NEW c, resv' = c.resv, NoneGrows(resv, c.resv)
  PROVE  GrowthFunded
BY DEF NoneGrows, GrowthFunded

(* One reservation is rewritten with no more in it.                        *)
LEMMA OneShrinks ==
  ASSUME IInv, NEW r \in ReservationIds, NEW v, resv' = [resv EXCEPT ![r] = v],
         v.amount \in Nat, v.amount <= resv[r].amount
  PROVE  GrowthFunded
<1>1. resv \in [ReservationIds -> Reservation] /\ \A s \in ReservationIds : resv[s].amount \in Nat
  BY DEF IInv, BooksInv, BooksType, Books, Reservation
<1> QED BY <1>1 DEF GrowthFunded

LEMMA SameShrinks ==
  ASSUME IInv, resv' = resv
  PROVE  GrowthFunded
<1>1. \A s \in ReservationIds : resv[s].amount \in Nat
  BY DEF IInv, BooksInv, BooksType, Books, Reservation
<1> QED BY <1>1 DEF GrowthFunded

LEMMA AdministerFunded ==
  ASSUME IInv, Administer
  PROVE  GrowthFunded
<1>1. PICK u \in Users :
        \/ \E a \in Allowances, c \in Cadences : InitializeUserCredits(u, a, c)
        \/ \E a \in Allowances : SetAllowance(u, a) \/ AddCredits(u, a)
        \/ \E d \in Adjustments : RecordAdjustment(u, d)
        \/ \E c \in Cadences : SetResetCadence(u, c)
        \/ \E s \in Accounts : UpdateUser(u, s)
  BY DEF Administer
<1>2. BooksInv(Books) /\ Books.resv = resv
  BY DEF IInv, Books
<1>3. ASSUME NEW a \in Int, NEW C \in SUBSET Cadences, NEW e \in EnsuredWith(Books, u, a, C),
             resv' = e[1].resv
      PROVE  GrowthFunded
  <2>1. NoneGrows(resv, e[1].resv)
    BY <1>2, EnsuredShrinks
  <2> QED BY <1>3, <2>1, SavedShrinks
<1>4. CASE \E a \in Allowances, c \in Cadences : InitializeUserCredits(u, a, c)
  <2>1. PICK a \in Allowances, c \in Cadences : InitializeUserCredits(u, a, c)
    BY <1>4
  <2>2. a \in Int /\ {c} \in SUBSET Cadences
    BY CreditAssumption
  <2> QED BY <1>3, <2>1, <2>2 DEF InitializeUserCredits, Save
<1>5. ASSUME NEW e \in Ensured(Books, u), resv' = e[1].resv PROVE GrowthFunded
  <2>1. e \in EnsuredWith(Books, u, 0, Cadences)
    BY DEF Ensured
  <2> QED BY <1>3, <1>5, <2>1
<1>6. ASSUME NEW e \in Ensured(Books, u) PROVE e[1] \in BooksType
  BY <1>2, EnsuredBooks DEF Continues, BooksInv
<1>7. CASE \E a \in Allowances : SetAllowance(u, a)
  <2>1. PICK a \in Allowances, e \in Ensured(Books, u) :
          Save([e[1] EXCEPT !.period[e[2]].allowance = a,
                  !.ledger[e[2]].allowance = @ + a - e[1].period[e[2]].allowance])
    BY <1>7 DEF SetAllowance
  <2> QED BY <1>5, <1>6, <2>1 DEF Save, BooksType
<1>8. CASE \E a \in Allowances : AddCredits(u, a)
  <2>1. PICK a \in Allowances, e \in Ensured(Books, u) :
          Save([e[1] EXCEPT !.period[e[2]].allowance = @ + a, !.ledger[e[2]].allowance = @ + a])
    BY <1>8, ZenonT(30) DEF AddCredits
  <2> QED BY <1>5, <1>6, <2>1 DEF Save, BooksType
<1>9. CASE \E d \in Adjustments : RecordAdjustment(u, d)
  <2>1. PICK d \in Adjustments, e \in Ensured(Books, u) :
          Save([e[1] EXCEPT !.period[e[2]].consumed = @ - d, !.ledger[e[2]].adjustments = @ + d])
    BY <1>9 DEF RecordAdjustment
  <2> QED BY <1>5, <1>6, <2>1 DEF Save, BooksType
<1>10. CASE \E c \in Cadences : SetResetCadence(u, c)
  <2>1. PICK c \in Cadences, e \in Ensured(Books, u) :
          Save([e[1] EXCEPT !.period[e[2]].reset = FirstReset(c)])
    BY <1>10 DEF SetResetCadence
  <2> QED BY <1>5, <1>6, <2>1 DEF Save, BooksType
<1>11. CASE \E s \in Accounts : UpdateUser(u, s)
  BY <1>11, SameShrinks DEF UpdateUser
<1> QED BY <1>1, <1>4, <1>7, <1>8, <1>9, <1>10, <1>11

LEMMA ReserveFunded ==
  ASSUME IInv, NEW r \in ReservationIds, NEW u \in Users, NEW x \in Amounts,
         NEW scope \in Scopes, NEW limit, NEW result,
         ReserveCredits(r, u, x, scope, limit, result)
  PROVE  GrowthFunded
<1> DEFINE v(p) == [user |-> u, period |-> p, status |-> "open", amount |-> x,
                    settled |-> 0, lapsed |-> FALSE, scope |-> scope]
<1>1. PICK S \in SUBSET Lapsed(resv) :
        \/ Save(Recovered(Books, S))
        \/ \E e \in Ensured(Recovered(Books, S), u) :
             \/ Save(e[1])
             \/ /\ Unlimited(u) \/ x <= Available(e[1].period[e[2]])
                /\ Save(Holding(e[1], r, e[2], x, v(e[2])))
  BY DEF ReserveCredits
<1> DEFINE b == Recovered(Books, S)
<1>2. S \in SUBSET Lapsed(Books.resv) /\ Books.resv = resv
  BY DEF Books
<1>3. BooksInv(b) /\ NoneGrows(resv, b.resv)
  BY <1>2, RecoveredInv, RecoveredShrinks DEF IInv
<1>4. UNCHANGED account /\ x \in Nat
  BY CreditAssumption DEF ReserveCredits
<1> HIDE DEF b
<1>5. CASE Save(b)
  BY <1>3, <1>5, SavedShrinks DEF Save
<1>6. ASSUME NEW e \in Ensured(b, u) PROVE BooksInv(e[1]) /\ NoneGrows(resv, e[1].resv)
                                           /\ e[2] \in PeriodIds
  <2>1. Continues(b, u, e[1], e[2])
    BY <1>3, EnsuredBooks
  <2>2. e \in EnsuredWith(b, u, 0, Cadences)
    BY DEF Ensured
  <2>3. NoneGrows(b.resv, e[1].resv)
    BY <1>3, <2>2, EnsuredShrinks
  <2> QED BY <1>3, <2>1, <2>3, NoneGrowsTrans, Ongoing
<1>7. ASSUME NEW e \in Ensured(b, u), Save(e[1]) PROVE GrowthFunded
  BY <1>6, <1>7, SavedShrinks DEF Save
<1>8. ASSUME NEW e \in Ensured(b, u), Unlimited(u) \/ x <= Available(e[1].period[e[2]]),
             Save(Holding(e[1], r, e[2], x, v(e[2])))
      PROVE  GrowthFunded
  <2> DEFINE c == e[1]
             p == e[2]
             w == v(p)
  <2>1. w.user = u /\ w.period = p
    OBVIOUS
  <2>2. BooksInv(c) /\ NoneGrows(resv, c.resv) /\ p \in PeriodIds
    BY <1>6
  <2>3. Unlimited(u) \/ x <= Available(c.period[p])
    BY <1>8
  <2>4. Save(Holding(c, r, p, x, w))
    BY <1>8
  <2> HIDE DEF c, p, w
  <2>5. Funded(resv, Holding(c, r, p, x, w))
    BY <1>4, <2>1, <2>2, <2>3, HoldingFunded
  <2> QED BY <1>4, <2>4, <2>5, SavedFunded
<1> QED BY <1>1, <1>5, <1>7, <1>8 DEF b

(* A top-up within what is available.                                      *)
LEMMA ExtendedFunded ==
  ASSUME IInv, NEW r \in ReservationIds, NEW x \in Nat, NEW renewed \in BOOLEAN,
         resv[r].status = "open", Save(Extended(Books, r, x, renewed)), UNCHANGED account,
         Unlimited(resv[r].user) \/ x <= Available(period[resv[r].period])
  PROVE  GrowthFunded
<1> DEFINE p == resv[r].period
           w == [resv[r] EXCEPT !.amount = @ + x]
           v == [w EXCEPT !.lapsed = @ /\ ~renewed]
<1>1. /\ p \in PeriodIds /\ resv[r] \in Reservation
  BY Reserved
<1>2. w \in Reservation /\ w.period = p /\ w.user = resv[r].user
  BY <1>1 DEF Reservation
<1> HIDE DEF w
<1>3. v.period = p /\ v.user = resv[r].user
  BY <1>2 DEF Reservation
<1>4. Books.resv = resv /\ Books.period = period /\ BooksInv(Books)
  BY DEF Books, IInv
<1>5. Extended(Books, r, x, renewed) = Holding(Books, r, p, x, v)
  BY <1>4 DEF Extended, w
<1>6. NoneGrows(resv, Books.resv)
  BY <1>4, AmountsTyped DEF NoneGrows, BooksInv
<1> HIDE DEF v
<1>7. Unlimited(v.user) \/ x <= Available(Books.period[p])
  BY <1>3, <1>4
<1> HIDE DEF p
<1>8. Funded(resv, Holding(Books, r, p, x, v))
  BY <1>1, <1>3, <1>4, <1>6, <1>7, HoldingFunded
<1> QED BY <1>5, <1>8, SavedFunded

(* What ensureReservationHold adds is available.                           *)
LEMMA TopUpsAvailable ==
  ASSUME NEW r, NEW ceiling, NEW budget, NEW x \in TopUps(r, ceiling, budget),
         ~Unlimited(resv[r].user)
  PROVE  x <= Available(period[resv[r].period])
BY DEF TopUps

LEMMA EnsureHoldFunded ==
  ASSUME IInv, NEW r \in ReservationIds, NEW ceiling \in Amounts, NEW budget \in Budgets,
         NEW result, EnsureReservationHold(r, ceiling, budget, result)
  PROVE  GrowthFunded
<1>1. resv[r].status # "unused" /\ UNCHANGED account
  BY DEF EnsureReservationHold
<1>2. resv[r] \in Reservation /\ ceiling \in Nat /\ budget \in Nat
  BY <1>1, Reserved, CreditAssumption
<1>3. CASE resv' = [resv EXCEPT ![r].lapsed = FALSE]
  <2> DEFINE v == [resv[r] EXCEPT !.lapsed = FALSE]
  <2>1. v.amount \in Nat /\ v.amount <= resv[r].amount
    BY <1>2 DEF Reservation
  <2>2. resv' = [resv EXCEPT ![r] = v]
    BY <1>3
  <2> HIDE DEF v
  <2> QED BY <2>1, <2>2, OneShrinks
<1>4. ASSUME resv[r].status = "open", resv[r].amount < ceiling,
             NEW x \in TopUps(r, ceiling, budget), Save(Extended(Books, r, x, TRUE))
      PROVE  GrowthFunded
  <2>1. x \in Nat
    BY <1>2, <1>4, TopUpsGrow DEF Reservation
  <2>2. Unlimited(resv[r].user) \/ x <= Available(period[resv[r].period])
    BY TopUpsAvailable
  <2> QED BY <1>1, <1>4, <2>1, <2>2, ExtendedFunded
<1>5. CASE resv' = resv
  BY <1>5, SameShrinks
<1> QED BY <1>3, <1>4, <1>5 DEF EnsureReservationHold

(* releaseReservation and resolveReconciliation end a hold or keep it.     *)
LEMMA EndingFunded ==
  ASSUME IInv, NEW r \in ReservationIds, NEW final \in {"settled", "released"},
         NEW v \in Reservation, resv' = [resv EXCEPT ![r] = Closed(v, final)]
  PROVE  GrowthFunded
<1>1. Closed(v, final).amount = 0
  BY ClosedHoldsNothing
<1>2. resv[r].amount \in Nat
  BY AmountsTyped DEF IInv, BooksInv, Books
<1> DEFINE w == Closed(v, final)
<1>3. w.amount \in Nat /\ w.amount <= resv[r].amount
  BY <1>1, <1>2
<1> HIDE DEF w
<1>4. resv' = [resv EXCEPT ![r] = w]
  BY DEF w
<1> QED BY <1>3, <1>4, OneShrinks

LEMMA ReleaseFunded ==
  ASSUME IInv, NEW r \in ReservationIds, NEW final, ReleaseReservation(r, final)
  PROVE  GrowthFunded
<1>1. resv[r] \in Reservation
  BY Reserved DEF ReleaseReservation
<1>2. CASE resv' = [resv EXCEPT ![r] = Parked(resv[r])]
  <2> DEFINE v == Parked(resv[r])
  <2>1. v.amount = resv[r].amount /\ resv[r].amount \in Nat
    BY <1>1, ParkedFields DEF Reservation
  <2> HIDE DEF v
  <2>2. v.amount \in Nat /\ v.amount <= resv[r].amount
    BY <2>1
  <2> QED BY <1>2, <2>2, OneShrinks DEF v
<1>3. CASE final \in {"settled", "released"} /\ resv' = [resv EXCEPT ![r] = Closed(resv[r], final)]
  BY <1>1, <1>3, EndingFunded
<1>4. CASE resv' = resv
  BY <1>4, SameShrinks
<1> QED BY <1>2, <1>3, <1>4 DEF ReleaseReservation, Save, Books

LEMMA ResolveFunded ==
  ASSUME IInv, NEW r \in ReservationIds, NEW x \in Nat, ResolveReconciliation(r, x)
  PROVE  GrowthFunded
<1> DEFINE charge == Least(x, resv[r].amount)
           v      == [resv[r] EXCEPT !.settled = @ + charge]
<1>1. resv[r] \in Reservation
  BY Reserved DEF ResolveReconciliation
<1>2. charge \in Nat
  BY <1>1 DEF Least, Reservation
<1>3. v \in Reservation
  BY <1>1, <1>2, SMTT(30) DEF Reservation
<1>4. resv' = [resv EXCEPT ![r] = Closed(v, "settled")]
  BY DEF ResolveReconciliation, Save, Books
<1> HIDE DEF v
<1> QED BY <1>3, <1>4, EndingFunded

(* settleProviderCall never adds to a hold.                                *)
LEMMA SettleFunded ==
  ASSUME IInv, SettleProviderCall
  PROVE  GrowthFunded
<1>1. PICK k \in CallKeys :
        \/ SettleDuplicate(k)
        \/ \E x \in Amounts \cup {0}, pending \in BOOLEAN :
             \/ \E r \in ReservationIds, release \in Amounts \cup {0} :
                  SettleAgainst(k, r, x, pending, release)
             \/ \E u \in Users : SettleUnreserved(k, u, x, pending)
  BY DEF SettleProviderCall
<1>2. Amounts \cup {0} \subseteq Nat
  BY CreditAssumption
<1>3. CASE SettleDuplicate(k)
  BY <1>3, SameShrinks DEF SettleDuplicate, vars
<1>4. ASSUME NEW x \in Nat, NEW pending \in BOOLEAN, NEW r \in ReservationIds,
             NEW release \in Nat, SettleAgainst(k, r, x, pending, release)
      PROVE  GrowthFunded
  <2> DEFINE open     == resv[r].status = "open"
             charge   == IF pending THEN 0 ELSE x
             released == IF open /\ ~pending THEN Least(resv[r].amount, release) ELSE 0
             v        == IF ~open THEN resv[r]
                         ELSE IF pending THEN Parked(resv[r])
                         ELSE Reduced(resv[r], released, charge)
  <2>1. resv[r] \in Reservation /\ resv[r].amount \in Nat
    BY <1>4, Reserved DEF SettleAgainst, Reservation
  <2>2. released \in Nat /\ released <= resv[r].amount /\ charge \in Nat
    BY <2>1, SMTT(30) DEF Least
  <2>3. resv' = [resv EXCEPT ![r] = v]
    BY <1>4, Zenon DEF SettleAgainst, Save, Books
  <2> HIDE DEF released, charge
  <2>4. /\ Parked(resv[r]).amount = resv[r].amount
        /\ Reduced(resv[r], released, charge).amount = resv[r].amount - released
    BY <2>1, <2>2, ParkedFields, ReducedFields
  <2>5. v.amount \in Nat /\ v.amount <= resv[r].amount
    BY <2>1, <2>2, <2>4
  <2> HIDE DEF v
  <2> QED BY <2>3, <2>5, OneShrinks
<1>5. ASSUME NEW x, NEW pending, NEW u \in Users, SettleUnreserved(k, u, x, pending)
      PROVE  GrowthFunded
  <2> DEFINE charge == IF pending THEN 0 ELSE x
  <2>1. PICK e \in Ensured(Books, u) :
          Save([e[1] EXCEPT !.period[e[2]].consumed = @ + charge,
                            !.ledger[e[2]].charges = @ - charge])
    BY <1>5 DEF SettleUnreserved
  <2>2. BooksInv(Books) /\ Books.resv = resv
    BY DEF IInv, Books
  <2>3. e[1] \in BooksType /\ e \in EnsuredWith(Books, u, 0, Cadences)
    BY <2>2, EnsuredBooks DEF Continues, BooksInv, Ensured
  <2>4. resv' = e[1].resv
    BY <2>1, <2>3 DEF Save, BooksType
  <2>5. NoneGrows(resv, e[1].resv)
    BY <2>2, <2>3, EnsuredShrinks
  <2> QED BY <2>4, <2>5, SavedShrinks
<1> QED BY <1>1, <1>2, <1>3, <1>4, <1>5

LEMMA StepFunded ==
  ASSUME IInv, [Next]_vars
  PROVE  GrowthFunded
<1>1. CASE Administer
  BY <1>1, AdministerFunded
<1>2. CASE Reserve
  <2>1. ASSUME NEW S \in SUBSET Lapsed(resv), SweepAbandonedReservations(S)
        PROVE  GrowthFunded
    <3>1. BooksInv(Books) /\ S \in SUBSET Lapsed(Books.resv) /\ Books.resv = resv
      BY DEF IInv, Books
    <3> QED BY <2>1, <3>1, RecoveredShrinks, SavedShrinks
            DEF SweepAbandonedReservations, Save
  <2>2. CASE \E r \in ReservationIds, u \in Users, x \in Amounts, scope \in Scopes,
                limit \in Limits, result \in ReserveResults :
               ReserveCredits(r, u, x, scope, limit, result)
    BY <2>2, ReserveFunded
  <2>3. ASSUME NEW r \in ReservationIds, TouchReservation(r) PROVE GrowthFunded
    <3> DEFINE v == [resv[r] EXCEPT !.lapsed = FALSE]
    <3>1. resv[r] \in Reservation
      BY <2>3, Reserved DEF TouchReservation
    <3>2. v.amount \in Nat /\ v.amount <= resv[r].amount
      BY <3>1 DEF Reservation
    <3>3. resv' = [resv EXCEPT ![r] = v]
      BY <2>3 DEF TouchReservation
    <3> HIDE DEF v
    <3> QED BY <3>2, <3>3, OneShrinks
  <2>4. ASSUME NEW r \in ReservationIds, NEW x \in Amounts, ExtendReservation(r, x)
        PROVE  GrowthFunded
    BY <2>4, ExtendedFunded, CreditAssumption DEF ExtendReservation
  <2>5. ASSUME NEW r \in ReservationIds, NEW x \in Billable(r), ResolveReconciliation(r, x)
        PROVE  GrowthFunded
    <3>1. resv[r].amount \in Nat
      BY AmountsTyped DEF IInv, BooksInv, Books
    <3>2. x \in Nat
      BY <3>1, CreditAssumption DEF Billable
    <3> QED BY <2>5, <3>2, ResolveFunded
  <2> QED BY <1>2, <2>1, <2>2, <2>3, <2>4, <2>5, EnsureHoldFunded, ReleaseFunded DEF Reserve
<1>3. CASE SettleProviderCall
  BY <1>3, SettleFunded
<1>4. CASE Clock
  <2>1. ASSUME NEW r \in ReservationIds, ReservationLapses(r) PROVE GrowthFunded
    <3> DEFINE v == [resv[r] EXCEPT !.lapsed = TRUE]
    <3>1. resv[r] \in Reservation
      BY <2>1, Reserved DEF ReservationLapses
    <3>2. v.amount \in Nat /\ v.amount <= resv[r].amount
      BY <3>1 DEF Reservation
    <3>3. resv' = [resv EXCEPT ![r] = v]
      BY <2>1 DEF ReservationLapses
    <3> HIDE DEF v
    <3> QED BY <3>2, <3>3, OneShrinks
  <2>2. ASSUME NEW p \in PeriodIds, ResetFallsDue(p) PROVE GrowthFunded
    BY <2>2, SameShrinks DEF ResetFallsDue
  <2> QED BY <1>4, <2>1, <2>2 DEF Clock
<1>5. CASE UNCHANGED vars
  BY <1>5, SameShrinks DEF vars
<1> QED BY <1>1, <1>2, <1>3, <1>4, <1>5 DEF Next

(* reserveCredits, extendReservation, ensureReservationHold: no step makes *)
(* a hold of a limited user grow beyond what the current period can pay,   *)
(* whatever the same transaction recovered or rolled before it looked.     *)
THEOREM HoldsFunded == Spec => HoldsAreFunded
<1>1. IInv /\ [Next]_vars =>
        [\A r \in ReservationIds :
           resv'[r].amount > resv[r].amount =>
             Unlimited(resv'[r].user) \/ Available(period'[resv'[r].period]) >= 0]_vars
  BY StepFunded DEF GrowthFunded
<1>2. QED
  BY <1>1, InductiveInvariant, PTL DEF Spec, HoldsAreFunded

-----------------------------------------------------------------------------
(* The purses.                                                             *)


(* The purses as seen in a record of books.                                *)
AllowanceIn(b, u) ==
  IF CurrentOf(b.period, u) = {} THEN 0
  ELSE b.period[CHOOSE p \in CurrentOf(b.period, u) : TRUE].allowance
SpentIn(b, u) ==
  IF CurrentOf(b.period, u) = {} THEN 0
  ELSE b.period[CHOOSE p \in CurrentOf(b.period, u) : TRUE].consumed
Seen(v) == [owner |-> v.user, state |-> HoldState(v.status), amount |-> v.amount]

(* A current period belongs to a user.                                     *)
Owned(b) == \A p \in PeriodIds : b.period[p].status = "current" => b.period[p].user \in Users

Sound(b) == BooksInv(b) /\ Owned(b)

LEMMA PurseSeen ==
  /\ PurseAllowance = [u \in Users |-> AllowanceIn(Books, u)]
  /\ PurseSpent = [u \in Users |-> SpentIn(Books, u)]
  /\ PurseHold = [r \in ReservationIds |-> Seen(Books.resv[r])]
  /\ PurseAllowance' = [u \in Users |-> AllowanceIn(Books', u)]
  /\ PurseSpent' = [u \in Users |-> SpentIn(Books', u)]
  /\ PurseHold' = [r \in ReservationIds |-> Seen(Books'.resv[r])]
<1>1. \A u : CurrentOf(period, u) \subseteq PeriodIds /\ CurrentOf(period', u) \subseteq PeriodIds
  BY DEF CurrentOf
<1>2. \A u : CurrentOf(period, u) # {} => (CHOOSE p \in CurrentOf(period, u) : TRUE) \in PeriodIds
  BY <1>1
<1>3. \A u : CurrentOf(period', u) # {} => (CHOOSE p \in CurrentOf(period', u) : TRUE) \in PeriodIds
  BY <1>1
<1>4. Books.period = period /\ Books.resv = resv /\ Books'.period = period' /\ Books'.resv = resv'
  BY DEF Books
<1>5. \A u : /\ Figure(u, [p \in PeriodIds |-> period[p].allowance]) = AllowanceIn(Books, u)
             /\ Figure(u, [p \in PeriodIds |-> period[p].consumed]) = SpentIn(Books, u)
  BY <1>2, <1>4 DEF Figure, AllowanceIn, SpentIn
<1>6. \A u : /\ Figure(u, [p \in PeriodIds |-> period[p].allowance])' = AllowanceIn(Books', u)
             /\ Figure(u, [p \in PeriodIds |-> period[p].consumed])' = SpentIn(Books', u)
  BY <1>3, <1>4 DEF Figure, AllowanceIn, SpentIn
<1>7. QED
  BY <1>4, <1>5, <1>6 DEF PurseAllowance, PurseSpent, PurseHold, Seen

(* The figures of a user with a current period are that period's.          *)
LEMMA InCurrent ==
  ASSUME NEW b, BooksInv(b), NEW u, NEW p \in CurrentOf(b.period, u)
  PROVE  AllowanceIn(b, u) = b.period[p].allowance /\ SpentIn(b, u) = b.period[p].consumed
<1>1. \A q \in CurrentOf(b.period, u) : q = p
  BY DEF BooksInv, OneCurrent, CurrentOf
<1>2. (CHOOSE q \in CurrentOf(b.period, u) : TRUE) = p
  BY <1>1
<1>3. QED
  BY <1>2 DEF AllowanceIn, SpentIn

LEMMA FiguresType ==
  ASSUME NEW b, BooksInv(b), NEW u
  PROVE  AllowanceIn(b, u) \in Int /\ SpentIn(b, u) \in Int
<1>1. CASE CurrentOf(b.period, u) = {}
  BY <1>1 DEF AllowanceIn, SpentIn
<1>2. CASE CurrentOf(b.period, u) # {}
  <2>1. PICK p \in PeriodIds : p \in CurrentOf(b.period, u)
    BY <1>2 DEF CurrentOf
  <2>2. b.period[p].allowance \in Int /\ b.period[p].consumed \in Int
    BY <2>1 DEF BooksInv, BooksType, Period
  <2>3. QED
    BY <2>1, <2>2, InCurrent
<1>3. QED
  BY <1>1, <1>2

(* What is reserved in the current period is what the user's holds are.    *)
HoldsSeen(b, u) ==
  {r \in ReservationIds : Seen(b.resv[r]).state \in {"open", "parked"} /\ Seen(b.resv[r]).owner = u}

LEMMA SeenHolds ==
  ASSUME NEW b, BooksInv(b), NEW u, NEW p \in CurrentOf(b.period, u)
  PROVE  HoldsSeen(b, u) = HeldIn(b.resv, p)
<1>1. p \in PeriodIds /\ b.period[p].status = "current" /\ b.period[p].user = u
  BY DEF CurrentOf
<1>2. ASSUME NEW r \in ReservationIds
      PROVE  /\ Seen(b.resv[r]).state \in {"open", "parked"} <=> b.resv[r].status \in HeldStatuses
             /\ Seen(b.resv[r]).owner = b.resv[r].user
  BY DEF Seen, HoldState, HeldStatuses
<1>3. ASSUME NEW r \in ReservationIds, b.resv[r].status \in HeldStatuses
      PROVE  b.resv[r].user = u <=> b.resv[r].period = p
  BY <1>1, <1>3 DEF BooksInv, HeldCurrent, OneCurrent
<1>4. QED
  BY <1>2, <1>3 DEF HoldsSeen, HeldIn

LEMMA SeenFree ==
  ASSUME NEW b, BooksInv(b), NEW u, NEW p \in CurrentOf(b.period, u)
  PROVE  AllowanceIn(b, u) - SpentIn(b, u) - Total(AmountOf(b.resv), HoldsSeen(b, u))
           = Available(b.period[p])
<1>1. b.period[p].reserved = Total(AmountOf(b.resv), HoldsSeen(b, u))
  BY SeenHolds DEF BooksInv, Backed, Held, CurrentOf
<1>2. QED
  BY <1>1, InCurrent DEF Available

-----------------------------------------------------------------------------
(* What the operators of a transaction do to the purses.                   *)

SameHolds(b, c) == \A r \in ReservationIds : Seen(c.resv[r]) = Seen(b.resv[r])

(* Only u's purse may differ.                                              *)
Others(b, c, u) ==
  \A v \in Users : v # u => AllowanceIn(c, v) = AllowanceIn(b, v) /\ SpentIn(c, v) = SpentIn(b, v)

(* The current periods of v are the same, with the same figures.           *)
LEMMA SameFigures ==
  ASSUME NEW b, NEW c, BooksInv(b), BooksInv(c), NEW v,
         CurrentOf(c.period, v) = CurrentOf(b.period, v),
         \A p \in CurrentOf(b.period, v) :
           /\ c.period[p].allowance = b.period[p].allowance
           /\ c.period[p].consumed = b.period[p].consumed
  PROVE  AllowanceIn(c, v) = AllowanceIn(b, v) /\ SpentIn(c, v) = SpentIn(b, v)
<1>1. CASE CurrentOf(b.period, v) = {}
  BY <1>1 DEF AllowanceIn, SpentIn
<1>2. CASE CurrentOf(b.period, v) # {}
  <2>1. PICK p : p \in CurrentOf(b.period, v)
    BY <1>2
  <2>2. p \in CurrentOf(c.period, v)
    BY <2>1
  <2>3. QED
    BY <2>1, <2>2, InCurrent
<1>3. QED
  BY <1>1, <1>2

(* A period keeps its status and its user; its figures may change.         *)
LEMMA OnePeriod ==
  ASSUME NEW b, NEW c, Sound(b), BooksInv(c), NEW p \in PeriodIds,
         c.period[p].status = b.period[p].status, c.period[p].user = b.period[p].user,
         \A q \in PeriodIds : q # p => c.period[q] = b.period[q]
  PROVE  /\ Sound(c)
         /\ \A v : CurrentOf(c.period, v) = CurrentOf(b.period, v)
         /\ Others(b, c, b.period[p].user)
         /\ b.period[p].status = "current" =>
              /\ AllowanceIn(c, b.period[p].user) = c.period[p].allowance
              /\ SpentIn(c, b.period[p].user) = c.period[p].consumed
         /\ b.period[p].status # "current" => \A v \in Users :
              AllowanceIn(c, v) = AllowanceIn(b, v) /\ SpentIn(c, v) = SpentIn(b, v)
<1>0. BooksInv(b)
  BY DEF Sound
<1>1. \A v : CurrentOf(c.period, v) = CurrentOf(b.period, v)
  BY DEF CurrentOf
<1>2. Owned(c)
  BY DEF Sound, Owned
<1>3. Others(b, c, b.period[p].user)
  <2>1. ASSUME NEW v \in Users, v # b.period[p].user
        PROVE  \A q \in CurrentOf(b.period, v) : q \in PeriodIds /\ q # p
    BY <2>1 DEF CurrentOf
  <2>2. QED
    BY <1>0, <1>1, <2>1, SameFigures DEF Others
<1>4. ASSUME b.period[p].status = "current"
      PROVE  /\ AllowanceIn(c, b.period[p].user) = c.period[p].allowance
             /\ SpentIn(c, b.period[p].user) = c.period[p].consumed
  <2>1. p \in CurrentOf(c.period, b.period[p].user)
    BY <1>4 DEF CurrentOf
  <2>2. QED
    BY <2>1, InCurrent
<1>5. ASSUME b.period[p].status # "current", NEW v \in Users
      PROVE  AllowanceIn(c, v) = AllowanceIn(b, v) /\ SpentIn(c, v) = SpentIn(b, v)
  <2>1. \A q \in CurrentOf(b.period, v) : q \in PeriodIds /\ q # p
    BY <1>5 DEF CurrentOf
  <2>2. QED
    BY <1>0, <1>1, <2>1, SameFigures
<1>6. QED
  BY <1>1, <1>2, <1>3, <1>4, <1>5 DEF Sound

(* openPeriod and maybeRollPeriod: the purse keeps its allowance and its   *)
(* holds, and may forget what was spent.                                   *)
Turned(b, c, u) ==
  /\ Others(b, c, u) /\ SameHolds(b, c)
  /\ SpentIn(c, u) = SpentIn(b, u) \/ SpentIn(c, u) = 0

LEMMA OpenedTurned ==
  ASSUME NEW b, Sound(b), NEW u \in Users, CurrentOf(b.period, u) = {},
         NEW n \in Fresh(b.period), NEW a \in Int, NEW reset \in {"none", "later", "due"}
  PROVE  LET c == Opened(b, n, NewPeriod(u, a, reset, 0)) IN
         Sound(c) /\ n \in CurrentOf(c.period, u) /\ Turned(b, c, u) /\ AllowanceIn(c, u) = a
<1> DEFINE new == NewPeriod(u, a, reset, 0)
           c == Opened(b, n, new)
<1>1. new \in Period /\ new.user = u /\ new.status = "current" /\ new.consumed = 0 /\ new.reserved = 0
      /\ new.allowance = a
  BY DEF NewPeriod, Period
<1>2. BooksInv(b) /\ n \in PeriodIds /\ b \in BooksType /\ b.period[n].status = "unused"
  BY DEF Sound, BooksInv, Fresh
<1> HIDE DEF new
<1>3. Continues(b, u, c, n)
  BY <1>1, <1>2, OpenedInv
<1>4. c.resv = b.resv /\ c.period = [q \in PeriodIds |-> IF q = n THEN new ELSE b.period[q]]
  BY <1>1, <1>2, OpenedFields
<1> HIDE DEF c
<1>5. BooksInv(c) /\ n \in CurrentOf(c.period, u)
  BY <1>3 DEF Continues
<1>6. Owned(c)
  BY <1>1, <1>4 DEF Sound, Owned
<1>7. ASSUME NEW v \in Users, v # u
      PROVE  AllowanceIn(c, v) = AllowanceIn(b, v) /\ SpentIn(c, v) = SpentIn(b, v)
  <2>1. CurrentOf(c.period, v) = CurrentOf(b.period, v)
    BY <1>1, <1>2, <1>4, <1>7 DEF CurrentOf
  <2>2. \A q \in CurrentOf(b.period, v) : c.period[q] = b.period[q]
    BY <1>2, <1>4 DEF CurrentOf
  <2>3. QED
    BY <1>2, <1>5, <2>1, <2>2, SameFigures
<1>8. SpentIn(b, u) = 0
  BY DEF SpentIn
<1>9. AllowanceIn(c, u) = a /\ SpentIn(c, u) = 0
  <2>1. c.period[n] = new
    BY <1>2, <1>4
  <2>2. QED
    BY <1>1, <1>5, <2>1, InCurrent
<1>10. SameHolds(b, c)
  BY <1>4 DEF SameHolds
<1>11. QED
  BY <1>5, <1>6, <1>7, <1>8, <1>9, <1>10 DEF Sound, Turned, Others, c, new

LEMMA RolledTurned ==
  ASSUME NEW b, Sound(b), NEW u \in Users, NEW p \in CurrentOf(b.period, u),
         NEW n \in Fresh(b.period), NEW reset \in {"later", "due"}
  PROVE  LET c == Rolled(b, p, n, reset) IN
         /\ Sound(c) /\ n \in CurrentOf(c.period, u) /\ Turned(b, c, u)
         /\ AllowanceIn(c, u) = AllowanceIn(b, u)
<1> DEFINE c == Rolled(b, p, n, reset)
<1>1. /\ BooksInv(b) /\ b \in BooksType /\ n \in PeriodIds /\ b.period[n].status = "unused"
      /\ p \in PeriodIds /\ b.period[p].status = "current" /\ b.period[p].user = u
      /\ b.period[p] \in Period /\ b.resv \in [ReservationIds -> Reservation]
  BY DEF Sound, BooksInv, BooksType, Fresh, CurrentOf
<1>2. Continues(b, u, c, n)
  BY <1>1, RolledInv
<1>3. RolledTo(b, p, n, reset, c)
  BY <1>1, RolledFields
<1> HIDE DEF c
<1>4. BooksInv(c) /\ n \in CurrentOf(c.period, u)
  BY <1>2 DEF Continues
<1>5. /\ c.period[p].status = "closed"
      /\ c.period[n].user = u /\ c.period[n].allowance = b.period[p].allowance
      /\ c.period[n].consumed = 0 /\ c.period[n].status = "current"
  BY <1>1, <1>3 DEF RolledTo, NewPeriod, Period
<1>6. \A q \in PeriodIds \ {n, p} : c.period[q] = b.period[q]
  BY <1>3 DEF RolledTo
<1>7. Owned(c)
  BY <1>5, <1>6 DEF Sound, Owned
<1>8. ASSUME NEW v \in Users, v # u
      PROVE  AllowanceIn(c, v) = AllowanceIn(b, v) /\ SpentIn(c, v) = SpentIn(b, v)
  <2>1. CurrentOf(c.period, v) = CurrentOf(b.period, v)
    BY <1>1, <1>5, <1>6, <1>8 DEF CurrentOf
  <2>2. \A q \in CurrentOf(b.period, v) : c.period[q] = b.period[q]
    BY <1>1, <1>6, <1>8 DEF CurrentOf
  <2>3. QED
    BY <1>1, <1>4, <2>1, <2>2, SameFigures
<1>9. AllowanceIn(c, u) = AllowanceIn(b, u) /\ SpentIn(c, u) = 0
  BY <1>1, <1>4, <1>5, InCurrent
<1>10. SameHolds(b, c)
  <2>1. c.resv = [r \in ReservationIds |-> IF r \in HeldIn(b.resv, p)
                                          THEN [b.resv[r] EXCEPT !.period = n]
                                          ELSE b.resv[r]]
    BY <1>3 DEF RolledTo
  <2>2. ASSUME NEW r \in ReservationIds
        PROVE  Seen(c.resv[r]) = Seen(b.resv[r])
    <3>1. b.resv[r] \in Reservation
      BY <1>1
    <3>2. /\ c.resv[r].user = b.resv[r].user /\ c.resv[r].status = b.resv[r].status
          /\ c.resv[r].amount = b.resv[r].amount
      BY <2>1, <3>1 DEF Reservation
    <3>3. QED
      BY <3>2 DEF Seen
  <2>3. QED
    BY <2>2 DEF SameHolds
<1>11. QED
  BY <1>4, <1>7, <1>8, <1>9, <1>10 DEF Sound, Turned, Others, c

(* ensureCurrentPeriod.                                                    *)
LEMMA EnsuredTurned ==
  ASSUME NEW b, Sound(b), NEW u \in Users, NEW a \in Int, NEW C \in SUBSET Cadences,
         NEW e \in EnsuredWith(b, u, a, C)
  PROVE  /\ Sound(e[1]) /\ e[2] \in CurrentOf(e[1].period, u) /\ Turned(b, e[1], u)
         /\ AllowanceIn(e[1], u) = IF CurrentOf(b.period, u) = {} THEN a ELSE AllowanceIn(b, u)
<1>1. CASE CurrentOf(b.period, u) = {}
  <2>1. PICK n \in Fresh(b.period), k \in C :
          e = <<Opened(b, n, NewPeriod(u, a, FirstReset(k), 0)), n>>
    BY <1>1 DEF EnsuredWith
  <2>2. FirstReset(k) \in {"none", "later", "due"}
    BY DEF FirstReset
  <2>3. QED
    BY <1>1, <2>1, <2>2, OpenedTurned
<1>2. CASE CurrentOf(b.period, u) # {}
  <2>1. PICK p \in CurrentOf(b.period, u) :
          e \in IF b.period[p].reset = "due"
                THEN {<<Rolled(b, p, n, reset), n>> :
                        n \in Fresh(b.period), reset \in {"later", "due"}}
                ELSE {<<b, p>>}
    BY <1>2 DEF EnsuredWith
  <2>2. CASE e = <<b, p>>
    BY <1>2, <2>1, <2>2 DEF Turned, Others, SameHolds
  <2>3. CASE e # <<b, p>>
    <3>1. PICK n \in Fresh(b.period), reset \in {"later", "due"} :
            e = <<Rolled(b, p, n, reset), n>>
      BY <2>1, <2>3
    <3>2. QED
      BY <1>2, <2>1, <3>1, RolledTurned
  <2>4. QED
    BY <2>2, <2>3
<1>3. QED
  BY <1>1, <1>2

LEMMA PlainlyEnsured ==
  ASSUME NEW b, Sound(b), NEW u \in Users, NEW e \in Ensured(b, u)
  PROVE  /\ Sound(e[1]) /\ e[2] \in CurrentOf(e[1].period, u) /\ Turned(b, e[1], u)
         /\ AllowanceIn(e[1], u) = AllowanceIn(b, u)
<1>1. e \in EnsuredWith(b, u, 0, Cadences)
  BY DEF Ensured
<1>2. CurrentOf(b.period, u) = {} => AllowanceIn(b, u) = 0
  BY DEF AllowanceIn
<1>3. QED
  BY <1>1, <1>2, EnsuredTurned

(* recoverAbandoned ends holds and touches no purse.                       *)
LEMMA RecoveredSeen ==
  ASSUME NEW b, Sound(b), NEW S \in SUBSET Lapsed(b.resv)
  PROVE  LET c == Recovered(b, S) IN
         /\ Sound(c)
         /\ \A v \in Users : AllowanceIn(c, v) = AllowanceIn(b, v) /\ SpentIn(c, v) = SpentIn(b, v)
         /\ \A r \in ReservationIds :
              c.resv[r] = IF r \in S THEN Closed(b.resv[r], "expired") ELSE b.resv[r]
<1> DEFINE c == Recovered(b, S)
           freed(p) == Total(AmountOf(b.resv), {r \in S : b.resv[r].period = p})
           row(p) == [b.period[p] EXCEPT !.reserved = AtLeastZero(@ - freed(p))]
<1>1. BooksInv(b) /\ b \in BooksType /\ b.period \in [PeriodIds -> Period]
  BY DEF Sound, BooksInv, BooksType
<1>2. BooksInv(c)
  BY <1>1, RecoveredInv
<1>3. /\ c.period = [p \in PeriodIds |-> row(p)]
      /\ c.resv = [r \in ReservationIds |-> IF r \in S THEN Closed(b.resv[r], "expired") ELSE b.resv[r]]
  BY <1>1 DEF Recovered, BooksType
<1> HIDE DEF c
<1>4. ASSUME NEW p \in PeriodIds
      PROVE  /\ c.period[p].status = b.period[p].status /\ c.period[p].user = b.period[p].user
             /\ c.period[p].allowance = b.period[p].allowance
             /\ c.period[p].consumed = b.period[p].consumed
  <2>1. b.period[p] \in Period
    BY <1>1
  <2>2. c.period[p] = row(p)
    BY <1>3
  <2> DEFINE left == AtLeastZero(b.period[p].reserved - freed(p))
  <2>3. row(p) = [b.period[p] EXCEPT !.reserved = left]
    BY <2>1 DEF Period
  <2> HIDE DEF left, row
  <2>4. QED
    BY <2>1, <2>2, <2>3 DEF Period
<1>5. Owned(c)
  BY <1>4 DEF Sound, Owned
<1>6. ASSUME NEW v \in Users
      PROVE  AllowanceIn(c, v) = AllowanceIn(b, v) /\ SpentIn(c, v) = SpentIn(b, v)
  <2>1. CurrentOf(c.period, v) = CurrentOf(b.period, v)
    BY <1>4 DEF CurrentOf
  <2>2. CurrentOf(b.period, v) \subseteq PeriodIds
    BY DEF CurrentOf
  <2>3. QED
    BY <1>1, <1>2, <1>4, <2>1, <2>2, SameFigures
<1>7. QED
  BY <1>2, <1>3, <1>5, <1>6 DEF Sound, c

-----------------------------------------------------------------------------
(* From records of books to the variables of the purse.                    *)

PurseStill == UNCHANGED <<account, PurseAllowance, PurseSpent, PurseHold>>
PurseStep == Purse!Next \/ PurseStill

LEMMA PurseTypes ==
  ASSUME BooksInv(Books)
  PROVE  /\ PurseAllowance \in [Users -> Int] /\ PurseSpent \in [Users -> Int]
         /\ \A u \in Users : PurseAllowance[u] = AllowanceIn(Books, u) /\ PurseSpent[u] = SpentIn(Books, u)
         /\ PurseHold = [r \in ReservationIds |-> PurseHold[r]]
         /\ \A r \in ReservationIds : PurseHold[r] = Seen(resv[r])
<1>1. \A u \in Users : AllowanceIn(Books, u) \in Int /\ SpentIn(Books, u) \in Int
  BY FiguresType
<1>2. Books.resv = resv
  BY DEF Books
<1>3. QED
  BY <1>1, <1>2, PurseSeen

LEMMA PurseTypesNext ==
  ASSUME BooksInv(Books')
  PROVE  /\ PurseAllowance' \in [Users -> Int] /\ PurseSpent' \in [Users -> Int]
         /\ \A u \in Users : /\ PurseAllowance'[u] = AllowanceIn(Books', u)
                             /\ PurseSpent'[u] = SpentIn(Books', u)
         /\ PurseHold' = [r \in ReservationIds |-> PurseHold'[r]]
         /\ \A r \in ReservationIds : PurseHold'[r] = Seen(resv'[r])
<1>1. \A u \in Users : AllowanceIn(Books', u) \in Int /\ SpentIn(Books', u) \in Int
  BY FiguresType
<1>2. Books'.resv = resv'
  BY DEF Books
<1>3. QED
  BY <1>1, <1>2, PurseSeen

LEMMA HoldsStay ==
  ASSUME BooksInv(Books), BooksInv(Books'), SameHolds(Books, Books')
  PROVE  PurseHold' = PurseHold
BY PurseSeen DEF SameHolds

LEMMA OnlyOne ==
  ASSUME BooksInv(Books), BooksInv(Books'), NEW u \in Users, Others(Books, Books', u)
  PROVE  /\ PurseAllowance' = [PurseAllowance EXCEPT ![u] = AllowanceIn(Books', u)]
         /\ PurseSpent' = [PurseSpent EXCEPT ![u] = SpentIn(Books', u)]
BY PurseTypes, PurseTypesNext DEF Others

LEMMA FiguresStay ==
  ASSUME BooksInv(Books), BooksInv(Books'),
         \A v \in Users : /\ AllowanceIn(Books', v) = AllowanceIn(Books, v)
                          /\ SpentIn(Books', v) = SpentIn(Books, v)
  PROVE  PurseAllowance' = PurseAllowance /\ PurseSpent' = PurseSpent
BY PurseTypes, PurseTypesNext

LEMMA AllowanceStays ==
  ASSUME BooksInv(Books), BooksInv(Books'), NEW u \in Users, Others(Books, Books', u),
         AllowanceIn(Books', u) = AllowanceIn(Books, u)
  PROVE  PurseAllowance' = PurseAllowance
BY PurseTypes, PurseTypesNext DEF Others

(* The months a step may begin with.                                       *)
LEMMA MonthTurns ==
  ASSUME BooksInv(Books), BooksInv(Books'), NEW u \in Users, Others(Books, Books', u),
         SpentIn(Books', u) \in {SpentIn(Books, u), 0}
  PROVE  PurseSpent' \in Purse!Months(u)
<1>1. PurseSpent' = [PurseSpent EXCEPT ![u] = SpentIn(Books', u)]
  BY OnlyOne
<1>2. PurseSpent \in [Users -> Int] /\ PurseSpent[u] = SpentIn(Books, u)
  BY PurseTypes
<1>3. CASE SpentIn(Books', u) = SpentIn(Books, u)
  BY <1>1, <1>2, <1>3 DEF Purse!Months
<1>4. CASE SpentIn(Books', u) = 0
  BY <1>1, <1>4 DEF Purse!Months
<1>5. QED
  BY <1>3, <1>4

(* A transaction ensures the current period and then rewrites its figures. *)
LEMMA TurnedThen ==
  ASSUME NEW b, Sound(b), NEW c, Sound(c), NEW u \in Users, Turned(b, c, u),
         NEW p \in CurrentOf(c.period, u), NEW d, BooksInv(d), d.resv = c.resv,
         d.period[p].status = c.period[p].status, d.period[p].user = c.period[p].user,
         \A q \in PeriodIds : q # p => d.period[q] = c.period[q]
  PROVE  /\ Owned(d) /\ Others(b, d, u) /\ SameHolds(b, d)
         /\ AllowanceIn(d, u) = d.period[p].allowance /\ SpentIn(d, u) = d.period[p].consumed
<1>1. p \in PeriodIds /\ c.period[p].status = "current" /\ c.period[p].user = u
  BY DEF CurrentOf
<1>2. /\ Sound(d) /\ Others(c, d, u)
      /\ AllowanceIn(d, u) = d.period[p].allowance /\ SpentIn(d, u) = d.period[p].consumed
  BY <1>1, OnePeriod
<1>3. Others(b, d, u)
  BY <1>2 DEF Turned, Others
<1>4. QED
  BY <1>2, <1>3 DEF Turned, SameHolds, Sound

-----------------------------------------------------------------------------
(* Administration.                                                         *)

LEMMA Funds ==
  ASSUME BooksInv(Books), BooksInv(Books'), NEW u \in Users, Others(Books, Books', u),
         SameHolds(Books, Books'), SpentIn(Books', u) \in {SpentIn(Books, u), 0},
         account' = account
  PROVE  PurseStep
<1>1. Purse!Fund(u)
  BY OnlyOne, HoldsStay, MonthTurns, PurseTypesNext DEF Purse!Fund
<1>2. QED
  BY <1>1 DEF PurseStep, Purse!Next

LEMMA Enters ==
  ASSUME BooksInv(Books), BooksInv(Books'), NEW u \in Users, Others(Books, Books', u),
         SameHolds(Books, Books'), AllowanceIn(Books', u) = AllowanceIn(Books, u),
         account' = account
  PROVE  PurseStep
<1>1. PurseSpent \in Purse!Months(u)
  BY DEF Purse!Months
<1>2. PurseSpent' = [PurseSpent EXCEPT ![u] = PurseSpent'[u]] /\ PurseSpent'[u] \in Int
  BY OnlyOne, PurseTypesNext
<1>3. Purse!Book(u)
  BY <1>1, <1>2, HoldsStay, AllowanceStays DEF Purse!Book
<1>4. QED
  BY <1>3 DEF PurseStep, Purse!Next

LEMMA InitializeSteps ==
  ASSUME IInv, IInv', Owned(Books), NEW u \in Users, NEW a \in Allowances, NEW k \in Cadences,
         InitializeUserCredits(u, a, k)
  PROVE  PurseStep /\ Owned(Books')
<1>1. PICK e \in EnsuredWith(Books, u, a, {k}) : Save(e[1])
  BY DEF InitializeUserCredits
<1>2. a \in Int /\ {k} \in SUBSET Cadences /\ Sound(Books)
  BY CreditAssumption DEF IInv, Sound
<1>3. Sound(e[1]) /\ Turned(Books, e[1], u)
  BY <1>2, EnsuredTurned
<1>4. Books' = e[1]
  BY <1>1, <1>3, SavedBooks DEF Sound, BooksInv
<1>5. Sound(Books') /\ Turned(Books, Books', u)
  BY <1>3, <1>4
<1>6. QED
  BY <1>2, <1>5, Funds DEF Sound, Turned, InitializeUserCredits

(* The first step of most transactions, and the rewriting of the current   *)
(* period that follows.                                                    *)
LEMMA EnsuredThen ==
  ASSUME IInv, IInv', Owned(Books), NEW u \in Users, NEW e \in Ensured(Books, u), NEW pr,
         period' = [e[1].period EXCEPT ![e[2]] = pr], resv' = e[1].resv,
         pr.status = e[1].period[e[2]].status, pr.user = e[1].period[e[2]].user
  PROVE  /\ Owned(Books') /\ Others(Books, Books', u) /\ SameHolds(Books, Books')
         /\ AllowanceIn(Books', u) = pr.allowance /\ SpentIn(Books', u) = pr.consumed
         /\ e[1].period[e[2]].allowance = AllowanceIn(Books, u)
         /\ e[1].period[e[2]].consumed \in {SpentIn(Books, u), 0}
<1> DEFINE c == e[1]
           p == e[2]
           d == Books'
<1>1. Sound(Books) /\ BooksInv(d)
  BY DEF IInv, Sound
<1>2. /\ Sound(c) /\ p \in CurrentOf(c.period, u) /\ Turned(Books, c, u)
      /\ AllowanceIn(c, u) = AllowanceIn(Books, u)
  BY <1>1, PlainlyEnsured
<1>3. /\ d.period = [c.period EXCEPT ![p] = pr] /\ d.resv = c.resv
      /\ pr.status = c.period[p].status /\ pr.user = c.period[p].user
  BY DEF Books
<1> HIDE DEF c, p, d
<1>4. c.period \in [PeriodIds -> Period] /\ p \in PeriodIds /\ BooksInv(c)
  BY <1>2 DEF Sound, BooksInv, BooksType, CurrentOf
<1>5. /\ d.period[p] = pr
      /\ d.period[p].status = c.period[p].status /\ d.period[p].user = c.period[p].user
      /\ \A q \in PeriodIds : q # p => d.period[q] = c.period[q]
  BY <1>3, <1>4
<1>6. /\ Owned(d) /\ Others(Books, d, u) /\ SameHolds(Books, d)
      /\ AllowanceIn(d, u) = d.period[p].allowance /\ SpentIn(d, u) = d.period[p].consumed
  <2>1. d.resv = c.resv
    BY <1>3
  <2>2. QED
    BY <1>1, <1>2, <1>5, <2>1, TurnedThen
<1>7. c.period[p].allowance = AllowanceIn(c, u) /\ c.period[p].consumed = SpentIn(c, u)
  BY <1>2, <1>4, InCurrent
<1>8. QED
  BY <1>2, <1>5, <1>6, <1>7 DEF Turned, c, p, d

(* What the record of the current period is known to be.                   *)
LEMMA EnsuredTypes ==
  ASSUME IInv, Owned(Books), NEW u \in Users, NEW e \in Ensured(Books, u)
  PROVE  /\ e[1] \in BooksType /\ e[1].period \in [PeriodIds -> Period]
         /\ e[2] \in PeriodIds /\ e[1].period[e[2]] \in Period
<1>1. Sound(Books)
  BY DEF IInv, Sound
<1>2. BooksInv(e[1]) /\ e[2] \in CurrentOf(e[1].period, u)
  BY <1>1, PlainlyEnsured, SMTT(30) DEF Sound
<1>3. QED
  BY <1>2 DEF BooksInv, BooksType, CurrentOf

LEMMA SetAllowanceSteps ==
  ASSUME IInv, IInv', Owned(Books), NEW u \in Users, NEW a \in Allowances,
         SetAllowance(u, a) \/ AddCredits(u, a)
  PROVE  PurseStep /\ Owned(Books')
<1>1. PICK e \in Ensured(Books, u) :
        \/ Save([e[1] EXCEPT !.period[e[2]].allowance = a,
                             !.ledger[e[2]].allowance = @ + a - e[1].period[e[2]].allowance])
        \/ Save([e[1] EXCEPT !.period[e[2]].allowance = @ + a, !.ledger[e[2]].allowance = @ + a])
  BY Zenon DEF SetAllowance, AddCredits
<1> DEFINE c == e[1]
           p == e[2]
<1>2. c \in BooksType /\ c.period \in [PeriodIds -> Period] /\ p \in PeriodIds /\ c.period[p] \in Period
  BY EnsuredTypes
<1>3. PICK x : period' = [c.period EXCEPT ![p].allowance = x] /\ resv' = c.resv
  BY <1>1, <1>2 DEF Save, BooksType
<1> DEFINE pr == [c.period[p] EXCEPT !.allowance = x]
<1>4. period' = [c.period EXCEPT ![p] = pr]
  BY <1>2, <1>3
<1>5. pr.status = c.period[p].status /\ pr.user = c.period[p].user /\ pr.consumed = c.period[p].consumed
  BY <1>2 DEF Period
<1> HIDE DEF pr
<1>6. /\ Owned(Books') /\ Others(Books, Books', u) /\ SameHolds(Books, Books')
      /\ SpentIn(Books', u) \in {SpentIn(Books, u), 0}
  BY <1>3, <1>4, <1>5, EnsuredThen
<1>7. QED
  BY <1>6, Funds, ZenonT(30) DEF IInv, SetAllowance, AddCredits

LEMMA RecordAdjustmentSteps ==
  ASSUME IInv, IInv', Owned(Books), NEW u \in Users, NEW d \in Adjustments, RecordAdjustment(u, d)
  PROVE  PurseStep /\ Owned(Books')
<1>1. PICK e \in Ensured(Books, u) :
        Save([e[1] EXCEPT !.period[e[2]].consumed = @ - d, !.ledger[e[2]].adjustments = @ + d])
  BY DEF RecordAdjustment
<1> DEFINE c == e[1]
           p == e[2]
<1>2. c \in BooksType /\ c.period \in [PeriodIds -> Period] /\ p \in PeriodIds /\ c.period[p] \in Period
  BY EnsuredTypes
<1>3. PICK x : period' = [c.period EXCEPT ![p].consumed = x] /\ resv' = c.resv
  BY <1>1, <1>2 DEF Save, BooksType
<1> DEFINE pr == [c.period[p] EXCEPT !.consumed = x]
<1>4. period' = [c.period EXCEPT ![p] = pr]
  BY <1>2, <1>3
<1>5. pr.status = c.period[p].status /\ pr.user = c.period[p].user /\ pr.allowance = c.period[p].allowance
  BY <1>2 DEF Period
<1> HIDE DEF pr
<1>6. /\ Owned(Books') /\ Others(Books, Books', u) /\ SameHolds(Books, Books')
      /\ AllowanceIn(Books', u) = AllowanceIn(Books, u)
  BY <1>3, <1>4, <1>5, EnsuredThen
<1>7. QED
  BY <1>6, Enters, SMTT(30) DEF IInv, RecordAdjustment

LEMMA SetResetCadenceSteps ==
  ASSUME IInv, IInv', Owned(Books), NEW u \in Users, NEW k \in Cadences, SetResetCadence(u, k)
  PROVE  PurseStep /\ Owned(Books')
<1>1. PICK e \in Ensured(Books, u) : Save([e[1] EXCEPT !.period[e[2]].reset = FirstReset(k)])
  BY DEF SetResetCadence
<1> DEFINE c == e[1]
           p == e[2]
<1>2. c \in BooksType /\ c.period \in [PeriodIds -> Period] /\ p \in PeriodIds /\ c.period[p] \in Period
  BY EnsuredTypes
<1>3. period' = [c.period EXCEPT ![p].reset = FirstReset(k)] /\ resv' = c.resv
  BY <1>1, <1>2 DEF Save, BooksType
<1> DEFINE pr == [c.period[p] EXCEPT !.reset = FirstReset(k)]
<1>4. period' = [c.period EXCEPT ![p] = pr]
  BY <1>2, <1>3
<1>5. pr.status = c.period[p].status /\ pr.user = c.period[p].user
      /\ pr.allowance = c.period[p].allowance /\ pr.consumed = c.period[p].consumed
  BY <1>2 DEF Period
<1> HIDE DEF pr
<1>6. /\ Owned(Books') /\ Others(Books, Books', u) /\ SameHolds(Books, Books')
      /\ SpentIn(Books', u) \in {SpentIn(Books, u), 0}
  BY <1>3, <1>4, <1>5, EnsuredThen
<1>7. QED
  BY <1>6, Funds DEF IInv, SetResetCadence

LEMMA UpdateUserSteps ==
  ASSUME IInv, IInv', Owned(Books), NEW u \in Users, NEW status \in Accounts, UpdateUser(u, status)
  PROVE  PurseStep /\ Owned(Books')
<1>1. Books' = Books /\ account' = [account EXCEPT ![u] = status] /\ account \in [Users -> Accounts]
  BY DEF UpdateUser, Books, IInv
<1>2. PurseAllowance' = PurseAllowance /\ PurseSpent' = PurseSpent /\ PurseHold' = PurseHold
  BY <1>1, PurseSeen
<1>3. Purse!ChangeAccount(u)
  BY <1>1, <1>2 DEF Purse!ChangeAccount
<1>4. QED
  BY <1>1, <1>3 DEF PurseStep, Purse!Next

-----------------------------------------------------------------------------
(* Recoveries and new reservations.                                        *)

Gone(h) == [owner |-> h.owner, state |-> "over", amount |-> 0]

(* Abandoned holds end in the purse as they do in the books.               *)
LEMMA RecoveredHolds ==
  ASSUME BooksInv(Books), NEW S \in SUBSET Lapsed(resv), NEW c,
         \A r \in ReservationIds :
           c.resv[r] = IF r \in S THEN Closed(resv[r], "expired") ELSE resv[r]
  PROVE  /\ Purse!Ended(S) = [r \in ReservationIds |-> Seen(c.resv[r])]
         /\ \A r \in S : resv[r].status = "open"
         /\ \A r \in S : PurseHold[r].state = "open" /\ Seen(c.resv[r]).state = "over"
         /\ \A r \in ReservationIds \ S : Seen(c.resv[r]) = PurseHold[r]
<1>1. \A r \in ReservationIds : PurseHold[r] = Seen(resv[r]) /\ resv[r] \in Reservation
  BY PurseTypes DEF BooksInv, BooksType, Books
<1>2. \A r \in S : r \in ReservationIds /\ resv[r].status = "open"
  BY DEF Lapsed
<1>3. ASSUME NEW r \in S
      PROVE  /\ Seen(c.resv[r]) = Gone(PurseHold[r])
             /\ PurseHold[r].state = "open" /\ Seen(c.resv[r]).state = "over"
  <2>1. c.resv[r] = [resv[r] EXCEPT !.amount = 0, !.status = "expired", !.lapsed = FALSE]
    BY <1>2 DEF Closed
  <2>2. /\ c.resv[r].user = resv[r].user /\ c.resv[r].status = "expired" /\ c.resv[r].amount = 0
    BY <1>1, <1>2, <2>1 DEF Reservation
  <2>3. PurseHold[r] = Seen(resv[r])
    BY <1>1, <1>2
  <2>4. HoldState("open") = "open" /\ HoldState("expired") = "over"
    BY DEF HoldState
  <2>5. PurseHold[r] = [owner |-> resv[r].user, state |-> "open", amount |-> resv[r].amount]
    BY <1>2, <2>3, <2>4 DEF Seen
  <2>6. Seen(c.resv[r]) = [owner |-> resv[r].user, state |-> "over", amount |-> 0]
    BY <2>2, <2>4 DEF Seen
  <2>7. QED
    BY <2>5, <2>6 DEF Gone
<1>4. QED
  BY <1>1, <1>2, <1>3 DEF Purse!Ended, Gone

LEMMA SweepSteps ==
  ASSUME IInv, IInv', Owned(Books), NEW S \in SUBSET Lapsed(resv), SweepAbandonedReservations(S)
  PROVE  PurseStep /\ Owned(Books')
<1> DEFINE c == Recovered(Books, S)
<1>1. Sound(Books) /\ BooksInv(Books) /\ BooksInv(Books') /\ Books.resv = resv
  BY DEF IInv, Sound, Books
<1>2. /\ Sound(c)
      /\ \A v \in Users : AllowanceIn(c, v) = AllowanceIn(Books, v) /\ SpentIn(c, v) = SpentIn(Books, v)
      /\ \A r \in ReservationIds : c.resv[r] = IF r \in S THEN Closed(resv[r], "expired") ELSE resv[r]
  BY <1>1, RecoveredSeen
<1>3. Books' = c
  BY <1>2, SavedBooks DEF Sound, BooksInv, SweepAbandonedReservations
<1> HIDE DEF c
<1>4. PurseAllowance' = PurseAllowance /\ PurseSpent' = PurseSpent
  BY <1>1, <1>2, <1>3, FiguresStay
<1>5. PurseHold' = Purse!Ended(S) /\ Purse!Abandoned = S
  <2>1. PurseHold' = [r \in ReservationIds |-> Seen(c.resv[r])]
    BY <1>3, PurseSeen
  <2>2. /\ Purse!Ended(S) = [r \in ReservationIds |-> Seen(c.resv[r])]
        /\ \A r \in S : PurseHold[r].state = "open" /\ Seen(c.resv[r]).state = "over"
        /\ \A r \in ReservationIds \ S : Seen(c.resv[r]) = PurseHold[r]
    BY <1>1, <1>2, RecoveredHolds
  <2>3. S \subseteq ReservationIds
    BY DEF Lapsed
  <2>4. Purse!Abandoned = S
    BY <2>1, <2>2, <2>3 DEF Purse!Abandoned
  <2>5. QED
    BY <2>1, <2>2, <2>4
<1>6. Purse!Tidy
  BY <1>4, <1>5 DEF Purse!Tidy, SweepAbandonedReservations
<1>7. QED
  BY <1>2, <1>3, <1>6 DEF PurseStep, Purse!Next, Sound

(* What is free in the purse is what is available in the current period.   *)
LEMMA FreeSeen ==
  ASSUME NEW b, BooksInv(b), NEW u \in Users, NEW p \in CurrentOf(b.period, u), NEW s, NEW h,
         PurseAllowance[u] = AllowanceIn(b, u), s[u] = SpentIn(b, u),
         h = [r \in ReservationIds |-> Seen(b.resv[r])]
  PROVE  Purse!Free(s, h, u) = Available(b.period[p])
<1>1. Purse!Amount(h) = AmountOf(b.resv)
  BY DEF Purse!Amount, AmountOf, Seen
<1>2. Purse!HoldsOf(h, u) = HoldsSeen(b, u)
  BY DEF Purse!HoldsOf, HoldsSeen
<1>3. \A f, T : Purse!Total(f, T) = Total(f, T)
  <2>1. \A f, t : Purse!Units(f, t) = Units(f, t)
    BY DEF Purse!Units, Units
  <2>2. \A f, T : Purse!AllUnits(f, T) = AllUnits(f, T)
    BY <2>1 DEF Purse!AllUnits, AllUnits
  <2>3. QED
    BY <2>2 DEF Purse!Total, Total, Purse!Cardinality, Cardinality
<1>4. Purse!Free(s, h, u) = PurseAllowance[u] - s[u] - Total(AmountOf(b.resv), HoldsSeen(b, u))
  BY <1>1, <1>2, <1>3 DEF Purse!Free
<1>5. QED
  BY <1>4, SeenFree

LEMMA ReserveSteps ==
  ASSUME IInv, IInv', Owned(Books), NEW r \in ReservationIds, NEW u \in Users, NEW x \in Amounts,
         NEW scope \in Scopes, NEW limit, NEW result,
         ReserveCredits(r, u, x, scope, limit, result)
  PROVE  PurseStep /\ Owned(Books')
<1> DEFINE v(p) == [user |-> u, period |-> p, status |-> "open", amount |-> x,
                    settled |-> 0, lapsed |-> FALSE, scope |-> scope]
<1>1. PICK S \in SUBSET Lapsed(resv) :
        \/ Save(Recovered(Books, S))
        \/ \E e \in Ensured(Recovered(Books, S), u) :
             \/ Save(e[1])
             \/ /\ account[u] # "inactive"
                /\ Unlimited(u) \/ x <= Available(e[1].period[e[2]])
                /\ Save(Holding(e[1], r, e[2], x, v(e[2])))
  BY DEF ReserveCredits
<1> DEFINE b == Recovered(Books, S)
<1>2. /\ Sound(Books) /\ BooksInv(Books) /\ BooksInv(Books') /\ Books.resv = resv
      /\ resv[r].status = "unused" /\ account' = account
  BY DEF IInv, Sound, Books, ReserveCredits
<1>3. /\ Sound(b)
      /\ \A w \in Users : AllowanceIn(b, w) = AllowanceIn(Books, w) /\ SpentIn(b, w) = SpentIn(Books, w)
      /\ \A t \in ReservationIds : b.resv[t] = IF t \in S THEN Closed(resv[t], "expired") ELSE resv[t]
  BY <1>2, RecoveredSeen
<1> HIDE DEF b
<1>4. /\ Purse!Ended(S) = [t \in ReservationIds |-> Seen(b.resv[t])]
      /\ \A t \in S : PurseHold[t].state = "open" /\ Seen(b.resv[t]).state = "over"
      /\ \A t \in ReservationIds \ S : Seen(b.resv[t]) = PurseHold[t]
      /\ r \notin S /\ S \subseteq ReservationIds
  <2>0. \A t \in ReservationIds : b.resv[t] = IF t \in S THEN Closed(resv[t], "expired") ELSE resv[t]
    BY <1>3
  <2>1. /\ Purse!Ended(S) = [t \in ReservationIds |-> Seen(b.resv[t])]
        /\ \A t \in S : resv[t].status = "open"
        /\ \A t \in S : PurseHold[t].state = "open" /\ Seen(b.resv[t]).state = "over"
        /\ \A t \in ReservationIds \ S : Seen(b.resv[t]) = PurseHold[t]
    BY <1>2, <2>0, RecoveredHolds
  <2>2. QED
    BY <1>2, <2>1 DEF Lapsed
<1>5. ASSUME NEW c, Sound(c), Turned(b, c, u), AllowanceIn(c, u) = AllowanceIn(b, u), Save(c)
      PROVE  PurseStep /\ Owned(Books')
  <2>1. Books' = c
    BY <1>5, SavedBooks DEF Sound, BooksInv
  <2>2. /\ Others(Books, Books', u) /\ AllowanceIn(Books', u) = AllowanceIn(Books, u)
        /\ SpentIn(Books', u) \in {SpentIn(Books, u), 0}
    BY <1>3, <1>5, <2>1 DEF Turned, Others
  <2>3. PurseAllowance' = PurseAllowance /\ PurseSpent' \in Purse!Months(u)
    BY <1>2, <2>2, AllowanceStays, MonthTurns
  <2>4. PurseHold' = [t \in ReservationIds |-> Seen(b.resv[t])]
    BY <1>5, <2>1, PurseSeen DEF Turned, SameHolds
  <2>5. Purse!Abandoned = S
    BY <1>4, <2>4 DEF Purse!Abandoned
  <2>6. Purse!Tidy
    BY <1>2, <1>4, <2>3, <2>4, <2>5 DEF Purse!Tidy
  <2>7. QED
    BY <1>5, <2>1, <2>6 DEF PurseStep, Purse!Next, Sound
<1>6. CASE Save(b)
  BY <1>3, <1>5, <1>6 DEF Turned, Others, SameHolds
<1>7. ASSUME NEW e \in Ensured(b, u), Save(e[1])
      PROVE  PurseStep /\ Owned(Books')
  BY <1>3, <1>5, <1>7, PlainlyEnsured
<1>8. ASSUME NEW e \in Ensured(b, u), account[u] # "inactive",
             Unlimited(u) \/ x <= Available(e[1].period[e[2]]),
             Save(Holding(e[1], r, e[2], x, v(e[2])))
      PROVE  PurseStep /\ Owned(Books')
  <2> DEFINE c == e[1]
             p == e[2]
             w == v(p)
  <2>1. /\ Sound(c) /\ p \in CurrentOf(c.period, u) /\ Turned(b, c, u)
        /\ AllowanceIn(c, u) = AllowanceIn(b, u)
    BY <1>3, PlainlyEnsured
  <2>2. Seen(w) = [owner |-> u, state |-> "open", amount |-> x]
    BY DEF Seen, HoldState
  <2>3. Save(Holding(c, r, p, x, w))
    BY <1>8
  <2> HIDE DEF c, p, w
  <2>4. /\ BooksInv(c) /\ c \in BooksType /\ p \in PeriodIds
        /\ c.period \in [PeriodIds -> Period] /\ c.resv \in [ReservationIds -> Reservation]
        /\ c.period[p] \in Period
    BY <2>1 DEF Sound, BooksInv, BooksType, CurrentOf
  <2>5. period' = [c.period EXCEPT ![p].reserved = @ + x] /\ resv' = [c.resv EXCEPT ![r] = w]
    BY <2>3, <2>4 DEF Save, Holding, BooksType
  <2>6. Books'.period = period' /\ Books'.resv = resv'
    BY DEF Books
  <2>7. /\ Books'.period[p].status = c.period[p].status /\ Books'.period[p].user = c.period[p].user
        /\ \A q \in PeriodIds : q # p => Books'.period[q] = c.period[q]
        /\ Books'.period[p].allowance = c.period[p].allowance
        /\ Books'.period[p].consumed = c.period[p].consumed
    BY <2>4, <2>5, <2>6 DEF Period
  <2>8. /\ Owned(Books') /\ Others(c, Books', u)
        /\ AllowanceIn(Books', u) = AllowanceIn(c, u) /\ SpentIn(Books', u) = SpentIn(c, u)
    <3> DEFINE d == Books'
    <3>1. /\ BooksInv(d)
          /\ d.period[p].status = c.period[p].status /\ d.period[p].user = c.period[p].user
          /\ \A q \in PeriodIds : q # p => d.period[q] = c.period[q]
          /\ d.period[p].allowance = c.period[p].allowance
          /\ d.period[p].consumed = c.period[p].consumed
      BY <1>2, <2>7
    <3> HIDE DEF d
    <3>2. c.period[p].status = "current" /\ c.period[p].user = u
      BY <2>1 DEF CurrentOf
    <3>3. /\ Sound(d) /\ Others(c, d, u)
          /\ AllowanceIn(d, u) = d.period[p].allowance /\ SpentIn(d, u) = d.period[p].consumed
      BY <2>1, <2>4, <3>1, <3>2, OnePeriod
    <3>4. AllowanceIn(c, u) = c.period[p].allowance /\ SpentIn(c, u) = c.period[p].consumed
      BY <2>1, <2>4, InCurrent
    <3>5. Owned(d) /\ AllowanceIn(d, u) = AllowanceIn(c, u) /\ SpentIn(d, u) = SpentIn(c, u)
      BY <3>1, <3>3, <3>4 DEF Sound
    <3>6. QED
      BY <3>3, <3>5 DEF d
  <2>9. /\ Others(Books, Books', u) /\ AllowanceIn(Books', u) = AllowanceIn(Books, u)
        /\ SpentIn(Books', u) \in {SpentIn(Books, u), 0}
    BY <1>3, <2>1, <2>8 DEF Turned, Others
  <2>10. PurseAllowance' = PurseAllowance /\ PurseSpent' \in Purse!Months(u)
    BY <1>2, <2>9, AllowanceStays, MonthTurns
  <2>11. /\ PurseHold'[r] = [owner |-> u, state |-> "open", amount |-> x]
         /\ PurseHold' = [Purse!Ended(S) EXCEPT ![r] = PurseHold'[r]]
    <3>1. \A t \in ReservationIds : t # r => Seen(resv'[t]) = Seen(b.resv[t])
      BY <2>1, <2>4, <2>5 DEF Turned, SameHolds
    <3>2. Seen(resv'[r]) = [owner |-> u, state |-> "open", amount |-> x]
      BY <2>2, <2>4, <2>5
    <3>3. PurseHold' = [t \in ReservationIds |-> Seen(resv'[t])]
      BY <2>6, PurseSeen
    <3>4. QED
      BY <1>4, <3>1, <3>2, <3>3
  <2>12. Purse!Abandoned = S
    BY <1>4, <2>11 DEF Purse!Abandoned
  <2>13. PurseHold[r] = [owner |-> resv[r].user, state |-> "none", amount |-> resv[r].amount]
    BY <1>2, PurseTypes DEF Seen, HoldState
  <2>14. Purse!Free(PurseSpent', Purse!Ended(S), u) = Available(c.period[p])
    <3>1. PurseAllowance[u] = AllowanceIn(c, u) /\ PurseSpent'[u] = SpentIn(c, u)
      BY <1>2, <1>3, <2>1, <2>8, PurseTypes, PurseTypesNext
    <3>2. Purse!Ended(S) = [t \in ReservationIds |-> Seen(c.resv[t])]
      BY <1>4, <2>1 DEF Turned, SameHolds
    <3>3. QED
      BY <2>1, <2>4, <3>1, <3>2, FreeSeen
  <2>15. Purse!Limited(u) => x <= Available(c.period[p])
    BY <1>8 DEF Purse!Limited, Unlimited, c, p
  <2>16. Purse!Reserve(r)
    BY <1>2, <1>8, <2>10, <2>11, <2>12, <2>13, <2>14, <2>15, CreditAssumption
       DEF Purse!Reserve
  <2>17. QED
    BY <2>8, <2>16 DEF PurseStep, Purse!Next
<1>9. QED
  BY <1>1, <1>6, <1>7, <1>8 DEF b

-----------------------------------------------------------------------------
(* One reservation and the period it points to.                            *)

LEMMA Still ==
  ASSUME Owned(Books), UNCHANGED <<account, period, resv>>
  PROVE  PurseStep /\ Owned(Books')
<1>1. Owned(Books')
  BY DEF Owned, Books
<1>2. PurseAllowance' = PurseAllowance /\ PurseSpent' = PurseSpent /\ PurseHold' = PurseHold
  BY DEF PurseAllowance, PurseSpent, PurseHold, Figure, CurrentOf
<1>3. QED
  BY <1>1, <1>2 DEF PurseStep, PurseStill

(* Only the figures of period p change, and its allowance does not.        *)
LEMMA PeriodMoves ==
  ASSUME IInv, IInv', Owned(Books), NEW p \in PeriodIds, NEW pr,
         period' = [period EXCEPT ![p] = pr],
         pr.status = period[p].status, pr.user = period[p].user,
         pr.allowance = period[p].allowance
  PROVE  /\ Owned(Books') /\ PurseAllowance' = PurseAllowance
         /\ period[p].status = "current" =>
              /\ period[p].user \in Users
              /\ PurseSpent' = [PurseSpent EXCEPT ![period[p].user] = pr.consumed]
              /\ PurseSpent[period[p].user] = period[p].consumed
              /\ period[p].consumed \in Int /\ pr.consumed \in Int
         /\ period[p].status # "current" \/ pr.consumed = period[p].consumed =>
              PurseSpent' = PurseSpent
<1> DEFINE b == Books
           c == Books'
           u == period[p].user
<1>1. /\ Sound(b) /\ BooksInv(b) /\ BooksInv(c)
      /\ period \in [PeriodIds -> Period] /\ period' \in [PeriodIds -> Period]
  BY DEF IInv, Sound, BooksInv, BooksType, Books
<1>2. /\ c.period[p].status = b.period[p].status /\ c.period[p].user = b.period[p].user
      /\ \A q \in PeriodIds : q # p => c.period[q] = b.period[q]
      /\ c.period[p].allowance = b.period[p].allowance /\ c.period[p].consumed = pr.consumed
      /\ b.period = period
  BY <1>1 DEF Books
<1> HIDE DEF b, c
<1>3. /\ Sound(c) /\ Others(b, c, b.period[p].user)
      /\ b.period[p].status = "current" =>
           /\ AllowanceIn(c, b.period[p].user) = c.period[p].allowance
           /\ SpentIn(c, b.period[p].user) = c.period[p].consumed
      /\ b.period[p].status # "current" => \A w \in Users :
           AllowanceIn(c, w) = AllowanceIn(b, w) /\ SpentIn(c, w) = SpentIn(b, w)
  BY <1>1, <1>2, OnePeriod
<1>4. ASSUME period[p].status = "current"
      PROVE  /\ u \in Users /\ p \in CurrentOf(b.period, u)
             /\ AllowanceIn(b, u) = period[p].allowance /\ SpentIn(b, u) = period[p].consumed
             /\ AllowanceIn(c, u) = period[p].allowance /\ SpentIn(c, u) = pr.consumed
             /\ Others(b, c, u)
  <2>1. u \in Users /\ p \in CurrentOf(b.period, u)
    BY <1>1, <1>2, <1>4 DEF Sound, Owned, CurrentOf
  <2>2. AllowanceIn(b, u) = period[p].allowance /\ SpentIn(b, u) = period[p].consumed
    BY <1>1, <1>2, <2>1, InCurrent
  <2>3. QED
    BY <1>2, <1>3, <1>4, <2>1, <2>2
<1>5. Owned(Books') /\ BooksInv(Books) /\ BooksInv(Books')
  BY <1>1, <1>3 DEF Sound, b, c
<1>6. ASSUME period[p].status = "current"
      PROVE  /\ u \in Users /\ Others(Books, Books', u)
             /\ AllowanceIn(Books', u) = AllowanceIn(Books, u)
             /\ SpentIn(Books', u) = pr.consumed /\ SpentIn(Books, u) = period[p].consumed
  BY <1>4, <1>6 DEF b, c
<1>7. ASSUME period[p].status # "current"
      PROVE  \A w \in Users : /\ AllowanceIn(Books', w) = AllowanceIn(Books, w)
                              /\ SpentIn(Books', w) = SpentIn(Books, w)
  BY <1>2, <1>3, <1>7 DEF b, c
<1>8. CASE period[p].status # "current"
  BY <1>5, <1>7, <1>8, FiguresStay
<1>9. CASE period[p].status = "current"
  <2>1. PurseAllowance' = PurseAllowance /\ PurseSpent' = [PurseSpent EXCEPT ![u] = pr.consumed]
    BY <1>5, <1>6, <1>9, AllowanceStays, OnlyOne
  <2>2. PurseSpent[u] = period[p].consumed /\ PurseSpent \in [Users -> Int]
    BY <1>5, <1>6, <1>9, PurseTypes
  <2>3. period[p].consumed \in Int /\ pr.consumed \in Int
    BY <1>1 DEF Period
  <2>4. QED
    BY <1>5, <1>6, <1>9, <2>1, <2>2, <2>3
<1>10. QED
  BY <1>8, <1>9

(* Reservation r becomes v.                                                *)
LEMMA HoldMoves ==
  ASSUME IInv, IInv', NEW r \in ReservationIds, NEW v, resv' = [resv EXCEPT ![r] = v]
  PROVE  /\ PurseHold' = [PurseHold EXCEPT ![r] = Seen(v)]
         /\ PurseHold'[r] = Seen(v) /\ PurseHold[r] = Seen(resv[r])
<1>1. BooksInv(Books) /\ BooksInv(Books') /\ resv \in [ReservationIds -> Reservation]
  BY DEF IInv, BooksInv, BooksType, Books
<1>2. \A s \in ReservationIds : resv'[s] = IF s = r THEN v ELSE resv[s]
  BY <1>1
<1>3. QED
  BY <1>1, <1>2, PurseTypes, PurseTypesNext

(* What is held is held in its owner's current period.                     *)
LEMMA HeldBooks ==
  ASSUME IInv, Owned(Books), NEW r \in ReservationIds, resv[r].status \in HeldStatuses
  PROVE  /\ resv[r].period \in PeriodIds /\ resv[r].user \in Users
         /\ period[resv[r].period].status = "current"
         /\ period[resv[r].period].user = resv[r].user
         /\ resv[r].period \in CurrentOf(period, resv[r].user)
         /\ period[resv[r].period] \in Period /\ resv[r] \in Reservation
<1>1. /\ BooksInv(Books) /\ Books.period = period /\ Books.resv = resv
      /\ period \in [PeriodIds -> Period] /\ resv \in [ReservationIds -> Reservation]
  BY DEF IInv, BooksInv, BooksType, Books
<1>2. /\ resv[r].period \in PeriodIds
      /\ period[resv[r].period].status = "current"
      /\ period[resv[r].period].user = resv[r].user
  BY <1>1 DEF BooksInv, HeldCurrent
<1>3. QED
  BY <1>1, <1>2 DEF Owned, CurrentOf

LEMMA States ==
  /\ HoldState("unused") = "none" /\ HoldState("open") = "open"
  /\ HoldState("pending_reconciliation") = "parked"
  /\ HoldState("settled") = "over" /\ HoldState("released") = "over" /\ HoldState("expired") = "over"
BY DEF HoldState

LEMMA MarkSteps ==
  ASSUME IInv, IInv', Owned(Books), NEW r \in ReservationIds, NEW flag,
         resv' = [resv EXCEPT ![r].lapsed = flag], UNCHANGED <<account, period>>
  PROVE  PurseStep /\ Owned(Books')
<1> DEFINE v == [resv[r] EXCEPT !.lapsed = flag]
<1>1. resv' = [resv EXCEPT ![r] = v] /\ resv[r] \in Reservation
  BY DEF IInv, BooksInv, BooksType, Books
<1>2. v.user = resv[r].user /\ v.status = resv[r].status /\ v.amount = resv[r].amount
  BY <1>1 DEF Reservation
<1> HIDE DEF v
<1>3. PurseHold' = PurseHold
  <2>1. PurseHold' = [PurseHold EXCEPT ![r] = Seen(v)] /\ PurseHold[r] = Seen(resv[r])
    BY <1>1, HoldMoves
  <2>2. Seen(v) = Seen(resv[r])
    BY <1>2 DEF Seen
  <2>3. QED
    BY <2>1, <2>2, PurseTypes DEF IInv
<1>4. PurseAllowance' = PurseAllowance /\ PurseSpent' = PurseSpent
  BY DEF PurseAllowance, PurseSpent, Figure, CurrentOf
<1>5. Owned(Books')
  BY DEF Owned, Books
<1>6. QED
  BY <1>3, <1>4, <1>5 DEF PurseStep, PurseStill

(* A hold grows by what is free.                                           *)
LEMMA GrowSteps ==
  ASSUME IInv, IInv', Owned(Books), NEW r \in ReservationIds, NEW x \in Nat, NEW renewed \in BOOLEAN,
         resv[r].status = "open", Save(Extended(Books, r, x, renewed)),
         Unlimited(resv[r].user) \/ x <= Available(period[resv[r].period]), account' = account
  PROVE  PurseStep /\ Owned(Books')
<1> DEFINE p == resv[r].period
           u == resv[r].user
           w == [resv[r] EXCEPT !.amount = @ + x]
           v == [w EXCEPT !.lapsed = @ /\ ~renewed]
           pr == [period[p] EXCEPT !.reserved = @ + x]
<1>1. /\ BooksInv(Books) /\ Books \in BooksType /\ Books.period = period /\ Books.resv = resv
      /\ period \in [PeriodIds -> Period] /\ resv \in [ReservationIds -> Reservation]
  BY DEF IInv, BooksInv, BooksType, Books
<1>2. /\ p \in PeriodIds /\ u \in Users /\ period[p].status = "current" /\ period[p].user = u
      /\ p \in CurrentOf(period, u) /\ period[p] \in Period /\ resv[r] \in Reservation
  BY HeldBooks DEF HeldStatuses
<1>3. w \in Reservation /\ w.user = u /\ w.status = "open" /\ w.amount = resv[r].amount + x
  BY <1>2 DEF Reservation
<1>4. v = [resv[r] EXCEPT !.amount = @ + x, !.lapsed = @ /\ ~renewed]
  BY <1>2, <1>3 DEF Reservation
<1>5. period' = [period EXCEPT ![p] = pr] /\ resv' = [resv EXCEPT ![r] = v]
  BY <1>1, <1>4 DEF Save, Extended, Holding, Books
<1> HIDE DEF w
<1>6. v.user = u /\ v.status = "open" /\ v.amount = resv[r].amount + x
  BY <1>3 DEF Reservation
<1>7. /\ pr.status = period[p].status /\ pr.user = period[p].user
      /\ pr.allowance = period[p].allowance /\ pr.consumed = period[p].consumed
  BY <1>2 DEF Period
<1> HIDE DEF v, pr
<1>8. Owned(Books') /\ PurseAllowance' = PurseAllowance /\ PurseSpent' = PurseSpent
  BY <1>2, <1>5, <1>7, PeriodMoves
<1>9. /\ PurseHold' = [PurseHold EXCEPT ![r] = [owner |-> u, state |-> "open",
                                               amount |-> resv[r].amount + x]]
      /\ PurseHold[r] = [owner |-> u, state |-> "open", amount |-> resv[r].amount]
      /\ PurseHold'[r].amount = resv[r].amount + x
  <2>1. /\ PurseHold' = [PurseHold EXCEPT ![r] = Seen(v)]
        /\ PurseHold'[r] = Seen(v) /\ PurseHold[r] = Seen(resv[r])
    BY <1>5, HoldMoves
  <2>2. Seen(v) = [owner |-> u, state |-> "open", amount |-> resv[r].amount + x]
    BY <1>6, States DEF Seen
  <2>3. Seen(resv[r]) = [owner |-> u, state |-> "open", amount |-> resv[r].amount]
    BY States DEF Seen
  <2>4. QED
    BY <2>1, <2>2, <2>3
<1>10. resv[r].amount \in Nat
  BY <1>2 DEF Reservation
<1>11. PurseHold' = [PurseHold EXCEPT ![r].amount = @ + x]
  <2>1. [PurseHold[r] EXCEPT !.amount = @ + x]
          = [owner |-> u, state |-> "open", amount |-> resv[r].amount + x]
    BY <1>9
  <2>2. QED
    BY <1>9, <2>1
<1>12. Purse!Free(PurseSpent, PurseHold, u) = Available(period[p])
  <2>1. PurseAllowance[u] = AllowanceIn(Books, u) /\ PurseSpent[u] = SpentIn(Books, u)
    BY <1>1, <1>2, PurseTypes
  <2>2. PurseHold = [t \in ReservationIds |-> Seen(Books.resv[t])]
    BY PurseSeen
  <2> DEFINE b == Books
  <2>3. /\ BooksInv(b) /\ b.period = period /\ p \in CurrentOf(b.period, u)
        /\ PurseAllowance[u] = AllowanceIn(b, u) /\ PurseSpent[u] = SpentIn(b, u)
        /\ PurseHold = [t \in ReservationIds |-> Seen(b.resv[t])]
    BY <1>1, <1>2, <2>1, <2>2
  <2> HIDE DEF b
  <2>4. Purse!Free(PurseSpent, PurseHold, u) = Available(b.period[p])
    BY <1>2, <2>3, FreeSeen
  <2>5. QED
    BY <2>3, <2>4
<1>13. PurseHold'[r].amount - PurseHold[r].amount = x
  BY <1>9, <1>10
<1>14. Purse!Grow(r)
  <2>1. PurseHold[r].state = "open" /\ PurseHold[r].owner = u
    BY <1>9
  <2>2. PurseHold' = [PurseHold EXCEPT ![r].amount = @ + (PurseHold'[r].amount - PurseHold[r].amount)]
    BY <1>11, <1>13
  <2>3. Purse!Limited(u) => x <= Purse!Free(PurseSpent, PurseHold, u)
    BY <1>12 DEF Purse!Limited, Unlimited
  <2>4. QED
    BY <1>8, <1>13, <2>1, <2>2, <2>3 DEF Purse!Grow
<1>15. QED
  BY <1>8, <1>14 DEF PurseStep, Purse!Next

LEMMA ExtendSteps ==
  ASSUME IInv, IInv', Owned(Books), NEW r \in ReservationIds, NEW x \in Amounts, ExtendReservation(r, x)
  PROVE  PurseStep /\ Owned(Books')
<1>1. x \in Nat /\ FALSE \in BOOLEAN
  BY CreditAssumption
<1>2. QED
  BY <1>1, GrowSteps DEF ExtendReservation

(* A top-up that the code grants is funded.                                *)
LEMMA TopUpsFunded ==
  ASSUME NEW r, NEW ceiling, NEW budget, NEW x \in TopUps(r, ceiling, budget)
  PROVE  Unlimited(resv[r].user) \/ x <= Available(period[resv[r].period])
BY DEF TopUps

LEMMA EnsureHoldSteps ==
  ASSUME IInv, IInv', Owned(Books), NEW r \in ReservationIds, NEW ceiling \in Amounts,
         NEW budget \in Budgets, NEW result, EnsureReservationHold(r, ceiling, budget, result)
  PROVE  PurseStep /\ Owned(Books')
<1>1. account' = account
  BY DEF EnsureReservationHold
<1>2. CASE UNCHANGED <<period, resv, ledger, carried>>
  BY <1>1, <1>2, Still
<1>3. CASE resv' = [resv EXCEPT ![r].lapsed = FALSE] /\ UNCHANGED <<period, ledger, carried>>
  BY <1>1, <1>3, MarkSteps
<1>4. ASSUME resv[r].status = "open", resv[r].amount < ceiling,
             NEW x \in TopUps(r, ceiling, budget), Save(Extended(Books, r, x, TRUE))
      PROVE  PurseStep /\ Owned(Books')
  <2>1. ceiling \in Nat /\ budget \in Nat /\ resv[r].amount \in Nat /\ resv[r].settled \in Nat
    <3>1. resv[r] \in Reservation
      BY DEF IInv, BooksInv, BooksType, Books
    <3>2. QED
      BY <3>1, CreditAssumption DEF Reservation
  <2>2. x \in Nat
    BY <1>4, <2>1, TopUpsGrow
  <2>3. Unlimited(resv[r].user) \/ x <= Available(period[resv[r].period])
    BY TopUpsFunded
  <2>4. QED
    BY <1>1, <1>4, <2>2, <2>3, GrowSteps
<1>5. QED
  BY <1>2, <1>3, <1>4 DEF EnsureReservationHold

LEMMA EndedOne ==
  ASSUME BooksInv(Books), NEW r \in ReservationIds
  PROVE  Purse!Ended({r}) = [PurseHold EXCEPT ![r] = Gone(PurseHold[r])]
<1>1. PurseHold = [t \in ReservationIds |-> PurseHold[t]]
  BY PurseTypes
<1>2. \A t \in ReservationIds : t \in {r} <=> t = r
  OBVIOUS
<1>3. Purse!Ended({r}) = [t \in ReservationIds |-> IF t = r THEN Gone(PurseHold[t]) ELSE PurseHold[t]]
  BY DEF Purse!Ended, Gone
<1>4. QED
  BY <1>1, <1>3

(* What a hold looks like once it is closed.                               *)
LEMMA SeenClosed ==
  ASSUME NEW v \in Reservation, NEW w, w.user = v.user, w.amount = 0,
         w.status \in {"settled", "released", "expired"}
  PROVE  Seen(w) = Gone(Seen(v))
<1>1. HoldState(w.status) = "over"
  BY States
<1>2. Seen(v).owner = v.user
  BY DEF Seen
<1>3. QED
  BY <1>1, <1>2 DEF Seen, Gone

LEMMA ClosedAmount ==
  ASSUME NEW v \in Reservation, NEW status \in {"settled", "released", "expired"}
  PROVE  Closed(v, status).amount = 0
<1> DEFINE w == [v EXCEPT !.amount = 0]
           z == [w EXCEPT !.status = status]
<1>1. w \in Reservation /\ w.amount = 0
  BY DEF Reservation
<1> HIDE DEF w
<1>2. z \in Reservation /\ z.amount = 0
  BY <1>1 DEF Reservation
<1> HIDE DEF z
<1>3. [z EXCEPT !.lapsed = FALSE].amount = 0
  BY <1>2 DEF Reservation
<1>4. QED
  BY <1>3 DEF Closed, z, w

LEMMA ReleaseSteps ==
  ASSUME IInv, IInv', Owned(Books), NEW r \in ReservationIds, NEW final, ReleaseReservation(r, final)
  PROVE  PurseStep /\ Owned(Books')
<1> DEFINE p == resv[r].period
           pr == [period[p] EXCEPT !.reserved = AtLeastZero(@ - resv[r].amount)]
           v == Closed(resv[r], final)
           w == Parked(resv[r])
<1>1. account' = account /\ BooksInv(Books)
  BY DEF ReleaseReservation, IInv
<1>2. CASE UNCHANGED <<period, resv, ledger, carried>>
  BY <1>1, <1>2, Still
<1>3. ASSUME resv[r].status = "open"
      PROVE  /\ p \in PeriodIds /\ period[p].status = "current" /\ period[p] \in Period
             /\ resv[r] \in Reservation /\ PurseHold[r] = Seen(resv[r])
             /\ PurseHold[r] = [owner |-> resv[r].user, state |-> "open", amount |-> resv[r].amount]
             /\ period \in [PeriodIds -> Period] /\ resv \in [ReservationIds -> Reservation]
  <2>1. /\ p \in PeriodIds /\ period[p].status = "current" /\ period[p] \in Period
        /\ resv[r] \in Reservation
    BY <1>3, HeldBooks DEF HeldStatuses
  <2>2. PurseHold[r] = Seen(resv[r])
    BY PurseTypes DEF IInv
  <2>3. Seen(resv[r]) = [owner |-> resv[r].user, state |-> "open", amount |-> resv[r].amount]
    BY <1>3, States DEF Seen
  <2>4. QED
    BY <2>1, <2>2, <2>3 DEF IInv, BooksInv, BooksType, Books
<1>4. CASE /\ resv[r].status = "open" /\ resv' = [resv EXCEPT ![r] = Parked(@)]
           /\ UNCHANGED <<period, ledger, carried>>
  <2>1. resv' = [resv EXCEPT ![r] = w] /\ period' = [period EXCEPT ![p] = period[p]]
    BY <1>3, <1>4
  <2>2. w.user = resv[r].user /\ w.status = "pending_reconciliation" /\ w.amount = resv[r].amount
    BY <1>3, <1>4, ParkedFields
  <2> HIDE DEF w
  <2>3. Owned(Books') /\ PurseAllowance' = PurseAllowance /\ PurseSpent' = PurseSpent
    BY <1>3, <1>4, <2>1, PeriodMoves
  <2>4. /\ PurseHold' = [PurseHold EXCEPT ![r] = Seen(w)]
        /\ Seen(w) = [owner |-> resv[r].user, state |-> "parked", amount |-> resv[r].amount]
    BY <2>1, <2>2, HoldMoves, States DEF Seen
  <2>5. [PurseHold[r] EXCEPT !.state = "parked"]
          = [owner |-> resv[r].user, state |-> "parked", amount |-> resv[r].amount]
    BY <1>3, <1>4
  <2>6. PurseHold' = [PurseHold EXCEPT ![r].state = "parked"]
    BY <2>4, <2>5
  <2>7. Purse!Park(r)
    BY <1>1, <1>3, <1>4, <2>3, <2>6 DEF Purse!Park
  <2>8. QED
    BY <2>3, <2>7 DEF PurseStep, Purse!Next
<1>5. CASE /\ resv[r].status = "open" /\ final \in {"settled", "released"}
           /\ Save([Books EXCEPT !.period[p].reserved = AtLeastZero(@ - resv[r].amount),
                                 !.resv[r] = Closed(@, final),
                                 !.ledger[p].holds = @ + resv[r].amount])
  <2>1. period' = [period EXCEPT ![p] = pr] /\ resv' = [resv EXCEPT ![r] = v]
    BY <1>3, <1>5 DEF Save, Books
  <2>2. /\ pr.status = period[p].status /\ pr.user = period[p].user
        /\ pr.allowance = period[p].allowance /\ pr.consumed = period[p].consumed
    BY <1>3, <1>5 DEF Period
  <2>3. v.user = resv[r].user /\ v.status = final /\ v.amount = 0
    BY <1>3, <1>5, ClosedFields, ClosedAmount, SMTT(30)
  <2> HIDE DEF pr, v
  <2>4. Owned(Books') /\ PurseAllowance' = PurseAllowance /\ PurseSpent' = PurseSpent
    BY <1>3, <1>5, <2>1, <2>2, PeriodMoves
  <2>5. PurseHold' = [PurseHold EXCEPT ![r] = Seen(v)]
    BY <2>1, HoldMoves
  <2>6. Seen(v) = Gone(Seen(resv[r]))
    BY <1>3, <1>5, <2>3, SeenClosed
  <2>7. PurseHold' = Purse!Ended({r})
    BY <1>1, <1>3, <1>5, <2>5, <2>6, EndedOne
  <2>8. Purse!End(r)
    BY <1>1, <1>3, <1>5, <2>4, <2>7 DEF Purse!End
  <2>9. QED
    BY <2>4, <2>8 DEF PurseStep, Purse!Next
<1>6. QED
  BY <1>2, <1>4, <1>5 DEF ReleaseReservation

LEMMA ResolveSteps ==
  ASSUME IInv, IInv', Owned(Books), NEW r \in ReservationIds, NEW x \in Nat,
         ResolveReconciliation(r, x)
  PROVE  PurseStep /\ Owned(Books')
<1> DEFINE p == resv[r].period
           u == resv[r].user
           charge == Least(x, resv[r].amount)
           pr1 == [period[p] EXCEPT !.reserved = AtLeastZero(@ - resv[r].amount)]
           pr == [pr1 EXCEPT !.consumed = @ + charge]
           w == [resv[r] EXCEPT !.settled = @ + charge]
           v == Closed(w, "settled")
<1>1. /\ resv[r].status = "pending_reconciliation" /\ x \in Nat /\ account' = account
      /\ BooksInv(Books)
  BY CreditAssumption DEF ResolveReconciliation, IInv
<1>2. /\ p \in PeriodIds /\ u \in Users /\ period[p].status = "current" /\ period[p].user = u
      /\ period[p] \in Period /\ resv[r] \in Reservation
  BY <1>1, HeldBooks DEF HeldStatuses
<1>3. charge \in 0..resv[r].amount /\ charge \in Nat /\ resv[r].amount \in Nat
  BY <1>1, <1>2 DEF Least, Reservation
<1>4. period' = [period EXCEPT ![p] = pr] /\ resv' = [resv EXCEPT ![r] = v]
  <2>1. /\ period' = [period EXCEPT ![p].reserved = AtLeastZero(@ - resv[r].amount),
                                    ![p].consumed = @ + charge]
        /\ resv' = [resv EXCEPT ![r] = Closed(w, "settled")]
    BY Zenon DEF ResolveReconciliation, Save, Books
  <2>2. period \in [PeriodIds -> Period]
    BY DEF IInv, BooksInv, BooksType, Books
  <2>3. QED
    BY <1>2, <2>1, <2>2, Zenon
<1>5. /\ pr1.status = period[p].status /\ pr1.user = period[p].user
      /\ pr1.allowance = period[p].allowance /\ pr1.consumed = period[p].consumed
      /\ pr1 \in [user : Users \cup {"nobody"}, status : {"unused", "current", "closed"},
                  allowance : Int, consumed : Int, reserved : Int,
                  reset : {"none", "later", "due"}]
  BY <1>2, <1>3 DEF Period, AtLeastZero
<1>6. w \in Reservation /\ w.user = u
  BY <1>2, <1>3 DEF Reservation
<1> HIDE DEF charge, pr1, w
<1>7. /\ pr.status = period[p].status /\ pr.user = u
      /\ pr.allowance = period[p].allowance /\ pr.consumed = period[p].consumed + charge
  BY <1>2, <1>5
<1>8. v.user = u /\ v.status = "settled" /\ v.amount = 0
  BY <1>6, ClosedFields, ClosedAmount
<1> HIDE DEF pr, v
<1>9. /\ Owned(Books') /\ PurseAllowance' = PurseAllowance
      /\ PurseSpent' = [PurseSpent EXCEPT ![u] = pr.consumed]
      /\ PurseSpent[u] = period[p].consumed /\ period[p].consumed \in Int
  <2>1. pr.user = period[p].user
    BY <1>2, <1>7
  <2>2. /\ Owned(Books') /\ PurseAllowance' = PurseAllowance
        /\ PurseSpent' = [PurseSpent EXCEPT ![period[p].user] = pr.consumed]
        /\ PurseSpent[period[p].user] = period[p].consumed /\ period[p].consumed \in Int
    BY <1>2, <1>4, <1>7, <2>1, PeriodMoves
  <2>3. QED
    BY <1>2, <2>2
<1>10. PurseHold' = [PurseHold EXCEPT ![r] = Seen(v)] /\ PurseHold[r] = Seen(resv[r])
  BY <1>4, HoldMoves
<1>11. Seen(v) = Gone(Seen(resv[r]))
  BY <1>2, <1>8, SeenClosed
<1>12. PurseHold' = Purse!Ended({r})
  BY <1>1, <1>10, <1>11, EndedOne
<1>13. /\ PurseHold[r].state = "parked" /\ PurseHold[r].owner = u
       /\ PurseHold[r].amount = resv[r].amount
  BY <1>1, <1>10, States DEF Seen
<1>14. PurseSpent'[u] = PurseSpent[u] + charge
  BY <1>1, <1>2, <1>7, <1>9, PurseTypes
<1>15. PurseSpent'[u] - PurseSpent[u] \in 0..PurseHold[r].amount
  BY <1>3, <1>9, <1>13, <1>14
<1>16. PurseSpent' = [PurseSpent EXCEPT ![u] = PurseSpent'[u]]
  BY <1>7, <1>9, <1>14
<1>17. Purse!Resolve(r)
  BY <1>1, <1>9, <1>12, <1>13, <1>15, <1>16 DEF Purse!Resolve
<1>18. QED
  BY <1>9, <1>17 DEF PurseStep, Purse!Next

(* A settlement against reservation r.                                     *)
LEMMA SettleAgainstSteps ==
  ASSUME IInv, IInv', Owned(Books), NEW k, NEW r \in ReservationIds, NEW reported \in Nat,
         NEW pending \in BOOLEAN, NEW release \in Nat,
         SettleAgainst(k, r, reported, pending, release)
  PROVE  PurseStep /\ Owned(Books')
<1> DEFINE p == resv[r].period
           u == resv[r].user
           open == resv[r].status = "open"
           charge == IF pending THEN 0 ELSE reported
           released == IF open /\ ~pending THEN Least(resv[r].amount, release) ELSE 0
           v == IF ~open THEN resv[r]
                ELSE IF pending THEN Parked(resv[r])
                ELSE Reduced(resv[r], released, charge)
           pr1 == [period[p] EXCEPT !.reserved = AtLeastZero(@ - released)]
           pr == [pr1 EXCEPT !.consumed = @ + charge]
<1>1. /\ resv[r].status # "unused" /\ account' = account /\ BooksInv(Books)
      /\ period \in [PeriodIds -> Period] /\ resv \in [ReservationIds -> Reservation]
  BY DEF SettleAgainst, IInv, BooksInv, BooksType, Books
<1>2. /\ p \in PeriodIds /\ resv[r] \in Reservation /\ period[p] \in Period
  BY <1>1, Reserved
<1>3. /\ charge \in Nat /\ resv[r].amount \in Nat
      /\ released \in Nat /\ released <= resv[r].amount
      /\ pending => charge = 0
  <2>1. resv[r].amount \in Nat
    BY <1>2 DEF Reservation
  <2>2. QED
    BY <2>1 DEF Least
<1>4. period' = [period EXCEPT ![p] = pr] /\ resv' = [resv EXCEPT ![r] = v]
  <2>1. /\ period' = [period EXCEPT ![p].reserved = AtLeastZero(@ - released),
                                    ![p].consumed = @ + charge]
        /\ resv' = [resv EXCEPT ![r] = v]
    BY Zenon DEF SettleAgainst, Save, Books
  <2>2. QED
    BY <1>1, <1>2, <2>1, Zenon
<1>5. /\ ~open => v = resv[r]
      /\ open /\ pending => v = Parked(resv[r])
      /\ open /\ ~pending => v = Reduced(resv[r], released, charge)
  OBVIOUS
<1>6. /\ pr1.status = period[p].status /\ pr1.user = period[p].user
      /\ pr1.allowance = period[p].allowance /\ pr1.consumed = period[p].consumed
      /\ pr1 \in [user : Users \cup {"nobody"}, status : {"unused", "current", "closed"},
                  allowance : Int, consumed : Int, reserved : Int,
                  reset : {"none", "later", "due"}]
  BY <1>2, <1>3 DEF Period, AtLeastZero
<1> HIDE DEF charge, released, pr1, v
<1>7. /\ pr.status = period[p].status /\ pr.user = period[p].user
      /\ pr.allowance = period[p].allowance /\ pr.consumed = period[p].consumed + charge
  BY <1>2, <1>3, <1>6
<1> HIDE DEF pr
<1>8. period[p].consumed \in Int
  BY <1>2 DEF Period
<1>9. /\ Owned(Books') /\ PurseAllowance' = PurseAllowance
      /\ period[p].status = "current" =>
           /\ period[p].user \in Users
           /\ PurseSpent' = [PurseSpent EXCEPT ![period[p].user] = pr.consumed]
           /\ PurseSpent[period[p].user] = period[p].consumed
      /\ period[p].status # "current" \/ pr.consumed = period[p].consumed =>
           PurseSpent' = PurseSpent
  BY <1>2, <1>4, <1>7, PeriodMoves
<1>10. PurseHold' = [PurseHold EXCEPT ![r] = Seen(v)] /\ PurseHold[r] = Seen(resv[r])
  BY <1>4, HoldMoves
<1>11. ASSUME open
       PROVE  /\ u \in Users /\ period[p].status = "current" /\ period[p].user = u
              /\ PurseHold[r] = [owner |-> u, state |-> "open", amount |-> resv[r].amount]
  <2>1. Seen(resv[r]) = [owner |-> u, state |-> "open", amount |-> resv[r].amount]
    BY <1>11, States DEF Seen
  <2>2. u \in Users /\ period[p].status = "current" /\ period[p].user = u
    BY <1>11, HeldBooks DEF HeldStatuses
  <2>3. QED
    BY <1>10, <2>1, <2>2
<1>12. CASE ~open
  <2>1. PurseHold' = PurseHold
    BY <1>1, <1>5, <1>10, <1>12, PurseTypes
  <2>2. CASE period[p].status # "current"
    BY <1>1, <1>9, <2>1, <2>2 DEF PurseStep, PurseStill
  <2>3. CASE period[p].status = "current"
    <3> DEFINE w == period[p].user
    <3>1. w \in Users /\ PurseSpent \in Purse!Months(w)
      BY <1>9, <2>3 DEF Purse!Months
    <3>2. PurseSpent' = [PurseSpent EXCEPT ![w] = pr.consumed]
      BY <1>9, <2>3
    <3>3. PurseSpent'[w] = pr.consumed /\ pr.consumed \in Int
      BY <1>1, <1>3, <1>7, <1>8, <3>1, <3>2, PurseTypes
    <3>4. Purse!Book(w)
      BY <1>1, <1>9, <2>1, <3>1, <3>2, <3>3 DEF Purse!Book
    <3>5. QED
      BY <1>9, <3>1, <3>4 DEF PurseStep, Purse!Next
  <2>4. QED
    BY <1>9, <2>2, <2>3
<1>13. CASE open /\ pending
  <2>1. PurseSpent' = PurseSpent
    BY <1>3, <1>7, <1>8, <1>9, <1>13
  <2>2. v.user = u /\ v.status = "pending_reconciliation" /\ v.amount = resv[r].amount
    BY <1>2, <1>5, <1>13, ParkedFields
  <2>3. Seen(v) = [owner |-> u, state |-> "parked", amount |-> resv[r].amount]
    BY <2>2, States DEF Seen
  <2>4. [PurseHold[r] EXCEPT !.state = "parked"]
          = [owner |-> u, state |-> "parked", amount |-> resv[r].amount]
    BY <1>11, <1>13
  <2>5. PurseHold' = [PurseHold EXCEPT ![r].state = "parked"]
    BY <1>10, <2>3, <2>4
  <2>6. PurseHold[r].state = "open"
    BY <1>11, <1>13
  <2>7. Purse!Park(r)
    BY <1>1, <1>9, <2>1, <2>5, <2>6 DEF Purse!Park
  <2>8. QED
    BY <1>9, <2>7 DEF PurseStep, Purse!Next
<1>14. CASE open /\ ~pending
  <2>1. v.user = u /\ v.status = "open" /\ v.amount = resv[r].amount - released
    BY <1>2, <1>3, <1>5, <1>14, ReducedFields
  <2>2. Seen(v) = [owner |-> u, state |-> "open", amount |-> resv[r].amount - released]
    BY <2>1, States DEF Seen
  <2>3. [PurseHold[r] EXCEPT !.amount = resv[r].amount - released]
          = [owner |-> u, state |-> "open", amount |-> resv[r].amount - released]
    BY <1>11, <1>14
  <2>4. PurseHold'[r] = Seen(v)
    BY <1>4, HoldMoves
  <2>5. PurseHold'[r].amount = resv[r].amount - released
    BY <2>2, <2>4
  <2>6. PurseHold' = [PurseHold EXCEPT ![r].amount = PurseHold'[r].amount]
    BY <1>10, <2>2, <2>3, <2>5
  <2>7. /\ PurseHold[r].state = "open" /\ PurseHold[r].owner = u
        /\ PurseHold'[r].amount \in 0..PurseHold[r].amount
    BY <1>3, <1>11, <1>14, <2>5
  <2>8. PurseSpent' = [PurseSpent EXCEPT ![u] = pr.consumed] /\ PurseSpent[u] = period[p].consumed
    BY <1>9, <1>11, <1>14
  <2>9. PurseSpent'[u] = pr.consumed
    BY <1>1, <1>11, <1>14, <2>8, PurseTypes
  <2>10. PurseSpent'[u] >= PurseSpent[u]
    BY <1>3, <1>7, <1>8, <2>8, <2>9
  <2>11. PurseSpent' = [PurseSpent EXCEPT ![u] = PurseSpent'[u]]
    BY <2>8, <2>9
  <2>12. Purse!Spend(r)
    BY <1>1, <1>9, <2>6, <2>7, <2>10, <2>11 DEF Purse!Spend
  <2>13. QED
    BY <1>9, <2>12 DEF PurseStep, Purse!Next
<1>15. QED
  BY <1>12, <1>13, <1>14

LEMMA SettleUnreservedSteps ==
  ASSUME IInv, IInv', Owned(Books), NEW k, NEW u \in Users, NEW reported \in Nat,
         NEW pending \in BOOLEAN, SettleUnreserved(k, u, reported, pending)
  PROVE  PurseStep /\ Owned(Books')
<1> DEFINE charge == IF pending THEN 0 ELSE reported
<1>1. PICK e \in Ensured(Books, u) :
        Save([e[1] EXCEPT !.period[e[2]].consumed = @ + charge, !.ledger[e[2]].charges = @ - charge])
  BY DEF SettleUnreserved
<1> HIDE DEF charge
<1> DEFINE c == e[1]
           p == e[2]
<1>2. c \in BooksType /\ c.period \in [PeriodIds -> Period] /\ p \in PeriodIds /\ c.period[p] \in Period
  BY EnsuredTypes
<1>3. PICK x : period' = [c.period EXCEPT ![p].consumed = x] /\ resv' = c.resv
  BY <1>1, <1>2 DEF Save, BooksType
<1> DEFINE pr == [c.period[p] EXCEPT !.consumed = x]
<1>4. period' = [c.period EXCEPT ![p] = pr]
  BY <1>2, <1>3
<1>5. pr.status = c.period[p].status /\ pr.user = c.period[p].user /\ pr.allowance = c.period[p].allowance
  BY <1>2 DEF Period
<1> HIDE DEF pr
<1>6. /\ Owned(Books') /\ Others(Books, Books', u) /\ SameHolds(Books, Books')
      /\ AllowanceIn(Books', u) = AllowanceIn(Books, u)
  BY <1>3, <1>4, <1>5, EnsuredThen
<1>7. QED
  BY <1>6, Enters DEF IInv, SettleUnreserved

LEMMA ResetSteps ==
  ASSUME IInv, IInv', Owned(Books), NEW p \in PeriodIds, ResetFallsDue(p)
  PROVE  PurseStep /\ Owned(Books')
<1> DEFINE pr == [period[p] EXCEPT !.reset = "due"]
<1>1. /\ period \in [PeriodIds -> Period] /\ resv' = resv /\ account' = account
      /\ BooksInv(Books) /\ BooksInv(Books')
  BY DEF IInv, BooksInv, BooksType, Books, ResetFallsDue
<1>2. period' = [period EXCEPT ![p] = pr]
  BY <1>1 DEF ResetFallsDue
<1>3. /\ pr.status = period[p].status /\ pr.user = period[p].user
      /\ pr.allowance = period[p].allowance /\ pr.consumed = period[p].consumed
  BY <1>1 DEF Period
<1> HIDE DEF pr
<1>4. Owned(Books') /\ PurseAllowance' = PurseAllowance /\ PurseSpent' = PurseSpent
  BY <1>2, <1>3, PeriodMoves
<1>5. PurseHold' = PurseHold
  BY <1>1, PurseTypes, PurseTypesNext
<1>6. QED
  BY <1>1, <1>4, <1>5 DEF PurseStep, PurseStill

-----------------------------------------------------------------------------
(* Every step of the books is a step of the purses or leaves them alone.   *)
LEMMA NextSteps ==
  ASSUME IInv, IInv', Owned(Books), [Next]_vars
  PROVE  PurseStep /\ Owned(Books')
<1>1. CASE Administer
  <2>1. PICK u \in Users :
          \/ \E a \in Allowances, c \in Cadences : InitializeUserCredits(u, a, c)
          \/ \E a \in Allowances : SetAllowance(u, a) \/ AddCredits(u, a)
          \/ \E d \in Adjustments : RecordAdjustment(u, d)
          \/ \E c \in Cadences : SetResetCadence(u, c)
          \/ \E s \in Accounts : UpdateUser(u, s)
    BY <1>1 DEF Administer
  <2>2. CASE \E a \in Allowances, c \in Cadences : InitializeUserCredits(u, a, c)
    BY <2>2, InitializeSteps
  <2>3. CASE \E a \in Allowances : SetAllowance(u, a) \/ AddCredits(u, a)
    BY <2>3, SetAllowanceSteps
  <2>4. CASE \E d \in Adjustments : RecordAdjustment(u, d)
    BY <2>4, RecordAdjustmentSteps
  <2>5. CASE \E c \in Cadences : SetResetCadence(u, c)
    BY <2>5, SetResetCadenceSteps
  <2>6. CASE \E s \in Accounts : UpdateUser(u, s)
    BY <2>6, UpdateUserSteps
  <2>7. QED
    BY <2>1, <2>2, <2>3, <2>4, <2>5, <2>6
<1>2. CASE Reserve
  <2>1. CASE \E S \in SUBSET Lapsed(resv) : SweepAbandonedReservations(S)
    BY <2>1, SweepSteps
  <2>2. CASE \E r \in ReservationIds, u \in Users, x \in Amounts, scope \in Scopes,
                limit \in Limits, result \in ReserveResults :
               ReserveCredits(r, u, x, scope, limit, result)
    BY <2>2, ReserveSteps
  <2>3. ASSUME NEW r \in ReservationIds, TouchReservation(r)
        PROVE  PurseStep /\ Owned(Books')
    BY <2>3, MarkSteps DEF TouchReservation
  <2>4. ASSUME NEW r \in ReservationIds,
               \/ TouchReservation(r)
               \/ \E x \in Amounts : ExtendReservation(r, x)
               \/ \E x \in Billable(r) : ResolveReconciliation(r, x)
               \/ \E x \in Amounts, budget \in Budgets, result \in HoldResults :
                    EnsureReservationHold(r, x, budget, result)
               \/ \E final \in {"settled", "released", "pending_reconciliation"} :
                    ReleaseReservation(r, final)
        PROVE  PurseStep /\ Owned(Books')
    <3>1. resv \in [ReservationIds -> Reservation]
      BY DEF IInv, BooksInv, BooksType, Books
    <3>2. resv[r].amount \in Nat
      BY <2>4, <3>1 DEF Reservation
    <3>3. Amounts \subseteq Nat
      BY CreditAssumption
    <3>4. ASSUME NEW x \in Billable(r) PROVE x \in Nat
      BY <3>2, <3>3, <3>4 DEF Billable
    <3>5. QED
      BY <2>3, <2>4, <3>4, ExtendSteps, ResolveSteps, EnsureHoldSteps, ReleaseSteps
  <2>5. QED
    BY <1>2, <2>1, <2>2, <2>4 DEF Reserve
<1>3. CASE SettleProviderCall
  <2>1. PICK k \in CallKeys :
          \/ SettleDuplicate(k)
          \/ \E x \in Amounts \cup {0}, pending \in BOOLEAN :
               \/ \E r \in ReservationIds, release \in Amounts \cup {0} :
                    SettleAgainst(k, r, x, pending, release)
               \/ \E u \in Users : SettleUnreserved(k, u, x, pending)
    BY <1>3 DEF SettleProviderCall
  <2>2. Amounts \cup {0} \subseteq Nat
    BY CreditAssumption
  <2>3. CASE SettleDuplicate(k)
    BY <2>3, Still DEF SettleDuplicate, vars
  <2>4. ASSUME NEW x \in Amounts \cup {0}, NEW pending \in BOOLEAN,
               NEW r \in ReservationIds, NEW release \in Amounts \cup {0},
               SettleAgainst(k, r, x, pending, release)
        PROVE  PurseStep /\ Owned(Books')
    BY <2>2, <2>4, SettleAgainstSteps
  <2>5. ASSUME NEW x \in Amounts \cup {0}, NEW pending \in BOOLEAN, NEW u \in Users,
               SettleUnreserved(k, u, x, pending)
        PROVE  PurseStep /\ Owned(Books')
    BY <2>2, <2>5, SettleUnreservedSteps
  <2>6. QED
    BY <2>1, <2>3, <2>4, <2>5
<1>4. CASE Clock
  <2>1. CASE \E r \in ReservationIds : ReservationLapses(r)
    BY <2>1, MarkSteps DEF ReservationLapses
  <2>2. CASE \E p \in PeriodIds : ResetFallsDue(p)
    BY <2>2, ResetSteps
  <2>3. QED
    BY <1>4, <2>1, <2>2 DEF Clock
<1>5. CASE UNCHANGED vars
  BY <1>5, Still DEF vars
<1>6. QED
  BY <1>1, <1>2, <1>3, <1>4, <1>5 DEF Next

LEMMA InitSteps == Init => Purse!Init /\ Owned(Books)
<1> SUFFICES ASSUME Init PROVE Purse!Init /\ Owned(Books)
  OBVIOUS
<1>1. \A p \in PeriodIds : period[p].status = "unused"
  BY DEF Init
<1>2. \A u : CurrentOf(period, u) = {}
  BY <1>1 DEF CurrentOf
<1>3. PurseAllowance = [u \in Users |-> 0] /\ PurseSpent = [u \in Users |-> 0]
  BY <1>2 DEF PurseAllowance, PurseSpent, Figure
<1>4. PurseHold = [r \in ReservationIds |-> [owner |-> "nobody", state |-> "none", amount |-> 0]]
  BY States DEF Init, PurseHold
<1>5. account \in [Users -> Accounts \ {"inactive"}]
  BY DEF Init
<1>6. Owned(Books)
  BY <1>1 DEF Owned, Books
<1>7. QED
  BY <1>3, <1>4, <1>5, <1>6 DEF Purse!Init, Purse!NoHold

(* The books implement one purse per user: every hold, top-up and charge,  *)
(* through recoveries and month rolls, is a step of CreditPurse.           *)
THEOREM PurseImplemented == Spec => ImplementsPurse
<1>1. Init => Purse!Init /\ Owned(Books)
  BY InitSteps
<1>2. IInv /\ IInv' /\ Owned(Books) /\ [Next]_vars => [Purse!Next]_(Purse!vars) /\ Owned(Books)'
  <2> SUFFICES ASSUME IInv, IInv', Owned(Books), [Next]_vars
               PROVE  [Purse!Next]_(Purse!vars) /\ Owned(Books)'
    OBVIOUS
  <2>1. PurseStep /\ Owned(Books')
    BY NextSteps
  <2>2. QED
    BY <2>1 DEF PurseStep, PurseStill, Purse!vars, Owned
<1>3. QED
  BY <1>1, <1>2, InductiveInvariant, PTL DEF Spec, ImplementsPurse, Purse!Spec

-----------------------------------------------------------------------------
(* The runs and their metered calls.                                       *)

AttemptsOK ==
  /\ run \in [ReservationIds -> RunStates]
  /\ attempt \in [CallKeys -> Attempt]
  /\ \A k \in CallKeys : InFlight(k) => attempt[k].run \in ReservationIds

(* The history keeps its types; who has always been limited is limited.    *)
HistoryOK ==
  /\ hand \in [Users -> Nat] /\ limited \subseteq Users /\ covered \subseteq CallKeys
  /\ \A u \in limited : ~Unlimited(u)

(* The step a run or a call takes in the books.                            *)
BooksStep == [Next]_vars

LEMMA RunConstants ==
  /\ InitialHold \in Amounts /\ Ceiling \in Amounts
  /\ Costs \subseteq Amounts /\ Incurred \subseteq Amounts
  /\ Budget \in Budgets
BY RunAssumption

(* The fields of an attempt, each in its set.                              *)
LEMMA AttemptFields ==
  ASSUME AttemptsOK, NEW k \in CallKeys
  PROVE  /\ attempt[k].run \in ReservationIds \cup {"none"}
         /\ attempt[k].step \in {"idle", "permitted", "sent", "answered", "settled", "refused",
                                 "lost", "incurred"}
         /\ attempt[k].outcome \in {"none", "succeeded", "unknown", "failed"}
         /\ attempt[k].cost \in Costs \cup {0}
         /\ attempt[k].caught \in BOOLEAN
BY DEF AttemptsOK, Attempt

(* A step of the desk.                                                     *)
LEMMA DeskSteps ==
  ASSUME AttemptsOK, Desk
  PROVE  BooksStep /\ AttemptsOK'
<1>1. UNCHANGED <<run, attempt>>
  BY DEF Desk, RegisterUser, ChangeAllowance, ByHand, Grant, Correct, ChangeCadence,
         ChangeAccount, Sweep, Reconcile
<1>2. AttemptsOK'
  BY <1>1 DEF AttemptsOK, InFlight
<1>3. CASE \E u \in Users :
             \/ \E a \in Allowances :
                  RegisterUser(u, a) \/ ChangeAllowance(u, a) \/ Grant(u, a)
             \/ \E d \in Adjustments : Correct(u, d)
             \/ \E c \in Cadences : ChangeCadence(u, c)
             \/ \E s \in Accounts : ChangeAccount(u, s)
  BY <1>2, <1>3
  DEF BooksStep, RegisterUser, ChangeAllowance, Grant, Correct, ChangeCadence, ChangeAccount,
      Next, Administer, Cadences
<1>4. CASE \E S \in SUBSET Lapsed(resv) : Sweep(S)
  BY <1>2, <1>4 DEF BooksStep, Sweep, Next, Reserve
<1>5. ASSUME NEW r \in ReservationIds, NEW billed \in BOOLEAN, Reconcile(r, billed)
      PROVE  BooksStep /\ AttemptsOK'
  <2>1. (IF billed THEN resv[r].amount ELSE 0) \in Billable(r)
    BY DEF Billable
  <2>2. QED
    BY <1>2, <1>5, <2>1 DEF BooksStep, Reconcile, Next, Reserve
<1>6. QED
  BY <1>3, <1>4, <1>5 DEF Desk

(* A step of runBillable.                                                  *)
LEMMA RunBillableSteps ==
  ASSUME AttemptsOK, RunBillable
  PROVE  BooksStep /\ AttemptsOK'
<1>1. PICK r \in ReservationIds :
        \/ \E u \in Users, scope \in Scopes, limit \in Limits, result \in ReserveResults :
             StartRun(r, u, scope, limit, result)
        \/ ReturnRun(r)
        \/ ReleaseRun(r)
        \/ ReleaseFails(r)
  BY DEF RunBillable
<1>2. /\ UNCHANGED attempt
      /\ \E s \in RunStates : run' = [run EXCEPT ![r] = s]
  BY <1>1 DEF AttemptsOK, StartRun, ReturnRun, ReleaseRun, ReleaseFails, RunStates
<1>3. AttemptsOK'
  BY <1>2 DEF AttemptsOK, InFlight
<1>4. CASE \E u \in Users, scope \in Scopes, limit \in Limits, result \in ReserveResults :
             StartRun(r, u, scope, limit, result)
  BY <1>3, <1>4, RunConstants DEF BooksStep, StartRun, Next, Reserve
<1>5. CASE ReturnRun(r) \/ ReleaseFails(r)
  BY <1>3, <1>5 DEF BooksStep, ReturnRun, ReleaseFails
<1>6. CASE ReleaseRun(r)
  BY <1>3, <1>6 DEF BooksStep, ReleaseRun, Next, Reserve
<1>7. QED
  BY <1>1, <1>4, <1>5, <1>6

(* What a settlement of call k does to the books.                          *)
LEMMA SettlementSteps ==
  ASSUME AttemptsOK, NEW k \in CallKeys, InFlight(k), Settlement(k)
  PROVE  Next
<1>1. /\ attempt[k].run \in ReservationIds
      /\ attempt[k].cost \in Amounts \cup {0} /\ Ceiling \in Amounts \cup {0}
      /\ (attempt[k].outcome = "unknown") \in BOOLEAN
  BY AttemptFields, RunConstants DEF AttemptsOK
<1>2. QED
  BY <1>1 DEF Settlement, Next, SettleProviderCall

(* The attempt of call k becomes a; a call in flight has its run.          *)
LEMMA AttemptChanges ==
  ASSUME AttemptsOK, UNCHANGED run, NEW k \in CallKeys, NEW a \in Attempt,
         attempt' = [attempt EXCEPT ![k] = a],
         a.step \in {"permitted", "sent", "answered"} => a.run \in ReservationIds
  PROVE  AttemptsOK'
<1>1. attempt' \in [CallKeys -> Attempt]
  BY DEF AttemptsOK
<1>2. ASSUME NEW j \in CallKeys, InFlight(j)'
      PROVE  attempt'[j].run \in ReservationIds
  <2>1. CASE j = k
    BY <1>2, <2>1 DEF AttemptsOK, InFlight
  <2>2. CASE j # k
    BY <1>2, <2>2 DEF AttemptsOK, InFlight
  <2>3. QED
    BY <2>1, <2>2
<1>3. QED
  BY <1>1, <1>2 DEF AttemptsOK

LEMMA PermitSteps ==
  ASSUME AttemptsOK, NEW k \in CallKeys, NEW r \in ReservationIds, NEW permitted \in BOOLEAN,
         PermitCall(k, r, permitted)
  PROVE  BooksStep /\ AttemptsOK'
<1> DEFINE a1 == [attempt[k] EXCEPT !.run = r]
           a == [a1 EXCEPT !.step = IF permitted THEN "permitted" ELSE "refused"]
<1>1. attempt[k] \in Attempt /\ attempt \in [CallKeys -> Attempt]
  BY DEF AttemptsOK
<1>2. a1 \in Attempt /\ a1.run = r
  BY <1>1 DEF Attempt
<1>3. a \in Attempt /\ a.run = r
  BY <1>2 DEF Attempt
<1>4. attempt' = [attempt EXCEPT ![k] = a] /\ UNCHANGED <<vars, run>>
  <2>1. attempt' = [attempt EXCEPT ![k].run = r,
                                   ![k].step = IF permitted THEN "permitted" ELSE "refused"]
    BY DEF PermitCall
  <2>2. QED
    BY <1>1, <2>1 DEF PermitCall
<1> HIDE DEF a
<1>5. AttemptsOK'
  BY <1>3, <1>4, AttemptChanges
<1>6. QED
  BY <1>4, <1>5 DEF BooksStep

LEMMA HoldSteps ==
  ASSUME AttemptsOK, NEW k \in CallKeys, NEW result \in HoldResults, HoldForCall(k, result)
  PROVE  BooksStep /\ AttemptsOK'
<1> DEFINE a == [attempt[k] EXCEPT !.step = IF result = "ok" THEN "sent" ELSE "refused"]
<1>1. attempt[k] \in Attempt /\ attempt[k].run \in ReservationIds
  BY DEF AttemptsOK, HoldForCall, InFlight
<1>2. a \in Attempt /\ a.run \in ReservationIds
  BY <1>1 DEF Attempt
<1>3. attempt' = [attempt EXCEPT ![k] = a] /\ UNCHANGED run
  BY DEF HoldForCall
<1>4. BooksStep
  BY <1>1, RunConstants DEF HoldForCall, BooksStep, Next, Reserve
<1> HIDE DEF a
<1>5. QED
  BY <1>2, <1>3, <1>4, AttemptChanges

LEMMA AnswerSteps ==
  ASSUME AttemptsOK, NEW k \in CallKeys, NEW outcome \in {"succeeded", "unknown", "failed"},
         NEW cost \in Costs \cup {0}, ProviderAnswers(k, outcome, cost)
  PROVE  BooksStep /\ AttemptsOK'
<1> DEFINE a1 == [attempt[k] EXCEPT !.step = "answered"]
           a2 == [a1 EXCEPT !.outcome = outcome]
           a == [a2 EXCEPT !.cost = cost]
<1>1. attempt[k] \in Attempt /\ attempt[k].run \in ReservationIds
      /\ attempt \in [CallKeys -> Attempt]
  BY DEF AttemptsOK, ProviderAnswers, InFlight
<1>2. a1 \in Attempt /\ a1.run \in ReservationIds
  BY <1>1 DEF Attempt
<1>3. a2 \in Attempt /\ a2.run \in ReservationIds
  BY <1>2 DEF Attempt
<1>4. a \in Attempt /\ a.run \in ReservationIds
  BY <1>3 DEF Attempt
<1>5. attempt' = [attempt EXCEPT ![k] = a] /\ UNCHANGED <<vars, run>>
  <2>1. attempt' = [attempt EXCEPT ![k].step = "answered", ![k].outcome = outcome,
                                   ![k].cost = cost]
    BY DEF ProviderAnswers
  <2>2. QED
    BY <1>1, <2>1 DEF ProviderAnswers
<1> HIDE DEF a
<1>6. AttemptsOK'
  BY <1>4, <1>5, AttemptChanges
<1>7. QED
  BY <1>5, <1>6 DEF BooksStep

LEMMA SettleSteps ==
  ASSUME AttemptsOK, NEW k \in CallKeys, SettleCall(k)
  PROVE  BooksStep /\ AttemptsOK'
<1> DEFINE a == [attempt[k] EXCEPT !.step = "settled"]
<1>1. attempt[k] \in Attempt /\ InFlight(k)
  BY DEF AttemptsOK, SettleCall, InFlight
<1>2. a \in Attempt /\ a.step = "settled"
  BY <1>1 DEF Attempt
<1>3. attempt' = [attempt EXCEPT ![k] = a] /\ UNCHANGED run
  BY DEF SettleCall, Uncovers
<1>4. BooksStep
  BY <1>1, SettlementSteps DEF SettleCall, BooksStep
<1> HIDE DEF a
<1>5. QED
  BY <1>2, <1>3, <1>4, AttemptChanges

LEMMA SettlementFailsSteps ==
  ASSUME AttemptsOK, NEW k \in CallKeys, NEW committed \in BOOLEAN,
         NEW outcome \in {"unknown", "failed"}, SettlementFails(k, committed, outcome)
  PROVE  BooksStep /\ AttemptsOK'
<1> DEFINE a1 == [attempt[k] EXCEPT !.outcome = outcome]
           a2 == [a1 EXCEPT !.cost = 0]
           caught == [a2 EXCEPT !.caught = TRUE]
           lost == [attempt[k] EXCEPT !.step = "lost"]
           a == IF attempt[k].outcome = "succeeded" /\ ~attempt[k].caught THEN caught ELSE lost
<1>1. /\ attempt[k] \in Attempt /\ InFlight(k) /\ attempt[k].run \in ReservationIds
      /\ attempt \in [CallKeys -> Attempt]
  BY DEF AttemptsOK, SettlementFails, InFlight
<1>2. a1 \in Attempt /\ a1.run \in ReservationIds
  BY <1>1 DEF Attempt
<1>3. a2 \in Attempt /\ a2.run \in ReservationIds
  BY <1>2 DEF Attempt
<1>4. caught \in Attempt /\ caught.run \in ReservationIds
  BY <1>3 DEF Attempt
<1>5. lost \in Attempt /\ lost.run \in ReservationIds
  BY <1>1 DEF Attempt
<1>6. attempt' = [attempt EXCEPT ![k] = a] /\ UNCHANGED run
  <2>1. attempt' = [attempt EXCEPT ![k] =
          IF @.outcome = "succeeded" /\ ~@.caught
          THEN [@ EXCEPT !.outcome = outcome, !.cost = 0, !.caught = TRUE]
          ELSE [@ EXCEPT !.step = "lost"]]
    BY DEF SettlementFails
  <2>2. QED
    BY <1>1, <2>1 DEF SettlementFails, Uncovers
<1>7. BooksStep
  BY <1>1, SettlementSteps DEF SettlementFails, BooksStep
<1> HIDE DEF caught, lost
<1>8. a \in Attempt /\ a.run \in ReservationIds
  BY <1>4, <1>5
<1> HIDE DEF a
<1>9. QED
  BY <1>6, <1>7, <1>8, AttemptChanges

LEMMA RecordSteps ==
  ASSUME AttemptsOK, NEW k \in CallKeys, NEW cost \in Incurred,
         \/ \E r \in ReservationIds : RecordIncurredUsage(k, r, cost)
         \/ \E u \in Users : RecordWithoutContext(k, u, cost)
  PROVE  BooksStep /\ AttemptsOK'
<1>1. /\ attempt[k] \in Attempt /\ attempt \in [CallKeys -> Attempt]
      /\ cost \in Amounts \cup {0} /\ 0 \in Amounts \cup {0}
  BY RunConstants DEF AttemptsOK
<1>2. ASSUME NEW r \in ReservationIds, RecordIncurredUsage(k, r, cost)
      PROVE  BooksStep /\ AttemptsOK'
  <2> DEFINE owner == IF Settled(k) THEN attempt[k].run ELSE r
             a1 == [attempt[k] EXCEPT !.step = "incurred"]
             a == [a1 EXCEPT !.run = owner]
  <2>1. a1 \in Attempt
    BY <1>1 DEF Attempt
  <2>2. owner \in ReservationIds \cup {"none"}
    BY <1>1 DEF Attempt
  <2>3. attempt' = [attempt EXCEPT ![k].step = "incurred", ![k].run = owner] /\ UNCHANGED run
    <3>1. attempt' = [attempt EXCEPT ![k].step = "incurred",
                                     ![k].run = IF Settled(k) THEN @ ELSE r] /\ UNCHANGED run
      BY <1>2, Zenon DEF RecordIncurredUsage
    <3>2. QED
      BY <1>1, <3>1
  <2> HIDE DEF owner
  <2>4. a \in Attempt /\ a.step = "incurred"
    BY <2>1, <2>2 DEF Attempt
  <2>5. attempt' = [attempt EXCEPT ![k] = a]
    BY <1>1, <2>3
  <2>6. BooksStep
    <3> DEFINE pending == FALSE
               none == 0
    <3>1. SettleDuplicate(k) \/ SettleAgainst(k, r, cost, pending, none)
      BY <1>2, Zenon DEF RecordIncurredUsage
    <3>2. pending \in BOOLEAN /\ none \in Amounts \cup {0}
      OBVIOUS
    <3> HIDE DEF pending, none
    <3>3. SettleProviderCall
      BY <1>1, <3>1, <3>2, Zenon DEF SettleProviderCall
    <3>4. QED
      BY <3>3, Zenon DEF BooksStep, Next
  <2> HIDE DEF a
  <2>7. QED
    BY <2>3, <2>4, <2>5, <2>6, AttemptChanges
<1>3. ASSUME NEW u \in Users, RecordWithoutContext(k, u, cost)
      PROVE  BooksStep /\ AttemptsOK'
  <2> DEFINE a == [attempt[k] EXCEPT !.step = "incurred"]
  <2>1. a \in Attempt /\ a.step = "incurred"
    BY <1>1 DEF Attempt
  <2>2. attempt' = [attempt EXCEPT ![k] = a] /\ UNCHANGED run
    BY <1>3, Zenon DEF RecordWithoutContext
  <2>3. BooksStep
    <3> DEFINE pending == FALSE
    <3>1. SettleDuplicate(k) \/ SettleUnreserved(k, u, cost, pending)
      BY <1>3, Zenon DEF RecordWithoutContext
    <3>2. pending \in BOOLEAN
      OBVIOUS
    <3> HIDE DEF pending
    <3>3. SettleProviderCall
      BY <1>1, <3>1, <3>2, Zenon DEF SettleProviderCall
    <3>4. QED
      BY <3>3, Zenon DEF BooksStep, Next
  <2> HIDE DEF a
  <2>4. QED
    BY <2>1, <2>2, <2>3, AttemptChanges
<1>4. QED
  BY <1>2, <1>3

(* A step of meterProviderCall.                                            *)
LEMMA MeterSteps ==
  ASSUME AttemptsOK, MeterProviderCall
  PROVE  BooksStep /\ AttemptsOK'
BY PermitSteps, HoldSteps, AnswerSteps, SettleSteps, SettlementFailsSteps, RecordSteps
   DEF MeterProviderCall

LEMMA TimeSteps ==
  ASSUME AttemptsOK, Time
  PROVE  BooksStep /\ AttemptsOK'
<1>1. UNCHANGED <<run, attempt>>
  BY DEF Time, HoldLapses, MonthEnds
<1>2. AttemptsOK'
  BY <1>1 DEF AttemptsOK, InFlight
<1>3. Next
  BY DEF Time, HoldLapses, MonthEnds, Next, Clock
<1>4. QED
  BY <1>2, <1>3 DEF BooksStep

(* A crash leaves the books alone and no call in flight.                   *)
LEMMA CrashSteps ==
  ASSUME AttemptsOK, Crash
  PROVE  BooksStep /\ AttemptsOK'
<1>1. /\ run' = [r \in ReservationIds |-> IF Live(r) THEN "abandoned" ELSE run[r]]
      /\ attempt' = [k \in CallKeys |->
                       IF InFlight(k) THEN [attempt[k] EXCEPT !.step = "lost"] ELSE attempt[k]]
      /\ UNCHANGED vars
  BY DEF Crash
<1>2. run' \in [ReservationIds -> RunStates]
  BY <1>1 DEF AttemptsOK, RunStates
<1>3. ASSUME NEW k \in CallKeys
      PROVE  attempt'[k] \in Attempt /\ ~InFlight(k)'
  <2>1. attempt[k] \in Attempt
    BY DEF AttemptsOK
  <2>2. CASE InFlight(k)
    <3>1. attempt'[k] = [attempt[k] EXCEPT !.step = "lost"]
      BY <1>1, <2>2
    <3>2. QED
      BY <2>1, <3>1 DEF Attempt, InFlight
  <2>3. CASE ~InFlight(k)
    BY <1>1, <2>1, <2>3 DEF InFlight
  <2>4. QED
    BY <2>2, <2>3
<1>4. attempt' \in [CallKeys -> Attempt]
  BY <1>1, <1>3
<1>5. QED
  BY <1>1, <1>2, <1>3, <1>4 DEF AttemptsOK, BooksStep

LEMMA RunInitOK == RunInit => AttemptsOK
BY DEF RunInit, AttemptsOK, Attempt, RunStates, InFlight

LEMMA RunNextOK == AttemptsOK /\ [RunNext]_runVars => BooksStep /\ AttemptsOK'
<1> SUFFICES ASSUME AttemptsOK, [RunNext]_runVars PROVE BooksStep /\ AttemptsOK'
  OBVIOUS
<1>1. CASE RunNext
  BY <1>1, DeskSteps, RunBillableSteps, MeterSteps, TimeSteps, CrashSteps DEF RunNext
<1>2. CASE UNCHANGED runVars
  BY <1>2 DEF runVars, BooksStep, AttemptsOK, InFlight
<1>3. QED
  BY <1>1, <1>2

(* What is cut or corrected by hand is a natural number.                   *)
LEMMA CutsAreNatural ==
  ASSUME IInv, NEW u \in Users
  PROVE  /\ \A a \in Allowances : Cut(u, a) \in Nat
         /\ \A d \in Adjustments : Most(d, -d) \in Nat
<1>1. ASSUME NEW a \in Allowances PROVE Cut(u, a) \in Nat
  <2> DEFINE f == [p \in PeriodIds |-> AtLeastZero(period[p].allowance - a)]
  <2>1. a \in Int /\ period \in [PeriodIds -> Period]
    BY CreditAssumption DEF IInv, BooksInv, BooksType, Books
  <2>2. \A p \in CurrentOf(period, u) : f[p] \in Nat
    BY <2>1 DEF CurrentOf, Period, AtLeastZero
  <2>3. IsFiniteSet(CurrentOf(period, u))
    BY CreditAssumption, FS_Subset DEF CurrentOf
  <2> HIDE DEF f
  <2>4. Total(f, CurrentOf(period, u)) \in Nat
    BY <2>2, <2>3, TotalType
  <2>5. QED
    BY <2>4 DEF Cut, f
<1>2. ASSUME NEW d \in Adjustments PROVE Most(d, -d) \in Nat
  <2>1. d \in Int
    BY CreditAssumption
  <2>2. QED
    BY <2>1 DEF Most
<1>3. QED
  BY <1>1, <1>2

(* Only the desk changes who is limited and what was done by hand.         *)
LEMMA HistoryOfCalls ==
  ASSUME [RunNext]_runVars, ~Desk, HistoryOK
  PROVE  UNCHANGED <<hand, limited, account>> /\ covered' \subseteq CallKeys
<1>1. CASE RunBillable
  BY <1>1 DEF RunBillable, StartRun, ReserveCredits, ReturnRun, ReleaseRun, ReleaseReservation,
              ReleaseFails, history, vars, HistoryOK
<1>2. CASE MeterProviderCall
  <2>1. PICK k \in CallKeys :
          \/ \E r \in ReservationIds, permitted \in BOOLEAN : PermitCall(k, r, permitted)
          \/ \E result \in HoldResults : HoldForCall(k, result)
          \/ \E outcome \in {"succeeded", "unknown", "failed"}, cost \in Costs \cup {0} :
               ProviderAnswers(k, outcome, cost)
          \/ SettleCall(k)
          \/ \E committed \in BOOLEAN, outcome \in {"unknown", "failed"} :
               SettlementFails(k, committed, outcome)
          \/ \E cost \in Incurred :
               \/ \E r \in ReservationIds : RecordIncurredUsage(k, r, cost)
               \/ \E u \in Users : RecordWithoutContext(k, u, cost)
    BY <1>2 DEF MeterProviderCall
  <2>2. CASE \E r \in ReservationIds, permitted \in BOOLEAN : PermitCall(k, r, permitted)
    BY <2>2 DEF PermitCall, vars, history, HistoryOK
  <2>3. CASE \E result \in HoldResults : HoldForCall(k, result)
    BY <2>3 DEF HoldForCall, EnsureReservationHold, HistoryOK
  <2>4. CASE \E outcome \in {"succeeded", "unknown", "failed"}, cost \in Costs \cup {0} :
               ProviderAnswers(k, outcome, cost)
    BY <2>4 DEF ProviderAnswers, vars, history, HistoryOK
  <2>5. \A r, cost, outcome, x : SettleAgainst(k, r, cost, outcome, x) => account' = account
    BY DEF SettleAgainst
  <2>6. SettleDuplicate(k) => account' = account
    BY DEF SettleDuplicate, vars
  <2>7. Settlement(k) => account' = account
    BY <2>5, <2>6 DEF Settlement
  <2>8. CASE SettleCall(k)
    BY <2>7, <2>8 DEF SettleCall, Uncovers, HistoryOK
  <2>9. CASE \E committed \in BOOLEAN, outcome \in {"unknown", "failed"} :
               SettlementFails(k, committed, outcome)
    BY <2>7, <2>9 DEF SettlementFails, Uncovers, HistoryOK, vars
  <2>10. CASE \E cost \in Incurred :
                \/ \E r \in ReservationIds : RecordIncurredUsage(k, r, cost)
                \/ \E u \in Users : RecordWithoutContext(k, u, cost)
    <3>1. PICK cost \in Incurred :
            \/ \E r \in ReservationIds : RecordIncurredUsage(k, r, cost)
            \/ \E u \in Users : RecordWithoutContext(k, u, cost)
      BY <2>10
    <3>2. CASE \E r \in ReservationIds : RecordIncurredUsage(k, r, cost)
      <4>1. PICK r \in ReservationIds : RecordIncurredUsage(k, r, cost)
        BY <3>2
      <4>2. UNCHANGED history /\ account' = account
        BY <2>5, <2>6, <4>1, Zenon DEF RecordIncurredUsage
      <4>3. QED
        BY <4>2 DEF history, HistoryOK
    <3>3. CASE \E u \in Users : RecordWithoutContext(k, u, cost)
      <4>1. PICK u \in Users : RecordWithoutContext(k, u, cost)
        BY <3>3
      <4>2. UNCHANGED history /\ account' = account
        BY <2>6, <4>1, Zenon DEF RecordWithoutContext, SettleUnreserved
      <4>3. QED
        BY <4>2 DEF history, HistoryOK
    <3>4. QED
      BY <3>1, <3>2, <3>3
  <2>11. QED
    BY <2>1, <2>2, <2>3, <2>4, <2>8, <2>9, <2>10
<1>3. CASE Time
  BY <1>3 DEF Time, HoldLapses, ReservationLapses, MonthEnds, ResetFallsDue, history, HistoryOK
<1>4. CASE Crash
  BY <1>4 DEF Crash, vars, history, HistoryOK
<1>5. CASE UNCHANGED runVars
  BY <1>5 DEF runVars, vars, history, HistoryOK
<1>6. QED
  BY <1>1, <1>2, <1>3, <1>4, <1>5 DEF RunNext

LEMMA HistoryNext ==
  ASSUME IInv, HistoryOK, [RunNext]_runVars
  PROVE  HistoryOK'
<1>1. CASE ~Desk
  <2>1. UNCHANGED <<hand, limited, account>> /\ covered' \subseteq CallKeys
    BY <1>1, HistoryOfCalls
  <2>2. QED
    BY <2>1 DEF HistoryOK, Unlimited
<1>2. ASSUME NEW u \in Users, NEW x \in Nat, ByHand(u, x), account' = account
      PROVE  HistoryOK'
  <2>1. hand' = [hand EXCEPT ![u] = @ + x] /\ UNCHANGED <<limited, covered>>
    BY <1>2 DEF ByHand
  <2>2. hand' \in [Users -> Nat]
    BY <2>1 DEF HistoryOK
  <2>3. QED
    BY <1>2, <2>1, <2>2 DEF HistoryOK, Unlimited
<1>3. ASSUME UNCHANGED <<history, account>> PROVE HistoryOK'
  BY <1>3 DEF history, HistoryOK, Unlimited
<1>4. CASE \E S \in SUBSET Lapsed(resv) : Sweep(S)
  BY <1>3, <1>4 DEF Sweep, SweepAbandonedReservations
<1>5. CASE \E r \in ReservationIds, billed \in BOOLEAN : Reconcile(r, billed)
  BY <1>3, <1>5 DEF Reconcile, ResolveReconciliation
<1>6. ASSUME NEW u \in Users,
             \/ \E a \in Allowances :
                  RegisterUser(u, a) \/ ChangeAllowance(u, a) \/ Grant(u, a)
             \/ \E d \in Adjustments : Correct(u, d)
             \/ \E c \in Cadences : ChangeCadence(u, c)
             \/ \E s \in Accounts : ChangeAccount(u, s)
      PROVE  HistoryOK'
  <2>1. CASE \E a \in Allowances : RegisterUser(u, a) \/ Grant(u, a)
    <3>1. PICK a \in Allowances : RegisterUser(u, a) \/ Grant(u, a)
      BY <2>1
    <3>2. CASE RegisterUser(u, a)
      <4>1. UNCHANGED history /\ account' = account
        BY <3>2, Zenon DEF RegisterUser, InitializeUserCredits
      <4>2. QED
        BY <1>3, <4>1
    <3>3. CASE Grant(u, a)
      <4>1. UNCHANGED history /\ account' = account
        BY <3>3, Zenon DEF Grant, AddCredits
      <4>2. QED
        BY <1>3, <4>1
    <3>4. QED
      BY <3>1, <3>2, <3>3
  <2>2. CASE \E c \in Cadences : ChangeCadence(u, c)
    <3>1. PICK c \in Cadences : ChangeCadence(u, c)
      BY <2>2
    <3>2. UNCHANGED history /\ account' = account
      BY <3>1, Zenon DEF ChangeCadence, SetResetCadence
    <3>3. QED
      BY <1>3, <3>2
  <2>3. ASSUME NEW a \in Allowances, ChangeAllowance(u, a) PROVE HistoryOK'
    <3>1. Cut(u, a) \in Nat /\ ByHand(u, Cut(u, a)) /\ account' = account
      BY <2>3, CutsAreNatural DEF ChangeAllowance, SetAllowance
    <3>2. QED
      BY <1>2, <3>1
  <2>4. ASSUME NEW d \in Adjustments, Correct(u, d) PROVE HistoryOK'
    <3>1. Most(d, -d) \in Nat /\ ByHand(u, Most(d, -d)) /\ account' = account
      BY <2>4, CutsAreNatural DEF Correct, RecordAdjustment
    <3>2. QED
      BY <1>2, <3>1
  <2>5. ASSUME NEW s \in Accounts, ChangeAccount(u, s) PROVE HistoryOK'
    <3>1. /\ account' = [account EXCEPT ![u] = s] /\ account \in [Users -> Accounts]
          /\ limited' = (IF s = "admin" THEN limited \ {u} ELSE limited)
          /\ UNCHANGED <<hand, covered>>
      BY <2>5 DEF ChangeAccount, UpdateUser, IInv
    <3>2. limited' \subseteq limited /\ (u \in limited' => s # "admin")
      BY <3>1
    <3>3. ASSUME NEW v \in limited' PROVE account'[v] # "admin"
      <4>1. v \in limited /\ account[v] # "admin" /\ v \in Users
        BY <3>2 DEF HistoryOK, Unlimited
      <4>2. QED
        BY <3>1, <3>2, <4>1
    <3>4. QED
      BY <3>1, <3>2, <3>3 DEF HistoryOK, Unlimited
  <2>6. QED
    BY <1>6, <2>1, <2>2, <2>3, <2>4, <2>5
<1>7. QED
  BY <1>1, <1>4, <1>5, <1>6 DEF Desk

LEMMA HistoryInit == RunInit => HistoryOK
BY DEF RunInit, HistoryOK, Unlimited

(* Runs, metered calls, crashes and late answers change the books only by  *)
(* the transactions of accountingService.ts, with arguments it takes: a    *)
(* behaviour of MeteredRun is a behaviour of CreditLedger.                 *)
THEOREM RunsUseTheBooks == RunSpec => Spec
<1>1. RunInit => Init
  BY DEF RunInit
<1>2. AttemptsOK /\ [RunNext]_runVars => AttemptsOK' /\ [Next]_vars
  BY RunNextOK DEF BooksStep
<1>3. QED
  BY <1>1, <1>2, RunInitOK, PTL DEF RunSpec, Spec

(* The books, the runs and the attempts keep their types; a call in flight *)
(* belongs to a run.                                                       *)
THEOREM RunTypeCorrect == RunSpec => []RunTypeOK
<1>1. AttemptsOK /\ HistoryOK /\ TypeOK => RunTypeOK
  BY DEF AttemptsOK, HistoryOK, RunTypeOK
<1>2. AttemptsOK /\ [RunNext]_runVars => AttemptsOK'
  BY RunNextOK
<1>3. RunSpec => []AttemptsOK
  BY <1>2, RunInitOK, PTL DEF RunSpec
<1>4. IInv /\ HistoryOK /\ [RunNext]_runVars => HistoryOK'
  BY HistoryNext
<1>5. RunSpec => []HistoryOK
  BY <1>4, HistoryInit, RunsUseTheBooks, InductiveInvariant, PTL DEF RunSpec
<1>6. QED
  BY <1>1, <1>3, <1>5, RunsUseTheBooks, TypeCorrect, PTL

(* Beneath any interleaving of runs, calls, sweeps and crashes the credit  *)
(* books keep what is proved of them: one current period a user, holds in  *)
(* it and backed by its reserved figure, every balance explained by the    *)
(* ledger and no idempotency key charged twice.                            *)
THEOREM BooksHoldUnderRuns ==
  RunSpec => []( /\ OneCurrentPeriod /\ HoldsAreCurrent /\ HoldsAreBacked
                 /\ LedgerExplainsBalances /\ ChargedOnce )
<1>1. QED
  BY RunsUseTheBooks, CurrentPeriodUnique, HoldsCurrent, HoldsBacked, BalancesExplained,
     KeysChargedOnce, PTL

(* And so, under any interleaving of runs, they are what CreditPurse       *)
(* promises each user: one purse of allowance, spent and held credits.     *)
THEOREM RunsImplementPurse == RunSpec => ImplementsPurse
<1>1. QED
  BY RunsUseTheBooks, PurseImplemented, PTL
=============================================================================
