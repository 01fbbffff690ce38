---------------------------- MODULE CreditPurse ----------------------------
(***************************************************************************)
(* What the credit books promise, without periods, ledger rows or stored   *)
(* reserved amounts: every user has one purse, holds are taken from what   *)
(* is free in it, and a new month forgets what was spent and nothing else. *)
(* CreditLedger implements this.                                           *)
(***************************************************************************)
EXTENDS Totals

CONSTANTS Users, ReservationIds, Accounts

VARIABLES
  account,    \* as in CreditLedger
  allowance,  \* what the user may spend this month
  spent,      \* what the user has spent this month
  hold        \* credits set aside, each for one reservation

vars == <<account, allowance, spent, hold>>

NoHold == [owner |-> "nobody", state |-> "none", amount |-> 0]

Init ==
  /\ account \in [Users -> Accounts \ {"inactive"}]
  /\ allowance = [u \in Users |-> 0]
  /\ spent = [u \in Users |-> 0]
  /\ hold = [r \in ReservationIds |-> NoHold]

Amount(h) == [r \in ReservationIds |-> h[r].amount]
HoldsOf(h, u) == {r \in ReservationIds : h[r].state \in {"open", "parked"} /\ h[r].owner = u}

(* What is free when u has spent s[u] and holds h are set aside.           *)
Free(s, h, u) == allowance[u] - s[u] - Total(Amount(h), HoldsOf(h, u))

(* A step may begin by noticing that a new month has begun for u ...       *)
Months(u) == {spent, [spent EXCEPT ![u] = 0]}

(* ... and by ending holds that were abandoned.                            *)
Ended(S) ==
  [r \in ReservationIds |->
     IF r \in S THEN [owner |-> hold[r].owner, state |-> "over", amount |-> 0] ELSE hold[r]]
Abandoned == {r \in ReservationIds : hold[r].state = "open" /\ hold'[r].state = "over"}

Limited(u) == account[u] # "admin"

-----------------------------------------------------------------------------
ChangeAccount(u) ==
  /\ account' = [account EXCEPT ![u] = account'[u]] /\ account'[u] \in Accounts
  /\ UNCHANGED <<allowance, spent, hold>>

(* An administrator changes the allowance.                                 *)
Fund(u) ==
  /\ allowance' = [allowance EXCEPT ![u] = allowance'[u]] /\ allowance'[u] \in Int
  /\ spent' \in Months(u)
  /\ UNCHANGED <<account, hold>>

(* A charge that no hold covers, or an administrator's correction.         *)
Book(u) ==
  /\ \E s \in Months(u) : spent' = [s EXCEPT ![u] = spent'[u]]
  /\ spent'[u] \in Int
  /\ UNCHANGED <<account, allowance, hold>>

(* Abandoned holds end; a refused reservation still notices the month.     *)
Tidy ==
  /\ hold' = Ended(Abandoned)
  /\ spent' = spent \/ \E u \in Users : spent' \in Months(u)
  /\ UNCHANGED <<account, allowance>>

(* A new hold is taken from what is free once the abandoned have ended.    *)
Reserve(r) ==
  LET h == Ended(Abandoned)  new == hold'[r]  u == new.owner IN
  /\ hold[r].state = "none"
  /\ u \in Users /\ account[u] # "inactive"
  /\ new.state = "open" /\ new.amount \in Nat
  /\ hold' = [h EXCEPT ![r] = new]
  /\ spent' \in Months(u)
  /\ Limited(u) => new.amount <= Free(spent', h, u)
  /\ UNCHANGED <<account, allowance>>

(* So is what an open hold grows by.                                       *)
Grow(r) ==
  LET u == hold[r].owner  more == hold'[r].amount - hold[r].amount IN
  /\ hold[r].state = "open" /\ more \in Nat
  /\ hold' = [hold EXCEPT ![r].amount = @ + more]
  /\ Limited(u) => more <= Free(spent, hold, u)
  /\ UNCHANGED <<account, allowance, spent>>

(* A charge against an open hold, which gives some of itself back.         *)
Spend(r) ==
  LET u == hold[r].owner IN
  /\ hold[r].state = "open"
  /\ hold' = [hold EXCEPT ![r].amount = hold'[r].amount]
  /\ hold'[r].amount \in 0..hold[r].amount
  /\ spent' = [spent EXCEPT ![u] = spent'[u]] /\ spent'[u] >= spent[u]
  /\ UNCHANGED <<account, allowance>>

(* An open hold ends, or waits for its outcome; only what is then found    *)
(* out, at most the hold, is charged.                                      *)
End(r) ==
  /\ hold[r].state = "open"
  /\ hold' = Ended({r})
  /\ UNCHANGED <<account, allowance, spent>>

Park(r) ==
  /\ hold[r].state = "open"
  /\ hold' = [hold EXCEPT ![r].state = "parked"]
  /\ UNCHANGED <<account, allowance, spent>>

Resolve(r) ==
  LET u == hold[r].owner IN
  /\ hold[r].state = "parked"
  /\ hold' = Ended({r})
  /\ spent' = [spent EXCEPT ![u] = spent'[u]]
  /\ spent'[u] - spent[u] \in 0..hold[r].amount
  /\ UNCHANGED <<account, allowance>>

Next ==
  \/ \E u \in Users : ChangeAccount(u) \/ Fund(u) \/ Book(u)
  \/ Tidy
  \/ \E r \in ReservationIds :
       Reserve(r) \/ Grow(r) \/ Spend(r) \/ End(r) \/ Park(r) \/ Resolve(r)

Spec == Init /\ [][Next]_vars
=============================================================================
