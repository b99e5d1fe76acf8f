------------------------------- MODULE Budget -------------------------------
(***************************************************************************)
(* One counter of hell_runtime::budget::Budget.  Any number of evaluators  *)
(* charge it (for good) or acquire a permit of it (until the permit is     *)
(* dropped), each through the compare-exchange loop of `update`, which can *)
(* fail because somebody else moved the counter or for no reason at all.   *)
(***************************************************************************)
EXTENDS Naturals

CONSTANTS
  Chargers,     \* the threads that share the counter
  Limits,       \* the configured limits to consider
  Unlimited,    \* Limit::Unlimited
  MaxCount,     \* the largest value the counter's type holds
  Amounts       \* what one call may charge

ASSUME BudgetAssumption ==
  /\ MaxCount \in Nat
  /\ Unlimited \notin Nat
  /\ Limits \subseteq (0..MaxCount) \cup {Unlimited}
  /\ Amounts \subseteq Nat

VARIABLES
  limit,      \* the limit of the policy, which never changes
  counter,    \* the AtomicU64
  charger,    \* what each thread is doing
  charged,    \* what the successful charges add up to
  permits     \* how many permits are alive

budgetVars == <<limit, counter, charger, charged, permits>>

Resting == [at |-> "rest", current |-> 0, amount |-> 0, permit |-> FALSE]

BudgetInit ==
  /\ limit \in Limits
  /\ counter = 0 /\ charged = 0 /\ permits = 0
  /\ charger = [t \in Chargers |-> Resting]

(* The limit as a number: an unlimited counter still may not overflow.     *)
Ceiling == IF limit = Unlimited THEN MaxCount ELSE limit

(* charge(amount), acquire(1): the first load of the counter.              *)
Begin(t, amount, permit) ==
  /\ charger[t].at = "rest"
  /\ permit => amount = 1
  /\ charger' = [charger EXCEPT ![t] =
                   [at |-> "try", current |-> counter, amount |-> amount, permit |-> permit]]
  /\ UNCHANGED <<limit, counter, charged, permits>>

Reached(t) == charger[t].current + charger[t].amount

(* checked_add overflows, or the sum passes the limit: nothing is charged. *)
Refuse(t) ==
  /\ charger[t].at = "try"
  /\ Reached(t) > Ceiling
  /\ charger' = [charger EXCEPT ![t] = Resting]
  /\ UNCHANGED <<limit, counter, charged, permits>>

(* Mutant of Exchange: the sum is stored without comparing.                *)
StoreBlindly(t) ==
  /\ charger[t].at = "try"
  /\ Reached(t) <= Ceiling
  /\ counter' = Reached(t)
  /\ IF charger[t].permit
       THEN permits' = permits + 1 /\ UNCHANGED charged
       ELSE charged' = charged + charger[t].amount /\ UNCHANGED permits
  /\ charger' = [charger EXCEPT ![t] = Resting]
  /\ UNCHANGED limit

(* The exchange succeeds: the counter still is what the thread has read.   *)
Exchange(t) ==
  /\ charger[t].at = "try"
  /\ Reached(t) <= Ceiling
  /\ counter = charger[t].current
  /\ counter' = Reached(t)
  /\ IF charger[t].permit
       THEN permits' = permits + 1 /\ UNCHANGED charged
       ELSE charged' = charged + charger[t].amount /\ UNCHANGED permits
  /\ charger' = [charger EXCEPT ![t] = Resting]
  /\ UNCHANGED limit

(* The exchange fails, perhaps spuriously: try again from what it saw.     *)
Retry(t) ==
  /\ charger[t].at = "try"
  /\ Reached(t) <= Ceiling
  /\ charger' = [charger EXCEPT ![t].current = counter]
  /\ UNCHANGED <<limit, counter, charged, permits>>

(* Mutant of DropPermit: the counter is decremented twice.                 *)
DropPermitTwice ==
  /\ permits > 0
  /\ permits' = permits - 1
  /\ counter' = counter - 2
  /\ UNCHANGED <<limit, charger, charged>>

(* A permit is dropped, by whichever thread owns it by then.               *)
DropPermit ==
  /\ permits > 0
  /\ permits' = permits - 1
  /\ counter' = counter - 1
  /\ UNCHANGED <<limit, charger, charged>>

BudgetStep(t) ==
  \/ \E amount \in Amounts, permit \in BOOLEAN : Begin(t, amount, permit)
  \/ Refuse(t) \/ Exchange(t) \/ Retry(t)

BudgetNext == (\E t \in Chargers : BudgetStep(t)) \/ DropPermit

BudgetSpec == BudgetInit /\ [][BudgetNext]_budgetVars

----------------------------------------------------------------------------

BudgetTypeOK ==
  /\ limit \in Limits
  /\ counter \in Nat /\ charged \in Nat /\ permits \in Nat
  /\ charger \in [Chargers -> [at : {"rest", "try"}, current : Nat,
                               amount : Nat, permit : BOOLEAN]]

(* However the loops of `update` interleave, the counter never passes the  *)
(* configured limit nor wraps round, and it is exactly what was charged    *)
(* plus one for every permit that is alive: no charge is lost, and a       *)
(* dropped permit makes room again, once.                                  *)
BudgetExact ==
  /\ counter <= Ceiling
  /\ counter = charged + permits

(* What `update` promises seen from outside: the counter moves by one      *)
(* whole charge that fits, or by one permit dropped, at a time.            *)
BudgetAtomic ==
  [][ \/ counter' = counter
      \/ counter' <= Ceiling /\ \E a \in Amounts \cup {1} : counter' = counter + a
      \/ permits > 0 /\ counter' = counter - 1 ]_budgetVars
=============================================================================
