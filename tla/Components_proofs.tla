-------------------------- MODULE Components_proofs --------------------------
(***************************************************************************)
(* Theorems about the components that stand alone: no two of them share a  *)
(* variable, so that every part is about the specification of one.         *)
(*                                                                         *)
(* First what a program takes from its host, each for any number of        *)
(* threads and any values of its bounds: the counters of the budget, the   *)
(* cancellation of an HTTP request, file handles, temporary files and      *)
(* directories, child processes.  Then two tools around the language: the  *)
(* compiler's sweep finds exactly the cyclic declarations, whatever the    *)
(* program and whatever the order of the sweep; and the report of a        *)
(* differential batch is a function of its cases, for any number of cases  *)
(* and workers and any interleaving of them.                               *)
(***************************************************************************)
EXTENDS Budget, HostCancellation, FileHandle, TempResource, ChildProcess,
        DependencySweep, DifferentialBatch,
        SequenceTheorems, FiniteSetTheorems, TLAPS

----------------------------------------------------------------------------
(* The counters of the budget.                                             *)

(* The invariant is inductive with the types: a thread that has read an    *)
(* old value of the counter can only exchange it when it is back, and one  *)
(* that acquires a permit adds one.                                        *)
PermitsOfOne == \A t \in Chargers : charger[t].permit => charger[t].amount = 1

AmountsAsked == \A t \in Chargers : charger[t].at = "try" => charger[t].amount \in Amounts

BudgetInvariant == BudgetTypeOK /\ BudgetExact /\ PermitsOfOne /\ AmountsAsked

(* The limit of a counter, as a number.                                    *)
LEMMA CeilingNat == ASSUME limit \in Limits PROVE Ceiling \in Nat
  BY BudgetAssumption DEF Ceiling

(* Budget::new: nothing is charged and no permit is alive.                 *)
LEMMA BudgetInitially == BudgetInit => BudgetInvariant
<1> SUFFICES ASSUME BudgetInit PROVE BudgetInvariant
  OBVIOUS
<1>1. limit \in Limits /\ Ceiling \in Nat
  BY CeilingNat DEF BudgetInit
<1>2. BudgetTypeOK
  BY <1>1 DEF BudgetInit, BudgetTypeOK, Resting
<1>3. BudgetExact
  BY <1>1 DEF BudgetInit, BudgetExact
<1>4. PermitsOfOne
  BY DEF BudgetInit, PermitsOfOne, Resting
<1>5. AmountsAsked
  BY DEF BudgetInit, AmountsAsked, Resting
<1> QED
  BY <1>2, <1>3, <1>4, <1>5 DEF BudgetInvariant

(* One step of any thread, or a permit dropped by its owner.               *)
LEMMA BudgetStepwise == BudgetInvariant /\ [BudgetNext]_budgetVars => BudgetInvariant'
<1> SUFFICES ASSUME BudgetTypeOK, BudgetExact, PermitsOfOne, AmountsAsked,
                    [BudgetNext]_budgetVars
             PROVE  BudgetInvariant'
  BY DEF BudgetInvariant
<1>1. limit \in Limits /\ Ceiling \in Nat
  BY CeilingNat DEF BudgetTypeOK
<1>2. ASSUME NEW t \in Chargers, NEW amount \in Amounts, NEW kept \in BOOLEAN,
             Begin(t, amount, kept)
      PROVE  BudgetInvariant'
  <2>1. amount \in Nat
    BY BudgetAssumption
  <2>2. [at |-> "try", current |-> counter, amount |-> amount, permit |-> kept]
          \in [at : {"rest", "try"}, current : Nat, amount : Nat, permit : BOOLEAN]
    BY <2>1 DEF BudgetTypeOK
  <2>3. BudgetTypeOK'
    BY <1>2, <2>2 DEF BudgetTypeOK, Begin
  <2>4. BudgetExact'
    BY <1>2 DEF BudgetExact, Begin, Ceiling
  <2>5. PermitsOfOne' /\ AmountsAsked'
    BY <1>2, <2>1 DEF PermitsOfOne, AmountsAsked, Begin, BudgetTypeOK
  <2> QED
    BY <2>3, <2>4, <2>5 DEF BudgetInvariant
<1>3. ASSUME NEW t \in Chargers, Refuse(t)
      PROVE  BudgetInvariant'
  <2>1. Resting \in [at : {"rest", "try"}, current : Nat, amount : Nat, permit : BOOLEAN]
    BY DEF Resting
  <2>2. BudgetTypeOK'
    BY <1>3, <2>1 DEF BudgetTypeOK, Refuse
  <2>3. BudgetExact'
    BY <1>3 DEF BudgetExact, Refuse, Ceiling
  <2>4. PermitsOfOne' /\ AmountsAsked'
    BY <1>3 DEF PermitsOfOne, AmountsAsked, Refuse, Resting, BudgetTypeOK
  <2> QED
    BY <2>2, <2>3, <2>4 DEF BudgetInvariant
<1>4. ASSUME NEW t \in Chargers, Exchange(t)
      PROVE  BudgetInvariant'
  <2>1. /\ charger[t].current \in Nat /\ charger[t].amount \in Nat
        /\ charger[t].permit \in BOOLEAN
    BY DEF BudgetTypeOK
  <2>2. Resting \in [at : {"rest", "try"}, current : Nat, amount : Nat, permit : BOOLEAN]
    BY DEF Resting
  <2>3. BudgetTypeOK'
    BY <1>4, <2>1, <2>2 DEF BudgetTypeOK, Exchange, Reached
  <2>4. Ceiling' = Ceiling /\ counter' <= Ceiling
    BY <1>4 DEF Exchange, Ceiling
  <2>5. counter' = charged' + permits'
    <3>1. CASE charger[t].permit
      <4>1. charger[t].amount = 1
        BY <3>1 DEF PermitsOfOne
      <4>2. counter' = counter + 1 /\ permits' = permits + 1 /\ charged' = charged
        BY <3>1, <4>1, <1>4 DEF Exchange, Reached
      <4> QED
        BY <4>2 DEF BudgetExact, BudgetTypeOK
    <3>2. CASE ~charger[t].permit
      <4>1. /\ counter' = counter + charger[t].amount
            /\ charged' = charged + charger[t].amount /\ permits' = permits
        BY <3>2, <1>4 DEF Exchange, Reached
      <4> QED
        BY <4>1, <2>1 DEF BudgetExact, BudgetTypeOK
    <3> QED
      BY <3>1, <3>2
  <2>6. PermitsOfOne' /\ AmountsAsked'
    BY <1>4 DEF PermitsOfOne, AmountsAsked, Exchange, Resting, BudgetTypeOK
  <2> QED
    BY <2>3, <2>4, <2>5, <2>6 DEF BudgetInvariant, BudgetExact
<1>5. ASSUME NEW t \in Chargers, Retry(t)
      PROVE  BudgetInvariant'
  <2>1. BudgetTypeOK'
    BY <1>5 DEF BudgetTypeOK, Retry
  <2>2. BudgetExact'
    BY <1>5 DEF BudgetExact, Retry, Ceiling
  <2>3. PermitsOfOne' /\ AmountsAsked'
    BY <1>5 DEF PermitsOfOne, AmountsAsked, Retry, BudgetTypeOK
  <2> QED
    BY <2>1, <2>2, <2>3 DEF BudgetInvariant
<1>6. ASSUME DropPermit
      PROVE  BudgetInvariant'
  <2>1. counter - 1 \in Nat /\ permits - 1 \in Nat
    BY <1>6 DEF DropPermit, BudgetTypeOK, BudgetExact
  <2>2. BudgetTypeOK'
    BY <1>6, <2>1 DEF BudgetTypeOK, DropPermit
  <2>3. BudgetExact'
    BY <1>6, <1>1, <2>1 DEF BudgetExact, DropPermit, Ceiling, BudgetTypeOK
  <2>4. PermitsOfOne' /\ AmountsAsked'
    BY <1>6 DEF PermitsOfOne, AmountsAsked, DropPermit
  <2> QED
    BY <2>2, <2>3, <2>4 DEF BudgetInvariant
<1>7. ASSUME UNCHANGED budgetVars
      PROVE  BudgetInvariant'
  BY <1>7 DEF budgetVars, BudgetInvariant, BudgetTypeOK, BudgetExact, PermitsOfOne, AmountsAsked,
                Ceiling
<1> QED
  BY <1>2, <1>3, <1>4, <1>5, <1>6, <1>7 DEF BudgetNext, BudgetStep

(* The counter never passes its limit nor wraps round, and equals what was *)
(* charged plus the permits alive, however many threads run `update`.      *)
THEOREM BudgetIsExact == BudgetSpec => []BudgetExact
<1>1. BudgetInvariant => BudgetExact
  BY DEF BudgetInvariant
<1> QED
  BY <1>1, BudgetInitially, BudgetStepwise, PTL DEF BudgetSpec

(* Seen from outside, `update` moves the counter by one whole charge that  *)
(* fits or by one dropped permit: nothing in between is ever visible.      *)
THEOREM BudgetIsAtomic == BudgetSpec => BudgetAtomic
<1> DEFINE Move == \/ counter' = counter
                   \/ /\ counter' <= Ceiling
                      /\ \E a \in Amounts \cup {1} : counter' = counter + a
                   \/ permits > 0 /\ counter' = counter - 1
<1>1. ASSUME BudgetInvariant, BudgetNext
      PROVE  Move
  <2>1. ASSUME NEW t \in Chargers, Exchange(t)
        PROVE  Move
    <3>1. counter' <= Ceiling /\ counter' = counter + charger[t].amount
      BY <2>1 DEF Exchange, Reached
    <3>2. charger[t].amount \in Amounts \cup {1}
      BY <1>1, <2>1 DEF BudgetInvariant, AmountsAsked, Exchange
    <3> QED
      BY <3>1, <3>2
  <2>2. ASSUME NEW t \in Chargers,
               (\E amount \in Amounts, kept \in BOOLEAN : Begin(t, amount, kept))
                 \/ Refuse(t) \/ Retry(t)
        PROVE  counter' = counter
    BY <2>2 DEF Begin, Refuse, Retry
  <2>3. CASE DropPermit
    BY <2>3 DEF DropPermit
  <2> QED
    BY <1>1, <2>1, <2>2, <2>3 DEF BudgetNext, BudgetStep
<1>2. BudgetInvariant /\ [BudgetNext]_budgetVars => [Move]_budgetVars
  BY <1>1
<1> QED
  BY <1>2, BudgetInitially, BudgetStepwise, PTL DEF BudgetSpec, BudgetAtomic

----------------------------------------------------------------------------
(* The cancellation of a request.                                          *)

(* Where a callback is, by how far its registration has come.              *)
Placed ==
  \A r \in Registrars :
    /\ registerAt[r] # "returned" => ran[r] = 0 /\ r \notin callbacks /\ r \notin batch
    /\ r \in callbacks => ran[r] = 0 /\ r \notin batch
    /\ r \in batch => ran[r] = 0
    /\ registerAt[r] = "returned" => r \in callbacks \/ r \in batch \/ ran[r] = 1
    /\ ran[r] \in {0, 1}

(* Who looks and pushes holds the mutex; who is late has seen the flag.    *)
Locked ==
  \A r \in Registrars :
    /\ registerAt[r] \in {"look", "push"} => holder = r
    /\ registerAt[r] = "late" \/ ran[r] = 1 => cancelled

(* One canceller at most has work to do, none before the flag is set; and  *)
(* a callback that is or will be in a list has a canceller to come for it. *)
Winner ==
  /\ ~cancelled => batch = {} /\ \A k \in Cancellers : cancelAt[k] = "start"
  /\ \A k, l \in Cancellers :
       cancelAt[k] \in {"take", "call"} /\ cancelAt[l] \in {"take", "call"} => k = l
  /\ batch # {} => \E k \in Cancellers : cancelAt[k] = "call"
  /\ \A r \in Registrars :
       cancelled /\ (r \in callbacks \/ registerAt[r] = "push")
         => \E k \in Cancellers : cancelAt[k] = "take"

CancellationInvariant == CancellationTypeOK /\ Placed /\ Locked /\ Winner

(* Cancellation::new: nothing is registered or called.                     *)
LEMMA CancellationInitially == CancellationInit => CancellationInvariant
<1> SUFFICES ASSUME CancellationInit PROVE CancellationInvariant
  OBVIOUS
<1> USE DEF CancellationInit
<1>1. CancellationTypeOK
  BY DEF CancellationTypeOK
<1>2. \A r \in Registrars : registerAt[r] = "start" /\ ran[r] = 0
  OBVIOUS
<1>3. Placed
  BY <1>2 DEF Placed
<1>4. Locked
  BY <1>2 DEF Locked
<1>5. \A k \in Cancellers : cancelAt[k] = "start"
  OBVIOUS
<1>6. Winner
  BY <1>5 DEF Winner
<1> QED
  BY <1>1, <1>3, <1>4, <1>6 DEF CancellationInvariant

(* The swap of the flag makes its first caller the only one with work.     *)
LEMMA SwapKeeps ==
  ASSUME CancellationInvariant, NEW k \in Cancellers, Swap(k)
  PROVE  CancellationInvariant'
<1> USE DEF CancellationInvariant
<1>1. CancellationTypeOK'
  BY DEF CancellationTypeOK, Swap
<1>2. Placed' /\ Locked'
  BY DEF Placed, Locked, Swap
<1>3. Winner'
  <2>1. CASE cancelled
    <3>1. cancelAt' = [cancelAt EXCEPT ![k] = "returned"] /\ cancelAt[k] = "start"
      BY <2>1 DEF Swap
    <3> QED
      BY <2>1, <3>1 DEF Winner, Swap, CancellationTypeOK
  <2>2. CASE ~cancelled
    <3>1. cancelAt' = [cancelAt EXCEPT ![k] = "take"]
      BY <2>2 DEF Swap
    <3>2. \A l \in Cancellers : cancelAt[l] = "start"
      BY <2>2 DEF Winner
    <3>3. cancelAt'[k] = "take" /\ \A l \in Cancellers \ {k} : cancelAt'[l] = "start"
      BY <3>1, <3>2 DEF CancellationTypeOK
    <3>4. batch' = {} /\ cancelled'
      BY <2>2 DEF Winner, Swap
    <3> QED
      BY <3>3, <3>4 DEF Winner
  <2> QED
    BY <2>1, <2>2
<1> QED
  BY <1>1, <1>2, <1>3

(* The list is taken when nobody holds the mutex: nothing is half pushed.  *)
LEMMA TakeKeeps ==
  ASSUME CancellationInvariant, NEW k \in Cancellers, TakeCallbacks(k)
  PROVE  CancellationInvariant'
<1> USE DEF CancellationInvariant
<1>1. CancellationTypeOK'
  BY DEF CancellationTypeOK, TakeCallbacks
<1>2. batch = {}
  BY DEF Winner, TakeCallbacks
<1>3. Placed'
  BY <1>2 DEF Placed, TakeCallbacks
<1>4. Locked'
  BY DEF Locked, TakeCallbacks
<1>5. \A r \in Registrars : registerAt[r] # "push"
  BY CancellationAssumption DEF Locked, TakeCallbacks
<1>6. cancelAt'[k] = "call" /\ \A l \in Cancellers \ {k} : cancelAt'[l] = cancelAt[l]
  BY DEF TakeCallbacks, CancellationTypeOK
<1>7. cancelled /\ cancelled'
  BY DEF Winner, TakeCallbacks
<1>8. callbacks' = {} /\ registerAt' = registerAt /\ cancelAt[k] = "take"
  BY DEF TakeCallbacks
<1>9. Winner'
  BY <1>5, <1>6, <1>7, <1>8 DEF Winner
<1> QED
  BY <1>1, <1>3, <1>4, <1>9

(* A callback leaves the batch as it is called.                            *)
LEMMA CallKeeps ==
  ASSUME CancellationInvariant, NEW k \in Cancellers, NEW r \in Registrars, Call(k, r)
  PROVE  CancellationInvariant'
<1> USE DEF CancellationInvariant
<1>0. ran[r] = 0 /\ ran' = [ran EXCEPT ![r] = ran[r] + 1]
  BY DEF Placed, Call
<1>1. ran[r] = 0 /\ ran' = [ran EXCEPT ![r] = 1]
  <2>1. ran[r] + 1 = 1
    BY <1>0
  <2> QED
    BY ONLY <1>0, <2>1
<1>2. CancellationTypeOK'
  BY <1>1 DEF CancellationTypeOK, Call
<1>3. r \notin callbacks /\ registerAt[r] = "returned"
  BY DEF Placed, Call
<1>4. Placed'
  BY <1>1, <1>3 DEF Placed, Call, CancellationTypeOK
<1>5. cancelled
  BY DEF Winner, Call
<1>6. Locked' /\ Winner'
  BY <1>1, <1>5 DEF Locked, Winner, Call, CancellationTypeOK
<1> QED
  BY <1>2, <1>4, <1>6

(* cancel returns, and on_cancel takes the mutex.                          *)
LEMMA ReturnKeeps ==
  ASSUME CancellationInvariant, NEW k \in Cancellers, CancelReturns(k)
  PROVE  CancellationInvariant'
<1> USE DEF CancellationInvariant
<1>1. CancellationTypeOK' /\ Placed' /\ Locked'
  BY DEF CancellationTypeOK, Placed, Locked, CancelReturns
<1>2. cancelAt'[k] = "returned" /\ \A l \in Cancellers \ {k} : cancelAt'[l] = cancelAt[l]
  BY DEF CancelReturns, CancellationTypeOK
<1>3. cancelAt[k] = "call" /\ batch' = {} /\ callbacks' = callbacks
        /\ cancelled' = cancelled /\ registerAt' = registerAt
  BY DEF CancelReturns
<1>4. cancelled
  BY <1>3 DEF Winner
<1>5. Winner'
  BY <1>2, <1>3, <1>4 DEF Winner
<1> QED
  BY <1>1, <1>5

LEMMA LockKeeps ==
  ASSUME CancellationInvariant, NEW r \in Registrars, LockCallbacks(r)
  PROVE  CancellationInvariant'
<1> USE DEF CancellationInvariant
<1>1. CancellationTypeOK' /\ Placed'
  BY DEF CancellationTypeOK, Placed, LockCallbacks
<1>2. Locked'
  BY CancellationAssumption DEF Locked, LockCallbacks, CancellationTypeOK
<1>3. Winner'
  BY DEF Winner, LockCallbacks, CancellationTypeOK
<1> QED
  BY <1>1, <1>2, <1>3

(* The look at the flag, under the mutex: not cancelled yet, so a later    *)
(* canceller waits for the mutex and finds what is about to be pushed.     *)
LEMMA LookKeeps ==
  ASSUME CancellationInvariant, NEW r \in Registrars, Look(r)
  PROVE  CancellationInvariant'
<1> USE DEF CancellationInvariant
<1>0. holder = r /\ \A q \in Registrars \ {r} : registerAt[q] \notin {"look", "push"}
  BY DEF Locked, Look
<1>1. CancellationTypeOK'
  BY DEF CancellationTypeOK, Look
<1>2. Placed'
  BY DEF Placed, Look, CancellationTypeOK
<1>3. \A q \in Registrars \ {r} : registerAt'[q] = registerAt[q]
  BY DEF Look, CancellationTypeOK
<1>4. registerAt'[r] = IF cancelled THEN "late" ELSE "push"
  BY DEF Look, CancellationTypeOK
<1>5. holder' = IF cancelled THEN Nobody ELSE holder
  BY DEF Look
<1>6. UNCHANGED <<cancelled, callbacks, cancelAt, batch, ran>>
  BY DEF Look
<1>7. Locked'
  BY <1>0, <1>3, <1>4, <1>5, <1>6 DEF Locked
<1>8. Winner'
  BY <1>3, <1>4, <1>6 DEF Winner
<1> QED
  BY <1>1, <1>2, <1>7, <1>8

LEMMA PushKeeps ==
  ASSUME CancellationInvariant, NEW r \in Registrars, Push(r)
  PROVE  CancellationInvariant'
<1> USE DEF CancellationInvariant
<1>0. holder = r /\ \A q \in Registrars \ {r} : registerAt[q] \notin {"look", "push"}
  BY DEF Locked, Push
<1>1. CancellationTypeOK'
  BY DEF CancellationTypeOK, Push
<1>2. registerAt'[r] = "returned" /\ \A q \in Registrars \ {r} : registerAt'[q] = registerAt[q]
  BY DEF Push, CancellationTypeOK
<1>3. registerAt[r] = "push" /\ callbacks' = callbacks \cup {r}
  BY DEF Push
<1>4. UNCHANGED <<cancelled, cancelAt, batch, ran>>
  BY DEF Push
<1>5. Placed'
  BY <1>2, <1>3, <1>4 DEF Placed
<1>6. Locked'
  BY <1>0, <1>2, <1>4 DEF Locked
<1>7. Winner'
  BY <1>2, <1>3, <1>4 DEF Winner
<1> QED
  BY <1>1, <1>5, <1>6, <1>7

LEMMA LateKeeps ==
  ASSUME CancellationInvariant, NEW r \in Registrars, CallLate(r)
  PROVE  CancellationInvariant'
<1> USE DEF CancellationInvariant
<1>0. ran[r] = 0 /\ ran' = [ran EXCEPT ![r] = ran[r] + 1]
  BY DEF Placed, CallLate
<1>1. ran[r] = 0 /\ ran' = [ran EXCEPT ![r] = 1]
  <2>1. ran[r] + 1 = 1
    BY <1>0
  <2> QED
    BY ONLY <1>0, <2>1
<1>2. registerAt[r] = "late" /\ registerAt'[r] = "returned"
        /\ \A q \in Registrars \ {r} : registerAt'[q] = registerAt[q]
  BY DEF CallLate, CancellationTypeOK
<1>3. CancellationTypeOK'
  BY <1>1 DEF CancellationTypeOK, CallLate
<1>4. r \notin callbacks /\ r \notin batch /\ cancelled
  BY <1>2 DEF Placed, Locked
<1>5. UNCHANGED <<cancelled, callbacks, holder, cancelAt, batch>>
  BY DEF CallLate
<1>6. ran'[r] = 1 /\ \A q \in Registrars \ {r} : ran'[q] = ran[q]
  BY <1>1 DEF CancellationTypeOK
<1>7. Placed'
  BY <1>2, <1>4, <1>5, <1>6 DEF Placed
<1>8. Locked'
  BY <1>2, <1>4, <1>5, <1>6 DEF Locked
<1>9. Winner'
  BY <1>2, <1>5 DEF Winner
<1> QED
  BY <1>3, <1>7, <1>8, <1>9

(* Every step of a canceller or a registrar.                               *)
LEMMA CancellationStepwise ==
  CancellationInvariant /\ [CancellationNext]_cancelVars => CancellationInvariant'
<1> SUFFICES ASSUME CancellationInvariant, [CancellationNext]_cancelVars
             PROVE  CancellationInvariant'
  OBVIOUS
<1>1. CASE UNCHANGED cancelVars
  BY <1>1 DEF cancelVars, CancellationInvariant, CancellationTypeOK, Placed, Locked, Winner
<1>2. ASSUME NEW k \in Cancellers, CancelStep(k)
      PROVE  CancellationInvariant'
  BY <1>2, SwapKeeps, TakeKeeps, CallKeeps, ReturnKeeps DEF CancelStep
<1>3. ASSUME NEW r \in Registrars, RegisterStep(r)
      PROVE  CancellationInvariant'
  BY <1>3, LockKeeps, LookKeeps, PushKeeps, LateKeeps DEF RegisterStep
<1> QED
  BY <1>1, <1>2, <1>3 DEF CancellationNext

(* Each callback is called at most once, only when the flag is set, and    *)
(* none is left in a list that no canceller will take.                     *)
THEOREM CallbacksCalledOnce == CancellationSpec => []CalledOnce
<1>1. CancellationInvariant => CalledOnce
  <2> SUFFICES ASSUME CancellationInvariant, NEW r \in Registrars
               PROVE  /\ ran[r] <= 1
                      /\ ran[r] = 1 => cancelled
                      /\ cancelled /\ registerAt[r] = "returned" /\ ran[r] = 0
                           => \E k \in Cancellers : \/ cancelAt[k] = "take" /\ r \in callbacks
                                                    \/ cancelAt[k] = "call" /\ r \in batch
    BY DEF CalledOnce
  <2> USE DEF CancellationInvariant
  <2>1. ran[r] \in {0, 1}
    BY DEF Placed
  <2>2. ran[r] = 1 => cancelled
    BY DEF Locked
  <2>3. ASSUME cancelled, registerAt[r] = "returned", ran[r] = 0
        PROVE  \E k \in Cancellers : \/ cancelAt[k] = "take" /\ r \in callbacks
                                     \/ cancelAt[k] = "call" /\ r \in batch
    <3>1. r \in callbacks \/ r \in batch
      BY <2>3 DEF Placed
    <3>2. CASE r \in callbacks
      BY <3>2, <2>3 DEF Winner
    <3>3. CASE r \in batch
      BY <3>3 DEF Winner
    <3> QED
      BY <3>1, <3>2, <3>3
  <2> QED
    BY <2>1, <2>2, <2>3
<1> QED
  BY <1>1, CancellationInitially, CancellationStepwise, PTL DEF CancellationSpec

----------------------------------------------------------------------------
(* File handles.                                                           *)

(* A buffer that is cut in two.                                            *)
LEMMA CutInTwo ==
  ASSUME NEW S, NEW s \in Seq(S), NEW n \in 0..Len(s)
  PROVE  /\ SubSeq(s, 1, n) \in Seq(S) /\ SubSeq(s, n + 1, Len(s)) \in Seq(S)
         /\ SubSeq(s, 1, n) \o SubSeq(s, n + 1, Len(s)) = s
         /\ Len(SubSeq(s, n + 1, Len(s))) = Len(s) - n
<1>1. \A i \in 1..Len(s) : s[i] \in S
  BY ElementOfSeq
<1>2. SubSeq(s, 1, n) \in Seq(S)
  BY <1>1, SubSeqProperties
<1>3. SubSeq(s, n + 1, Len(s)) \in Seq(S) /\ Len(SubSeq(s, n + 1, Len(s))) = Len(s) - n
  BY <1>1, SubSeqProperties
<1>4. 1 \in 1..(Len(s) + 1) /\ n \in (1 - 1)..Len(s) /\ Len(s) \in n..Len(s)
  OBVIOUS
<1>5. SubSeq(s, 1, n) \o SubSeq(s, n + 1, Len(s)) = SubSeq(s, 1, Len(s))
  BY ONLY <1>4, s \in Seq(S), ConcatAdjacentSubSeq
<1> QED
  BY <1>2, <1>3, <1>5, SubSeqFull

(* What is in two sequences, one after the other.                          *)
LEMMA UnitsOfBoth ==
  ASSUME NEW S, NEW s \in Seq(S), NEW t \in Seq(S)
  PROVE  ToSet(s \o t) = ToSet(s) \cup ToSet(t)
<1>1. ASSUME NEW x \in ToSet(s \o t) PROVE x \in ToSet(s) \cup ToSet(t)
  BY <1>1 DEF ToSet
<1>2. ASSUME NEW x \in ToSet(s) PROVE x \in ToSet(s \o t)
  BY <1>2 DEF ToSet
<1>3. ASSUME NEW x \in ToSet(t) PROVE x \in ToSet(s \o t)
  <2>1. PICK i \in 1..Len(t) : x = t[i]
    BY <1>3 DEF ToSet
  <2>2. Len(s) + i \in 1..Len(s \o t) /\ (s \o t)[Len(s) + i] = x
    BY <2>1
  <2> QED
    BY <2>2 DEF ToSet
<1> QED
  BY <1>1, <1>2, <1>3

(* A block is never cut.                                                   *)
LEMMA WholeBlocks ==
  ASSUME NEW n \in Nat
  PROVE  (n \div Block) * Block \in 0..n /\ n - (n \div Block) * Block < Block
  BY HandleAssumption

(* What handing a buffer over comes to, whether it arrives or not: every   *)
(* unit of it is in the file or still pending, in order unless the system  *)
(* has refused a write.                                                    *)
Units == 1..MaxUnits
Handed(buffer) ==
  /\ pending' \in Seq(Units) /\ file' \in Seq(Units)
  /\ ToSet(file \o buffer) \subseteq ToSet(file' \o pending')
  /\ refused' \in 0..MaxFaults /\ excused' \in BOOLEAN
  /\ refused' = 0 => refused = 0 /\ file' \o pending' = file \o buffer

(* All of the units arrive that are due.                                   *)
LEMMA ArrivalHands ==
  ASSUME HandleTypeOK, NEW buffer \in Seq(Units), NEW n \in 0..Len(buffer), NEW late \in BOOLEAN,
         Arrive(n, buffer, late)
  PROVE  Handed(buffer) /\ Len(pending') = Len(buffer) - n
<1> DEFINE first == SubSeq(buffer, 1, n)
           rest == SubSeq(buffer, n + 1, Len(buffer))
<1>1. /\ first \in Seq(Units) /\ rest \in Seq(Units) /\ first \o rest = buffer
      /\ Len(rest) = Len(buffer) - n
  BY CutInTwo
<1>2. pending' = rest /\ file' = file \o first /\ UNCHANGED refused /\ excused' \in BOOLEAN
  BY DEF Arrive, HandleTypeOK
<1>3. file \in Seq(Units) /\ refused \in 0..MaxFaults
  BY DEF HandleTypeOK, Units
<1> HIDE DEF first, rest, Units
<1>4. file' \in Seq(Units)
  BY <1>1, <1>2, <1>3, ConcatProperties
<1>5. (file \o first) \o rest = file \o (first \o rest)
  <2>1. file \in Seq(Units) /\ first \in Seq(Units) /\ rest \in Seq(Units)
    BY <1>1, <1>3
  <2>2. \A s, t, u \in Seq(Units) : (s \o t) \o u = s \o (t \o u)
    BY ConcatAssociative
  <2> QED
    BY <2>1, <2>2, Zenon
<1>6. file' \o pending' = file \o buffer
  BY <1>1, <1>2, <1>5
<1> QED
  BY <1>1, <1>2, <1>3, <1>4, <1>6 DEF Handed

(* A part of them arrives, and all of them stay in the buffer.             *)
LEMMA FaultHands ==
  ASSUME HandleTypeOK, NEW buffer \in Seq(Units), NEW n \in 0..Len(buffer), Fault(n, buffer)
  PROVE  Handed(buffer) /\ excused' /\ n > 0
<1>1. PICK part \in 0..(n - 1) : file' = file \o SubSeq(buffer, 1, part)
  BY DEF Fault
<1>2. /\ pending' = buffer /\ excused' = TRUE /\ n > 0
      /\ refused' = refused + 1 /\ refused < MaxFaults
  BY DEF Fault
<1>3. file \in Seq(Units) /\ refused \in 0..MaxFaults
  BY DEF HandleTypeOK, Units
<1> DEFINE first == SubSeq(buffer, 1, part)
<1>4. first \in Seq(Units)
  BY CutInTwo
<1> HIDE DEF first, Units
<1>5. file' = file \o first /\ file' \in Seq(Units)
  BY <1>1, <1>3, <1>4, ConcatProperties DEF first
<1>6. ToSet(file') = ToSet(file) \cup ToSet(first)
  BY <1>3, <1>4, <1>5, UnitsOfBoth
<1>7. /\ ToSet(file' \o buffer) = ToSet(file') \cup ToSet(buffer)
      /\ ToSet(file \o buffer) = ToSet(file) \cup ToSet(buffer)
  <2>1. file \in Seq(Units) /\ file' \in Seq(Units) /\ buffer \in Seq(Units)
    BY <1>3, <1>5
  <2> QED
    BY ONLY <2>1, UnitsOfBoth
<1>8. refused' \in 0..MaxFaults /\ refused' # 0
  <2>1. refused' = refused + 1 /\ refused < MaxFaults /\ refused \in 0..MaxFaults
    BY <1>2, <1>3
  <2> QED
    BY ONLY <2>1, HandleAssumption
<1>9. ToSet(file \o buffer) \subseteq ToSet(file' \o pending')
  BY ONLY <1>2, <1>6, <1>7
<1> QED
  BY <1>2, <1>5, <1>8, <1>9 DEF Handed

(* Flushing what is pending.                                               *)
LEMMA FlushHands ==
  ASSUME HandleTypeOK, FlushPending \/ FlushFails
  PROVE  /\ Handed(pending)
         /\ FlushPending => pending' = <<>>
         /\ FlushFails => excused' /\ pending # <<>>
<1>1. pending \in Seq(Units) /\ Len(pending) \in 0..Len(pending)
  BY DEF HandleTypeOK, Units
<1>2. ASSUME FlushPending PROVE Handed(pending) /\ pending' = <<>>
  <2>1. Arrive(Len(pending), pending, FALSE)
    BY <1>2 DEF FlushPending
  <2>2. Handed(pending) /\ Len(pending') = Len(pending) - Len(pending)
    BY <1>1, <2>1, ArrivalHands
  <2>3. pending' \in Seq(Units) /\ Len(pending') = 0
    BY <1>1, <2>2 DEF Handed
  <2> QED
    BY <2>2, <2>3
<1>3. ASSUME FlushFails PROVE Handed(pending) /\ excused' /\ pending # <<>>
  <2>1. Fault(Len(pending), pending)
    BY <1>3 DEF FlushFails
  <2>2. Handed(pending) /\ excused' /\ Len(pending) > 0
    BY <1>1, <2>1, FaultHands
  <2> QED
    BY <2>2
<1> QED
  BY <1>2, <1>3

(* A step that hands over what was pending and gives the handle no unit    *)
(* loses none.                                                             *)
LEMMA FlushLosesNothing ==
  ASSUME HandleTypeOK, NothingLost, Handed(pending), UNCHANGED <<accepted, units>>,
         ~open' => pending' = <<>>
  PROVE  NothingLost'
<1>1. accepted' \subseteq ToSet(file' \o pending')
  BY DEF NothingLost, Handed
<1>2. refused' = 0 => file' \o pending' = [i \in 1..units' |-> i]
  BY DEF NothingLost, Handed
<1> QED
  BY <1>1, <1>2 DEF NothingLost

(* Nothing waits in an empty buffer.                                       *)
LEMMA EmptyIsPrompt ==
  ASSUME pending' = <<>>, mode' \in Modes
  PROVE  Prompt'
<1>1. ToSet(pending') = {} /\ Len(pending') = 0
  BY DEF ToSet
<1>2. 0 < Block /\ mode' \in {"none", "line", "block"}
  BY HandleAssumption
<1>3. CASE mode' = "none"
  BY <1>3 DEF Prompt
<1>4. CASE mode' = "line"
  BY <1>1, <1>4 DEF Prompt
<1>5. CASE mode' = "block"
  BY <1>1, <1>2, <1>5 DEF Prompt
<1> QED
  BY <1>2, <1>3, <1>4, <1>5

(* A write gives the handle one unit, after all the others.                *)
LEMMA OneMore ==
  ASSUME HandleTypeOK, NothingLost, units < MaxUnits, NEW buffer,
         buffer = Append(pending, units + 1)
  PROVE  /\ buffer \in Seq(Units) /\ Len(buffer) \in Nat
         /\ ToSet(buffer) = ToSet(pending) \cup {units + 1}
         /\ ToSet(file \o buffer) = ToSet(file \o pending) \cup {units + 1}
         /\ refused = 0 => file \o buffer = [i \in 1..(units + 1) |-> i]
<1>1. pending \in Seq(Units) /\ file \in Seq(Units) /\ units + 1 \in Units
  BY HandleAssumption DEF HandleTypeOK, Units
<1> HIDE DEF Units
<1>2. buffer \in Seq(Units) /\ Len(buffer) = Len(pending) + 1
  BY <1>1
<1>3. /\ \A i \in 1..Len(pending) : buffer[i] = pending[i]
      /\ buffer[Len(pending) + 1] = units + 1
  BY <1>1
<1>4. ToSet(buffer) = ToSet(pending) \cup {units + 1}
  <2>1. Len(pending) \in Nat
    BY <1>1
  <2>2. ASSUME NEW x \in ToSet(buffer) PROVE x \in ToSet(pending) \cup {units + 1}
    <3>1. PICK i \in 1..Len(buffer) : x = buffer[i]
      BY <2>2 DEF ToSet
    <3>2. i \in 1..Len(pending) \/ i = Len(pending) + 1
      BY <1>2, <2>1
    <3> QED
      BY <1>3, <3>1, <3>2 DEF ToSet
  <2>3. ASSUME NEW x \in ToSet(pending) PROVE x \in ToSet(buffer)
    <3>1. PICK i \in 1..Len(pending) : x = pending[i]
      BY <2>3 DEF ToSet
    <3>2. i \in 1..Len(buffer)
      BY <1>2, <2>1
    <3> QED
      BY <1>3, <3>1, <3>2 DEF ToSet
  <2>4. units + 1 \in ToSet(buffer)
    <3>1. Len(pending) + 1 \in 1..Len(buffer)
      BY <1>2, <2>1
    <3> QED
      BY <1>3, <3>1 DEF ToSet
  <2> QED
    BY <2>2, <2>3, <2>4
<1>5. ToSet(file \o buffer) = ToSet(file \o pending) \cup {units + 1}
  <2>1. /\ ToSet(file \o buffer) = ToSet(file) \cup ToSet(buffer)
        /\ ToSet(file \o pending) = ToSet(file) \cup ToSet(pending)
    <3>1. \A s, t \in Seq(Units) : ToSet(s \o t) = ToSet(s) \cup ToSet(t)
      BY UnitsOfBoth
    <3> QED
      BY <1>1, <1>2, <3>1, Zenon
  <2> QED
    BY <1>4, <2>1
<1>6. ASSUME refused = 0 PROVE file \o buffer = [i \in 1..(units + 1) |-> i]
  <2>1. file \o pending = [i \in 1..units |-> i] /\ units \in Nat
    BY <1>6, HandleAssumption DEF NothingLost, HandleTypeOK
  <2>2. /\ Len(file \o pending) = units /\ Len(file) \in Nat /\ Len(pending) \in Nat
        /\ Len(file \o pending) = Len(file) + Len(pending)
    BY <1>1, <2>1
  <2>3. Len(file \o buffer) = units + 1
    BY <1>1, <1>2, <2>2
  <2>4. ASSUME NEW i \in 1..(units + 1) PROVE (file \o buffer)[i] = i
    <3>1. CASE i \in 1..Len(file)
      <4>1. (file \o buffer)[i] = file[i] /\ (file \o pending)[i] = file[i]
        BY <1>1, <1>2, <2>2, <3>1
      <4> QED
        BY <2>1, <2>2, <3>1, <4>1
    <3>2. CASE i - Len(file) \in 1..Len(pending)
      <4>1. /\ (file \o buffer)[i] = buffer[i - Len(file)]
            /\ (file \o pending)[i] = pending[i - Len(file)]
        BY <1>1, <1>2, <2>2, <3>2
      <4> QED
        BY <1>3, <2>1, <2>2, <3>2, <4>1
    <3>3. CASE i = Len(file) + Len(pending) + 1
      <4>1. (file \o buffer)[i] = buffer[i - Len(file)] /\ i - Len(file) = Len(pending) + 1
        BY <1>1, <1>2, <2>2, <3>3
      <4> QED
        BY <1>3, <2>2, <3>3, <4>1
    <3> QED
      BY <2>2, <3>1, <3>2, <3>3
  <2>5. file \o buffer \in Seq(Units)
    BY <1>1, <1>2
  <2> DEFINE counted == [i \in 1..(units + 1) |-> i]
  <2>6. /\ counted \in Seq(Units) /\ Len(counted) = units + 1
        /\ \A i \in 1..(units + 1) : counted[i] = i
    <3>1. \A i \in 1..(units + 1) : i \in Units
      BY <2>1, HandleAssumption DEF Units
    <3> QED
      BY <2>1, <3>1
  <2> HIDE DEF counted
  <2>7. file \o buffer = counted
    BY <2>3, <2>4, <2>5, <2>6, SeqEqual
  <2> QED
    BY <2>7 DEF counted
<1>7. Len(buffer) \in Nat
  BY <1>1, <1>2
<1> QED
  BY <1>2, <1>4, <1>5, <1>6, <1>7, Zenon

(* FileHandle::from_file: nothing is written, nothing is pending.          *)
LEMMA HandleInitially == HandleInit => HandleSound
<1> SUFFICES ASSUME HandleInit PROVE HandleSound
  OBVIOUS
<1>1. HandleTypeOK
  <2>1. writing \in [Writers -> Modes \cup {"no"}]
    BY DEF HandleInit
  <2>2. <<>> \in Seq(1..MaxUnits) /\ 0 \in 0..MaxUnits /\ 0 \in 0..MaxFaults
    BY HandleAssumption
  <2> QED
    BY <2>1, <2>2, HandleAssumption DEF HandleInit, HandleTypeOK
<1>2. NothingLost
  <2>1. file \o pending = <<>> /\ <<>> = [i \in 1..0 |-> i]
    BY DEF HandleInit
  <2> QED
    BY <2>1 DEF HandleInit, NothingLost
<1>3. PermitWithFile
  BY DEF HandleInit, PermitWithFile
<1>4. Prompt
  <2>1. Len(<<>>) < Block
    BY HandleAssumption
  <2> QED
    BY <2>1 DEF HandleInit, Prompt
<1> QED
  BY <1>1, <1>2, <1>3, <1>4 DEF HandleSound

(* Reading, changing the mode and closing flush first.  A failed flush     *)
(* leaves the handle as it was, and excuses what it leaves pending.        *)
LEMMA FlushKeeps ==
  ASSUME HandleSound, FlushPending \/ FlushFails, UNCHANGED <<writing, accepted, units>>,
         mode' \in Modes, open' \in BOOLEAN, permitted' = open',
         open' = open \/ FlushPending,
         ~open => ~open'
  PROVE  HandleSound'
<1>1. HandleTypeOK /\ NothingLost /\ PermitWithFile
  BY DEF HandleSound
<1>2. /\ Handed(pending)
      /\ FlushPending => pending' = <<>>
      /\ FlushFails => excused' /\ pending # <<>>
  BY <1>1, FlushHands
<1>3. HandleTypeOK'
  BY <1>1, <1>2 DEF HandleTypeOK, Handed, Units
<1>4. ~open' => pending' = <<>>
  BY <1>1, <1>2 DEF NothingLost
<1>5. NothingLost'
  BY <1>1, <1>2, <1>4, FlushLosesNothing
<1>6. PermitWithFile'
  BY DEF PermitWithFile
<1>7. Prompt'
  BY <1>2, EmptyIsPrompt DEF Prompt
<1> QED
  BY <1>3, <1>5, <1>6, <1>7 DEF HandleSound

(* A write takes the mode as it was read, not as it is: one that comes late*)
(* is what excuses the units it leaves pending.                            *)
LEMMA WriteKeeps ==
  ASSUME HandleSound, NEW w \in Writers, Write(w)
  PROVE  HandleSound'
<1>1. HandleTypeOK /\ NothingLost /\ PermitWithFile /\ Prompt
  BY DEF HandleSound
<1>2. writing' \in [Writers -> Modes \cup {"no"}] /\ UNCHANGED <<mode, open, permitted>>
  BY <1>1 DEF Write, HandleTypeOK
<1>3. CASE ~open
  <2>1. UNCHANGED <<pending, file, accepted, units, refused, excused>>
    BY <1>3 DEF Write
  <2> QED
    BY <1>1, <1>2, <2>1
    DEF HandleSound, HandleTypeOK, NothingLost, PermitWithFile, Prompt
<1>4. CASE open
  <2> DEFINE buffer == Append(pending, units + 1)
             n == Due(writing[w], buffer)
  <2>1. /\ units < MaxUnits /\ units' = units + 1
        /\ \/ Arrive(n, buffer, writing[w] # mode) /\ accepted' = accepted \cup {units + 1}
           \/ Fault(n, buffer) /\ UNCHANGED accepted
    BY <1>4 DEF Write
  <2>2. /\ buffer \in Seq(Units) /\ Len(buffer) \in Nat
        /\ ToSet(buffer) = ToSet(pending) \cup {units + 1}
        /\ ToSet(file \o buffer) = ToSet(file \o pending) \cup {units + 1}
        /\ refused = 0 => file \o buffer = [i \in 1..(units + 1) |-> i]
    BY <1>1, <2>1, OneMore
  <2> HIDE DEF buffer
  <2>3. writing[w] \in {"none", "line", "block"}
    BY <1>1, HandleAssumption DEF Write, HandleTypeOK
  <2>4. n \in 0..Len(buffer)
    BY <2>2, <2>3, WholeBlocks DEF Due
  <2>5. mode \in {"none", "line", "block"}
    BY <1>1, HandleAssumption DEF HandleTypeOK
  <2> HIDE DEF n
  <2>6. Handed(buffer)
    BY <1>1, <2>1, <2>2, <2>4, ArrivalHands, FaultHands
  <2>7. HandleTypeOK'
    <3>1. units' \in 0..MaxUnits /\ accepted' \subseteq 1..units'
      <4>1. units \in Nat /\ units' \in 0..MaxUnits /\ 1..units \subseteq 1..units'
        BY <1>1, <2>1, HandleAssumption DEF HandleTypeOK
      <4>2. units + 1 \in 1..units' /\ accepted \subseteq 1..units
        BY <1>1, <2>1, <4>1 DEF HandleTypeOK
      <4>3. accepted' \subseteq accepted \cup {units + 1}
        BY <2>1
      <4> QED
        BY <4>1, <4>2, <4>3
    <3> QED
      BY <1>1, <1>2, <2>6, <3>1 DEF HandleTypeOK, Handed, Units
  <2>8. NothingLost'
    <3>1. accepted' \subseteq ToSet(file' \o pending')
      BY <1>1, <2>1, <2>2, <2>6 DEF NothingLost, Handed
    <3>2. refused' = 0 => file' \o pending' = [i \in 1..units' |-> i]
      BY <2>1, <2>2, <2>6 DEF Handed
    <3> QED
      BY <1>2, <1>4, <3>1, <3>2 DEF NothingLost
  <2>9. Prompt'
    <3> SUFFICES ASSUME ~excused' PROVE Prompt'
      BY DEF Prompt
    <3>1. Arrive(n, buffer, writing[w] # mode)
      BY <2>1, <2>2, <2>4, FaultHands, <1>1
    <3>2. /\ n < Len(buffer) => ~excused /\ writing[w] = mode
          /\ pending' = SubSeq(buffer, n + 1, Len(buffer))
      BY <3>1 DEF Arrive
    <3>3. Len(pending') = Len(buffer) - n
      BY <1>1, <2>2, <2>4, <3>1, ArrivalHands
    <3>4. mode' = mode /\ mode' \in Modes
      BY <1>1, <1>2 DEF HandleTypeOK
    <3>5. CASE n = Len(buffer)
      <4>1. pending' = <<>>
        BY <2>2, <2>6, <3>3, <3>5 DEF Handed
      <4> QED
        BY <3>4, <4>1, EmptyIsPrompt
    <3>6. CASE n # Len(buffer)
      <4>1. ~excused /\ writing[w] = mode /\ n < Len(buffer)
        BY <2>2, <2>4, <3>2, <3>6
      <4>2. mode # "none"
        BY <3>6, <4>1 DEF n, Due
      <4>3. CASE mode = "line"
        <5>1. n = 0 /\ ~Newline(units + 1)
          BY <3>6, <4>1, <4>3 DEF n, Due
        <5>2. pending' = buffer
          BY <2>2, <3>2, <5>1, SubSeqFull
        <5>3. ~\E unit \in ToSet(pending) : Newline(unit)
          BY <1>1, <4>1, <4>3 DEF Prompt
        <5>4. ~\E unit \in ToSet(pending') : Newline(unit)
          BY <2>2, <5>1, <5>2, <5>3
        <5> QED
          BY <3>4, <4>3, <5>4 DEF Prompt
      <4>4. CASE mode = "block"
        <5>1. n = (Len(buffer) \div Block) * Block
          BY <4>1, <4>4 DEF n, Due
        <5>2. Len(pending') < Block
          BY <2>2, <3>3, <5>1, WholeBlocks
        <5> QED
          BY <3>4, <4>4, <5>2 DEF Prompt
      <4> QED
        BY <2>5, <4>2, <4>3, <4>4
    <3> QED
      BY <3>5, <3>6
  <2>10. PermitWithFile'
    BY <1>1, <1>2 DEF PermitWithFile
  <2> QED
    BY <2>7, <2>8, <2>9, <2>10 DEF HandleSound
<1> QED
  BY <1>3, <1>4

(* Every step of a thread that shares the handle, and of who closes it.    *)
LEMMA HandleStepwise ==
  ASSUME HandleSound, [HandleNext]_handleVars
  PROVE  HandleSound'
<1>1. HandleTypeOK /\ PermitWithFile
  BY DEF HandleSound
<1>2. ASSUME NEW w \in Writers, ReadMode(w) PROVE HandleSound'
  <2>1. writing' \in [Writers -> Modes \cup {"no"}]
    BY <1>1, <1>2 DEF ReadMode, HandleTypeOK
  <2> QED
    BY <1>2, <2>1
    DEF ReadMode, HandleSound, HandleTypeOK, NothingLost, PermitWithFile, Prompt
<1>3. ASSUME NEW w \in Writers, Write(w) PROVE HandleSound'
  BY <1>3, WriteKeeps
<1>4. ASSUME NEW w \in Writers, FlushAndUse(w) PROVE HandleSound'
  <2>1. mode' \in Modes /\ open' \in BOOLEAN /\ permitted' = open'
    BY <1>1, <1>4 DEF FlushAndUse, HandleTypeOK, PermitWithFile
  <2> QED
    BY <1>4, <2>1, FlushKeeps DEF FlushAndUse
<1>5. ASSUME NEW w \in Writers, NEW m \in Modes, SetBuffering(w, m) PROVE HandleSound'
  <2>1. mode' \in Modes /\ open' \in BOOLEAN /\ permitted' = open'
    BY <1>1, <1>5 DEF SetBuffering, HandleTypeOK, PermitWithFile
  <2> QED
    BY <1>5, <2>1, FlushKeeps DEF SetBuffering
<1>6. ASSUME Close PROVE HandleSound'
  <2>1. mode' \in Modes /\ open' \in BOOLEAN /\ permitted' = open'
    BY <1>1, <1>6 DEF Close, HandleTypeOK, PermitWithFile
  <2> QED
    BY <1>6, <2>1, FlushKeeps DEF Close
<1>7. ASSUME UNCHANGED handleVars PROVE HandleSound'
  BY <1>7 DEF handleVars, HandleSound, HandleTypeOK, NothingLost, PermitWithFile, Prompt
<1> QED
  BY <1>2, <1>3, <1>4, <1>5, <1>6, <1>7 DEF HandleNext

(* A handle loses no unit it has accepted, in whatever order its threads   *)
(* write, change the mode and close it and wherever the operating system   *)
(* refuses; it keeps its permit exactly while it is open; and it holds     *)
(* nothing back for longer than its mode says (native_handle.rs:58-138).   *)
THEOREM HandlesLoseNothing == HandleSpec => []HandleSound
<1>1. HandleInit => HandleSound
  BY HandleInitially
<1>2. HandleSound /\ [HandleNext]_handleVars => HandleSound'
  BY HandleStepwise
<1> QED
  BY <1>1, <1>2, PTL DEF HandleSpec

----------------------------------------------------------------------------
(* Temporary files and directories.                                        *)

TempTypeOK ==
  /\ owner \in {"start", "create", "path", "callback", "cleanup", "returned"}
  /\ tempPermit \in BOOLEAN /\ onDisk \in BOOLEAN /\ guarded \in BOOLEAN
  /\ cleaner \in [Cleaners -> {"idle", "remove", "drop"}]
  /\ answer \in [Cleaners -> {"none", "ok", "failed"}]

(* An object has one keeper: its guard, the one cleaner that took it, or   *)
(* a cleaner that could not remove it.                                     *)
OneKeeper ==
  /\ guarded => onDisk /\ \A c \in Cleaners : cleaner[c] = "idle"
  /\ \A c, d \in Cleaners : cleaner[c] # "idle" /\ cleaner[d] # "idle" => c = d
  /\ \A c \in Cleaners : cleaner[c] # "idle" => answer[c] = "none"
  /\ onDisk => guarded \/ \E c \in Cleaners : cleaner[c] # "idle" \/ answer[c] = "failed"

(* Who has cleaned, by where the action is.                                *)
CleanersWhen ==
  /\ owner \in {"start", "create"} =>
       ~onDisk /\ \A c \in Cleaners : cleaner[c] = "idle" /\ answer[c] = "none"
  /\ cleaner["owner"] # "idle" => owner = "cleanup"
  /\ answer["owner"] # "none" => owner \in {"cleanup", "returned"}
  /\ cleaner["closer"] # "idle" \/ answer["closer"] # "none" => owner = "returned"
  /\ owner \in {"path", "callback"} /\ ~onDisk => answer["canceller"] # "none"

TempInv ==
  /\ TempTypeOK /\ OneKeeper /\ CleanersWhen
  /\ tempPermit <=> owner \notin {"start", "returned"}

(* At the start there is nothing to clean up.                              *)
LEMMA TempInitially == TempInit => TempInv
BY DEF TempInit, TempInv, TempTypeOK, OneKeeper, CleanersWhen, Cleaners

(* Every step of the action and of those who clean up after it.            *)
LEMMA TempStepwise == TempInv /\ [TempNext]_tempVars => TempInv'
<1> SUFFICES ASSUME TempInv, [TempNext]_tempVars PROVE TempInv'
  OBVIOUS
<1> USE DEF TempInv, TempTypeOK, OneKeeper, CleanersWhen
<1>1. CASE AcquireTemp
  BY <1>1 DEF AcquireTemp
<1>2. CASE Collide
  BY <1>2 DEF Collide
<1>3. CASE CreateFails
  BY <1>3 DEF CreateFails
<1>4. CASE CreateTemp
  BY <1>4 DEF CreateTemp
<1>5. CASE EnterCallback
  BY <1>5 DEF EnterCallback
<1>6. CASE PathFails
  BY <1>6 DEF PathFails
<1>7. CASE CallbackReturns
  BY <1>7 DEF CallbackReturns
<1>8. CASE OwnerReturns
  BY <1>8 DEF OwnerReturns, Cleaners
<1>9. ASSUME NEW c \in Cleaners, TakeGuard(c) PROVE TempInv'
  <2>1. /\ UNCHANGED <<owner, tempPermit, onDisk>> /\ cleaner[c] = "idle" /\ answer[c] = "none"
        /\ c = "owner" => owner = "cleanup"
        /\ c = "canceller" => owner \in {"path", "callback", "cleanup", "returned"}
        /\ c = "closer" => owner = "returned"
    BY <1>9 DEF TakeGuard, Cleaners
  <2>2. CASE guarded
    <3>1. guarded' = FALSE /\ cleaner' = [cleaner EXCEPT ![c] = "remove"] /\ UNCHANGED answer
      BY <1>9, <2>2 DEF TakeGuard
    <3> QED
      BY <2>1, <2>2, <3>1 DEF Cleaners
  <2>3. CASE ~guarded
    <3>1. answer' = [answer EXCEPT ![c] = "ok"] /\ UNCHANGED <<guarded, cleaner>>
      BY <1>9, <2>3 DEF TakeGuard
    <3> QED
      BY <2>1, <2>3, <3>1 DEF Cleaners
  <2> QED
    BY <2>2, <2>3
<1>10. ASSUME NEW c \in Cleaners, Removed(c) PROVE TempInv'
  BY <1>10 DEF Removed, Cleaners
<1>11. ASSUME NEW c \in Cleaners, RemovalFails(c) PROVE TempInv'
  BY <1>11 DEF RemovalFails, Cleaners
<1>12. CASE UNCHANGED tempVars
  BY <1>12 DEF tempVars
<1> QED
  BY <1>1, <1>2, <1>3, <1>4, <1>5, <1>6, <1>7, <1>8, <1>9, <1>10, <1>11, <1>12 DEF TempNext

(* A temporary object outlives its action only with somebody to remove it  *)
(* or with a failure that was answered, and never goes under a callback    *)
(* that runs unless its scope was cancelled, for any number of retries.    *)
THEOREM TempsAreAccounted == TempSpec => []TempAccounted
<1>1. TempInv => TempAccounted
  BY DEF TempInv, TempTypeOK, TempAccounted, OneKeeper, CleanersWhen, Cleaners
<1> QED
  BY <1>1, TempInitially, TempStepwise, PTL DEF TempSpec

----------------------------------------------------------------------------
(* Child processes.                                                        *)

Waiting == {"stdout", "stderr", "stdin", "look", "try", "terminate"}
Joining == {"join_stdout", "join_stderr", "join_stdin"}
Over == {"finish", "done"}

(* Nothing there is before the child is spawned.                           *)
Unspawned ==
  runner \in {"admit", "prepare"} =>
    /\ slot = "none" /\ leader = "none" /\ descendant = "none"
    /\ reader["stdout"] = "none" /\ reader["stderr"] = "none"

(* Where the child is, by where the running thread is: only a canceller    *)
(* takes it from the mutex before the thread does, and it is left there    *)
(* only when the wait for it fails.                                        *)
Whereabouts ==
  /\ runner = "register" => slot = "local"
  /\ runner \in Waiting => slot \in IF Runtime THEN {"scoped", "canceller", "none"} ELSE {"local"}
  /\ runner = "kill" <=> slot = "runner"
  /\ runner \in Joining => slot = "none"
  /\ runner \in Over => /\ slot \in {"none", "scoped", "canceller", "closer"}
                        /\ slot \in {"scoped", "closer"} => outcome = "io"

(* Who has taken it, and who can: nobody but the runtime has a scope.      *)
Takers ==
  /\ canceller = "kill" <=> slot = "canceller"
  /\ closer = "kill" <=> slot = "closer"
  /\ slot \in {"scoped", "canceller", "closer"} => Runtime
  /\ closer # "idle" => runner = "done" /\ Runtime
  /\ closer \in {"done", "failed"} => slot \in {"none", "canceller"}
  /\ ~Runtime => canceller \in {"idle", "done"}

(* A child nobody has any more is dead.                                    *)
Reaped == slot = "none" => ~Live \/ unkillable

(* The permit, and the cause of whatever is not an error of the system.    *)
Permitted == Runtime /\ runner \notin {"admit", "done"} => permit
Asked ==
  /\ stopped \/ canceller # "idle" => asked
  /\ Runtime /\ runner \in Waiting /\ slot # "scoped" => asked
  /\ BlamedForCause

(* A reader that is done has read everything, and the threads a run will   *)
(* join were started: it joins nobody unless it took the child itself.     *)
Read ==
  /\ \A s \in Streams : reader[s] = "done" => ~full[s] /\ leader # "running"
  /\ runner \in (Waiting \ {"stdout"}) \cup {"kill"} /\ (Mine \/ runner = "kill") =>
       reader["stdout"] # "none"
  /\ runner \in (Waiting \ {"stdout", "stderr"}) \cup {"kill"} /\ (Mine \/ runner = "kill") =>
       reader["stderr"] # "none"
  /\ runner = "join_stdout" => reader["stdout"] # "none"
  /\ runner \in {"join_stdout", "join_stderr"} => reader["stderr"] # "none"
  /\ runner \in {"join_stderr", "join_stdin"} => reader["stdout"] = "done"
  /\ runner = "join_stdin" => reader["stderr"] = "done"

(* A run that was not stopped goes on because its leader has ended.        *)
Exited ==
  /\ runner \in {"terminate", "kill"} /\ ~stopped => leader \in {"exited", "reaped"}
  /\ runner \in Joining /\ ~stopped => leader = "reaped"
  /\ runner \notin Over => outcome = "none"
  /\ Settled

ProcessInv ==
  /\ ProcessTypeOK
  /\ Unspawned /\ Whereabouts /\ Takers /\ Reaped /\ Permitted /\ Asked /\ Read /\ Exited
(* The types, whatever step of the running thread.                         *)
LEMMA RunnerStepTyped ==
  ASSUME ProcessTypeOK, UNCHANGED call, RunnerStep PROVE ProcessTypeOK'
<1>1. CASE Admit
  BY <1>1 DEF ProcessTypeOK, Admit, treeVars, threadVars, scopeVars, Runtime,
     Places, Outcomes
<1>2. CASE PrepareFails
  BY <1>2 DEF ProcessTypeOK, PrepareFails, treeVars, threadVars, scopeVars, Places,
     Outcomes
<1>3. CASE Spawn
  <2>1. unwritten' \in [Streams -> 0..MaxOutput]
    BY <1>3, CallAssumption DEF Spawn, ProcessTypeOK
  <2> QED
    BY <1>3, <2>1 DEF ProcessTypeOK, Spawn, Goto, threadVars, scopeVars, Places, Outcomes, Slots, LeaderStates
<1>4. CASE SpawnFails
  BY <1>4 DEF ProcessTypeOK, SpawnFails, Fail, treeVars, threadVars, scopeVars,
     Places, Outcomes
<1>5. CASE Register
  BY <1>5 DEF ProcessTypeOK, Register, Goto, treeVars, threadVars, scopeVars,
     Places, Outcomes, Slots
<1>6. ASSUME NEW s \in Streams, StartReader(s) PROVE ProcessTypeOK'
  BY <1>6 DEF ProcessTypeOK, StartReader, Goto, treeVars, scopeVars, Places,
     Outcomes, ReaderStates
<1>7. ASSUME NEW s \in Streams, JoinReader(s) PROVE ProcessTypeOK'
  BY <1>7 DEF ProcessTypeOK, JoinReader, Goto, Fail, treeVars, threadVars,
     scopeVars, Places, Outcomes
<1>8. CASE StartWriter
  BY <1>8 DEF ProcessTypeOK, StartWriter, Goto, Fail, treeVars, scopeVars, Places,
     Outcomes, WriterStates
<1>9. CASE LookAtToken
  BY <1>9 DEF ProcessTypeOK, LookAtToken, treeVars, threadVars, scopeVars, Places
<1>10. CASE TryWait
  BY <1>10 DEF ProcessTypeOK, TryWait, Goto, Fail, treeVars, threadVars, scopeVars,
     Places, Outcomes
<1>11. CASE WaitUntil
  BY <1>11 DEF ProcessTypeOK, WaitUntil, treeVars, threadVars, scopeVars, Places
<1>12. CASE TakeToTerminate
  BY <1>12 DEF ProcessTypeOK, TakeToTerminate, Goto, Fail, treeVars, threadVars,
     scopeVars, Places, Outcomes, Slots
<1>13. CASE Kill
  BY <1>13 DEF ProcessTypeOK, Kill, Goto, Fail, Killed, KillRefused, treeVars,
     threadVars, scopeVars, Places, Outcomes, Slots, LeaderStates, DescendantStates
<1>14. CASE JoinWriter
  BY <1>14 DEF ProcessTypeOK, JoinWriter, Fail, treeVars, threadVars, scopeVars,
     Places, Outcomes
<1>15. CASE Finish
  BY <1>15 DEF ProcessTypeOK, Finish, treeVars, threadVars, scopeVars, Runtime,
     Places, Outcomes
<1> QED
  BY <1>1, <1>2, <1>3, <1>4, <1>5, <1>6, <1>7, <1>8, <1>9, <1>10, <1>11, <1>12,
     <1>13, <1>14, <1>15 DEF RunnerStep

(* The types, whatever step of the process tree.                           *)
LEMMA TreeStepTyped ==
  ASSUME ProcessTypeOK, UNCHANGED call, TreeStep PROVE ProcessTypeOK'
<1>1. ASSUME NEW s \in Streams, LeaderWrites(s) PROVE ProcessTypeOK'
  <2>1. unwritten' \in [Streams -> 0..MaxOutput]
    BY <1>1, CallAssumption DEF LeaderWrites, ProcessTypeOK
  <2> QED
    BY <1>1, <2>1 DEF ProcessTypeOK, LeaderWrites, Unread, runnerVars, threadVars, scopeVars
<1>2. CASE LeaderEnds
  BY <1>2 DEF ProcessTypeOK, LeaderEnds, runnerVars, threadVars, scopeVars,
     LeaderStates
<1>3. CASE LeaderCrashes
  BY <1>3 DEF ProcessTypeOK, LeaderCrashes, runnerVars, threadVars, scopeVars,
     LeaderStates
<1>4. CASE Fork
  BY <1>4 DEF ProcessTypeOK, Fork, runnerVars, threadVars, scopeVars,
     DescendantStates
<1>5. CASE Detach
  BY <1>5 DEF ProcessTypeOK, Detach, runnerVars, threadVars, scopeVars,
     DescendantStates
<1>6. CASE DescendantEnds
  BY <1>6 DEF ProcessTypeOK, DescendantEnds, runnerVars, threadVars, scopeVars,
     DescendantStates
<1> QED
  BY <1>1, <1>2, <1>3, <1>4, <1>5, <1>6 DEF TreeStep

(* The types, whatever step of the threads of the pipes.                   *)
LEMMA ThreadStepTyped ==
  ASSUME ProcessTypeOK, UNCHANGED call, ThreadStep PROVE ProcessTypeOK'
<1>1. ASSUME NEW s \in Streams, ReadChunk(s) PROVE ProcessTypeOK'
  BY <1>1 DEF ProcessTypeOK, ReadChunk, runnerVars, scopeVars, ReaderStates
<1>2. ASSUME NEW s \in Streams, ReadEnd(s) PROVE ProcessTypeOK'
  BY <1>2 DEF ProcessTypeOK, ReadEnd, runnerVars, treeVars, scopeVars, ReaderStates
<1>3. ASSUME NEW s \in Streams, ForwardFails(s) PROVE ProcessTypeOK'
  BY <1>3 DEF ProcessTypeOK, ForwardFails, runnerVars, scopeVars, ReaderStates
<1>4. CASE InputWritten
  BY <1>4 DEF ProcessTypeOK, InputWritten, runnerVars, treeVars, scopeVars,
     WriterStates
<1>5. CASE InputBroken
  BY <1>5 DEF ProcessTypeOK, InputBroken, runnerVars, treeVars, scopeVars,
     WriterStates
<1> QED
  BY <1>1, <1>2, <1>3, <1>4, <1>5 DEF ThreadStep

(* The types, whatever step of the scope and the deadline.                 *)
LEMMA ScopeStepTyped ==
  ASSUME ProcessTypeOK, UNCHANGED call, ScopeStep PROVE ProcessTypeOK'
<1>1. CASE Ask
  BY <1>1 DEF ProcessTypeOK, Ask, runnerVars, treeVars, threadVars, CancellerStates
<1>2. CASE ListResources
  BY <1>2 DEF ProcessTypeOK, ListResources, runnerVars, treeVars, threadVars,
     CancellerStates
<1>3. CASE CancellerTakes
  BY <1>3 DEF ProcessTypeOK, CancellerTakes, runnerVars, treeVars, threadVars,
     Slots, CancellerStates
<1>4. CASE CancellerKills
  BY <1>4 DEF ProcessTypeOK, CancellerKills, Killed, KillRefused, runnerVars,
     treeVars, threadVars, Slots, LeaderStates, DescendantStates, CancellerStates
<1>5. CASE CloseScope
  BY <1>5 DEF ProcessTypeOK, CloseScope, runnerVars, treeVars, threadVars,
     CloserStates
<1>6. CASE CloserTakes
  BY <1>6 DEF ProcessTypeOK, CloserTakes, runnerVars, treeVars, threadVars, Slots,
     CloserStates
<1>7. CASE CloserKills
  BY <1>7 DEF ProcessTypeOK, CloserKills, Killed, KillRefused, runnerVars,
     treeVars, threadVars, Slots, LeaderStates, DescendantStates, CloserStates
<1> QED
  BY <1>1, <1>2, <1>3, <1>4, <1>5, <1>6, <1>7 DEF ScopeStep

(* The other parts, whatever step of the running thread.                   *)
LEMMA RunnerStepKeeps ==
  ASSUME ProcessInv, UNCHANGED call, RunnerStep PROVE ProcessInv'
<1> DEFINE Parts == /\ Unspawned /\ Whereabouts /\ Takers /\ Reaped
                    /\ Permitted /\ Asked /\ Read /\ Exited
<1> USE DEF Unspawned, Whereabouts, Takers, Reaped, Permitted, Asked, Read, Exited,
   Settled, BlamedForCause, Live, Runtime, Mine, Waiting, Joining, Over, Streams
<1>0. ProcessTypeOK /\ Parts /\ ProcessTypeOK'
  BY RunnerStepTyped DEF ProcessInv
<1>1. ASSUME Admit PROVE Parts'
  BY <1>0, <1>1 DEF ProcessTypeOK, Admit, treeVars, threadVars, scopeVars
<1>2. ASSUME PrepareFails PROVE Parts'
  BY <1>0, <1>2 DEF ProcessTypeOK, PrepareFails, treeVars, threadVars, scopeVars
<1>3. ASSUME Spawn PROVE Parts'
  BY <1>0, <1>3 DEF ProcessTypeOK, Spawn, Goto, threadVars, scopeVars
<1>4. ASSUME SpawnFails PROVE Parts'
  BY <1>0, <1>4 DEF ProcessTypeOK, SpawnFails, Fail, treeVars, threadVars,
     scopeVars
<1>5. ASSUME Register PROVE Parts'
  BY <1>0, <1>5 DEF ProcessTypeOK, Register, Goto, treeVars, threadVars, scopeVars
<1>6. ASSUME NEW s \in Streams, StartReader(s) PROVE Parts'
  BY <1>0, <1>6 DEF ProcessTypeOK, StartReader, Goto, treeVars, scopeVars
<1>7. ASSUME NEW s \in Streams, JoinReader(s) PROVE Parts'
  <2>1. reader[s] \in {"none", "done", "over", "failed"}
    BY <1>0, <1>7 DEF ProcessTypeOK, ReaderStates, JoinReader
  <2>2. CASE reader[s] \in {"over", "failed"}
    BY <1>0, <1>7, <2>2 DEF ProcessTypeOK, JoinReader, Goto, Fail, treeVars, threadVars, scopeVars
  <2>3. CASE reader[s] \in {"none", "done"}
    BY <1>0, <1>7, <2>3 DEF ProcessTypeOK, JoinReader, Goto, Fail, treeVars, threadVars, scopeVars
  <2> QED
    BY <2>1, <2>2, <2>3
<1>8. ASSUME StartWriter PROVE Parts'
  BY <1>0, <1>8 DEF ProcessTypeOK, StartWriter, Goto, Fail, treeVars, scopeVars
<1>9. ASSUME LookAtToken PROVE Parts'
  BY <1>0, <1>9 DEF ProcessTypeOK, LookAtToken, treeVars, threadVars, scopeVars
<1>10. ASSUME TryWait PROVE Parts'
  BY <1>0, <1>10 DEF ProcessTypeOK, TryWait, Goto, Fail, treeVars, threadVars,
     scopeVars
<1>11. ASSUME WaitUntil PROVE Parts'
  BY <1>0, <1>11 DEF ProcessTypeOK, WaitUntil, treeVars, threadVars, scopeVars
<1>12. ASSUME TakeToTerminate PROVE Parts'
  BY <1>0, <1>12 DEF ProcessTypeOK, TakeToTerminate, Goto, Fail, treeVars,
     threadVars, scopeVars
<1>13. ASSUME Kill PROVE Parts'
  BY <1>0, <1>13 DEF ProcessTypeOK, Kill, Goto, Fail, Killed, KillRefused,
     treeVars, threadVars, scopeVars
<1>14. ASSUME JoinWriter PROVE Parts'
  BY <1>0, <1>14 DEF ProcessTypeOK, JoinWriter, Fail, treeVars, threadVars,
     scopeVars
<1>15. ASSUME Finish PROVE Parts'
  BY <1>0, <1>15 DEF ProcessTypeOK, Finish, treeVars, threadVars, scopeVars
<1> HIDE DEF Unspawned, Whereabouts, Takers, Reaped, Permitted, Asked, Read,
     Exited
<1> QED
  BY <1>0, <1>1, <1>2, <1>3, <1>4, <1>5, <1>6, <1>7, <1>8, <1>9, <1>10, <1>11,
     <1>12, <1>13, <1>14, <1>15 DEF RunnerStep, ProcessInv

(* The other parts, whatever step of the process tree.                     *)
LEMMA TreeStepKeeps ==
  ASSUME ProcessInv, UNCHANGED call, TreeStep PROVE ProcessInv'
<1> DEFINE Parts == /\ Unspawned /\ Whereabouts /\ Takers /\ Reaped
                    /\ Permitted /\ Asked /\ Read /\ Exited
<1> USE DEF Unspawned, Whereabouts, Takers, Reaped, Permitted, Asked, Read, Exited,
   Settled, BlamedForCause, Live, Runtime, Mine, Waiting, Joining, Over, Streams
<1>0. ProcessTypeOK /\ Parts /\ ProcessTypeOK'
  BY TreeStepTyped DEF ProcessInv
<1>1. ASSUME NEW s \in Streams, LeaderWrites(s) PROVE Parts'
  BY <1>0, <1>1 DEF ProcessTypeOK, LeaderWrites, Unread, runnerVars, threadVars,
     scopeVars
<1>2. ASSUME LeaderEnds PROVE Parts'
  BY <1>0, <1>2 DEF ProcessTypeOK, LeaderEnds, runnerVars, threadVars, scopeVars
<1>3. ASSUME LeaderCrashes PROVE Parts'
  BY <1>0, <1>3 DEF ProcessTypeOK, LeaderCrashes, runnerVars, threadVars, scopeVars
<1>4. ASSUME Fork PROVE Parts'
  BY <1>0, <1>4 DEF ProcessTypeOK, Fork, runnerVars, threadVars, scopeVars
<1>5. ASSUME Detach PROVE Parts'
  BY <1>0, <1>5 DEF ProcessTypeOK, Detach, runnerVars, threadVars, scopeVars
<1>6. ASSUME DescendantEnds PROVE Parts'
  BY <1>0, <1>6 DEF ProcessTypeOK, DescendantEnds, runnerVars, threadVars,
     scopeVars
<1> HIDE DEF Unspawned, Whereabouts, Takers, Reaped, Permitted, Asked, Read,
     Exited
<1> QED
  BY <1>0, <1>1, <1>2, <1>3, <1>4, <1>5, <1>6 DEF TreeStep, ProcessInv

(* The other parts, whatever step of the threads of the pipes.             *)
LEMMA ThreadStepKeeps ==
  ASSUME ProcessInv, UNCHANGED call, ThreadStep PROVE ProcessInv'
<1> DEFINE Parts == /\ Unspawned /\ Whereabouts /\ Takers /\ Reaped
                    /\ Permitted /\ Asked /\ Read /\ Exited
<1> USE DEF Unspawned, Whereabouts, Takers, Reaped, Permitted, Asked, Read, Exited,
   Settled, BlamedForCause, Live, Runtime, Mine, Waiting, Joining, Over, Streams
<1>0. ProcessTypeOK /\ Parts /\ ProcessTypeOK'
  BY ThreadStepTyped DEF ProcessInv
<1>1. ASSUME NEW s \in Streams, ReadChunk(s) PROVE Parts'
  BY <1>0, <1>1 DEF ProcessTypeOK, ReadChunk, runnerVars, scopeVars
<1>2. ASSUME NEW s \in Streams, ReadEnd(s) PROVE Parts'
  BY <1>0, <1>2 DEF ProcessTypeOK, ReadEnd, runnerVars, treeVars, scopeVars, Held
<1>3. ASSUME NEW s \in Streams, ForwardFails(s) PROVE Parts'
  BY <1>0, <1>3 DEF ProcessTypeOK, ForwardFails, runnerVars, scopeVars
<1>4. ASSUME InputWritten PROVE Parts'
  BY <1>0, <1>4 DEF ProcessTypeOK, InputWritten, runnerVars, treeVars, scopeVars,
     Held
<1>5. ASSUME InputBroken PROVE Parts'
  BY <1>0, <1>5 DEF ProcessTypeOK, InputBroken, runnerVars, treeVars, scopeVars,
     Held
<1> HIDE DEF Unspawned, Whereabouts, Takers, Reaped, Permitted, Asked, Read,
     Exited
<1> QED
  BY <1>0, <1>1, <1>2, <1>3, <1>4, <1>5 DEF ThreadStep, ProcessInv

(* The other parts, whatever step of the scope and the deadline.           *)
LEMMA ScopeStepKeeps ==
  ASSUME ProcessInv, UNCHANGED call, ScopeStep PROVE ProcessInv'
<1> DEFINE Parts == /\ Unspawned /\ Whereabouts /\ Takers /\ Reaped
                    /\ Permitted /\ Asked /\ Read /\ Exited
<1> USE DEF Unspawned, Whereabouts, Takers, Reaped, Permitted, Asked, Read, Exited,
   Settled, BlamedForCause, Live, Runtime, Mine, Waiting, Joining, Over, Streams
<1>0. ProcessTypeOK /\ Parts /\ ProcessTypeOK'
  BY ScopeStepTyped DEF ProcessInv
<1>1. ASSUME Ask PROVE Parts'
  BY <1>0, <1>1 DEF ProcessTypeOK, Ask, runnerVars, treeVars, threadVars
<1>2. ASSUME ListResources PROVE Parts'
  BY <1>0, <1>2 DEF ProcessTypeOK, ListResources, runnerVars, treeVars, threadVars
<1>3. ASSUME CancellerTakes PROVE Parts'
  BY <1>0, <1>3 DEF ProcessTypeOK, CancellerTakes, runnerVars, treeVars, threadVars
<1>4. ASSUME CancellerKills PROVE Parts'
  BY <1>0, <1>4 DEF ProcessTypeOK, CancellerKills, Killed, KillRefused, runnerVars,
     treeVars, threadVars
<1>5. ASSUME CloseScope PROVE Parts'
  BY <1>0, <1>5 DEF ProcessTypeOK, CloseScope, runnerVars, treeVars, threadVars
<1>6. ASSUME CloserTakes PROVE Parts'
  BY <1>0, <1>6 DEF ProcessTypeOK, CloserTakes, runnerVars, treeVars, threadVars
<1>7. ASSUME CloserKills PROVE Parts'
  BY <1>0, <1>7 DEF ProcessTypeOK, CloserKills, Killed, KillRefused, runnerVars,
     treeVars, threadVars
<1> HIDE DEF Unspawned, Whereabouts, Takers, Reaped, Permitted, Asked, Read,
     Exited
<1> QED
  BY <1>0, <1>1, <1>2, <1>3, <1>4, <1>5, <1>6, <1>7 DEF ScopeStep, ProcessInv

(* At the start there is no child.                                         *)
LEMMA ProcessInitially == ProcessInit => ProcessInv
<1>1. ProcessInit => ProcessTypeOK
  <2>1. ProcessInit => unwritten \in [Streams -> 0..MaxOutput]
    BY CallAssumption DEF ProcessInit
  <2> QED
    BY <2>1 DEF ProcessInit, ProcessTypeOK, Places, Outcomes, Slots, LeaderStates,
       DescendantStates, ReaderStates, WriterStates, CancellerStates, CloserStates
<1>2. ProcessInit => Unspawned /\ Whereabouts /\ Takers /\ Reaped /\ Permitted /\ Asked
  BY DEF ProcessInit, Unspawned, Whereabouts, Takers, Reaped, Live, Permitted, Asked,
     BlamedForCause, Runtime, Waiting, Joining, Over, Streams
<1>3. ProcessInit => Read /\ Exited
  BY DEF ProcessInit, Read, Exited, Settled, Waiting, Joining, Over, Streams
<1> QED
  BY <1>1, <1>2, <1>3 DEF ProcessInv

(* Every step, of whichever thread or process.                             *)
LEMMA ProcessStepwise == ProcessInv /\ [ProcessNext]_processVars => ProcessInv'
<1> SUFFICES ASSUME ProcessInv, [ProcessNext]_processVars PROVE ProcessInv'
  OBVIOUS
<1>1. CASE UNCHANGED processVars
  <2>1. UNCHANGED <<call, runner, outcome, stopped, permit, tidied, slot, leader, descendant,
                    unwritten, full, reader, writer, asked, canceller, closer, unkillable>>
    BY <1>1 DEF processVars, runnerVars, treeVars, threadVars, scopeVars
  <2> QED
    BY <2>1 DEF ProcessInv, ProcessTypeOK, Unspawned, Whereabouts, Takers, Reaped, Permitted,
       Asked, Read, Exited, Settled, BlamedForCause, Live, Runtime, Mine
<1>2. CASE ProcessNext
  BY <1>2, RunnerStepKeeps, TreeStepKeeps, ThreadStepKeeps, ScopeStepKeeps DEF ProcessNext
<1> QED
  BY <1>1, <1>2

(* A process tree that lives belongs to somebody who will terminate it,    *)
(* under a permit, and an answer that is no error is whole and for its     *)
(* cause, whatever the tree does and whoever cancels the run or closes its *)
(* scope meanwhile (run_child_process, run_supervised_command).            *)
THEOREM ProcessesAreOwned == ProcessSpec => []ProcessSound
<1>1. ProcessInv => ProcessSound
  <2>1. ProcessInv => TreeOwned
    BY DEF ProcessInv, ProcessTypeOK, TreeOwned, Unspawned, Whereabouts, Takers, Reaped, Live,
       Waiting, Joining, Over, Runtime, Places
  <2>2. ProcessInv => PermitCovers
    BY DEF ProcessInv, ProcessTypeOK, PermitCovers, Unspawned, Whereabouts, Takers, Reaped,
       Permitted, Live, Waiting, Joining, Over, Places
  <2> QED
    BY <2>1, <2>2 DEF ProcessInv, ProcessSound, Exited, Asked
<1> QED
  BY <1>1, ProcessInitially, ProcessStepwise, PTL DEF ProcessSpec

-----------------------------------------------------------------------------
(* The sweep of the dependencies of declarations.                          *)

(* What has been taken away: nothing is unresolved, and it left the queue. *)
Swept == {d \in Declarations : unresolved[d] = 0} \ ready

(* A counter counts the dependencies that have not been taken away.        *)
CountsExact ==
  \A d \in Declarations : unresolved[d] = Cardinality(dependencies[d] \ Swept)
ReadyResolved == \A d \in ready : unresolved[d] = 0

SweepInv == SweepTypeOK /\ CountsExact /\ ReadyResolved

(* Dependencies are finitely many, and none is left exactly when the count *)
(* is zero.                                                                *)
LEMMA CountZero ==
  ASSUME NEW D \in SUBSET Declarations
  PROVE  /\ IsFiniteSet(D)
         /\ Cardinality(D) \in Nat
         /\ Cardinality(D) = 0 <=> D = {}
<1>1. IsFiniteSet(D)
  BY DeclarationsFinite, FS_Subset
<1> QED
  BY <1>1, FS_CardinalityType, FS_EmptySet

(* Taking a member away lowers the count by one.                           *)
LEMMA CountLess ==
  ASSUME NEW D \in SUBSET Declarations, NEW d \in D
  PROVE  Cardinality(D \ {d}) = Cardinality(D) - 1
BY CountZero, FS_RemoveElement

LEMMA SweepInitInv == SweepInit => SweepInv
<1> SUFFICES ASSUME SweepInit PROVE SweepInv
  OBVIOUS
<1>1. SweepTypeOK
  <2>1. \A d \in Declarations : Cardinality(dependencies[d]) \in Nat
    BY CountZero DEF SweepInit
  <2> QED
    BY <2>1 DEF SweepInit, SweepTypeOK
<1>2. Swept = {}
  BY DEF SweepInit, Swept
<1>3. CountsExact
  <2>1. \A d \in Declarations : dependencies[d] \ Swept = dependencies[d]
    BY <1>2
  <2> QED
    BY <2>1 DEF SweepInit, CountsExact
<1>4. ReadyResolved
  BY DEF SweepInit, ReadyResolved
<1> QED
  BY <1>1, <1>3, <1>4 DEF SweepInv

(* One round of the sweep: exactly one declaration more is taken away, and *)
(* its dependents had counted it.                                          *)
LEMMA SweepStep == SweepInv /\ [Sweep]_sweepVars => SweepInv'
<1> SUFFICES ASSUME SweepInv, [Sweep]_sweepVars PROVE SweepInv'
  OBVIOUS
<1>1. CASE Sweep
  <2>1. PICK d \in ready : Resolve(d) /\ UNCHANGED dependencies
    BY <1>1 DEF Sweep
  <2>2. d \in Declarations /\ d \notin Swept /\ unresolved[d] = 0
    BY DEF SweepInv, SweepTypeOK, ReadyResolved, Swept
  <2>3. \A e \in Dependents(d) : unresolved[e] \in Nat \ {0}
    <3> SUFFICES ASSUME NEW e \in Dependents(d) PROVE unresolved[e] \in Nat \ {0}
      OBVIOUS
    <3>1. e \in Declarations /\ d \in dependencies[e] \ Swept
      BY <2>2 DEF Dependents
    <3>2. dependencies[e] \ Swept \in SUBSET Declarations
      BY <3>1 DEF SweepInv, SweepTypeOK
    <3>3. Cardinality(dependencies[e] \ Swept) # 0
      BY <3>1, <3>2, CountZero
    <3> QED
      BY <3>1, <3>3 DEF SweepInv, SweepTypeOK, CountsExact
  <2>4. \A e \in Declarations :
          unresolved'[e] = IF e \in Dependents(d) THEN unresolved[e] - 1 ELSE unresolved[e]
    BY <2>1 DEF Resolve
  <2>5. ready' = (ready \ {d}) \cup {e \in Dependents(d) : unresolved'[e] = 0}
    BY <2>1 DEF Resolve
  <2>6. SweepTypeOK'
    <3>1. \A e \in Declarations : unresolved'[e] \in Nat
      BY <2>3, <2>4 DEF SweepInv, SweepTypeOK
    <3>2. unresolved' \in [Declarations -> Nat]
      BY <2>1, <3>1 DEF Resolve
    <3>3. ready' \in SUBSET Declarations
      BY <2>5 DEF Dependents, SweepInv, SweepTypeOK
    <3> QED
      BY <2>1, <3>2, <3>3 DEF SweepInv, SweepTypeOK
  <2>7. Swept' = Swept \cup {d}
    <3>1. d \notin Dependents(d)
      BY <2>2, <2>3
    <3>2. ASSUME NEW e \in Declarations
          PROVE  e \in Swept' <=> e \in Swept \/ e = d
      <4>1. CASE e \in Dependents(d)
        <5>1. unresolved[e] # 0 /\ e # d
          BY <4>1, <2>3, <3>1
        <5>2. e \notin Swept /\ e \notin Swept'
          BY <5>1, <4>1, <2>5 DEF Swept
        <5> QED
          BY <5>1, <5>2
      <4>2. CASE e \notin Dependents(d)
        <5>1. unresolved'[e] = unresolved[e]
          BY <4>2, <2>4
        <5>2. e \in ready' <=> e \in ready /\ e # d
          BY <4>2, <2>5
        <5> QED
          BY <5>1, <5>2, <2>2 DEF Swept
      <4> QED
        BY <4>1, <4>2
    <3>3. Swept \subseteq Declarations /\ Swept' \subseteq Declarations
      BY DEF Swept
    <3> QED
      BY <3>2, <3>3, <2>2
  <2>8. CountsExact'
    <3> SUFFICES ASSUME NEW e \in Declarations
                 PROVE  unresolved'[e] = Cardinality(dependencies'[e] \ Swept')
      BY DEF CountsExact
    <3>1. dependencies'[e] \ Swept' = (dependencies[e] \ Swept) \ {d}
      BY <2>1, <2>7
    <3>2. dependencies[e] \ Swept \in SUBSET Declarations
      BY DEF SweepInv, SweepTypeOK
    <3>3. unresolved[e] = Cardinality(dependencies[e] \ Swept)
      BY DEF SweepInv, CountsExact
    <3>4. CASE e \in Dependents(d)
      <4>1. d \in dependencies[e] \ Swept
        BY <3>4, <2>2 DEF Dependents
      <4>2. Cardinality((dependencies[e] \ Swept) \ {d})
              = Cardinality(dependencies[e] \ Swept) - 1
        BY <3>2, <4>1, CountLess
      <4> QED
        BY <3>4, <4>2, <3>1, <3>3, <2>4
    <3>5. CASE e \notin Dependents(d)
      <4>1. (dependencies[e] \ Swept) \ {d} = dependencies[e] \ Swept
        BY <3>5 DEF Dependents
      <4> QED
        BY <3>5, <4>1, <3>1, <3>3, <2>4
    <3> QED
      BY <3>4, <3>5
  <2>9. ReadyResolved'
    <3> SUFFICES ASSUME NEW e \in ready' PROVE unresolved'[e] = 0
      BY DEF ReadyResolved
    <3>1. CASE e \in Dependents(d) /\ unresolved'[e] = 0
      BY <3>1
    <3>2. CASE e \in ready
      <4>1. unresolved[e] = 0 /\ e \in Declarations
        BY <3>2 DEF SweepInv, SweepTypeOK, ReadyResolved
      <4>2. e \notin Dependents(d)
        BY <4>1, <2>3
      <4> QED
        BY <4>1, <4>2, <2>4
    <3> QED
      BY <3>1, <3>2, <2>5
  <2> QED
    BY <2>6, <2>8, <2>9 DEF SweepInv
<1>2. CASE UNCHANGED sweepVars
  BY <1>2 DEF sweepVars, SweepInv, SweepTypeOK, CountsExact, ReadyResolved, Swept
<1> QED
  BY <1>1, <1>2

----------------------------------------------------------------------------

(* No declaration of a stuck set is ever ready: it waits for another one.  *)
StuckKept == \A S \in SUBSET Declarations : Stuck(S) => S \subseteq Blocked

(* A dependency that has not been taken away keeps the counter above zero. *)
LEMMA WaitsForOther ==
  ASSUME SweepInv, NEW d \in Declarations, NEW e \in dependencies[d], e \notin Swept
  PROVE  d \in Blocked
<1>1. dependencies[d] \ Swept \in SUBSET Declarations
  BY DEF SweepInv, SweepTypeOK
<1>2. Cardinality(dependencies[d] \ Swept) # 0
  BY <1>1, CountZero
<1> QED
  BY <1>2 DEF SweepInv, SweepTypeOK, CountsExact, Blocked

LEMMA StuckInit == SweepInit => StuckKept
<1> SUFFICES ASSUME SweepInit,
                    NEW S \in SUBSET Declarations, Stuck(S),
                    NEW d \in S
             PROVE  d \in Blocked
  BY DEF StuckKept
<1>1. SweepInv
  BY SweepInitInv
<1>2. PICK e \in dependencies[d] : e \in S
  BY DEF Stuck
<1>3. Swept = {}
  BY DEF SweepInit, Swept
<1> QED
  BY <1>1, <1>2, <1>3, WaitsForOther

(* What is taken away was ready, so it is in no stuck set; a member of one *)
(* still has the dependency in the set that it had before.                 *)
LEMMA StuckStep == SweepInv /\ StuckKept /\ [Sweep]_sweepVars => StuckKept'
<1> SUFFICES ASSUME SweepInv, StuckKept, [Sweep]_sweepVars PROVE StuckKept'
  OBVIOUS
<1>0. SweepInv'
  BY SweepStep
<1>1. CASE Sweep
  <2>1. PICK d \in ready : Resolve(d) /\ UNCHANGED dependencies
    BY <1>1 DEF Sweep
  <2> SUFFICES ASSUME NEW S \in SUBSET Declarations, Stuck(S)', NEW e \in S
               PROVE  (e \in Blocked)'
    BY DEF StuckKept
  <2>2. Stuck(S) /\ S \subseteq Blocked
    BY <2>1 DEF Stuck, StuckKept
  <2>3. PICK f \in dependencies[e] : f \in S
    BY <2>2 DEF Stuck
  <2>4. f \in Declarations /\ unresolved[f] > 0
    BY <2>2, <2>3 DEF Blocked
  <2>5. unresolved[d] = 0 /\ d \in Declarations
    BY DEF SweepInv, SweepTypeOK, ReadyResolved
  <2>6. f # d /\ f \notin Swept
    BY <2>4, <2>5 DEF Swept
  <2>7. (f \notin Swept)'
    <3>1. CASE f \in Dependents(d)
      <4>1. unresolved'[f] = 0 => f \in ready'
        BY <2>1, <3>1 DEF Resolve
      <4> QED
        BY <4>1 DEF Swept
    <3>2. CASE f \notin Dependents(d)
      <4>1. unresolved'[f] = unresolved[f]
        BY <2>1, <2>4, <3>2 DEF Resolve
      <4> QED
        BY <4>1, <2>4 DEF Swept
    <3> QED
      BY <3>1, <3>2
  <2>8. (f \in dependencies[e])'
    BY <2>1, <2>3
  <2>9. (dependencies[e] \ Swept)' \in SUBSET Declarations
    BY <1>0 DEF SweepInv, SweepTypeOK
  <2>10. Cardinality(dependencies'[e] \ Swept') # 0
    BY <2>7, <2>8, <2>9, CountZero
  <2> QED
    BY <1>0, <2>10 DEF SweepInv, SweepTypeOK, CountsExact, Blocked
<1>2. CASE UNCHANGED sweepVars
  BY <1>2 DEF sweepVars, StuckKept, Stuck, Blocked
<1> QED
  BY <1>1, <1>2

(* The sweep has stopped: who is left waits for somebody who is left.      *)
LEMMA SweepComplete == SweepInv /\ ready = {} => Stuck(Blocked)
<1> SUFFICES ASSUME SweepInv, ready = {}, NEW d \in Blocked
             PROVE  dependencies[d] \cap Blocked # {}
  BY DEF Stuck
<1>1. d \in Declarations /\ unresolved[d] # 0
  BY DEF Blocked
<1>2. Cardinality(dependencies[d] \ Swept) # 0
  BY <1>1 DEF SweepInv, CountsExact
<1>3. dependencies[d] \ Swept \in SUBSET Declarations
  BY <1>1 DEF SweepInv, SweepTypeOK
<1>4. PICK e \in dependencies[d] : e \notin Swept
  BY <1>2, <1>3, CountZero
<1>5. e \in Declarations /\ unresolved[e] # 0 /\ unresolved[e] \in Nat
  BY <1>3, <1>4 DEF Swept, SweepInv, SweepTypeOK
<1> QED
  BY <1>4, <1>5 DEF Blocked

(* A program's declarations are refused if and only if they are cyclic.    *)
THEOREM CyclesAreFound == SweepSpec => []CyclesFound
<1>1. SweepInit => SweepInv /\ StuckKept
  BY SweepInitInv, StuckInit
<1>2. SweepInv /\ StuckKept /\ [Sweep]_sweepVars => (SweepInv /\ StuckKept)'
  BY SweepStep, StuckStep
<1>3. SweepInv /\ StuckKept => CyclesFound
  BY SweepComplete DEF CyclesFound, StuckKept
<1> QED
  BY <1>1, <1>2, <1>3, PTL DEF SweepSpec

-----------------------------------------------------------------------------
(* The workers of a differential batch.                                    *)

Holding == {"look", "run", "lower", "store"}

TakenBelow == \A w \in Workers : place[w] # "take" => index[w] < next

Ranged ==
  \A w \in Workers :
    /\ place[w] \in {"run", "lower", "store"} => index[w] \in Cases
    /\ place[w] \in {"lower", "store"} => caseResult[w] # "none"

(* A case that was taken has a result, or a worker, or is not needed.       *)
AllAccounted ==
  \A i \in Cases :
    i < next => \/ slots[i] # "none"
                \/ i > firstFailure
                \/ \E w \in Workers : place[w] \in Holding /\ index[w] = i

(* A worker leaves only when every case that is needed has been taken.     *)
LeftLate == \A w \in Workers : place[w] = "joined" => firstFailure < next

Truthful ==
  intact =>
    /\ \A i \in Cases : /\ slots[i] = "error" => i \in failing /\ firstFailure <= i
                        /\ slots[i] = "ok" => i \notin failing
    /\ \A w \in Workers :
         /\ place[w] \in {"lower", "store"} =>
              (caseResult[w] = "error" <=> index[w] \in failing)
         /\ place[w] = "store" /\ caseResult[w] = "error" => firstFailure <= index[w]

(* The lowest known failure is kept in its slot, or is about to be.        *)
FailureKept ==
  intact /\ firstFailure < CaseCount =>
    \/ slots[firstFailure] = "error"
    \/ \E w \in Workers :
         place[w] = "store" /\ index[w] = firstFailure /\ caseResult[w] = "error"

BatchInv ==
  /\ BatchTypeOK /\ TakenBelow /\ Ranged /\ AllAccounted /\ LeftLate
  /\ Truthful /\ FailureKept /\ LowestFailureReported

LEMMA BatchInitInv == BatchInit => BatchInv
BY BatchAssumption
DEF BatchInit, BatchInv, BatchTypeOK, TakenBelow, Ranged, AllAccounted, LeftLate,
    Truthful, FailureKept, LowestFailureReported, Cases, Pending, Configuration

LEMMA TakeStep ==
  ASSUME BatchInv, NEW w \in Workers, Take(w)
  PROVE  BatchInv'
<1> USE BatchAssumption DEF Take, MoveTo, Cases
<1>1. BatchTypeOK'
  BY DEF BatchInv, BatchTypeOK
<1>2. TakenBelow' /\ Ranged' /\ LeftLate'
  BY DEF BatchInv, BatchTypeOK, TakenBelow, Ranged, LeftLate
<1>3. AllAccounted'
  <2> SUFFICES ASSUME NEW i \in Cases, i < next'
               PROVE  \/ slots'[i] # "none"
                      \/ i > firstFailure'
                      \/ \E v \in Workers : place'[v] \in Holding /\ index'[v] = i
    BY DEF AllAccounted
  <2>1. CASE i = next
    <3>1. place'[w] \in Holding /\ index'[w] = i
      BY <2>1 DEF BatchInv, BatchTypeOK, Holding
    <3> QED
      BY <3>1
  <2>2. CASE i < next
    <3>1. ASSUME NEW v \in Workers, place[v] \in Holding, index[v] = i
          PROVE  place'[v] \in Holding /\ index'[v] = i
      BY <3>1 DEF BatchInv, BatchTypeOK, Holding
    <3> QED
      BY <2>2, <3>1 DEF BatchInv, AllAccounted
  <2> QED
    BY <2>1, <2>2 DEF BatchInv, BatchTypeOK
<1>4. Truthful'
  BY DEF BatchInv, BatchTypeOK, Truthful
<1>5. FailureKept'
  BY DEF BatchInv, BatchTypeOK, FailureKept
<1>6. LowestFailureReported'
  BY DEF BatchInv, LowestFailureReported
<1> QED
  BY <1>1, <1>2, <1>3, <1>4, <1>5, <1>6 DEF BatchInv

LEMMA LeaveStep ==
  ASSUME BatchInv, NEW w \in Workers, Leave(w)
  PROVE  BatchInv'
<1> USE BatchAssumption DEF Leave, MoveTo, Cases
<1>1. BatchTypeOK'
  BY DEF BatchInv, BatchTypeOK
<1>2. TakenBelow' /\ Ranged'
  BY DEF BatchInv, BatchTypeOK, TakenBelow, Ranged
<1>3. AllAccounted'
  <2> SUFFICES ASSUME NEW i \in Cases, i < next
               PROVE  \/ slots[i] # "none"
                      \/ i > firstFailure
                      \/ \E v \in Workers : place'[v] \in Holding /\ index[v] = i
    BY DEF AllAccounted
  <2>1. CASE index[w] = i
    BY <2>1 DEF MayLeave, BatchInv, BatchTypeOK
  <2>2. CASE index[w] # i
    <3>1. ASSUME NEW v \in Workers, place[v] \in Holding, index[v] = i
          PROVE  place'[v] \in Holding
      BY <2>2, <3>1 DEF BatchInv, BatchTypeOK
    <3> QED
      BY <3>1 DEF BatchInv, AllAccounted
  <2> QED
    BY <2>1, <2>2
<1>4. LeftLate'
  <2>1. index[w] >= CaseCount \/ index[w] > firstFailure
    BY DEF MayLeave
  <2>2. place[w] = "look"
    OBVIOUS
  <2>3. index[w] < next /\ index[w] \in Nat /\ next \in Nat /\ firstFailure \in 0..CaseCount
    BY <2>2 DEF BatchInv, BatchTypeOK, TakenBelow
  <2>4. firstFailure < next
    BY ONLY <2>1, <2>3, BatchAssumption
  <2> QED
    BY <2>4 DEF LeftLate
<1>5. Truthful'
  BY DEF BatchInv, BatchTypeOK, Truthful
<1>6. FailureKept'
  BY DEF BatchInv, BatchTypeOK, FailureKept
<1>7. LowestFailureReported'
  BY DEF BatchInv, LowestFailureReported
<1> QED
  BY <1>1, <1>2, <1>3, <1>4, <1>5, <1>6, <1>7 DEF BatchInv

(* The case is run, or refused because an executable was exchanged: what   *)
(* is known of the others does not change.                                 *)
LEMMA RunStep ==
  ASSUME BatchInv, NEW w \in Workers, Guard(w) \/ RunCase(w)
  PROVE  BatchInv'
<1> USE BatchAssumption DEF Guard, RunCase, MoveTo, Cases
<1>1. BatchTypeOK'
  BY DEF BatchInv, BatchTypeOK
<1>2. TakenBelow' /\ LeftLate'
  BY DEF BatchInv, BatchTypeOK, TakenBelow, LeftLate
<1>3. Ranged'
  BY DEF BatchInv, BatchTypeOK, Ranged
<1>4. AllAccounted'
  <2>1. ASSUME NEW v \in Workers, place[v] \in Holding
        PROVE  place'[v] \in Holding
    BY <2>1 DEF BatchInv, BatchTypeOK, Holding
  <2> QED
    BY <2>1 DEF BatchInv, AllAccounted
<1>5. Truthful'
  BY DEF BatchInv, BatchTypeOK, Truthful
<1>6. FailureKept'
  BY DEF BatchInv, BatchTypeOK, FailureKept
<1>7. LowestFailureReported'
  BY DEF BatchInv, LowestFailureReported
<1> QED
  BY <1>1, <1>2, <1>3, <1>4, <1>5, <1>6, <1>7 DEF BatchInv

(* The index of the first failure only falls, and to a failure.            *)
LEMMA LowerStep ==
  ASSUME BatchInv, NEW w \in Workers, Lower(w)
  PROVE  BatchInv'
<1> USE BatchAssumption DEF Lower, Lowered, MoveTo, Cases
<1>1. BatchTypeOK'
  BY DEF BatchInv, BatchTypeOK, Ranged
<1>2. firstFailure' <= firstFailure
  BY DEF BatchInv, BatchTypeOK
<1>3. TakenBelow' /\ Ranged'
  BY DEF BatchInv, BatchTypeOK, TakenBelow, Ranged
<1>4. LeftLate'
  BY <1>1, <1>2 DEF BatchInv, BatchTypeOK, LeftLate
<1>5. AllAccounted'
  <2>1. ASSUME NEW v \in Workers, place[v] \in Holding
        PROVE  place'[v] \in Holding
    BY <2>1 DEF BatchInv, BatchTypeOK, Holding
  <2> QED
    BY <1>1, <1>2, <2>1 DEF BatchInv, BatchTypeOK, AllAccounted
<1>6. Truthful'
  <2> SUFFICES ASSUME intact PROVE Truthful'
    BY DEF Truthful
  <2>1. \A i \in Cases : /\ slots[i] = "error" => i \in failing /\ firstFailure' <= i
                         /\ slots[i] = "ok" => i \notin failing
    BY <1>1, <1>2 DEF BatchInv, BatchTypeOK, Truthful
  <2>2. ASSUME NEW v \in Workers
        PROVE  /\ place'[v] \in {"lower", "store"} =>
                    (caseResult[v] = "error" <=> index[v] \in failing)
               /\ place'[v] = "store" /\ caseResult[v] = "error" => firstFailure' <= index[v]
    <3>1. CASE v = w
      BY <3>1 DEF BatchInv, BatchTypeOK, Truthful
    <3>2. CASE v # w
      BY <3>2, <1>1, <1>2 DEF BatchInv, BatchTypeOK, Truthful
    <3> QED
      BY <3>1, <3>2
  <2> QED
    BY <2>1, <2>2 DEF Truthful
<1>7. FailureKept'
  <2> SUFFICES ASSUME intact, firstFailure' < CaseCount
               PROVE  \/ slots[firstFailure'] = "error"
                      \/ \E v \in Workers : /\ place'[v] = "store"
                                            /\ index[v] = firstFailure'
                                            /\ caseResult[v] = "error"
    BY DEF FailureKept
  <2>1. CASE firstFailure' = firstFailure
    <3>1. ASSUME NEW v \in Workers, place[v] = "store"
          PROVE  place'[v] = "store"
      BY <3>1 DEF BatchInv, BatchTypeOK
    <3> QED
      BY <2>1, <3>1 DEF BatchInv, FailureKept
  <2>2. CASE firstFailure' # firstFailure
    <3>1. caseResult[w] = "error" /\ firstFailure' = index[w] /\ place'[w] = "store"
      BY <2>2 DEF BatchInv, BatchTypeOK
    <3> QED
      BY <3>1
  <2> QED
    BY <2>1, <2>2
<1>8. LowestFailureReported'
  BY DEF BatchInv, LowestFailureReported
<1> QED
  BY <1>1, <1>3, <1>4, <1>5, <1>6, <1>7, <1>8 DEF BatchInv

(* A result takes its slot, and agrees with what the slot may hold.        *)
LEMMA StoreStep ==
  ASSUME BatchInv, NEW w \in Workers, Store(w)
  PROVE  BatchInv'
<1> USE BatchAssumption DEF Store, MoveTo
<1>0. index[w] \in Cases /\ caseResult[w] \in {"ok", "error"}
  BY DEF BatchInv, BatchTypeOK, Ranged
<1>1. BatchTypeOK'
  BY <1>0 DEF BatchInv, BatchTypeOK
<1>2. \A i \in Cases : slots'[i] = IF i = index[w] THEN caseResult[w] ELSE slots[i]
  BY DEF BatchInv, BatchTypeOK
<1>3. TakenBelow' /\ Ranged' /\ LeftLate'
  BY DEF BatchInv, BatchTypeOK, TakenBelow, Ranged, LeftLate
<1>4. AllAccounted'
  <2>1. ASSUME NEW v \in Workers, place[v] \in Holding, v # w
        PROVE  place'[v] \in Holding
    BY <2>1 DEF BatchInv, BatchTypeOK
  <2> QED
    BY <1>0, <1>2, <2>1 DEF BatchInv, AllAccounted
<1>5. Truthful'
  <2> SUFFICES ASSUME intact PROVE Truthful'
    BY DEF Truthful
  <2>1. \A i \in Cases : /\ slots'[i] = "error" => i \in failing /\ firstFailure <= i
                         /\ slots'[i] = "ok" => i \notin failing
    BY <1>0, <1>2 DEF BatchInv, Truthful
  <2>2. ASSUME NEW v \in Workers
        PROVE  place'[v] \in {"lower", "store"} => place'[v] = place[v]
    BY DEF BatchInv, BatchTypeOK
  <2> QED
    BY <2>1, <2>2 DEF BatchInv, Truthful
<1>6. FailureKept'
  <2> SUFFICES ASSUME intact, firstFailure < CaseCount
               PROVE  \/ slots'[firstFailure] = "error"
                      \/ \E v \in Workers : /\ place'[v] = "store"
                                            /\ index[v] = firstFailure
                                            /\ caseResult[v] = "error"
    BY DEF FailureKept
  <2>0. firstFailure \in Cases
    BY DEF BatchInv, BatchTypeOK, Cases
  <2>1. CASE slots[firstFailure] = "error"
    BY <2>0, <2>1, <1>0, <1>2 DEF BatchInv, Truthful
  <2>2. ASSUME NEW v \in Workers, place[v] = "store", index[v] = firstFailure,
               caseResult[v] = "error"
        PROVE  slots'[firstFailure] = "error" \/ place'[v] = "store"
    <3>1. CASE v = w
      BY <2>0, <2>2, <3>1, <1>2
    <3>2. CASE v # w
      BY <2>2, <3>2 DEF BatchInv, BatchTypeOK
    <3> QED
      BY <3>1, <3>2
  <2> QED
    BY <2>1, <2>2 DEF BatchInv, FailureKept
<1>7. LowestFailureReported'
  BY DEF BatchInv, LowestFailureReported
<1> QED
  BY <1>1, <1>3, <1>4, <1>5, <1>6, <1>7 DEF BatchInv

(* When every worker has left, the slots up to the first failure are full, *)
(* and the first one that is no success is that failure.                   *)
LEMMA CollectStep ==
  ASSUME BatchInv, Conclude
  PROVE  BatchInv'
<1> USE BatchAssumption DEF Conclude
<1>1. BatchTypeOK' /\ TakenBelow' /\ Ranged' /\ AllAccounted' /\ LeftLate'
  BY DEF BatchInv, BatchTypeOK, TakenBelow, Ranged, AllAccounted, LeftLate
<1>2. Truthful' /\ FailureKept'
  BY DEF BatchInv, Truthful, FailureKept
<1>3. LowestFailureReported'
  <2>1. CASE ~intact
    BY <2>1 DEF LowestFailureReported
  <2>2. CASE intact
    <3>1. firstFailure < next /\ next \in Nat /\ firstFailure \in 0..CaseCount
      <4>1. PICK w \in Workers : place[w] = "joined"
        BY DEF AllJoined
      <4> QED
        BY <4>1 DEF BatchInv, BatchTypeOK, LeftLate
    <3>2. \A i \in Cases : i <= firstFailure => slots[i] \in {"ok", "error"}
      BY <3>1 DEF BatchInv, BatchTypeOK, AllAccounted, AllJoined, Holding, Cases
    <3>3. \A i \in Cases : i < firstFailure => slots[i] = "ok" /\ i \notin failing
      BY <2>2, <3>1, <3>2 DEF BatchInv, Truthful, Cases
    <3>4. CASE firstFailure = CaseCount
      <4>1. \A i \in Cases : slots[i] = "ok" /\ i \notin failing
        BY <3>3, <3>4 DEF Cases
      <4>2. failing = {}
        BY <4>1 DEF BatchInv, BatchTypeOK
      <4>3. report' = Passed
        BY <2>2, <4>1 DEF Stops
      <4> QED
        BY <4>2, <4>3 DEF LowestFailureReported
    <3>5. CASE firstFailure # CaseCount
      <4>1. firstFailure \in Cases /\ slots[firstFailure] = "error"
        BY <2>2, <3>1, <3>5 DEF BatchInv, FailureKept, AllJoined, Cases
      <4>2. firstFailure \in failing /\ \A j \in failing : firstFailure <= j
        BY <2>2, <3>1, <3>3, <4>1 DEF BatchInv, BatchTypeOK, Truthful, Cases
      <4>3. \A i \in Cases : Stops(i) => i = firstFailure
        BY <3>1, <3>3, <4>1 DEF Stops, Cases
      <4>4. report' = Failed(firstFailure)
        BY <2>2, <4>1, <4>3 DEF Collected
      <4> QED
        BY <4>2, <4>4 DEF LowestFailureReported
    <3> QED
      BY <3>4, <3>5
  <2> QED
    BY <2>1, <2>2
<1> QED
  BY <1>1, <1>2, <1>3 DEF BatchInv

LEMMA BatchStep == BatchInv /\ [BatchNext]_batchVars => BatchInv'
<1> SUFFICES ASSUME BatchInv, [BatchNext]_batchVars PROVE BatchInv'
  OBVIOUS
<1>1. ASSUME NEW w \in Workers, Worker(w) PROVE BatchInv'
  BY <1>1, TakeStep, LeaveStep, RunStep, LowerStep, StoreStep DEF Worker
<1>2. CASE Conclude
  BY <1>2, CollectStep
<1>3. CASE ReplaceExecutable
  BY <1>3 DEF ReplaceExecutable, BatchInv, BatchTypeOK, TakenBelow, Ranged, AllAccounted,
              LeftLate, Truthful, FailureKept, LowestFailureReported
<1>4. CASE UNCHANGED batchVars
  BY <1>4 DEF batchVars, BatchInv, BatchTypeOK, TakenBelow, Ranged, AllAccounted,
              LeftLate, Truthful, FailureKept, LowestFailureReported, Stops
<1> QED
  BY <1>1, <1>2, <1>3, <1>4 DEF BatchNext

(* However many cases and workers there are and however they interleave,   *)
(* run_differential_workers and collect_differential_batch report the      *)
(* lowest failing case, pass only when none fails, and never lose a slot.  *)
THEOREM BatchIsDeterministic == BatchSpec => []LowestFailureReported
<1>1. BatchInv => LowestFailureReported
  BY DEF BatchInv
<1> QED
  BY <1>1, BatchInitInv, BatchStep, PTL DEF BatchSpec
=============================================================================
