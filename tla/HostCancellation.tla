-------------------------- MODULE HostCancellation --------------------------
(***************************************************************************)
(* hell_http_host::Cancellation: a flag that is set once and a list of     *)
(* callbacks behind a mutex.  `cancel` swaps the flag before it takes the  *)
(* mutex, `on_cancel` looks at the flag while it holds it, so the flag can *)
(* be set between that look and the push.  Every thread that registers     *)
(* registers one callback, which bears its name.                           *)
(***************************************************************************)
EXTENDS Naturals

CONSTANTS Cancellers, Registrars, Nobody

ASSUME CancellationAssumption == Nobody \notin Registrars

VARIABLES
  cancelled,    \* the flag
  callbacks,    \* the registered callbacks
  holder,       \* the registrar that holds the mutex of the list, or Nobody
  cancelAt,     \* where each thread that cancels is
  registerAt,   \* where each thread that registers is
  batch,        \* the callbacks the canceller took and has yet to call
  ran           \* how often each callback has been called

cancelVars == <<cancelled, callbacks, holder, cancelAt, registerAt, batch, ran>>

CancellationInit ==
  /\ cancelled = FALSE /\ callbacks = {} /\ batch = {} /\ holder = Nobody
  /\ cancelAt = [k \in Cancellers |-> "start"]
  /\ registerAt = [r \in Registrars |-> "start"]
  /\ ran = [r \in Registrars |-> 0]

(* cancel: the swap.  Only the first caller goes on to the callbacks.      *)
Swap(k) ==
  /\ cancelAt[k] = "start"
  /\ cancelled' = TRUE
  /\ cancelAt' = [cancelAt EXCEPT ![k] = IF cancelled THEN "returned" ELSE "take"]
  /\ UNCHANGED <<callbacks, holder, registerAt, batch, ran>>

(* cancel: the list is taken under the mutex.                              *)
TakeCallbacks(k) ==
  /\ cancelAt[k] = "take" /\ holder = Nobody
  /\ batch' = callbacks /\ callbacks' = {}
  /\ cancelAt' = [cancelAt EXCEPT ![k] = "call"]
  /\ UNCHANGED <<cancelled, holder, registerAt, ran>>

(* cancel: one callback is called, the mutex is free.                      *)
Call(k, r) ==
  /\ cancelAt[k] = "call" /\ r \in batch
  /\ batch' = batch \ {r}
  /\ ran' = [ran EXCEPT ![r] = @ + 1]
  /\ UNCHANGED <<cancelled, callbacks, holder, cancelAt, registerAt>>

CancelReturns(k) ==
  /\ cancelAt[k] = "call" /\ batch = {}
  /\ cancelAt' = [cancelAt EXCEPT ![k] = "returned"]
  /\ UNCHANGED <<cancelled, callbacks, holder, registerAt, batch, ran>>

(* on_cancel: the mutex, the look at the flag, the push, the late call.    *)
LockCallbacks(r) ==
  /\ registerAt[r] = "start" /\ holder = Nobody
  /\ holder' = r
  /\ registerAt' = [registerAt EXCEPT ![r] = "look"]
  /\ UNCHANGED <<cancelled, callbacks, cancelAt, batch, ran>>

(* Mutant of Look: the mutex is released before the push.                  *)
LookUnlocked(r) ==
  /\ registerAt[r] = "look"
  /\ holder' = Nobody
  /\ registerAt' = [registerAt EXCEPT ![r] = IF cancelled THEN "late" ELSE "push"]
  /\ UNCHANGED <<cancelled, callbacks, cancelAt, batch, ran>>

Look(r) ==
  /\ registerAt[r] = "look"
  /\ IF cancelled
       THEN holder' = Nobody /\ registerAt' = [registerAt EXCEPT ![r] = "late"]
       ELSE registerAt' = [registerAt EXCEPT ![r] = "push"] /\ UNCHANGED holder
  /\ UNCHANGED <<cancelled, callbacks, cancelAt, batch, ran>>

Push(r) ==
  /\ registerAt[r] = "push"
  /\ callbacks' = callbacks \cup {r}
  /\ holder' = Nobody
  /\ registerAt' = [registerAt EXCEPT ![r] = "returned"]
  /\ UNCHANGED <<cancelled, cancelAt, batch, ran>>

CallLate(r) ==
  /\ registerAt[r] = "late"
  /\ ran' = [ran EXCEPT ![r] = @ + 1]
  /\ registerAt' = [registerAt EXCEPT ![r] = "returned"]
  /\ UNCHANGED <<cancelled, callbacks, holder, cancelAt, batch>>

CancelStep(k) ==
  Swap(k) \/ TakeCallbacks(k) \/ (\E r \in Registrars : Call(k, r)) \/ CancelReturns(k)

RegisterStep(r) == LockCallbacks(r) \/ Look(r) \/ Push(r) \/ CallLate(r)

CancellationNext ==
  \/ \E k \in Cancellers : CancelStep(k)
  \/ \E r \in Registrars : RegisterStep(r)

CancellationSpec == CancellationInit /\ [][CancellationNext]_cancelVars

----------------------------------------------------------------------------

CancellationTypeOK ==
  /\ cancelled \in BOOLEAN
  /\ callbacks \subseteq Registrars /\ batch \subseteq Registrars
  /\ holder \in Registrars \cup {Nobody}
  /\ cancelAt \in [Cancellers -> {"start", "take", "call", "returned"}]
  /\ registerAt \in [Registrars -> {"start", "look", "push", "late", "returned"}]
  /\ ran \in [Registrars -> Nat]

(* However cancel and on_cancel interleave, a callback is called at most   *)
(* once and never without a cancellation; and when the flag is set, every  *)
(* callback whose registration has returned has been called, is about to   *)
(* be called by the canceller, or waits in a list the canceller has yet to *)
(* take: none is pushed behind the cancelAt's back and forgotten.         *)
CalledOnce ==
  \A r \in Registrars :
    /\ ran[r] <= 1
    /\ ran[r] = 1 => cancelled
    /\ cancelled /\ registerAt[r] = "returned" /\ ran[r] = 0
         => \E k \in Cancellers : \/ cancelAt[k] = "take" /\ r \in callbacks
                                  \/ cancelAt[k] = "call" /\ r \in batch
=============================================================================
