------------------------- MODULE DifferentialBatch -------------------------
(***************************************************************************)
(* hell_testkit::differential_batch_with_invocations: workers take cases   *)
(* from a shared counter, compare the two executables on each, lower the   *)
(* shared index of the first failure and keep what came of a case in its   *)
(* slot.  When all have joined, the slots are read in the order of the     *)
(* cases.  The executables may be exchanged under the batch.  This is the   *)
(* unix build, where an identity has the file's change time, so that a     *)
(* check sees an exchange that came before it even when the file has been  *)
(* put back (lib.rs:9866-9898); elsewhere a check during the batch sees    *)
(* paths only, which is not modelled.  What a case answers is its own      *)
(* (failing).                                                              *)
(***************************************************************************)
EXTENDS Naturals

CONSTANTS
  CaseCount,   \* the number of cases, numbered from 0
  Workers      \* active_workers threads

ASSUME BatchAssumption == CaseCount \in Nat \ {0} /\ Workers # {}

Cases == 0..CaseCount - 1

VARIABLES
  failing,        \* the cases on which the executables disagree
  intact,         \* no executable has been exchanged yet
  next,           \* the next index to take
  firstFailure,   \* the lowest index known to fail, or the number of cases
  slots,          \* what is kept of each case
  place,          \* where each worker is in its loop
  index,          \* the index it took
  caseResult,        \* what came of its case
  report          \* what the batch reports

batchVars == <<failing, intact, next, firstFailure, slots, place, index, caseResult, report>>

Pending == [kind |-> "pending", at |-> 0]
Passed == [kind |-> "passed", at |-> 0]
Configuration == [kind |-> "configuration", at |-> 0]
Failed(i) == [kind |-> "case", at |-> i]
NotRetained(i) == [kind |-> "not retained", at |-> i]
Unindexed == [kind |-> "stopped without an indexed failure", at |-> 0]

BatchInit ==
  /\ failing \in SUBSET Cases
  /\ intact = TRUE
  /\ next = 0
  /\ firstFailure = CaseCount
  /\ slots = [i \in Cases |-> "none"]
  /\ place = [w \in Workers |-> "take"]
  /\ index = [w \in Workers |-> 0]
  /\ caseResult = [w \in Workers |-> "none"]
  /\ report = Pending

MoveTo(w, p) == place' = [place EXCEPT ![w] = p]

(* next.fetch_add(1)                                                       *)
Take(w) ==
  /\ place[w] = "take"
  /\ index' = [index EXCEPT ![w] = next]
  /\ next' = next + 1
  /\ MoveTo(w, "look")
  /\ UNCHANGED <<failing, intact, firstFailure, slots, caseResult, report>>

(* Mutant of MayLeave: a worker leaves as soon as any case failed.         *)
MayLeaveOnAny(i) == i >= CaseCount \/ firstFailure < CaseCount

(* Indexes past the end, and past a failure, need not run.                 *)
MayLeave(i) == i >= CaseCount \/ i > firstFailure

Leave(w) ==
  /\ place[w] = "look"
  /\ MayLeave(index[w])
  /\ MoveTo(w, "joined")
  /\ UNCHANGED <<failing, intact, next, firstFailure, slots, index, caseResult, report>>

(* The load of first_failure may be late: a case past a failure may run.   *)
Guard(w) ==
  /\ place[w] = "look"
  /\ index[w] < CaseCount
  /\ IF intact
     THEN MoveTo(w, "run") /\ UNCHANGED caseResult
     ELSE MoveTo(w, "lower") /\ caseResult' = [caseResult EXCEPT ![w] = "error"]
  /\ UNCHANGED <<failing, intact, next, firstFailure, slots, index, report>>

(* The executables run on the case, and the identities are checked again.  *)
RunCase(w) ==
  /\ place[w] = "run"
  /\ caseResult' = [caseResult EXCEPT
                   ![w] = IF intact /\ index[w] \notin failing THEN "ok" ELSE "error"]
  /\ MoveTo(w, "lower")
  /\ UNCHANGED <<failing, intact, next, firstFailure, slots, index, report>>

(* first_failure.fetch_min(index)                                          *)
Lowered(i) == IF i < firstFailure THEN i ELSE firstFailure

Lower(w) ==
  /\ place[w] = "lower"
  /\ firstFailure' = IF caseResult[w] = "error" THEN Lowered(index[w]) ELSE firstFailure
  /\ MoveTo(w, "store")
  /\ UNCHANGED <<failing, intact, next, slots, index, caseResult, report>>

Store(w) ==
  /\ place[w] = "store"
  /\ slots' = [slots EXCEPT ![index[w]] = caseResult[w]]
  /\ MoveTo(w, "take")
  /\ UNCHANGED <<failing, intact, next, firstFailure, index, caseResult, report>>

AllJoined == \A w \in Workers : place[w] = "joined"

(* The first slot that does not hold a success decides.                    *)
Stops(i) == slots[i] # "ok" /\ \A j \in Cases : j < i => slots[j] = "ok"

Collected(i) ==
  IF slots[i] = "error" THEN Failed(i)
  ELSE IF i <= firstFailure THEN NotRetained(i) ELSE Unindexed

(* Both executables are checked once more before the slots are read.       *)
Conclude ==
  /\ AllJoined /\ report = Pending
  /\ \/ ~intact /\ report' = Configuration
     \/ intact /\ \E i \in Cases : Stops(i) /\ report' = Collected(i)
     \/ /\ intact /\ \A i \in Cases : slots[i] = "ok"
        /\ report' = Passed
  /\ UNCHANGED <<failing, intact, next, firstFailure, slots, place, index, caseResult>>

(* Somebody else exchanges an executable while the batch runs.             *)
ReplaceExecutable ==
  /\ intact /\ report = Pending
  /\ intact' = FALSE
  /\ UNCHANGED <<failing, next, firstFailure, slots, place, index, caseResult, report>>

Worker(w) == Take(w) \/ Leave(w) \/ Guard(w) \/ RunCase(w) \/ Lower(w) \/ Store(w)

BatchNext == (\E w \in Workers : Worker(w)) \/ Conclude \/ ReplaceExecutable

BatchSpec == BatchInit /\ [][BatchNext]_batchVars

----------------------------------------------------------------------------

BatchTypeOK ==
  /\ failing \in SUBSET Cases /\ intact \in BOOLEAN
  /\ next \in Nat /\ firstFailure \in 0..CaseCount
  /\ slots \in [Cases -> {"none", "ok", "error"}]
  /\ place \in [Workers -> {"take", "look", "run", "lower", "store", "joined"}]
  /\ index \in [Workers -> Nat]
  /\ caseResult \in [Workers -> {"none", "ok", "error"}]

(* "Returns the lowest authoritative case failure after all workers have   *)
(* joined" (lib.rs:9987): the report depends on the cases alone and not on *)
(* which worker was fast, no case up to the failure is left out, nothing   *)
(* passes unless every case did, and a batch whose executables were        *)
(* exchanged before its last check names no case (on unix, see above).     *)
LowestFailureReported ==
  \/ report \in {Pending, Configuration}
  \/ failing = {} /\ report = Passed
  \/ \E i \in failing : report = Failed(i) /\ \A j \in failing : i <= j
=============================================================================
