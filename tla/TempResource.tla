---------------------------- MODULE TempResource ----------------------------
(***************************************************************************)
(* withSystemTempFile and withSystemTempDirectory: a temporary object that *)
(* the action which asked for it removes when its callback has returned,   *)
(* unless the cancellation or the closing of the scope does it before.     *)
(* Whoever takes the guard out of the mutex removes the object, and tries  *)
(* again when the guard is dropped after a failure.                        *)
(***************************************************************************)
EXTENDS Naturals

CONSTANTS
  CreateRetries,   \* cleanup.temp_create_retries
  DeleteRetries    \* cleanup.temp_delete_retries

ASSUME TempAssumption == CreateRetries \in Nat /\ DeleteRetries \in Nat

(* Who may clean up: the action itself, a canceller of the scope, and the  *)
(* thread that closes the scope, which is the action's own, afterwards.    *)
Cleaners == {"owner", "canceller", "closer"}

VARIABLES
  owner,       \* where the action is
  attempts,    \* names create_unique has tried
  tempPermit,  \* the permit of the temporary resource is held
  onDisk,      \* the object exists
  guarded,     \* the guard is in the mutex
  cleaner,     \* where each cleaner is
  tries,       \* failed removals of the pass under way
  answer       \* what each cleaner's cleanup answered

tempVars == <<owner, attempts, tempPermit, onDisk, guarded, cleaner, tries, answer>>

TempInit ==
  /\ owner = "start" /\ attempts = 0
  /\ tempPermit = FALSE /\ onDisk = FALSE /\ guarded = FALSE
  /\ cleaner = [c \in Cleaners |-> "idle"]
  /\ tries = 0
  /\ answer = [c \in Cleaners |-> "none"]

(* The permit is acquired before the template is evaluated.                *)
AcquireTemp ==
  /\ owner = "start"
  /\ owner' = "create" /\ tempPermit' = TRUE
  /\ UNCHANGED <<attempts, onDisk, guarded, cleaner, tries, answer>>

(* create_unique: the name is taken, and another is tried.                 *)
Collide ==
  /\ owner = "create" /\ attempts < CreateRetries
  /\ attempts' = attempts + 1
  /\ UNCHANGED <<owner, tempPermit, onDisk, guarded, cleaner, tries, answer>>

(* The attempts are used up, or creating fails for another reason.         *)
CreateFails ==
  /\ owner = "create"
  /\ owner' = "returned" /\ tempPermit' = FALSE
  /\ UNCHANGED <<attempts, onDisk, guarded, cleaner, tries, answer>>

(* The object is created and its guard registered with the scope.          *)
CreateTemp ==
  /\ owner = "create" /\ attempts < CreateRetries
  /\ attempts' = attempts + 1
  /\ owner' = "path" /\ onDisk' = TRUE /\ guarded' = TRUE
  /\ UNCHANGED <<tempPermit, cleaner, tries, answer>>

(* The path is text and the guard still there: the callback is run.        *)
EnterCallback ==
  /\ owner = "path" /\ guarded
  /\ owner' = "callback"
  /\ UNCHANGED <<attempts, tempPermit, onDisk, guarded, cleaner, tries, answer>>

(* The path is not UTF-8, or a canceller has taken the guard: the action   *)
(* answers at once, and leaves a guard that is there to the scope.         *)
PathFails ==
  /\ owner = "path"
  /\ owner' = "returned" /\ tempPermit' = FALSE
  /\ UNCHANGED <<attempts, onDisk, guarded, cleaner, tries, answer>>

(* The callback returns, with a value or an error, and the owner cleans.   *)
CallbackReturns ==
  /\ owner = "callback"
  /\ owner' = "cleanup"
  /\ UNCHANGED <<attempts, tempPermit, onDisk, guarded, cleaner, tries, answer>>

(* ScopedTempResource::cleanup takes the guard, or answers Ok at once.     *)
TakeGuard(c) ==
  /\ cleaner[c] = "idle" /\ answer[c] = "none"
  /\ CASE c = "owner"     -> owner = "cleanup"
       [] c = "canceller" -> owner \in {"path", "callback", "cleanup", "returned"}
       [] c = "closer"    -> owner = "returned"
  /\ IF guarded
       THEN guarded' = FALSE /\ cleaner' = [cleaner EXCEPT ![c] = "remove"] /\ UNCHANGED answer
       ELSE answer' = [answer EXCEPT ![c] = "ok"] /\ UNCHANGED <<guarded, cleaner>>
  /\ UNCHANGED <<owner, attempts, tempPermit, onDisk, tries>>

(* remove: the object goes, or was gone already, which counts as removed.  *)
Removed(c) ==
  /\ cleaner[c] \in {"remove", "drop"}
  /\ onDisk' = FALSE
  /\ tries' = 0
  /\ cleaner' = [cleaner EXCEPT ![c] = "idle"]
  /\ answer' = [answer EXCEPT ![c] = IF cleaner[c] = "drop" THEN "failed" ELSE "ok"]
  /\ UNCHANGED <<owner, attempts, tempPermit, guarded>>

(* Mutant of RemovalFails: the failure is answered as a success.           *)
RemovalFailsSilently(c) ==
  /\ cleaner[c] \in {"remove", "drop"}
  /\ tries' = 0
  /\ cleaner' = [cleaner EXCEPT ![c] = "idle"]
  /\ answer' = [answer EXCEPT ![c] = "ok"]
  /\ UNCHANGED <<owner, attempts, tempPermit, onDisk, guarded>>

(* remove: one attempt fails.  After the last one the guard is dropped,    *)
(* still armed, and removes again; a failure of that is not answered.      *)
RemovalFails(c) ==
  /\ cleaner[c] \in {"remove", "drop"}
  /\ tries' = (IF tries < DeleteRetries THEN tries + 1 ELSE 0)
  /\ IF tries < DeleteRetries
       THEN UNCHANGED <<cleaner, answer>>
       ELSE IF cleaner[c] = "remove"
              THEN cleaner' = [cleaner EXCEPT ![c] = "drop"] /\ UNCHANGED answer
              ELSE /\ cleaner' = [cleaner EXCEPT ![c] = "idle"]
                   /\ answer' = [answer EXCEPT ![c] = "failed"]
  /\ UNCHANGED <<owner, attempts, tempPermit, onDisk, guarded>>

(* The action answers, with the failure of its own cleanup if it failed,   *)
(* and its permit is dropped.                                              *)
OwnerReturns ==
  /\ owner = "cleanup" /\ answer["owner"] # "none"
  /\ owner' = "returned" /\ tempPermit' = FALSE
  /\ UNCHANGED <<attempts, onDisk, guarded, cleaner, tries, answer>>

TempNext ==
  \/ AcquireTemp \/ Collide \/ CreateFails \/ CreateTemp
  \/ EnterCallback \/ PathFails \/ CallbackReturns \/ OwnerReturns
  \/ \E c \in Cleaners : TakeGuard(c) \/ Removed(c) \/ RemovalFails(c)

TempSpec == TempInit /\ [][TempNext]_tempVars

----------------------------------------------------------------------------

(* A temporary object outlives the action that asked for it only when      *)
(* removing it has failed and its owner says so, or when a cancellation    *)
(* took the guard: then the removal may still be under way, or have failed *)
(* without anybody being told, while the owner answers and gives its       *)
(* permit back.  Otherwise its guard waits for the closing of the scope,   *)
(* which says so when it fails.  The object is never removed under a       *)
(* callback that runs unless the scope was cancelled.                      *)
TempAccounted ==
  /\ owner = "returned" /\ onDisk =>
       \/ guarded \/ answer["owner"] = "failed"
       \/ cleaner["closer"] # "idle" \/ answer["closer"] = "failed"
       \/ cleaner["canceller"] # "idle" \/ answer["canceller"] = "failed"
  /\ owner = "callback" /\ ~onDisk => answer["canceller"] # "none"
  /\ tempPermit <=> owner \notin {"start", "returned"}
=============================================================================
