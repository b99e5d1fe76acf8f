---------------------------- MODULE Concurrency ----------------------------
(***************************************************************************)
(* The concurrent IO actions of crates/hell-runtime/src/concurrency.rs:    *)
(* concurrently, race, timeout and the pooled loops.  One evaluator calls  *)
(* such an action (the caller); it opens a scope of its own below the      *)
(* caller's scope, spawns tasks there, polls for their results while it    *)
(* watches its own cancellation, and closes the scope before it answers.   *)
(*                                                                         *)
(* The scopes are seen from the outside (ExecutionScope has them from the  *)
(* inside): a token that is cancelled or not and inherits from its         *)
(* parents, a cancel that also asks the registered resources, and a close  *)
(* that cancels, waits for its tasks and may give up on them.              *)
(*                                                                         *)
(* Abstracted: values (a result is its kind and where it came from), time  *)
(* (a bounded wait may run out at any moment, a deadline may pass at any   *)
(* moment), tracing, and the errors that a cleanup adds to a primary one.  *)
(***************************************************************************)
EXTENDS Naturals, Sequences, FiniteSets

CONSTANTS
    Modes,       \* the actions called, a subset of AllModes
    MaxWorkers,  \* bound: concurrent_action_limit of a pool
    MaxCells     \* bound: workers of a pool times the cells of its list

AllModes == {"both", "race", "timeout", "timeout_now", "timeout_never", "pool"}
ASSUME ModesAssumption == Modes \subseteq AllModes
ASSUME BoundsAssumption == MaxWorkers \in Nat \ {0} /\ MaxCells \in Nat

VARIABLES
    mode,     \* which action is called
    workers,  \* worker_count of a pool
    caller,   \* the calling evaluator
    answer,   \* what the call returns, or will once its scopes are closed
    token,    \* the cancellation tokens, the deadline, and who was asked
    task,     \* the spawned threads
    gate,     \* PairPreparationGate
    jobs,     \* the bounded job queue of a pool
    inbox,    \* the result channel
    log       \* history, for the properties

vars == <<mode, workers, caller, answer, token, task, gate, jobs, inbox, log>>

-----------------------------------------------------------------------------
(* Sides of a pair are 1 (left) and 2 (right); a timeout has worker 1; a   *)
(* pool has workers 1 to workers and its producer one above.               *)
IsPair == mode \in {"both", "race"}
Producer == workers + 1
Workers == 1..workers
Tasks == 1..(MaxWorkers + 1)
Own == 0
Inputs == 1..MaxCells

Idle == [pc |-> "none", job |-> 0, kind |-> "value"]
SpawnOrder ==
    IF mode = "pool" THEN <<Producer>> \o [i \in Workers |-> i]
    ELSE IF IsPair THEN <<1, 2>> ELSE <<1>>

Init ==
    /\ mode \in Modes
    /\ workers \in 1..MaxWorkers
    /\ mode # "pool" => workers = 1
    /\ caller = [pc |-> "enter", todo |-> <<>>, got |-> <<>>, error |-> "none"]
    /\ answer = "pending"
    /\ token = [caller |-> FALSE, own |-> FALSE, cut |-> {},
                expired |-> FALSE, asked |-> FALSE]
    /\ task = [t \in Tasks |-> Idle]
    /\ gate = [arrived |-> 0, aborted |-> FALSE]
    /\ jobs = <<>>
    /\ inbox = <<>>
    /\ log = [begun |-> [t \in Tasks \cup Inputs |-> 0], stalled |-> FALSE,
              failed |-> FALSE, sent |-> FALSE]

-----------------------------------------------------------------------------
(* Tokens.  A token is cancelled when it or one above it is.               *)
OwnCancelled == token.own \/ token.caller
Cancelled(t) == OwnCancelled \/ t \in token.cut

(* ExecutionScope::cancel on the action's own scope: only the first to set *)
(* its token asks the resources and descends.                              *)
CancelOwn(tok) ==
    IF tok.own THEN tok ELSE [tok EXCEPT !.own = TRUE, !.asked = TRUE]
CancelScope(tok, s) ==
    IF s = Own THEN CancelOwn(tok) ELSE [tok EXCEPT !.cut = @ \cup {s}]

(* The surroundings: the caller is cancelled, its cancel descends into the *)
(* scope that is open below it, the deadline passes.                       *)
Called == caller.pc \notin {"enter", "returned"}
CancelCaller ==
    /\ caller.pc # "returned" /\ ~token.caller
    /\ token' = [token EXCEPT !.caller = TRUE]
    /\ UNCHANGED <<mode, workers, caller, answer, task, gate, jobs, inbox, log>>
CancelDescends ==
    /\ Called /\ token.caller /\ ~token.own
    /\ token' = CancelOwn(token)
    /\ UNCHANGED <<mode, workers, caller, answer, task, gate, jobs, inbox, log>>
Expire ==
    /\ Called /\ mode \in {"timeout", "pool"} /\ ~token.expired
    /\ token' = [token EXCEPT !.expired = TRUE]
    /\ UNCHANGED <<mode, workers, caller, answer, task, gate, jobs, inbox, log>>

-----------------------------------------------------------------------------
(* The caller.                                                             *)
AtCaller(pc) == caller.pc = pc
Go(pc, todo) == caller' = [caller EXCEPT !.pc = pc, !.todo = todo]

(* The scopes of a call in the order in which it closes them.              *)
Guards == IF IsPair THEN <<2, 1, Own>> ELSE <<Own>>
Shut(result) ==
    /\ answer' = result
    /\ Go("close", Guards)

(* Entry: a zero timeout answers at once, a negative one runs the action   *)
(* on the caller's own evaluator.  Pairs and pools look at the caller's    *)
(* token first.  A scope that cannot be opened ends the call.              *)
Enter ==
    /\ AtCaller("enter")
    /\ \/ mode = "timeout_now" /\ answer' = "nothing" /\ Go("returned", <<>>)
       \/ mode = "timeout_never" /\ Go("inline", <<>>) /\ UNCHANGED answer
       \/ /\ mode \in {"both", "race", "pool"} /\ token.caller
          /\ answer' = "cancelled" /\ Go("returned", <<>>)
       \/ /\ mode = "timeout" \/ (~token.caller /\ mode \in {"both", "race", "pool"})
          /\ \/ answer' = "refused" /\ Go("returned", <<>>)
             \/ Go("spawn", SpawnOrder) /\ UNCHANGED answer
    /\ UNCHANGED <<mode, workers, token, task, gate, jobs, inbox, log>>

RunInline(kind) ==
    /\ AtCaller("inline")
    /\ kind = "cancelled" => token.caller
    /\ answer' = kind
    /\ Go("returned", <<>>)
    /\ UNCHANGED <<mode, workers, token, task, gate, jobs, inbox, log>>

FirstPc(t) ==
    CASE IsPair -> "prepare"
      [] mode = "timeout" -> "start"
      [] mode = "pool" -> IF t = Producer THEN "produce" ELSE "safepoint"

(* A spawn may be refused (task limit, no thread); when the right side of  *)
(* a pair is, the left one may already be waiting for it at the gate.      *)
Spawn ==
    /\ AtCaller("spawn") /\ caller.todo # <<>>
    /\ LET t == Head(caller.todo)
       IN task' = [task EXCEPT ![t].pc = FirstPc(t)]
    /\ Go(IF Len(caller.todo) = 1 THEN "check" ELSE "spawn", Tail(caller.todo))
    /\ UNCHANGED <<mode, workers, answer, token, gate, jobs, inbox, log>>

(* Mutant: the gate is not told.                                           *)
SpawnRefusedSilently ==
    /\ AtCaller("spawn")
    /\ Shut("refused")
    /\ UNCHANGED <<mode, workers, token, task, gate, jobs, inbox, log>>

SpawnRefused ==
    /\ AtCaller("spawn")
    /\ gate' = IF IsPair /\ Head(caller.todo) = 2
               THEN [gate EXCEPT !.aborted = TRUE] ELSE gate
    /\ Shut("refused")
    /\ UNCHANGED <<mode, workers, token, task, jobs, inbox, log>>

(* The top of every polling loop: own cancellation, then the deadline.     *)
Check ==
    /\ AtCaller("check")
    /\ IF token.caller
       THEN token' = CancelOwn(token) /\ Shut("cancelled")
       ELSE IF mode = "timeout" /\ token.expired
       THEN token' = CancelOwn(token) /\ Shut("nothing")
       ELSE Go("receive", <<>>) /\ UNCHANGED <<answer, token>>
    /\ UNCHANGED <<mode, workers, task, gate, jobs, inbox, log>>

(* Every worker of a pool has ended, and with it its sender of results    *)
(* and its share of the job receiver.                                      *)
SendersGone == mode = "pool" /\ \A w \in Workers : task[w].pc \in {"ended", "done"}

(* recv_timeout: a result, or a poll that runs out while there is none.    *)
Poll ==
    /\ AtCaller("receive") /\ inbox = <<>> /\ ~SendersGone
    /\ Go("check", <<>>)
    /\ UNCHANGED <<mode, workers, answer, token, task, gate, jobs, inbox, log>>

Received == Head(inbox)
TakeResult == AtCaller("receive") /\ inbox # <<>> /\ inbox' = Tail(inbox)

ReceiveTimed ==
    /\ mode = "timeout"
    /\ TakeResult
    /\ Shut(Received.kind)
    /\ UNCHANGED <<mode, workers, token, task, gate, jobs, log>>

(* The first result of a race decides it, and so does a first failure; the *)
(* other side is cancelled before anything is closed.                      *)
Decisive(result) == mode = "race" \/ result.kind # "value"
(* Mutant: a failure waits for the other side as a value does.             *)
ReceivePairPatiently ==
    /\ IsPair
    /\ TakeResult
    /\ IF mode = "race" \/ caller.got # <<>>
       THEN Shut(Received.kind)
       ELSE /\ caller' = [caller EXCEPT !.pc = "check", !.got = <<Received>>]
            /\ UNCHANGED answer
    /\ UNCHANGED <<mode, workers, token, task, gate, jobs, log>>

ReceivePair ==
    /\ IsPair
    /\ TakeResult
    /\ IF caller.got = <<>> /\ Decisive(Received)
       THEN token' = CancelScope(token, 3 - Received.from) /\ Shut(Received.kind)
       ELSE IF caller.got # <<>>
       THEN Shut(Received.kind) /\ UNCHANGED token
       ELSE /\ caller' = [caller EXCEPT !.pc = "check", !.got = <<Received>>]
            /\ UNCHANGED <<answer, token>>
    /\ UNCHANGED <<mode, workers, task, gate, jobs, log>>

(* A pool collects until every worker has dropped its sender; it keeps the *)
(* first error it receives and goes on collecting.                         *)
ReceivePool ==
    /\ mode = "pool"
    /\ TakeResult
    /\ IF Received.kind = "value"
       THEN /\ caller' = [caller EXCEPT !.pc = "check", !.got = Append(@, Received)]
            /\ UNCHANGED token
       ELSE /\ caller' = [caller EXCEPT !.pc = "check",
                            !.error = IF @ = "none" THEN Received.kind ELSE @]
            /\ token' = CancelOwn(token)
    /\ UNCHANGED <<mode, workers, answer, task, gate, jobs, log>>

Drained ==
    /\ AtCaller("receive") /\ inbox = <<>> /\ SendersGone
    /\ IF caller.error # "none"
       THEN Shut(caller.error)
       ELSE Go("await", SpawnOrder) /\ UNCHANGED answer
    /\ UNCHANGED <<mode, workers, token, task, gate, jobs, inbox, log>>

(* The producer's count, then every worker's end; one result per input.    *)
(* Mutant: the results are not counted.                                    *)
AwaitUncounted ==
    /\ AtCaller("await")
    /\ LET t == Head(caller.todo)
       IN /\ task[t].pc = "done"
          /\ IF task[t].kind # "value" THEN Shut(task[t].kind)
             ELSE IF Len(caller.todo) > 1
             THEN Go("await", Tail(caller.todo)) /\ UNCHANGED answer
             ELSE Shut("value")
    /\ UNCHANGED <<mode, workers, token, task, gate, jobs, inbox, log>>

AwaitFinished ==
    /\ AtCaller("await")
    /\ LET t == Head(caller.todo)
       IN /\ task[t].pc = "done"
          /\ IF task[t].kind # "value" THEN Shut(task[t].kind)
             ELSE IF Len(caller.todo) > 1
             THEN Go("await", Tail(caller.todo)) /\ UNCHANGED answer
             ELSE Shut(IF Len(caller.got) = task[Producer].job
                       THEN "value" ELSE "internal")
    /\ UNCHANGED <<mode, workers, token, task, gate, jobs, inbox, log>>

AwaitStalled ==
    /\ AtCaller("await")
    /\ task[Head(caller.todo)].pc # "done"
    /\ Shut("stalled")
    /\ UNCHANGED <<mode, workers, token, task, gate, jobs, inbox, log>>

(* close: cancel, wait for the tasks, give up on those that do not finish, *)
(* which turns a success into a failure.                                   *)
CloseScope ==
    /\ AtCaller("close")
    /\ token' = CancelScope(token, Head(caller.todo))
    /\ Go("wait", caller.todo)
    /\ UNCHANGED <<mode, workers, answer, task, gate, jobs, inbox, log>>

Finished(t) == task[t].pc \in {"none", "done"}
Unfinished(s) ==
    {t \in (IF s # Own THEN {s} ELSE IF IsPair THEN {} ELSE Tasks) : ~Finished(t)}

(* Mutant: a close does not wait.                                          *)
AwaitNobody ==
    /\ AtCaller("wait")
    /\ LET rest == Tail(caller.todo)
       IN Go(IF rest = <<>> THEN "returned" ELSE "close", rest)
    /\ UNCHANGED <<mode, workers, answer, token, task, gate, jobs, inbox, log>>

AwaitTasks ==
    /\ AtCaller("wait")
    /\ LET late == Unfinished(Head(caller.todo))
           rest == Tail(caller.todo)
       IN /\ answer' = IF late # {} /\ answer \in {"value", "nothing", "internal"}
                       THEN "stalled" ELSE answer
          /\ log' = [log EXCEPT !.stalled = @ \/ late # {}]
          /\ Go(IF rest = <<>> THEN "returned" ELSE "close", rest)
    /\ UNCHANGED <<mode, workers, token, task, gate, jobs, inbox>>

-----------------------------------------------------------------------------
(* The tasks.                                                              *)
At(t, pc) == task[t].pc = pc
Step(t, pc, kind) == task' = [task EXCEPT ![t].pc = pc, ![t].kind = kind]

(* A side of a pair forces its action, waits at the gate until the other   *)
(* side has done so too, whatever came of it, and only then runs.          *)
Prepare(t, kind) ==
    /\ At(t, "prepare")
    /\ kind = "cancelled" => Cancelled(t)
    /\ Step(t, "arrive", kind)
    /\ UNCHANGED <<mode, workers, caller, answer, token, gate, jobs, inbox, log>>

Arrive(t) ==
    /\ At(t, "arrive")
    /\ gate' = [gate EXCEPT !.arrived = @ + 1]
    /\ Step(t, "gate", task[t].kind)
    /\ UNCHANGED <<mode, workers, caller, answer, token, jobs, inbox, log>>

(* Mutant: the gate opens for whoever comes first.                         *)
PassGateAlone(t) ==
    /\ At(t, "gate")
    /\ gate.arrived > 0 \/ gate.aborted
    /\ IF gate.aborted THEN Step(t, "send", "aborted")
       ELSE Step(t, IF task[t].kind = "value" THEN "start" ELSE "send", task[t].kind)
    /\ UNCHANGED <<mode, workers, caller, answer, token, gate, jobs, inbox, log>>

PassGate(t) ==
    /\ At(t, "gate")
    /\ gate.arrived = 2 \/ gate.aborted
    /\ IF gate.aborted THEN Step(t, "send", "aborted")
       ELSE Step(t, IF task[t].kind = "value" THEN "start" ELSE "send", task[t].kind)
    /\ UNCHANGED <<mode, workers, caller, answer, token, gate, jobs, inbox, log>>

(* The action or callback starts unless its evaluator is cancelled, and    *)
(* ends in a value, an error, or by noticing that it was cancelled.  In a  *)
(* timeout it may itself be a pool, whose workers notice the deadline      *)
(* (safepoint) before anybody cancelled anything.                          *)
Unit(t) == IF mode = "pool" THEN task[t].job ELSE t
Begin(t) ==
    /\ At(t, "start")
    /\ IF Cancelled(t)
       THEN Step(t, "send", "cancelled") /\ UNCHANGED log
       ELSE Step(t, "running", "value")
            /\ log' = [log EXCEPT !.begun[Unit(t)] = @ + 1]
    /\ UNCHANGED <<mode, workers, caller, answer, token, gate, jobs, inbox>>

Noticed(t) == Cancelled(t) \/ (mode = "timeout" /\ token.expired)
(* Mutant: the failed worker cancels the pool before it sends its result.  *)
EndRunCancelling(t, kind) ==
    /\ At(t, "running")
    /\ kind = "cancelled" => Noticed(t)
    /\ Step(t, "send", kind)
    /\ token' = IF mode = "pool" /\ kind = "error"
                THEN [token EXCEPT !.own = TRUE] ELSE token
    /\ UNCHANGED <<mode, workers, caller, answer, gate, jobs, inbox, log>>

EndRun(t, kind) ==
    /\ At(t, "running")
    /\ kind = "cancelled" => Noticed(t)
    /\ Step(t, "send", kind)
    /\ UNCHANGED <<mode, workers, caller, answer, token, gate, jobs, inbox, log>>

(* A pool worker goes on after a value and stops after a failure; a        *)
(* timeout's result is published by the spawned thread as its last act.    *)
AfterSend(t) ==
    IF IsPair THEN "ended"
    ELSE IF mode = "timeout" THEN "done"
    ELSE IF task[t].kind = "value" THEN "safepoint" ELSE "fail"
Send(t) ==
    /\ At(t, "send")
    /\ inbox' = IF AtCaller("returned") THEN inbox
                ELSE Append(inbox, [from |-> t, job |-> task[t].job, kind |-> task[t].kind])
    /\ task' = [task EXCEPT ![t] = [pc |-> AfterSend(t), job |-> 0, kind |-> "value"]]
    /\ log' = [log EXCEPT !.sent = TRUE, !.failed = @ \/ task[t].kind = "error"]
    /\ UNCHANGED <<mode, workers, caller, answer, token, gate, jobs>>

(* The failed worker cancels the token of the pool's scope, not the scope. *)
Fail(t) ==
    /\ At(t, "fail")
    /\ token' = [token EXCEPT !.own = TRUE]
    /\ Step(t, "ended", "value")
    /\ UNCHANGED <<mode, workers, caller, answer, gate, jobs, inbox, log>>

(* The thread closes its scope, gives its permit back and is finished.     *)
Publish(t) ==
    /\ At(t, "ended")
    /\ Step(t, "done", task[t].kind)
    /\ UNCHANGED <<mode, workers, caller, answer, token, gate, jobs, inbox, log>>

(* A pool's worker: safepoint, token, a job or a poll, the token again.    *)
(* Its task scope inherits the deadline of whatever encloses the pool.     *)
Safepoint(w) ==
    /\ At(w, "safepoint")
    /\ token' = IF token.expired THEN CancelScope(token, w) ELSE token
    /\ IF token.expired \/ Cancelled(w)
       THEN Step(w, "ended", "cancelled")
       ELSE Step(w, "poll", "value")
    /\ UNCHANGED <<mode, workers, caller, answer, gate, jobs, inbox, log>>

PollToken(w) ==
    /\ At(w, "poll")
    /\ Step(w, IF OwnCancelled THEN "ended" ELSE "take", "value")
    /\ UNCHANGED <<mode, workers, caller, answer, token, gate, jobs, inbox, log>>

TakeJob(w) ==
    /\ At(w, "take")
    /\ IF jobs # <<>>
       THEN /\ task' = [task EXCEPT ![w].pc = "got", ![w].job = Head(jobs)]
            /\ jobs' = Tail(jobs)
       ELSE /\ Step(w, IF task[Producer].pc \in {"ended", "done"}
                       THEN "ended" ELSE "safepoint", "value")
            /\ UNCHANGED jobs
    /\ UNCHANGED <<mode, workers, caller, answer, token, gate, inbox, log>>

KeepJob(w) ==
    /\ At(w, "got")
    /\ Step(w, IF OwnCancelled THEN "ended" ELSE "start", "value")
    /\ UNCHANGED <<mode, workers, caller, answer, token, gate, jobs, inbox, log>>

(* The producer forces the list cell by cell (its job is the number of     *)
(* cells sent) and offers each head to a queue of twice the workers.       *)
Produce(kind) ==
    /\ At(Producer, "produce")
    /\ IF kind = "cancelled" THEN OwnCancelled ELSE ~OwnCancelled
    /\ Step(Producer, "ended", kind)
    /\ UNCHANGED <<mode, workers, caller, answer, token, gate, jobs, inbox, log>>

ProduceCell ==
    /\ At(Producer, "produce")
    /\ ~OwnCancelled
    /\ workers * (task[Producer].job + 1) <= MaxCells
    /\ Step(Producer, "offer", "value")
    /\ UNCHANGED <<mode, workers, caller, answer, token, gate, jobs, inbox, log>>

Offer ==
    /\ At(Producer, "offer")
    /\ IF OwnCancelled THEN Step(Producer, "ended", "cancelled")
       ELSE Step(Producer, "put", "value")
    /\ UNCHANGED <<mode, workers, caller, answer, token, gate, jobs, inbox, log>>

(* Mutant: the queue takes every job.                                      *)
PutUnbounded ==
    /\ At(Producer, "put")
    /\ jobs' = Append(jobs, task[Producer].job + 1)
    /\ task' = [task EXCEPT ![Producer].pc = "produce", ![Producer].job = @ + 1]
    /\ UNCHANGED <<mode, workers, caller, answer, token, gate, inbox, log>>

Put ==
    /\ At(Producer, "put")
    /\ IF SendersGone
       THEN Step(Producer, "ended", "cancelled") /\ UNCHANGED jobs
       ELSE IF Len(jobs) = 2 * workers
       THEN Step(Producer, "offer", "value") /\ UNCHANGED jobs
       ELSE /\ jobs' = Append(jobs, task[Producer].job + 1)
            /\ task' = [task EXCEPT ![Producer].pc = "produce", ![Producer].job = @ + 1]
    /\ UNCHANGED <<mode, workers, caller, answer, token, gate, inbox, log>>

-----------------------------------------------------------------------------
(* What the code does by itself, and what depends on the user's program:   *)
(* an action, a callback or a list may run for ever, except that all of    *)
(* them notice a cancellation.                                             *)
CallerStep ==
    \/ Enter \/ Spawn \/ SpawnRefused \/ Check \/ Poll
    \/ ReceiveTimed \/ ReceivePair \/ ReceivePool \/ Drained
    \/ AwaitFinished \/ AwaitStalled \/ CloseScope \/ AwaitTasks
    \/ RunInline("cancelled")

SideStep(t) == Arrive(t) \/ PassGate(t) \/ Prepare(t, "cancelled")
PoolStep(t) ==
    /\ mode = "pool"
    /\ \/ Safepoint(t) \/ PollToken(t) \/ TakeJob(t) \/ KeepJob(t) \/ Fail(t)
       \/ t = Producer /\ (Produce("cancelled") \/ Offer \/ Put)
TaskStep(t) ==
    \/ SideStep(t) \/ PoolStep(t) \/ Begin(t) \/ EndRun(t, "cancelled")
    \/ Send(t) \/ Publish(t)

UserStep ==
    \E kind \in {"value", "error"} :
        \/ RunInline(kind)
        \/ \E t \in Tasks : Prepare(t, kind) \/ EndRun(t, kind)
        \/ mode = "pool" /\ Produce(kind)

Next ==
    \/ CancelCaller \/ CancelDescends \/ Expire
    \/ CallerStep
    \/ \E t \in Tasks : TaskStep(t)
    \/ UserStep
    \/ mode = "pool" /\ ProduceCell

Fairness == WF_vars(CallerStep) /\ \A t \in Tasks : WF_vars(TaskStep(t))
Spec == Init /\ [][Next]_vars /\ Fairness

-----------------------------------------------------------------------------
CallerPcs == {"enter", "inline", "spawn", "check", "receive", "await",
              "close", "wait", "returned"}
TaskPcs == {"none", "prepare", "arrive", "gate", "start", "running", "send",
            "fail", "ended", "done", "safepoint", "poll", "take", "got",
            "produce", "offer", "put"}
Kinds == {"value", "error", "cancelled", "aborted"}
Answers == Kinds \cup {"pending", "nothing", "refused", "internal", "stalled"}

TypeOK ==
    /\ mode \in Modes /\ workers \in 1..MaxWorkers
    /\ caller.pc \in CallerPcs /\ caller.error \in Kinds \cup {"none"}
    /\ Len(caller.got) <= IF mode = "pool" THEN MaxCells ELSE 1
    /\ answer \in Answers
    /\ caller.pc = "returned" => answer # "pending"
    /\ \A t \in Tasks : task[t].pc \in TaskPcs /\ task[t].kind \in Kinds
                        /\ task[t].job \in 0..MaxCells
    /\ token.cut \subseteq Tasks
    /\ gate.arrived \in 0..2
    /\ Len(jobs) <= 2 * workers
    /\ Len(inbox) <= IF mode = "pool" THEN MaxCells ELSE 2

Returned == caller.pc = "returned"

(* The call answers with its cause.  When an action, callback or list      *)
(* failed, the call reports that failure and never the cancellations it    *)
(* set off among the siblings, in whatever order they come in; it reports  *)
(* a cancellation only when the caller was cancelled, or a deadline above  *)
(* it passed.                                                              *)
CauseReported ==
    Returned /\ answer \in {"cancelled", "aborted"} => token.caller \/ token.expired

(* A successful call is complete: both sides of a pair have run, a pool    *)
(* has one result for each cell of the list, each from one callback; and   *)
(* no input is ever handed to two workers.                                 *)
OnePerInput ==
    /\ \A u \in DOMAIN log.begun : log.begun[u] <= 1
    /\ Returned /\ answer = "value" =>
         /\ mode = "both" => log.begun[1] = 1 /\ log.begun[2] = 1
         /\ mode = "pool" =>
              /\ {caller.got[i].job : i \in 1..Len(caller.got)}
                   = 1..task[Producer].job
              /\ Len(caller.got) = task[Producer].job
              /\ \A i \in 1..task[Producer].job : log.begun[i] = 1

(* Neither side of a pair acts before both have been forced, and none acts *)
(* when the other one could not be spawned (PairPreparationGate).          *)
NoHeadStart ==
    IsPair => \A t \in 1..2 :
        log.begun[t] > 0 =>
            task[3 - t].pc \notin {"none", "prepare", "arrive"} /\ ~gate.aborted

(* Structured: unless it reported tasks as stalled, no thread of a call is *)
(* left when the call has returned, whether it succeeded, failed, timed    *)
(* out or was cancelled half way through its spawns.                       *)
Quiet == Returned /\ ~log.stalled => \A t \in Tasks : Finished(t)

(* A call stops when it has a reason to, however long the actions, the     *)
(* callbacks and the list would go on: its caller is cancelled, its        *)
(* deadline passes, a side or a callback fails, a race has a first result  *)
(* ("failure_cancels_a_peer_delay_without_waiting_for_its_deadline").      *)
ReasonToStop ==
    \/ token.caller
    \/ (mode = "timeout" /\ token.expired)
    \/ log.failed
    \/ (mode = "race" /\ log.sent)
Stops == (caller.pc # "enter" /\ ReasonToStop) ~> Returned

(* Nobody is forgotten: once a call has returned all its threads end, also *)
(* those it gave up on and a side that waits at the gate for another one.  *)
AllEnd == Returned ~> \A t \in Tasks : Finished(t)

(* What a call answers is the cause of its failure or one result for every *)
(* input, and its queues stay within their bounds (concurrency.rs:40-680). *)
ResultsSound == TypeOK /\ CauseReported /\ OnePerInput
=============================================================================
