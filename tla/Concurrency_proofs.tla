------------------------- MODULE Concurrency_proofs -------------------------
(***************************************************************************)
(* What holds of a concurrently, a race, a timeout and a pooled loop for   *)
(* every instance of Concurrency: neither side of a pair acts before both  *)
(* have been forced (NoHeadStart), no thread outlives its call (Quiet),    *)
(* and a call answers with its cause or with one result for every input    *)
(* (ResultsSound).                                                         *)
(*                                                                         *)
(* NoHeadStart is not inductive.  It holds because the gate counts the     *)
(* sides that have arrived (GateCounts), opens only for two (Opened), and  *)
(* is aborted only when the right side was not and will not be spawned     *)
(* (AbortedAlone), which needs to be known of the spawn loop (Spawning).   *)
(* Quiet needs to know which scopes are still to be closed and that the    *)
(* tasks of the others have ended (Shutting), that an empty spawn list is  *)
(* never left behind (SidesSpawned), and that nobody starts early.         *)
(* ResultsSound needs to know where every unit of work is (Once, Counted)  *)
(* and what came first in the channel (Blames); its part is the last.      *)
(***************************************************************************)
EXTENDS Concurrency, FiniteSetTheorems, SequenceTheorems, TLAPS

Task == [pc : TaskPcs, job : Nat, kind : Kinds]
CallerFields == {"pc", "todo", "got", "error"}
LogFields == {"begun", "stalled", "failed", "sent"}
Shapes ==
    /\ task \in [Tasks -> Task]
    /\ gate \in [arrived : Nat, aborted : BOOLEAN]
    /\ DOMAIN caller = CallerFields
    /\ DOMAIN log = LogFields
    /\ log.begun \in [Tasks \cup Inputs -> Nat]

Past(t) == task[t].pc \notin {"none", "prepare", "arrive"}

(* The caller spawns the left side and then the right one, each once.      *)
Spawning ==
    /\ caller.pc = "enter" => \A t \in Tasks : task[t].pc = "none"
    /\ caller.pc = "spawn" =>
         \/ caller.todo = <<1, 2>> /\ task[1].pc = "none" /\ task[2].pc = "none"
         \/ caller.todo = <<2>> /\ task[2].pc = "none"
    /\ \A t \in Tasks \ {1, 2} : task[t].pc = "none"

GateCounts ==
    gate.arrived = (IF Past(1) THEN 1 ELSE 0) + (IF Past(2) THEN 1 ELSE 0)

AbortedAlone ==
    gate.aborted => task[2].pc = "none" /\ caller.pc \notin {"enter", "spawn"}

Opened ==
    \A t \in {1, 2} :
        log.begun[t] > 0 \/ task[t].pc \in {"start", "running"} =>
            gate.arrived = 2 /\ ~gate.aborted

PairInv == Shapes /\ Spawning /\ GateCounts /\ AbortedAlone /\ Opened

(* Only a pair uses the gate.                                              *)
GateInv == IsPair => PairInv

-----------------------------------------------------------------------------
(* The sides of a pair are tasks.                                          *)
LEMMA SidesAreTasks == {1, 2} \subseteq Tasks
  BY BoundsAssumption DEF Tasks

LEMMA Initially == Init => GateInv
<1> SUFFICES ASSUME Init, IsPair PROVE PairInv
  BY DEF GateInv
<1>1. Shapes
  <2>1. Idle \in Task
    BY DEF Idle, Task, TaskPcs, Kinds
  <2>2. task \in [Tasks -> Task]
    BY <2>1 DEF Init
  <2>3. gate \in [arrived : Nat, aborted : BOOLEAN]
    BY DEF Init
  <2>4. DOMAIN caller = CallerFields /\ DOMAIN log = LogFields
    BY DEF Init, CallerFields, LogFields
  <2>5. log.begun \in [Tasks \cup Inputs -> Nat]
    BY DEF Init
  <2> QED
    BY <2>2, <2>3, <2>4, <2>5 DEF Shapes
<1>2. \A t \in Tasks : task[t].pc = "none"
  BY DEF Init, Idle
<1>3. Spawning /\ GateCounts /\ AbortedAlone /\ Opened
  BY <1>2, SidesAreTasks DEF Init, Spawning, GateCounts, Past, AbortedAlone, Opened
<1> QED
  BY <1>1, <1>3 DEF PairInv

(* A step of the caller or of its surroundings that touches neither the    *)
(* tasks nor the gate and does not go on spawning.                         *)
LEMMA CallerPreserves ==
  ASSUME PairInv, UNCHANGED <<task, gate>>, log'.begun = log.begun,
         DOMAIN caller' = CallerFields, DOMAIN log' = LogFields,
         UNCHANGED caller \/ caller'.pc \notin {"enter", "spawn"}
  PROVE  PairInv'
<1>1. Shapes'
  BY DEF PairInv, Shapes
<1>2. Spawning' /\ GateCounts' /\ AbortedAlone' /\ Opened'
  BY DEF PairInv, Spawning, GateCounts, Past, AbortedAlone, Opened
<1> QED
  BY <1>1, <1>2 DEF PairInv

(* A step of side t that leaves the gate alone, keeps it on the same side  *)
(* of the gate, and starts it only when the gate is open.                  *)
LEMMA SidePreserves ==
  ASSUME NEW t \in Tasks, PairInv, UNCHANGED <<caller, gate>>,
         NEW moved \in Task,
         task[t].pc # "none", moved.pc # "none",
         task' = [task EXCEPT ![t] = moved],
         Past(t) <=> moved.pc \notin {"none", "prepare", "arrive"},
         NEW begun \in [Tasks \cup Inputs -> Nat],
         log'.begun = begun, DOMAIN log' = LogFields,
         \A u \in Tasks : begun[u] # log.begun[u] \/ (u = t /\ moved.pc \in {"start", "running"})
                            => u = t /\ gate.arrived = 2 /\ ~gate.aborted
  PROVE  PairInv'
<1>1. Shapes'
  BY DEF PairInv, Shapes
<1>2. t \in {1, 2}
  BY DEF PairInv, Spawning
<1>3. \A u \in Tasks : task'[u] = IF u = t THEN moved ELSE task[u]
  BY DEF PairInv, Shapes
<1>4. Past(1)' = Past(1) /\ Past(2)' = Past(2)
  BY <1>2, <1>3, SidesAreTasks DEF Past
<1>5. GateCounts'
  BY <1>4 DEF PairInv, GateCounts
<1>6. caller.pc # "enter"
  BY DEF PairInv, Spawning
<1>7. Spawning'
  BY <1>2, <1>3, <1>6, SidesAreTasks DEF PairInv, Spawning
<1>8. AbortedAlone'
  BY <1>2, <1>3, SidesAreTasks DEF PairInv, AbortedAlone
<1>9. Opened'
  BY <1>2, <1>3, SidesAreTasks DEF PairInv, Opened
<1> QED
  BY <1>1, <1>5, <1>7, <1>8, <1>9 DEF PairInv

-----------------------------------------------------------------------------
(* The caller's own steps.                                                 *)
LEMMA EnterPreserves ==
  ASSUME IsPair, PairInv, Enter PROVE PairInv'
<1>1. UNCHANGED <<task, gate, log>> /\ caller.pc = "enter"
  BY DEF Enter, AtCaller
<1>2. DOMAIN caller = CallerFields /\ DOMAIN log = LogFields
  BY DEF PairInv, Shapes
<1>3. CASE caller' = [caller EXCEPT !.pc = "returned", !.todo = <<>>]
  <2>1. caller'.pc = "returned" /\ DOMAIN caller' = CallerFields
    BY <1>2, <1>3 DEF CallerFields
  <2> QED
    BY <1>1, <1>2, <2>1, CallerPreserves
<1>4. CASE caller' = [caller EXCEPT !.pc = "spawn", !.todo = <<1, 2>>]
  <2>1. caller'.pc = "spawn" /\ caller'.todo = <<1, 2>> /\ DOMAIN caller' = CallerFields
    BY <1>2, <1>4 DEF CallerFields
  <2>2. Shapes'
    BY <1>1, <2>1 DEF PairInv, Shapes
  <2>3. ~gate.aborted
    BY <1>1 DEF PairInv, AbortedAlone
  <2>4. Spawning'
    BY <1>1, <2>1, SidesAreTasks DEF PairInv, Spawning
  <2>5. GateCounts' /\ AbortedAlone' /\ Opened'
    BY <1>1, <2>3 DEF PairInv, GateCounts, Past, AbortedAlone, Opened
  <2> QED
    BY <2>2, <2>4, <2>5 DEF PairInv
<1>5. caller' \in {[caller EXCEPT !.pc = "returned", !.todo = <<>>],
                  [caller EXCEPT !.pc = "spawn", !.todo = <<1, 2>>]}
  BY DEF Enter, Go, SpawnOrder, IsPair
<1> QED
  BY <1>3, <1>4, <1>5

LEMMA SpawnPreserves ==
  ASSUME IsPair, PairInv, Spawn PROVE PairInv'
<1> DEFINE todo == caller.todo
           t == Head(todo)
<1>1. UNCHANGED <<gate, log>> /\ caller.pc = "spawn"
  BY DEF Spawn, AtCaller
<1>2. todo \in {<<1, 2>>, <<2>>}
  BY <1>1 DEF PairInv, Spawning
<1>3. t \in {1, 2} /\ task[t].pc = "none"
  BY <1>1 DEF PairInv, Spawning
<1>4. task' = [task EXCEPT ![t].pc = "prepare"]
  BY DEF Spawn, FirstPc, IsPair
<1>5. \A u \in Tasks : task'[u] = IF u = t THEN [task[u] EXCEPT !.pc = "prepare"]
                                            ELSE task[u]
  BY <1>4 DEF PairInv, Shapes
<1>6. task[t] \in Task
  BY <1>3, SidesAreTasks DEF PairInv, Shapes
<1>7. task'[t].pc = "prepare" /\ task'[t] \in Task
  BY <1>3, <1>5, <1>6, SidesAreTasks DEF Task, TaskPcs
<1>8. /\ caller'.pc = IF Len(todo) = 1 THEN "check" ELSE "spawn"
      /\ caller'.todo = Tail(todo)
      /\ DOMAIN caller' = CallerFields
  BY DEF Spawn, Go, PairInv, Shapes, CallerFields
<1>9. Shapes'
  BY <1>1, <1>4, <1>7, <1>8 DEF PairInv, Shapes
<1>10. ~gate.aborted
  BY <1>1 DEF PairInv, AbortedAlone
<1>11. Spawning'
  <2>1. CASE todo = <<1, 2>>
    <3>1. t = 1 /\ caller'.pc = "spawn" /\ caller'.todo = <<2>>
      BY <2>1, <1>8
    <3>2. task[2].pc = "none"
      BY <2>1, <1>1 DEF PairInv, Spawning
    <3>3. \A u \in Tasks : u # 1 => task'[u] = task[u]
      BY <3>1, <1>5
    <3>4. \A u \in Tasks \ {1, 2} : task'[u].pc = "none"
      BY <3>3 DEF PairInv, Spawning
    <3>5. task'[2].pc = "none"
      BY <3>2, <3>3, SidesAreTasks
    <3> HIDE DEF todo, t
    <3> QED
      BY <3>1, <3>4, <3>5 DEF Spawning
  <2>2. CASE todo = <<2>>
    <3>1. t = 2 /\ caller'.pc = "check"
      BY <2>2, <1>8
    <3> QED
      BY <3>1, <1>5, SidesAreTasks DEF PairInv, Spawning
  <2> QED
    BY <1>2, <2>1, <2>2
<1>12. Past(1)' = Past(1) /\ Past(2)' = Past(2)
  BY <1>3, <1>5, <1>7, SidesAreTasks DEF Past
<1>13. GateCounts' /\ AbortedAlone'
  BY <1>1, <1>10, <1>12 DEF PairInv, GateCounts, AbortedAlone
<1>14. Opened'
  BY <1>1, <1>3, <1>5, <1>7, SidesAreTasks DEF PairInv, Opened
<1> QED
  BY <1>9, <1>11, <1>13, <1>14 DEF PairInv

(* When the right side is refused it never ran, so the left side cannot    *)
(* have passed the gate.                                                   *)
LEMMA RefusalPreserves ==
  ASSUME IsPair, PairInv, SpawnRefused PROVE PairInv'
<1>1. UNCHANGED <<task, log>> /\ caller.pc = "spawn"
  BY DEF SpawnRefused, AtCaller
<1>2. caller'.pc = "close" /\ DOMAIN caller' = CallerFields
  BY DEF SpawnRefused, Shut, Go, PairInv, Shapes, CallerFields
<1>3. ~gate.aborted
  BY <1>1 DEF PairInv, AbortedAlone
<1>4. task[2].pc = "none"
  BY <1>1 DEF PairInv, Spawning
<1>5. gate.arrived # 2
  BY <1>4 DEF PairInv, GateCounts, Past
<1>6. gate' \in [arrived : Nat, aborted : BOOLEAN] /\ gate'.arrived = gate.arrived
  BY DEF SpawnRefused, PairInv, Shapes
<1>7. Shapes'
  BY <1>1, <1>2, <1>6 DEF PairInv, Shapes
<1>8. Spawning' /\ GateCounts' /\ AbortedAlone' /\ Opened'
  BY <1>1, <1>2, <1>4, <1>5, <1>6 DEF PairInv, Spawning, GateCounts, Past, AbortedAlone, Opened
<1> QED
  BY <1>7, <1>8 DEF PairInv

(* The rest of the call and its surroundings.                              *)
CallerElse ==
    \/ CancelCaller \/ CancelDescends \/ Expire
    \/ Check \/ Poll \/ ReceiveTimed \/ ReceivePair \/ ReceivePool \/ Drained
    \/ AwaitFinished \/ AwaitStalled \/ CloseScope \/ AwaitTasks
    \/ \E kind \in {"cancelled", "value", "error"} : RunInline(kind)

LEMMA CallerElsePreserves ==
  ASSUME IsPair, PairInv, CallerElse PROVE PairInv'
<1>1. DOMAIN caller = CallerFields /\ DOMAIN log = LogFields
  BY DEF PairInv, Shapes
<1>2. UNCHANGED <<task, gate>>
  BY DEF CallerElse, CancelCaller, CancelDescends, Expire, Check, Poll,
     ReceiveTimed, ReceivePair, ReceivePool, Drained, AwaitFinished,
     AwaitStalled, CloseScope, AwaitTasks, RunInline
<1>3. log'.begun = log.begun /\ DOMAIN log' = LogFields
  <2>1. CASE UNCHANGED log
    BY <1>1, <2>1
  <2>2. CASE AwaitTasks
    BY <1>1, <2>2 DEF AwaitTasks, LogFields
  <2> QED
    BY <2>1, <2>2 DEF CallerElse, CancelCaller, CancelDescends, Expire, Check,
       Poll, ReceiveTimed, ReceivePair, ReceivePool, Drained, AwaitFinished,
       AwaitStalled, CloseScope, RunInline
<1>4. \/ UNCHANGED caller
      \/ caller'.pc \notin {"enter", "spawn"} /\ DOMAIN caller' = CallerFields
  <2>1. CASE CancelCaller \/ CancelDescends \/ Expire
    BY <2>1 DEF CancelCaller, CancelDescends, Expire
  <2>2. CASE Check \/ Poll
    BY <1>1, <2>2 DEF Check, Poll, Go, Shut, CallerFields
  <2>3. CASE ReceiveTimed \/ ReceivePair \/ ReceivePool
    BY <1>1, <2>3 DEF ReceiveTimed, ReceivePair, ReceivePool, Go, Shut, CallerFields, IsPair
  <2>4. CASE Drained \/ AwaitFinished \/ AwaitStalled
    BY <1>1, <2>4 DEF Drained, AwaitFinished, AwaitStalled, Go, Shut, CallerFields
  <2>5. CASE CloseScope \/ AwaitTasks
    BY <1>1, <2>5 DEF CloseScope, AwaitTasks, Go, CallerFields
  <2>6. CASE \E kind \in {"cancelled", "value", "error"} : RunInline(kind)
    BY <1>1, <2>6 DEF RunInline, Go, CallerFields
  <2> QED
    BY <2>1, <2>2, <2>3, <2>4, <2>5, <2>6 DEF CallerElse
<1> QED
  BY <1>1, <1>2, <1>3, <1>4, CallerPreserves

-----------------------------------------------------------------------------
(* The sides' steps.                                                       *)
LEMMA ArrivePreserves ==
  ASSUME IsPair, PairInv, NEW t \in Tasks, Arrive(t) PROVE PairInv'
<1>1. task[t].pc = "arrive" /\ UNCHANGED <<caller, log>>
  BY DEF Arrive, At
<1>2. t \in {1, 2}
  BY <1>1 DEF PairInv, Spawning
<1>3. task[t] \in Task
  BY DEF PairInv, Shapes
<1>4. task' = [task EXCEPT ![t] = [task[t] EXCEPT !.pc = "gate", !.kind = task[t].kind]]
  BY DEF Arrive, Step, PairInv, Shapes
<1>5. [task[t] EXCEPT !.pc = "gate", !.kind = task[t].kind] \in Task
  BY <1>3 DEF Task, TaskPcs
<1>6. \A u \in Tasks : task'[u] = IF u = t
        THEN [task[t] EXCEPT !.pc = "gate", !.kind = task[t].kind] ELSE task[u]
  BY <1>4 DEF PairInv, Shapes
<1>7. task'[t].pc = "gate"
  BY <1>3, <1>6 DEF Task
<1>8. gate' = [gate EXCEPT !.arrived = gate.arrived + 1]
  BY DEF Arrive
<1>9. /\ gate'.arrived = gate.arrived + 1 /\ gate'.aborted = gate.aborted
      /\ gate' \in [arrived : Nat, aborted : BOOLEAN]
  BY <1>8 DEF PairInv, Shapes
<1>10. Shapes'
  BY <1>1, <1>4, <1>5, <1>9 DEF PairInv, Shapes
<1>11. Spawning'
  BY <1>1, <1>2, <1>6, SidesAreTasks DEF PairInv, Spawning
<1>12. ~Past(t) /\ Past(t)' /\ Past(3 - t)' = Past(3 - t)
  BY <1>1, <1>2, <1>6, <1>7, SidesAreTasks DEF Past
<1>13. GateCounts'
  BY <1>2, <1>9, <1>12 DEF PairInv, GateCounts
<1>14. AbortedAlone'
  BY <1>1, <1>2, <1>6, <1>9, SidesAreTasks DEF PairInv, AbortedAlone
<1>15. gate.arrived # 2
  BY <1>2, <1>12 DEF PairInv, GateCounts
<1>16. Opened'
  BY <1>1, <1>2, <1>6, <1>7, <1>15, SidesAreTasks DEF PairInv, Opened
<1> QED
  BY <1>10, <1>11, <1>13, <1>14, <1>16 DEF PairInv

(* Every other step of a side leaves the gate and the caller alone.        *)
LEMMA SideElsePreserves ==
  ASSUME IsPair, PairInv, NEW t \in Tasks, NEW kind \in {"cancelled", "value", "error"},
         Prepare(t, kind) \/ PassGate(t) \/ EndRun(t, kind) \/ Publish(t)
  PROVE  PairInv'
<1> DEFINE to(pc, k) == [task[t] EXCEPT !.pc = pc, !.kind = k]
<1>1. task[t] \in Task /\ DOMAIN log = LogFields
      /\ log.begun \in [Tasks \cup Inputs -> Nat]
  BY DEF PairInv, Shapes
<1>2. \A pc \in TaskPcs, k \in Kinds : to(pc, k) \in Task /\ to(pc, k).pc = pc
  BY <1>1 DEF Task
<1>3. \A pc, k : Step(t, pc, k) => task' = [task EXCEPT ![t] = to(pc, k)]
  BY DEF Step, PairInv, Shapes
<1>4. UNCHANGED <<caller, gate, log>>
  BY DEF Prepare, PassGate, EndRun, Publish
<1>5. task[t].kind \in Kinds
  BY <1>1 DEF Task
<1>6. SUFFICES ASSUME NEW pc \in TaskPcs, NEW k \in Kinds,
                      Step(t, pc, k), task[t].pc # "none", pc # "none",
                      Past(t) <=> pc \notin {"none", "prepare", "arrive"},
                      pc \in {"start", "running"} => gate.arrived = 2 /\ ~gate.aborted
               PROVE  PairInv'
  <2>1. CASE Prepare(t, kind)
    BY <2>1, <1>6 DEF Prepare, At, Past, TaskPcs, Kinds
  <2>2. CASE PassGate(t) /\ gate.aborted
    BY <2>2, <1>6 DEF PassGate, At, Past, TaskPcs, Kinds
  <2>3. CASE PassGate(t) /\ ~gate.aborted
    BY <2>3, <1>5, <1>6 DEF PassGate, At, Past, TaskPcs
  <2>4. CASE EndRun(t, kind)
    BY <2>4, <1>6 DEF EndRun, At, Past, TaskPcs, Kinds
  <2>5. CASE Publish(t)
    BY <2>5, <1>5, <1>6 DEF Publish, At, Past, TaskPcs
  <2> QED
    BY <2>1, <2>2, <2>3, <2>4, <2>5
<1>7. to(pc, k) \in Task /\ to(pc, k).pc = pc /\ task' = [task EXCEPT ![t] = to(pc, k)]
  BY <1>2, <1>3, <1>6
<1> HIDE DEF to
<1> QED
  BY <1>1, <1>4, <1>6, <1>7, SidePreserves

(* A side begins to act, or finds itself cancelled.                        *)
LEMMA BeginPreserves ==
  ASSUME IsPair, PairInv, NEW t \in Tasks, Begin(t) PROVE PairInv'
<1> DEFINE to(pc, k) == [task[t] EXCEPT !.pc = pc, !.kind = k]
           counted == [log.begun EXCEPT ![t] = log.begun[t] + 1]
<1>1. task[t] \in Task /\ DOMAIN log = LogFields
      /\ log.begun \in [Tasks \cup Inputs -> Nat]
  BY DEF PairInv, Shapes
<1>2. task[t].pc = "start" /\ UNCHANGED <<caller, gate>>
  BY DEF Begin, At
<1>3. t \in {1, 2}
  BY <1>2 DEF PairInv, Spawning
<1>4. gate.arrived = 2 /\ ~gate.aborted
  BY <1>2, <1>3 DEF PairInv, Opened
<1>5. Past(t)
  BY <1>2 DEF Past
<1>6. CASE Step(t, "send", "cancelled") /\ UNCHANGED log
  <2>1. task' = [task EXCEPT ![t] = to("send", "cancelled")]
    BY <1>6 DEF Step, PairInv, Shapes
  <2>2. to("send", "cancelled") \in Task /\ to("send", "cancelled").pc = "send"
    BY <1>1 DEF Task, TaskPcs, Kinds
  <2> HIDE DEF to
  <2> QED
    BY <1>1, <1>2, <1>4, <1>5, <1>6, <2>1, <2>2, SidePreserves
<1>7. CASE /\ Step(t, "running", "value")
           /\ log' = [log EXCEPT !.begun[t] = @ + 1]
  <2>1. task' = [task EXCEPT ![t] = to("running", "value")]
    BY <1>7 DEF Step, PairInv, Shapes
  <2>2. to("running", "value") \in Task /\ to("running", "value").pc = "running"
    BY <1>1 DEF Task, TaskPcs, Kinds
  <2>3. log'.begun = counted /\ DOMAIN log' = LogFields
    BY <1>1, <1>7 DEF LogFields
  <2>4. counted \in [Tasks \cup Inputs -> Nat]
    BY <1>1
  <2>5. \A u \in Tasks : u # t => counted[u] = log.begun[u]
    BY <1>1
  <2> HIDE DEF to, counted
  <2> QED
    BY <1>2, <1>4, <1>5, <2>1, <2>2, <2>3, <2>4, <2>5, SidePreserves
<1> QED
  BY <1>6, <1>7 DEF Begin, Unit, IsPair

LEMMA SendPreserves ==
  ASSUME IsPair, PairInv, NEW t \in Tasks, Send(t) PROVE PairInv'
<1> DEFINE ended == [pc |-> "ended", job |-> 0, kind |-> "value"]
<1>1. DOMAIN log = LogFields /\ log.begun \in [Tasks \cup Inputs -> Nat]
  BY DEF PairInv, Shapes
<1>2. task[t].pc = "send" /\ UNCHANGED <<caller, gate>>
  BY DEF Send, At
<1>3. task' = [task EXCEPT ![t] = ended]
  BY DEF Send, AfterSend
<1>4. ended \in Task /\ ended.pc = "ended"
  BY DEF Task, TaskPcs, Kinds
<1>5. log'.begun = log.begun /\ DOMAIN log' = LogFields
  BY <1>1 DEF Send, LogFields
<1>6. Past(t)
  BY <1>2 DEF Past
<1> HIDE DEF ended
<1> QED
  BY <1>1, <1>2, <1>3, <1>4, <1>5, <1>6, SidePreserves

-----------------------------------------------------------------------------
LEMMA StepPreserves == GateInv /\ [Next]_vars => GateInv'
<1> SUFFICES ASSUME GateInv, [Next]_vars, IsPair' PROVE PairInv'
  BY DEF GateInv
<1>1. UNCHANGED mode
  BY DEF Next, vars, CancelCaller, CancelDescends, Expire, CallerStep, Enter,
     Spawn, SpawnRefused, Check, Poll, ReceiveTimed, ReceivePair, ReceivePool,
     Drained, AwaitFinished, AwaitStalled, CloseScope, AwaitTasks, RunInline,
     TaskStep, SideStep, Prepare, Arrive, PassGate, PoolStep, Safepoint,
     PollToken, TakeJob, KeepJob, Fail, Produce, ProduceCell, Offer, Put,
     Begin, EndRun, Send, Publish, UserStep
<1>2. IsPair /\ PairInv /\ mode # "pool"
  BY <1>1 DEF GateInv, IsPair
<1>3. CASE UNCHANGED vars
  BY <1>2, <1>3 DEF vars, PairInv, Shapes, Spawning, GateCounts, Past, AbortedAlone, Opened
<1>4. CASE Enter
  BY <1>2, <1>4, EnterPreserves
<1>5. CASE Spawn
  BY <1>2, <1>5, SpawnPreserves
<1>6. CASE SpawnRefused
  BY <1>2, <1>6, RefusalPreserves
<1>7. CASE CallerElse
  BY <1>2, <1>7, CallerElsePreserves
<1>8. CASE \E t \in Tasks : Arrive(t)
  BY <1>2, <1>8, ArrivePreserves
<1>9. CASE \E t \in Tasks : PassGate(t) \/ Publish(t)
  BY <1>2, <1>9, SideElsePreserves
<1>10. CASE \E t \in Tasks, kind \in {"cancelled", "value", "error"} :
               Prepare(t, kind) \/ EndRun(t, kind)
  BY <1>2, <1>10, SideElsePreserves
<1>11. CASE \E t \in Tasks : Begin(t)
  BY <1>2, <1>11, BeginPreserves
<1>12. CASE \E t \in Tasks : Send(t)
  BY <1>2, <1>12, SendPreserves
<1> QED
  BY <1>2, <1>3, <1>4, <1>5, <1>6, <1>7, <1>8, <1>9, <1>10, <1>11, <1>12
     DEF Next, CallerStep, CallerElse, TaskStep, SideStep, PoolStep, UserStep

(* Both sides have arrived once the gate is open.                          *)
LEMMA GateSuffices == GateInv => NoHeadStart
<1> SUFFICES ASSUME PairInv, NEW t \in 1..2, log.begun[t] > 0
             PROVE  Past(3 - t) /\ ~gate.aborted
  BY DEF GateInv, NoHeadStart, Past
<1>1. t \in {1, 2}
  OBVIOUS
<1>2. gate.arrived = 2 /\ ~gate.aborted
  BY <1>1 DEF PairInv, Opened
<1>3. Past(1) /\ Past(2)
  BY <1>2 DEF PairInv, GateCounts
<1> QED
  BY <1>1, <1>2, <1>3

(* Neither side of concurrently or race acts before both have been forced, *)
(* nor when one of them could not be spawned (PairPreparationGate).        *)
THEOREM NoHeadStartHolds == Spec => []NoHeadStart
<1>1. Init => GateInv
  BY Initially
<1>2. GateInv /\ [Next]_vars => GateInv'
  BY StepPreserves
<1>3. GateInv => NoHeadStart
  BY GateSuffices
<1> QED
  BY <1>1, <1>2, <1>3, PTL DEF Spec
-----------------------------------------------------------------------------
(* Quiet.  While the scopes of a call are closed one after the other, the  *)
(* tasks of those behind the caller have ended, unless it gave up on one:  *)
(* a task that has ended is never started again, and nobody spawns once    *)
(* the closing has begun.                                                  *)
Framed ==
    /\ DOMAIN task = Tasks
    /\ DOMAIN caller = CallerFields
    /\ DOMAIN log = LogFields

Idling == \A t \in Tasks : task[t].pc = "none"
OnlySides == \A t \in Tasks \ {1, 2} : task[t].pc = "none"

(* What is left to spawn, and to close, and who has ended meanwhile.       *)
SidesSpawned ==
    IsPair => OnlySides /\ (caller.pc = "spawn" => caller.todo \in {<<1, 2>>, <<2>>})
Behind(t) == IsPair /\ \/ t = 2 /\ caller.todo \in {<<1, Own>>, <<Own>>}
                       \/ t = 1 /\ caller.todo = <<Own>>
Shutting ==
    caller.pc \in {"close", "wait"} =>
        /\ IF IsPair THEN caller.todo \in {<<2, 1, Own>>, <<1, Own>>, <<Own>>}
                     ELSE caller.todo = <<Own>>
        /\ ~log.stalled => \A t \in Tasks : Behind(t) => Finished(t)

QuietInv ==
    /\ Framed
    /\ caller.pc \in {"enter", "inline"} => Idling
    /\ SidesSpawned
    /\ Shutting
    /\ Quiet

(* Before the call no thread has been spawned.                             *)
LEMMA InitiallyQuiet == Init => QuietInv
BY DEF Init, QuietInv, Framed, CallerFields, LogFields, Idling, OnlySides, SidesSpawned,
       Shutting, Quiet, Returned, Idle

(* A thread moves: the others stay where they are, and it had not ended.   *)
Moved(t) ==
    /\ UNCHANGED <<mode, caller>> /\ log'.stalled = log.stalled /\ DOMAIN log' = LogFields
    /\ DOMAIN task' = Tasks
    /\ ~Finished(t)
    /\ \A u \in Tasks \ {t} : task'[u] = task[u]

(* A side of a pair, or of a timeout, moves itself only, until it ends.    *)
LEMMA SideMoves ==
  ASSUME Framed, NEW t, NEW kind,
         Prepare(t, kind) \/ Arrive(t) \/ PassGate(t) \/ Begin(t) \/ EndRun(t, kind)
           \/ Send(t) \/ Publish(t)
  PROVE  Moved(t)
<1>1. CASE Prepare(t, kind)
  BY <1>1 DEF Framed, Prepare, Moved, Finished, At, Step
<1>2. CASE Arrive(t)
  BY <1>2 DEF Framed, Arrive, Moved, Finished, At, Step
<1>3. CASE PassGate(t)
  BY <1>3 DEF Framed, PassGate, Moved, Finished, At, Step
<1>4. CASE Begin(t)
  BY <1>4 DEF Framed, Begin, Moved, Finished, At, Step, LogFields
<1>5. CASE EndRun(t, kind)
  BY <1>5 DEF Framed, EndRun, Moved, Finished, At, Step
<1>6. CASE Send(t)
  BY <1>6 DEF Framed, Send, Moved, Finished, At, LogFields
<1>7. CASE Publish(t)
  BY <1>7 DEF Framed, Publish, Moved, Finished, At, Step
<1> QED
  BY <1>1, <1>2, <1>3, <1>4, <1>5, <1>6, <1>7

(* So does a worker of a pool,                                             *)
LEMMA WorkerMoves ==
  ASSUME Framed, NEW t,
         Safepoint(t) \/ PollToken(t) \/ TakeJob(t) \/ KeepJob(t) \/ Fail(t)
  PROVE  Moved(t)
<1>1. CASE Safepoint(t)
  BY <1>1 DEF Framed, Safepoint, Moved, Finished, At, Step
<1>2. CASE PollToken(t)
  BY <1>2 DEF Framed, PollToken, Moved, Finished, At, Step
<1>3. CASE TakeJob(t)
  BY <1>3 DEF Framed, TakeJob, Moved, Finished, At, Step
<1>4. CASE KeepJob(t)
  BY <1>4 DEF Framed, KeepJob, Moved, Finished, At, Step
<1>5. CASE Fail(t)
  BY <1>5 DEF Framed, Fail, Moved, Finished, At, Step
<1> QED
  BY <1>1, <1>2, <1>3, <1>4, <1>5

(* and so does its producer.                                               *)
LEMMA ProducerMoves ==
  ASSUME Framed, NEW kind, Produce(kind) \/ ProduceCell \/ Offer \/ Put
  PROVE  Moved(Producer)
<1>1. CASE Produce(kind)
  BY <1>1 DEF Framed, Produce, Moved, Finished, At, Step
<1>2. CASE ProduceCell
  BY <1>2 DEF Framed, ProduceCell, Moved, Finished, At, Step
<1>3. CASE Offer
  BY <1>3 DEF Framed, Offer, Moved, Finished, At, Step
<1>4. CASE Put
  BY <1>4 DEF Framed, Put, Moved, Finished, At, Step
<1> QED
  BY <1>1, <1>2, <1>3, <1>4

(* The move of a thread that had not ended takes nobody back.              *)
LEMMA MovesQuietly ==
  ASSUME QuietInv, NEW t, Moved(t) PROVE QuietInv'
<1>1. \A u \in Tasks : Finished(u) => task'[u] = task[u] /\ Finished(u)'
  BY DEF Moved, Finished
<1>2. Framed'
  BY DEF QuietInv, Framed, Moved
<1>3. \A u \in Tasks : task[u].pc = "none" => task'[u].pc = "none"
  BY <1>1 DEF Finished
<1>4. caller'.pc \in {"enter", "inline"} => Idling'
  BY <1>3 DEF QuietInv, Moved, Idling
<1>5. SidesSpawned'
  BY <1>3 DEF QuietInv, Moved, SidesSpawned, OnlySides, IsPair
<1>6. Shutting'
  BY <1>1 DEF QuietInv, Moved, Shutting, Behind, IsPair
<1>7. Quiet'
  BY <1>1 DEF QuietInv, Moved, Quiet, Returned
<1> QED
  BY <1>2, <1>4, <1>5, <1>6, <1>7 DEF QuietInv

(* The surroundings, and the caller while it spawns, polls and collects.   *)
LEMMA SurroundingsQuietly ==
  ASSUME QuietInv, CancelCaller \/ CancelDescends \/ Expire \/ UNCHANGED vars
  PROVE  QuietInv'
<1>1. UNCHANGED <<mode, caller, task, log>>
  BY DEF CancelCaller, CancelDescends, Expire, vars
<1> QED
  BY <1>1 DEF QuietInv, Framed, Idling, SidesSpawned, OnlySides, IsPair, Shutting, Behind,
     Finished, Quiet, Returned

(* The caller goes on to a part of its call where it closes nothing yet,   *)
(* or begins to close.                                                     *)
Collecting == {"check", "receive", "await"}
Onward(pc, todo) ==
    /\ UNCHANGED <<mode, task, log>>
    /\ caller'.pc = pc /\ caller'.todo = todo /\ DOMAIN caller' = CallerFields
Nearer(pc, todo) == pc \in Collecting \/ (pc = "close" /\ todo = Guards)

(* What it closes lies ahead of it, and nobody has ended for it yet.       *)
LEMMA OnwardQuietly ==
  ASSUME QuietInv, NEW pc, NEW todo, Onward(pc, todo), Nearer(pc, todo) PROVE QuietInv'
<1>1. Framed' /\ SidesSpawned' /\ Quiet' /\ (caller'.pc \in {"enter", "inline"} => Idling')
  BY DEF QuietInv, Onward, Nearer, Collecting, Framed, SidesSpawned, OnlySides, IsPair, Quiet,
     Returned
<1>2. Shutting'
  BY DEF Onward, Nearer, Collecting, Guards, Shutting, Behind, IsPair, Own
<1> QED
  BY <1>1, <1>2 DEF QuietInv

(* A caller that is done with its results turns to its guards.             *)
LEMMA ShutOnward ==
  ASSUME Framed, NEW result, Shut(result), UNCHANGED <<mode, task, log>>
  PROVE  Onward("close", Guards)
BY DEF Framed, Shut, Go, Onward, CallerFields

(* A caller that goes on to its next part moves nobody else.               *)
LEMMA GoOnward ==
  ASSUME Framed, NEW pc, NEW todo, Go(pc, todo), UNCHANGED <<mode, task, log>>
  PROVE  Onward(pc, todo)
BY DEF Framed, Go, Onward, CallerFields

CallerCollects ==
    \/ SpawnRefused \/ Check \/ Poll \/ ReceiveTimed \/ ReceivePair \/ ReceivePool
    \/ Drained \/ AwaitFinished \/ AwaitStalled

(* Polling, receiving and awaiting, each until the caller begins to close. *)
LEMMA CollectingQuietly ==
  ASSUME QuietInv, CallerCollects PROVE QuietInv'
<1>1. Framed /\ UNCHANGED <<mode, task, log>>
  BY DEF QuietInv, CallerCollects, SpawnRefused, Check, Poll, ReceiveTimed, ReceivePair,
     ReceivePool, Drained, AwaitFinished, AwaitStalled
<1>2. \/ \E result : Shut(result)
      \/ \E pc \in Collecting : \E todo : Go(pc, todo)
      \/ \E got, error : caller' = [caller EXCEPT !.pc = "check", !.got = got, !.error = error]
  <2>1. CASE SpawnRefused \/ ReceiveTimed \/ AwaitStalled
    BY <2>1 DEF SpawnRefused, ReceiveTimed, AwaitStalled
  <2>2. CASE Check \/ Poll
    BY <2>2 DEF Check, Poll, Collecting
  <2>3. CASE ReceivePair
    <3>1. [caller EXCEPT !.pc = "check", !.got = <<Received>>]
            = [caller EXCEPT !.pc = "check", !.got = <<Received>>, !.error = caller.error]
      BY <1>1 DEF Framed, CallerFields
    <3> QED
      BY <2>3, <3>1 DEF ReceivePair
  <2>4. CASE ReceivePool
    <3> DEFINE more == Append(caller.got, Received)
               cause == IF caller.error = "none" THEN Received.kind ELSE caller.error
    <3>1. CASE caller' = [caller EXCEPT !.pc = "check", !.got = more]
      <4>1. caller' = [caller EXCEPT !.pc = "check", !.got = more, !.error = caller.error]
        BY <1>1, <3>1 DEF Framed, CallerFields
      <4> QED
        BY <4>1
    <3>2. CASE caller' = [caller EXCEPT !.pc = "check", !.error = cause]
      <4>1. caller' = [caller EXCEPT !.pc = "check", !.got = caller.got, !.error = cause]
        BY <1>1, <3>2 DEF Framed, CallerFields
      <4> QED
        BY <4>1
    <3> QED
      BY <2>4, <3>1, <3>2 DEF ReceivePool
  <2>5. CASE Drained
    BY <2>5 DEF Drained, Collecting
  <2>6. CASE AwaitFinished
    BY <2>6 DEF AwaitFinished, Collecting
  <2> QED
    BY <2>1, <2>2, <2>3, <2>4, <2>5, <2>6 DEF CallerCollects
<1>3. CASE \E result : Shut(result)
  <2>1. Onward("close", Guards)
    BY <1>1, <1>3, ShutOnward
  <2>2. Nearer("close", Guards)
    BY DEF Nearer
  <2> QED
    BY <2>1, <2>2, OnwardQuietly
<1>4. CASE \E pc \in Collecting : \E todo : Go(pc, todo)
  <2>1. PICK pc \in Collecting : \E todo : Go(pc, todo)
    BY <1>4
  <2>2. PICK todo : Go(pc, todo)
    BY <2>1
  <2>3. Onward(pc, todo)
    BY <1>1, <2>2, GoOnward
  <2>4. Nearer(pc, todo)
    BY <2>1 DEF Nearer
  <2> QED
    BY <2>3, <2>4, OnwardQuietly
<1>5. CASE \E got, error : caller' = [caller EXCEPT !.pc = "check", !.got = got, !.error = error]
  <2> DEFINE pc == "check"
             todo == caller.todo
  <2>1. Onward(pc, todo) /\ Nearer(pc, todo)
    BY <1>1, <1>5 DEF Framed, Onward, Nearer, CallerFields, Collecting
  <2> HIDE DEF pc, todo
  <2> QED
    BY <2>1, OnwardQuietly
<1> QED
  BY <1>2, <1>3, <1>4, <1>5

(* Entry and the spawns: nobody has been spawned before.                   *)
LEMMA EntryQuietly ==
  ASSUME QuietInv, Enter \/ \E kind : RunInline(kind) PROVE QuietInv'
<1>1. /\ UNCHANGED <<mode, task, log>> /\ Framed /\ Idling
      /\ \/ caller' = [caller EXCEPT !.pc = "returned", !.todo = <<>>]
         \/ caller' = [caller EXCEPT !.pc = "inline", !.todo = <<>>]
         \/ caller' = [caller EXCEPT !.pc = "spawn", !.todo = SpawnOrder]
  BY DEF QuietInv, Enter, RunInline, AtCaller, Go
<1>2. /\ DOMAIN caller' = CallerFields
      /\ caller'.pc \in {"returned", "inline"} \/ (caller'.pc = "spawn" /\ caller'.todo = SpawnOrder)
  BY <1>1 DEF Framed, CallerFields
<1>3. Idling' /\ Framed'
  BY <1>1, <1>2 DEF Idling, Framed
<1>4. SidesSpawned'
  BY <1>1, <1>2, <1>3 DEF SidesSpawned, OnlySides, Idling, SpawnOrder, IsPair
<1>5. Shutting' /\ Quiet'
  BY <1>2, <1>3 DEF Shutting, Quiet, Idling, Finished
<1> QED
  BY <1>3, <1>4, <1>5 DEF QuietInv

(* A spawn starts the thread the loop is at, the caller being in the loop. *)
LEMMA SpawnQuietly ==
  ASSUME QuietInv, Spawn PROVE QuietInv'
<1> DEFINE t == Head(caller.todo)
<1>1. /\ UNCHANGED <<mode, log>> /\ Framed /\ caller.pc = "spawn" /\ caller.todo # <<>>
      /\ task' = [task EXCEPT ![t].pc = FirstPc(t)]
  BY DEF QuietInv, Spawn, AtCaller
<1>2. /\ caller'.pc \in {"check", "spawn"} /\ caller'.todo = Tail(caller.todo)
      /\ DOMAIN caller' = CallerFields
      /\ caller'.pc = "spawn" => Len(caller.todo) # 1
  BY <1>1 DEF Spawn, Go, Framed, CallerFields
<1>3. DOMAIN task' = Tasks /\ \A u \in Tasks \ {t} : task'[u] = task[u]
  BY <1>1 DEF Framed
<1>4. ASSUME IsPair PROVE OnlySides' /\ (caller'.pc = "spawn" => caller'.todo \in {<<1, 2>>, <<2>>})
  <2>1. caller.todo \in {<<1, 2>>, <<2>>} /\ OnlySides
    BY <1>1, <1>4 DEF QuietInv, SidesSpawned
  <2>2. t \in {1, 2} /\ (Len(caller.todo) # 1 => Tail(caller.todo) = <<2>>)
    <3>1. CASE caller.todo = <<1, 2>>
      <4> DEFINE todo == <<1, 2>>
      <4>1. Head(todo) = 1 /\ Tail(todo) = <<2>>
        OBVIOUS
      <4> QED
        BY <3>1, <4>1
    <3>2. CASE caller.todo = <<2>>
      <4>1. Head(<<2>>) = 2 /\ Len(<<2>>) = 1
        OBVIOUS
      <4> QED
        BY <3>2, <4>1
    <3> QED
      BY <2>1, <3>1, <3>2
  <2> HIDE DEF t
  <2> QED
    BY <1>2, <1>3, <2>1, <2>2 DEF OnlySides
<1> HIDE DEF t
<1>5. Framed' /\ SidesSpawned'
  BY <1>1, <1>2, <1>3, <1>4 DEF Framed, SidesSpawned, IsPair
<1>6. Shutting' /\ Quiet' /\ (caller'.pc \in {"enter", "inline"} => Idling')
  BY <1>2 DEF Shutting, Quiet, Returned
<1> QED
  BY <1>5, <1>6 DEF QuietInv

(* A close of one of its scopes, and the end of its wait.                  *)
LEMMA ClosingQuietly ==
  ASSUME QuietInv, CloseScope PROVE QuietInv'
<1>1. /\ UNCHANGED <<mode, task, log>> /\ Framed /\ caller.pc = "close"
      /\ caller'.pc = "wait" /\ caller'.todo = caller.todo /\ DOMAIN caller' = CallerFields
  BY DEF QuietInv, CloseScope, AtCaller, Go, Framed, CallerFields
<1> QED
  BY <1>1 DEF QuietInv, Framed, SidesSpawned, OnlySides, IsPair, Shutting, Behind, Finished,
     Quiet, Returned

(* The guards of a pair, as they are closed from the last to the first.    *)
LEMMA EndsOfGuards ==
  /\ Head(<<2, 1, Own>>) = 2 /\ Tail(<<2, 1, Own>>) = <<1, Own>>
  /\ Head(<<1, Own>>) = 1 /\ Tail(<<1, Own>>) = <<Own>>
  /\ Head(<<Own>>) = Own /\ Tail(<<Own>>) = <<>>
OBVIOUS

(* After a wait for a scope its tasks have ended, or it reported a stall.  *)
LEMMA WaitingQuietly ==
  ASSUME QuietInv, AwaitTasks PROVE QuietInv'
<1> DEFINE s == Head(caller.todo)
           rest == Tail(caller.todo)
           late == Unfinished(s)
<1>1. /\ UNCHANGED <<mode, task>> /\ Framed /\ caller.pc = "wait"
      /\ caller'.pc = (IF rest = <<>> THEN "returned" ELSE "close") /\ caller'.todo = rest
      /\ DOMAIN caller' = CallerFields
      /\ DOMAIN log' = LogFields /\ log'.stalled = (log.stalled \/ late # {})
  BY DEF QuietInv, AwaitTasks, AtCaller, Go, Framed, CallerFields, LogFields
<1>2. Framed' /\ SidesSpawned' /\ (caller'.pc \in {"enter", "inline"} => Idling')
  BY <1>1 DEF QuietInv, Framed, SidesSpawned, OnlySides, IsPair
<1>3. ~log'.stalled => ~log.stalled /\ late = {}
  BY <1>1
<1>4. \A t \in Tasks : Finished(t)' <=> Finished(t)
  BY <1>1 DEF Finished
<1>5. CASE ~IsPair
  <2>1. s = Own /\ rest = <<>>
    <3>1. caller.todo = <<Own>>
      BY <1>1, <1>5 DEF QuietInv, Shutting
    <3> QED
      BY <3>1, EndsOfGuards
  <2>2. ~log'.stalled => \A t \in Tasks : Finished(t)
    BY <1>3, <1>5, <2>1 DEF Unfinished
  <2> HIDE DEF s, rest, late
  <2>3. Shutting' /\ Quiet'
    BY <1>1, <1>4, <2>1, <2>2 DEF Shutting, Quiet
  <2> QED
    BY <1>2, <2>3 DEF QuietInv
<1>6. CASE IsPair
  <2>1. caller.todo \in {<<2, 1, Own>>, <<1, Own>>, <<Own>>} /\ OnlySides
    BY <1>1, <1>6 DEF QuietInv, Shutting, SidesSpawned
  <2>2. \/ s = 2 /\ rest = <<1, Own>>
        \/ s = 1 /\ rest = <<Own>> /\ caller.todo = <<1, Own>>
        \/ s = Own /\ rest = <<>> /\ caller.todo = <<Own>>
    BY <2>1, EndsOfGuards
  <2>3. ~log.stalled => \A t \in Tasks : Behind(t) => Finished(t)
    BY <1>1 DEF QuietInv, Shutting
  <2>4. s # Own /\ ~log'.stalled => Finished(s)
    BY <1>3 DEF Unfinished
  <2>5. \A t \in Tasks \ {1, 2} : Finished(t)
    BY <2>1 DEF OnlySides, Finished
  <2>6. IsPair' = IsPair
    BY <1>1 DEF IsPair
  <2> HIDE DEF s, rest, late
  <2>7. CASE s = 2 /\ rest = <<1, Own>>
    <3>1. \A t \in Tasks : Behind(t)' => t = 2
      BY <1>1, <2>7 DEF Behind, Own
    <3>2. Shutting'
      BY <1>1, <1>4, <1>6, <2>4, <2>6, <2>7, <3>1 DEF Shutting, Own
    <3>3. Quiet'
      BY <1>1, <2>7 DEF Quiet, Returned
    <3> QED
      BY <1>2, <3>2, <3>3 DEF QuietInv
  <2>8. CASE s = 1 /\ rest = <<Own>> /\ caller.todo = <<1, Own>>
    <3>1. \A t \in Tasks : Behind(t)' => t \in {1, 2}
      BY DEF Behind
    <3>2. ~log.stalled => (2 \in Tasks => Finished(2))
      BY <1>6, <2>3, <2>8 DEF Behind
    <3>3. Shutting'
      BY <1>1, <1>3, <1>4, <1>6, <2>4, <2>6, <2>8, <3>1, <3>2 DEF Shutting, Own
    <3>4. Quiet'
      BY <1>1, <2>8 DEF Quiet, Returned
    <3> QED
      BY <1>2, <3>3, <3>4 DEF QuietInv
  <2>9. CASE s = Own /\ rest = <<>> /\ caller.todo = <<Own>>
    <3>1. ~log.stalled => \A t \in Tasks \cap {1, 2} : Finished(t)
      BY <1>6, <2>3, <2>9 DEF Behind
    <3>2. ~log'.stalled => \A t \in Tasks : Finished(t)'
      BY <1>3, <1>4, <2>5, <3>1
    <3>3. Shutting' /\ Quiet'
      BY <1>1, <2>9, <3>2 DEF Shutting, Quiet
    <3> QED
      BY <1>2, <3>3 DEF QuietInv
  <2> QED
    BY <2>2, <2>7, <2>8, <2>9
<1> QED
  BY <1>5, <1>6

(* Every step of the call and of its threads.                              *)
LEMMA StepQuietly == QuietInv /\ [Next]_vars => QuietInv'
<1> SUFFICES ASSUME QuietInv, [Next]_vars PROVE QuietInv'
  OBVIOUS
<1>1. Framed
  BY DEF QuietInv
<1>2. CASE CancelCaller \/ CancelDescends \/ Expire \/ UNCHANGED vars
  BY <1>2, SurroundingsQuietly
<1>3. CASE Enter \/ \E kind : RunInline(kind)
  BY <1>3, EntryQuietly
<1>4. CASE Spawn
  BY <1>4, SpawnQuietly
<1>5. CASE CallerCollects
  BY <1>5, CollectingQuietly
<1>6. CASE CloseScope
  BY <1>6, ClosingQuietly
<1>7. CASE AwaitTasks
  BY <1>7, WaitingQuietly
<1>8. ASSUME NEW t, NEW kind,
             Prepare(t, kind) \/ Arrive(t) \/ PassGate(t) \/ Begin(t) \/ EndRun(t, kind)
               \/ Send(t) \/ Publish(t)
      PROVE  QuietInv'
  BY <1>1, <1>8, SideMoves, MovesQuietly
<1>9. ASSUME NEW t, Safepoint(t) \/ PollToken(t) \/ TakeJob(t) \/ KeepJob(t) \/ Fail(t)
      PROVE  QuietInv'
  BY <1>1, <1>9, WorkerMoves, MovesQuietly
<1>10. ASSUME NEW kind, Produce(kind) \/ ProduceCell \/ Offer \/ Put
       PROVE  QuietInv'
  BY <1>1, <1>10, ProducerMoves, MovesQuietly
<1>11. CASE CallerStep
  BY <1>3, <1>4, <1>5, <1>6, <1>7, <1>11 DEF CallerStep, CallerCollects
<1>12. CASE \E t \in Tasks : TaskStep(t)
  BY <1>8, <1>9, <1>10, <1>12 DEF TaskStep, SideStep, PoolStep
<1>13. CASE UserStep
  BY <1>3, <1>8, <1>10, <1>13 DEF UserStep
<1> QED
  BY <1>2, <1>10, <1>11, <1>12, <1>13 DEF Next

(* Structured: unless it reported tasks as stalled, no thread of a call is *)
(* left when the call has returned, whether it succeeded, failed, timed    *)
(* out or was cancelled half way through its spawns (the TaskGuards and    *)
(* scope guards of concurrently, race, timeout and the pooled loops).      *)
THEOREM QuietHolds == Spec => []Quiet
<1>1. QuietInv => Quiet
  BY DEF QuietInv
<1> QED
  BY <1>1, InitiallyQuiet, StepQuietly, PTL DEF Spec
-----------------------------------------------------------------------------
(* ResultsSound.  What a call answers is not inductive: it holds because   *)
(* every unit of work (a side of a pair, the action of a timeout, a cell   *)
(* of a pool's list) is in one place at a time, with whoever is to run it, *)
(* in the job queue, in the result channel or among the results (Once),    *)
(* because its run is counted while it moves on (Counted), and because a   *)
(* cancellation nobody asked for comes after the failure that set it off,  *)
(* also in the channel (Blames).                                           *)
Calls == {"both", "race", "timeout", "pool"}
Party == IF mode = "pool" THEN 1..(workers + 1) ELSE IF IsPair THEN {1, 2} ELSE {1}
SidePcs == {"prepare", "arrive", "gate", "start", "running", "send", "ended", "done"}
TimedPcs == {"start", "running", "send", "done"}
ProducerPcs == {"produce", "offer", "put", "ended", "done"}
WorkerPcs == {"safepoint", "poll", "take", "got", "start", "running", "send", "fail",
              "ended", "done"}
RolePcs(t) ==
    IF mode = "pool" THEN IF t = Producer THEN ProducerPcs
                          ELSE IF t \in Workers THEN WorkerPcs ELSE {}
    ELSE IF IsPair THEN IF t \in {1, 2} THEN SidePcs ELSE {}
    ELSE IF mode = "timeout" /\ t = 1 THEN TimedPcs ELSE {}

JobNumbers == 0..MaxCells
ResultRec == [from : Tasks, job : JobNumbers, kind : Kinds]
TaskRec == [pc : TaskPcs, job : JobNumbers, kind : Kinds]
CallerRec == [pc : CallerPcs, todo : Seq(Tasks \cup {Own}), got : Seq(ResultRec),
              error : {"none", "error", "cancelled", "aborted"}]
TokenRec == [caller : BOOLEAN, own : BOOLEAN, cut : SUBSET Tasks,
             expired : BOOLEAN, asked : BOOLEAN]
GateRec == [arrived : Nat, aborted : BOOLEAN]
LogRec == [begun : [Tasks \cup Inputs -> Nat], stalled : BOOLEAN,
           failed : BOOLEAN, sent : BOOLEAN]

Typed ==
    /\ mode \in Modes /\ workers \in 1..MaxWorkers
    /\ caller \in CallerRec /\ answer \in Answers
    /\ token \in TokenRec /\ task \in [Tasks -> TaskRec] /\ gate \in GateRec
    /\ jobs \in Seq(Inputs) /\ inbox \in Seq(ResultRec)
    /\ log \in LogRec

(* The call still has to decide on its answer.                             *)
Undecided == caller.pc \notin {"close", "wait", "returned"}

Roles ==
    /\ caller.pc \notin {"enter", "inline", "returned"} => mode \in Calls
    /\ caller.pc = "inline" => mode \notin Calls
    /\ \A t \in Tasks : task[t].pc = "none" \/ task[t].pc \in RolePcs(t)
    /\ caller.pc \in {"enter", "inline"} => \A t \in Tasks : task[t].pc = "none"

(* What is left to spawn, each once; and whom an emptied pool waits for.   *)
SpawnList ==
    caller.pc = "spawn" =>
        /\ \A i \in 1..Len(caller.todo) :
             caller.todo[i] \in Party /\ task[caller.todo[i]].pc = "none"
        /\ \A i, j \in 1..Len(caller.todo) : caller.todo[i] = caller.todo[j] => i = j
Exits == {"ended", "done"}
AwaitList ==
    caller.pc = "await" =>
        /\ mode = "pool" /\ caller.error = "none" /\ inbox = <<>>
        /\ \A w \in Workers : task[w].pc \in Exits
        /\ caller.todo \in Seq(Tasks)
        /\ caller.todo = SpawnOrder \/ (caller.todo # <<>> /\ task[Producer].pc = "done")
Deciding ==
    /\ answer = "pending" <=> Undecided
    /\ caller.pc \in {"close", "wait"} => caller.todo # <<>>
Gated == /\ ~IsPair => gate.arrived = 0
         /\ gate.aborted => ~Undecided
Queues ==
    /\ mode # "pool" => jobs = <<>>
    /\ Len(jobs) <= 2 * workers
    /\ mode = "pool" /\ task[Producer].pc \in {"offer", "put"} => task[Producer].job < MaxCells

(* A result is known by its side, and in a pool by its job.                *)
Key(m, e) == IF m = "pool" THEN e.job ELSE e.from
KeysOf(m, s) == {Key(m, s[i]) : i \in 1..Len(s)}
Distinct(m, s) == \A i, j \in 1..Len(s) : Key(m, s[i]) = Key(m, s[j]) => i = j
Elements(s) == {s[i] : i \in 1..Len(s)}
Injective(s) == \A i, j \in 1..Len(s) : s[i] = s[j] => i = j

(* Who has a unit of work, not yet run (Early) or run and not yet sent.    *)
Early(m) == IF m = "pool" THEN {"got", "start"}
            ELSE {"none", "prepare", "arrive", "gate", "start"}
Held(m) == Early(m) \cup {"running", "send"}
Made == task[Producer].job
Units == IF mode = "pool" THEN 1..Made ELSE Party

Once ==
    /\ \A t, u \in Tasks : /\ task[t].pc \in Held(mode) /\ task[u].pc \in Held(mode)
                           /\ Unit(t) = Unit(u)
                           => t = u
    /\ Distinct(mode, inbox) /\ Distinct(mode, caller.got) /\ Injective(jobs)
    /\ \A t \in Tasks : task[t].pc \in Held(mode) =>
         /\ mode = "pool" => Unit(t) \in 1..Made
         /\ Unit(t) \notin KeysOf(mode, inbox) /\ Unit(t) \notin KeysOf(mode, caller.got)
         /\ Unit(t) \notin Elements(jobs)
    /\ KeysOf(mode, inbox) \cap KeysOf(mode, caller.got) = {}
    /\ Elements(jobs) \cap KeysOf(mode, inbox) = {}
    /\ Elements(jobs) \cap KeysOf(mode, caller.got) = {}
    /\ Elements(jobs) \subseteq Units /\ KeysOf(mode, inbox) \subseteq Units
    /\ KeysOf(mode, caller.got) \subseteq Units
    /\ mode # "pool" /\ caller.got # <<>> => IsPair /\ Len(caller.got) = 1

(* How often a unit has begun, by the place where it is.                   *)
HasRun(r) == r.pc = "running" \/ (r.pc = "send" /\ r.kind = "value")
Counted ==
    /\ \A u \in Tasks \cup Inputs : log.begun[u] \in {0, 1}
    /\ mode = "pool" =>
         \A u \in Tasks \cup Inputs : u > Made \/ u \in Elements(jobs) => log.begun[u] = 0
    /\ \A t \in Tasks : /\ task[t].pc \in Early(mode) => log.begun[Unit(t)] = 0
                        /\ HasRun(task[t]) => log.begun[Unit(t)] = 1
    /\ \A i \in 1..Len(inbox) :
         inbox[i].kind = "value" => log.begun[Key(mode, inbox[i])] = 1
    /\ \A i \in 1..Len(caller.got) :
         caller.got[i].kind = "value" /\ log.begun[Key(mode, caller.got[i])] = 1

Complete ==
    answer = "value" =>
        /\ mode = "both" => log.begun[1] = 1 /\ log.begun[2] = 1
        /\ mode = "pool" => task[Producer].pc = "done" /\ Len(caller.got) = Made

(* The causes.  Somebody outside asked for the cancellation; or a failure  *)
(* is known to the caller, or will be before the k-th result.              *)
Excused == token.caller \/ token.expired
FailureBefore(k) ==
    caller.error = "error" \/ \E j \in 1..Len(inbox) : j < k /\ inbox[j].kind = "error"
FailureKnown ==
    caller.error = "error" \/ \E j \in 1..Len(inbox) : inbox[j].kind = "error"

NoneAborted ==
    /\ token.cut = {}
    /\ \A t \in Tasks : task[t].kind # "aborted"
    /\ \A i \in 1..Len(inbox) : inbox[i].kind # "aborted"
NoneCancelled ==
    /\ ~token.own
    /\ \A t \in Tasks : task[t].kind # "cancelled"
    /\ \A i \in 1..Len(inbox) : inbox[i].kind # "cancelled"
PoolCalm ==
    /\ ~token.own
    /\ \A t \in Tasks : task[t].pc # "fail" /\ task[t].kind # "cancelled"
    /\ \/ task[Producer].pc \in Exits
       \/ \A w \in Workers : task[w].pc \notin Exits
PoolBlames ==
    /\ caller.error \in {"none", "error"}
    /\ \A i \in 1..Len(inbox) : inbox[i].kind = "cancelled" => FailureBefore(i)
    /\ FailureKnown \/ PoolCalm
Blames ==
    /\ Undecided /\ ~Excused =>
         /\ NoneAborted
         /\ mode # "pool" => NoneCancelled
         /\ mode = "pool" => PoolBlames
    /\ ~Excused => answer \notin {"cancelled", "aborted"}

Sound ==
    /\ Typed /\ Roles /\ SpawnList /\ AwaitList /\ Deciding /\ Gated /\ Queues
    /\ Once /\ Counted /\ Complete /\ Blames

-----------------------------------------------------------------------------
(* Sequences of results and of jobs: what taking the first and adding a    *)
(* last one does to what they hold.                                        *)
LEMMA TakenFirst ==
  ASSUME NEW S, NEW s \in Seq(S), s # <<>>
  PROVE  /\ Head(s) \in S /\ Head(s) = s[1] /\ Tail(s) \in Seq(S)
         /\ Len(s) \in Nat \ {0} /\ Len(Tail(s)) = Len(s) - 1
         /\ \A i \in 1..Len(Tail(s)) : Tail(s)[i] = s[i + 1]
  BY EmptySeq, HeadTailProperties

LEMMA AddedLast ==
  ASSUME NEW S, NEW s \in Seq(S), NEW e \in S
  PROVE  /\ Append(s, e) \in Seq(S) /\ Append(s, e) # <<>> /\ Len(s) \in Nat
         /\ Len(Append(s, e)) = Len(s) + 1
         /\ \A i \in 1..Len(s) : Append(s, e)[i] = s[i]
         /\ Append(s, e)[Len(s) + 1] = e
  BY AppendProperties, LenProperties

(* The keys of the results but the first.                                  *)
LEMMA KeysTaken ==
  ASSUME NEW m, NEW s \in Seq(ResultRec), s # <<>>, Distinct(m, s)
  PROVE  /\ Distinct(m, Tail(s)) /\ Key(m, Head(s)) \in KeysOf(m, s)
         /\ KeysOf(m, Tail(s)) \subseteq KeysOf(m, s)
         /\ Key(m, Head(s)) \notin KeysOf(m, Tail(s))
<1> DEFINE t == Tail(s)
<1>1. /\ Head(s) = s[1] /\ Len(s) \in Nat \ {0} /\ Len(t) = Len(s) - 1
      /\ \A i \in 1..Len(t) : t[i] = s[i + 1]
  BY TakenFirst
<1> HIDE DEF t
<1>2. \A i \in 1..Len(t) : i + 1 \in 1..Len(s) /\ i + 1 # 1
  BY <1>1
<1>3. 1 \in 1..Len(s)
  BY <1>1
<1>4. Distinct(m, t)
  <2> SUFFICES ASSUME NEW i \in 1..Len(t), NEW j \in 1..Len(t), Key(m, t[i]) = Key(m, t[j])
               PROVE  i = j
    BY DEF Distinct
  <2>1. i + 1 = j + 1
    BY <1>1, <1>2 DEF Distinct
  <2> QED
    BY <2>1
<1>5. KeysOf(m, t) \subseteq KeysOf(m, s) /\ Key(m, Head(s)) \in KeysOf(m, s)
  BY <1>1, <1>2, <1>3 DEF KeysOf
<1>6. Key(m, Head(s)) \notin KeysOf(m, t)
  <2> SUFFICES ASSUME NEW i \in 1..Len(t), Key(m, s[1]) = Key(m, t[i]) PROVE FALSE
    BY <1>1 DEF KeysOf
  <2>1. i + 1 = 1
    BY <1>1, <1>2, <1>3 DEF Distinct
  <2> QED
    BY <1>2, <2>1
<1> QED
  BY <1>4, <1>5, <1>6 DEF t

(* The keys with one result more.                                          *)
LEMMA KeysAdded ==
  ASSUME NEW m, NEW s \in Seq(ResultRec), NEW e \in ResultRec
  PROVE  /\ KeysOf(m, Append(s, e)) = KeysOf(m, s) \cup {Key(m, e)}
         /\ Distinct(m, s) /\ Key(m, e) \notin KeysOf(m, s) => Distinct(m, Append(s, e))
<1> DEFINE t == Append(s, e)
           n == Len(s)
<1>1. /\ n \in Nat /\ Len(t) = n + 1 /\ t[n + 1] = e
      /\ \A i \in 1..n : t[i] = s[i]
  BY AddedLast
<1> HIDE DEF t
<1>2. \A i \in 1..Len(t) : i \in 1..n \/ i = n + 1
  BY <1>1
<1>3. n + 1 \in 1..Len(t) /\ 1..n \subseteq 1..Len(t)
  BY <1>1
<1>4. KeysOf(m, t) \subseteq KeysOf(m, s) \cup {Key(m, e)}
  BY <1>1, <1>2 DEF KeysOf
<1>5. KeysOf(m, s) \cup {Key(m, e)} \subseteq KeysOf(m, t)
  BY <1>1, <1>3 DEF KeysOf
<1>6. ASSUME Distinct(m, s), Key(m, e) \notin KeysOf(m, s) PROVE Distinct(m, t)
  <2>1. \A i \in 1..n : Key(m, t[i]) # Key(m, e)
    BY <1>1, <1>6 DEF KeysOf
  <2> SUFFICES ASSUME NEW i \in 1..Len(t), NEW j \in 1..Len(t), Key(m, t[i]) = Key(m, t[j])
               PROVE  i = j
    BY DEF Distinct
  <2>2. CASE i \in 1..n /\ j \in 1..n
    BY <1>1, <1>6, <2>2 DEF Distinct
  <2> QED
    BY <1>1, <1>2, <2>1, <2>2
<1> QED
  BY <1>4, <1>5, <1>6 DEF t

(* The jobs but the first, and with one more.                              *)
LEMMA JobsTaken ==
  ASSUME NEW s \in Seq(Inputs), s # <<>>, Injective(s)
  PROVE  /\ Injective(Tail(s)) /\ Head(s) \in Elements(s)
         /\ Elements(Tail(s)) \subseteq Elements(s) /\ Head(s) \notin Elements(Tail(s))
<1> DEFINE t == Tail(s)
<1>1. /\ Head(s) = s[1] /\ Len(s) \in Nat \ {0} /\ Len(t) = Len(s) - 1
      /\ \A i \in 1..Len(t) : t[i] = s[i + 1]
  BY TakenFirst
<1> HIDE DEF t
<1>2. \A i \in 1..Len(t) : i + 1 \in 1..Len(s) /\ i + 1 # 1
  BY <1>1
<1>3. 1 \in 1..Len(s)
  BY <1>1
<1>4. Injective(t)
  <2> SUFFICES ASSUME NEW i \in 1..Len(t), NEW j \in 1..Len(t), t[i] = t[j] PROVE i = j
    BY DEF Injective
  <2>1. i + 1 = j + 1
    BY <1>1, <1>2 DEF Injective
  <2> QED
    BY <2>1
<1>5. Elements(t) \subseteq Elements(s) /\ Head(s) \in Elements(s)
  BY <1>1, <1>2, <1>3 DEF Elements
<1>6. Head(s) \notin Elements(t)
  <2> SUFFICES ASSUME NEW i \in 1..Len(t), s[1] = t[i] PROVE FALSE
    BY <1>1 DEF Elements
  <2>1. i + 1 = 1
    BY <1>1, <1>2, <1>3 DEF Injective
  <2> QED
    BY <1>2, <2>1
<1> QED
  BY <1>4, <1>5, <1>6 DEF t

LEMMA JobsAdded ==
  ASSUME NEW s \in Seq(Inputs), NEW e \in Inputs
  PROVE  /\ Elements(Append(s, e)) = Elements(s) \cup {e}
         /\ Injective(s) /\ e \notin Elements(s) => Injective(Append(s, e))
<1> DEFINE t == Append(s, e)
           n == Len(s)
<1>1. /\ n \in Nat /\ Len(t) = n + 1 /\ t[n + 1] = e
      /\ \A i \in 1..n : t[i] = s[i]
  BY AddedLast
<1> HIDE DEF t
<1>2. \A i \in 1..Len(t) : i \in 1..n \/ i = n + 1
  BY <1>1
<1>3. n + 1 \in 1..Len(t) /\ 1..n \subseteq 1..Len(t)
  BY <1>1
<1>4. Elements(t) \subseteq Elements(s) \cup {e} /\ Elements(s) \cup {e} \subseteq Elements(t)
  BY <1>1, <1>2, <1>3 DEF Elements
<1>5. ASSUME Injective(s), e \notin Elements(s) PROVE Injective(t)
  <2>1. \A i \in 1..n : t[i] # e
    BY <1>1, <1>5 DEF Elements
  <2> SUFFICES ASSUME NEW i \in 1..Len(t), NEW j \in 1..Len(t), t[i] = t[j] PROVE i = j
    BY DEF Injective
  <2>2. CASE i \in 1..n /\ j \in 1..n
    BY <1>1, <1>5, <2>2 DEF Injective
  <2> QED
    BY <1>1, <1>2, <2>1, <2>2
<1> QED
  BY <1>4, <1>5 DEF t

(* Results with different keys out of n: there are at most n of them, and  *)
(* if there are n every key has one.                                       *)
LEMMA KeysCount ==
  ASSUME NEW m, NEW s \in Seq(ResultRec), NEW n \in Nat,
         Distinct(m, s), KeysOf(m, s) \subseteq 1..n
  PROVE  Len(s) <= n /\ (Len(s) = n => KeysOf(m, s) = 1..n)
<1> DEFINE f == [i \in 1..Len(s) |-> Key(m, s[i])]
<1>1. Len(s) \in Nat
  BY LenProperties
<1>2. /\ IsFiniteSet(1..n) /\ Cardinality(1..n) = n
      /\ IsFiniteSet(1..Len(s)) /\ Cardinality(1..Len(s)) = Len(s)
  <2>1. ASSUME NEW k \in Nat PROVE IsFiniteSet(1..k) /\ Cardinality(1..k) = k
    <3>1. /\ IsFiniteSet(1..k)
          /\ Cardinality(1..k) = IF 1 > k THEN 0 ELSE k - 1 + 1
      BY FS_Interval
    <3> QED
      BY <3>1
  <2> QED
    BY <1>1, <2>1
<1>3. f \in Injection(1..Len(s), 1..n)
  BY DEF KeysOf, Distinct, Injection, IsInjective
<1>4. Cardinality(1..Len(s)) <= Cardinality(1..n)
      /\ (Cardinality(1..Len(s)) = Cardinality(1..n) => f \in Surjection(1..Len(s), 1..n))
  BY <1>2, <1>3, FS_Injection
<1>5. ASSUME f \in Surjection(1..Len(s), 1..n) PROVE 1..n \subseteq KeysOf(m, s)
  BY <1>5 DEF Surjection, KeysOf
<1> QED
  BY <1>2, <1>4, <1>5

-----------------------------------------------------------------------------
(* The parts of the types that the steps take apart and put together.      *)
LEMMA CallerGoes ==
  ASSUME caller \in CallerRec, NEW pc \in CallerPcs, NEW todo \in Seq(Tasks \cup {Own}),
         Go(pc, todo)
  PROVE  /\ caller' \in CallerRec /\ caller'.pc = pc /\ caller'.todo = todo
         /\ caller'.got = caller.got /\ caller'.error = caller.error
  BY DEF CallerRec, Go

LEMMA TokenCancelled ==
  ASSUME NEW tok \in TokenRec, NEW s \in Tasks \cup {Own}
  PROVE  /\ CancelOwn(tok) \in TokenRec /\ CancelScope(tok, s) \in TokenRec
         /\ CancelOwn(tok).caller = tok.caller /\ CancelOwn(tok).expired = tok.expired
         /\ CancelScope(tok, s).caller = tok.caller /\ CancelScope(tok, s).expired = tok.expired
<1>1. CASE tok.own
  <2>1. CancelOwn(tok) = tok
    BY <1>1 DEF CancelOwn
  <2>2. CASE s = Own
    BY <2>1, <2>2 DEF CancelScope
  <2>3. CASE s # Own
    BY <2>1, <2>3 DEF CancelScope, TokenRec
  <2> QED
    BY <2>2, <2>3
<1>2. CASE ~tok.own
  <2>1. CancelOwn(tok) = [tok EXCEPT !.own = TRUE, !.asked = TRUE]
    BY <1>2 DEF CancelOwn
  <2>2. /\ CancelOwn(tok) \in TokenRec
        /\ CancelOwn(tok).caller = tok.caller /\ CancelOwn(tok).expired = tok.expired
    BY <2>1 DEF TokenRec
  <2>3. CASE s = Own
    BY <2>2, <2>3 DEF CancelScope
  <2>4. CASE s # Own
    BY <2>2, <2>4 DEF CancelScope, TokenRec
  <2> QED
    BY <2>3, <2>4
<1> QED
  BY <1>1, <1>2

LEMMA NumbersFit ==
  /\ \A n \in 1..MaxWorkers : n \in Nat \ {0} /\ n + 1 \in Tasks /\ 1..n \subseteq Tasks
  /\ 1 \in Tasks /\ 2 \in Tasks /\ Own \notin Tasks
  /\ 0 \in JobNumbers /\ Inputs \subseteq JobNumbers /\ JobNumbers \subseteq Nat
  BY BoundsAssumption DEF Tasks, Own, JobNumbers, Inputs

(* Who takes part are tasks, each in the list of spawns once.              *)
LEMMA PartyOfCall ==
  ASSUME workers \in 1..MaxWorkers
  PROVE  /\ Party \subseteq Tasks /\ Producer \in Tasks /\ Workers \subseteq Tasks
         /\ Producer \notin Workers /\ 1 \in Workers
<1>1. workers \in Nat \ {0} /\ workers + 1 \in Tasks /\ 1..workers \subseteq Tasks
  BY NumbersFit
<1>2. Producer \in Tasks /\ Workers \subseteq Tasks /\ Producer \notin Workers /\ 1 \in Workers
  BY <1>1 DEF Producer, Workers
<1>3. 1..(workers + 1) \subseteq 1..workers \cup {workers + 1}
  BY <1>1
<1>4. Party \subseteq Tasks
  BY <1>1, <1>3, NumbersFit DEF Party
<1> QED
  BY <1>2, <1>4

LEMMA OrderOfSpawns ==
  ASSUME workers \in 1..MaxWorkers, mode \in Calls
  PROVE  /\ SpawnOrder \in Seq(Tasks) /\ SpawnOrder # <<>>
         /\ \A i \in 1..Len(SpawnOrder) : SpawnOrder[i] \in Party
         /\ Injective(SpawnOrder)
         /\ mode = "pool" => Head(SpawnOrder) = Producer /\ Len(SpawnOrder) > 1
<1>1. CASE mode = "pool"
  <2> DEFINE first == <<Producer>>
             rest == [i \in Workers |-> i]
  <2>1. workers \in Nat \ {0} /\ Producer = workers + 1 /\ Workers = 1..workers
    BY NumbersFit DEF Producer, Workers
  <2>2. first \in Seq(Tasks) /\ Len(first) = 1 /\ first[1] = Producer
    BY PartyOfCall
  <2>3. rest \in Seq(Tasks) /\ Len(rest) = workers /\ \A i \in 1..workers : rest[i] = i
    BY <2>1, PartyOfCall
  <2>4. SpawnOrder = first \o rest
    BY <1>1 DEF SpawnOrder
  <2> HIDE DEF first, rest
  <2>5. /\ SpawnOrder \in Seq(Tasks) /\ Len(SpawnOrder) = workers + 1
        /\ SpawnOrder[1] = Producer
        /\ \A i \in 1..(workers + 1) : i > 1 => SpawnOrder[i] = i - 1
    <3>1. /\ SpawnOrder \in Seq(Tasks) /\ Len(SpawnOrder) = Len(first) + Len(rest)
          /\ \A i \in 1..(Len(first) + Len(rest)) :
               SpawnOrder[i] = IF i <= Len(first) THEN first[i] ELSE rest[i - Len(first)]
      BY <2>2, <2>3, <2>4, ConcatProperties
    <3>2. ASSUME NEW i \in 1..(workers + 1), i > 1
          PROVE  i - 1 \in 1..workers /\ i \in 1..(Len(first) + Len(rest)) /\ ~(i <= Len(first))
      BY <2>1, <2>2, <2>3, <3>2
    <3>3. ASSUME NEW i \in 1..(workers + 1), i > 1 PROVE SpawnOrder[i] = i - 1
      BY <2>2, <2>3, <3>1, <3>2, <3>3
    <3>4. 1 \in 1..(Len(first) + Len(rest)) /\ 1 <= Len(first)
      BY <2>1, <2>2, <2>3
    <3> QED
      BY <2>1, <2>2, <2>3, <3>1, <3>3, <3>4
  <2>6. Party = 1..(workers + 1)
    BY <1>1 DEF Party
  <2>7. ASSUME NEW i \in 1..Len(SpawnOrder)
        PROVE  /\ SpawnOrder[i] \in Party
               /\ \A j \in 1..Len(SpawnOrder) : SpawnOrder[i] = SpawnOrder[j] => i = j
    BY <2>1, <2>5, <2>6
  <2>8. SpawnOrder # <<>> /\ Len(SpawnOrder) > 1
    BY <2>1, <2>5
  <2>9. Head(SpawnOrder) = Producer
    BY <2>5, <2>8, TakenFirst
  <2> QED
    BY <2>5, <2>7, <2>8, <2>9 DEF Injective
<1>2. CASE IsPair
  <2> DEFINE s == <<1, 2>>
  <2>1. SpawnOrder = s /\ Party = {1, 2} /\ mode # "pool"
    BY <1>2 DEF SpawnOrder, Party, IsPair
  <2>2. s \in Seq(Tasks) /\ s # <<>> /\ Injective(s) /\ \A i \in 1..Len(s) : s[i] \in {1, 2}
    BY NumbersFit DEF Injective
  <2> QED
    BY <2>1, <2>2
<1>3. CASE mode = "timeout"
  <2> DEFINE s == <<1>>
  <2>1. SpawnOrder = s /\ Party = {1} /\ mode # "pool"
    BY <1>3 DEF SpawnOrder, Party, IsPair
  <2>2. s \in Seq(Tasks) /\ s # <<>> /\ Injective(s) /\ \A i \in 1..Len(s) : s[i] \in {1}
    BY NumbersFit DEF Injective
  <2> QED
    BY <2>1, <2>2
<1> QED
  BY <1>1, <1>2, <1>3 DEF Calls, IsPair

LEMMA GuardsClosed == Guards \in Seq(Tasks \cup {Own}) /\ Guards # <<>>
<1>1. <<2, 1, Own>> \in Seq(Tasks \cup {Own}) /\ <<Own>> \in Seq(Tasks \cup {Own})
  BY NumbersFit
<1> QED
  BY <1>1 DEF Guards

-----------------------------------------------------------------------------
(* Before the call.                                                        *)
LEMMA InitiallySound == Init => Sound
<1> SUFFICES ASSUME Init PROVE Sound
  OBVIOUS
<1>1. workers \in 1..MaxWorkers /\ mode \in Modes
  BY DEF Init
<1>2. Idle \in TaskRec
  BY NumbersFit DEF Idle, TaskRec, TaskPcs, Kinds
<1>3. task \in [Tasks -> TaskRec] /\ \A t \in Tasks : task[t] = Idle
  BY <1>2 DEF Init
<1>4. caller \in CallerRec /\ caller.pc = "enter" /\ caller.got = <<>> /\ caller.error = "none"
  BY DEF Init, CallerRec, CallerPcs
<1>5. token \in TokenRec /\ ~token.own /\ token.cut = {}
  BY DEF Init, TokenRec
<1>6. gate \in GateRec /\ gate.arrived = 0 /\ ~gate.aborted
  BY DEF Init, GateRec
<1>7. log \in LogRec /\ log.begun = [t \in Tasks \cup Inputs |-> 0]
  BY DEF Init, LogRec
<1>8. answer = "pending" /\ jobs = <<>> /\ inbox = <<>>
  BY DEF Init
<1>9. Typed
  BY <1>1, <1>3, <1>4, <1>5, <1>6, <1>7, <1>8 DEF Typed, Answers
<1>10. \A t \in Tasks : task[t].pc = "none" /\ task[t].kind = "value" /\ task[t].job = 0
  BY <1>3 DEF Idle
<1>11. Roles /\ SpawnList /\ AwaitList /\ Deciding /\ Gated
  BY <1>4, <1>6, <1>8, <1>10 DEF Roles, SpawnList, AwaitList, Deciding, Gated, Undecided
<1>12. Queues
  <2>1. workers \in Nat \ {0}
    BY <1>1, NumbersFit
  <2>2. task[Producer].pc = "none"
    BY <1>1, <1>10, PartyOfCall
  <2> QED
    BY <1>8, <2>1, <2>2 DEF Queues
<1>13. /\ KeysOf(mode, inbox) = {} /\ KeysOf(mode, caller.got) = {} /\ Elements(jobs) = {}
       /\ Distinct(mode, inbox) /\ Distinct(mode, caller.got) /\ Injective(jobs)
  BY <1>4, <1>8 DEF KeysOf, Elements, Distinct, Injective
<1>14. Once
  BY <1>4, <1>10, <1>13 DEF Once, Held, Early, Unit
<1>15. Counted
  <2>1. \A t \in Tasks : task[t].pc \in Early(mode) => Unit(t) \in Tasks \cup Inputs
    BY <1>10 DEF Early, Unit
  <2>2. \A u \in Tasks \cup Inputs : log.begun[u] = 0
    BY <1>7
  <2>3. Len(inbox) = 0 /\ Len(caller.got) = 0
    BY <1>4, <1>8
  <2> HIDE DEF Key
  <2> QED
    BY <1>10, <2>1, <2>2, <2>3 DEF Counted, HasRun
<1>16. Complete
  BY <1>8 DEF Complete
<1>17. Blames
  <2>1. NoneAborted /\ NoneCancelled
    BY <1>5, <1>8, <1>10 DEF NoneAborted, NoneCancelled
  <2>2. PoolBlames
    <3>1. \A w \in Workers : task[w].pc \notin Exits
      BY <1>1, <1>10, PartyOfCall DEF Exits
    <3> QED
      BY <1>4, <1>5, <1>8, <1>10, <3>1 DEF PoolBlames, PoolCalm
  <2> QED
    BY <1>8, <2>1, <2>2 DEF Blames
<1> QED
  BY <1>9, <1>11, <1>12, <1>14, <1>15, <1>16, <1>17 DEF Sound

-----------------------------------------------------------------------------
(* A step that moves no unit of work.                                      *)
Still ==
    /\ UNCHANGED <<mode, workers, task, jobs, inbox>>
    /\ caller'.got = caller.got /\ log'.begun = log.begun

LEMMA StillKeeps ==
  ASSUME Once, Counted, Queues, Still PROVE Once' /\ Counted' /\ Queues'
<1>1. Once'
  BY DEF Still, Once, Unit, Units, Made, Producer, Party, IsPair
<1>2. Counted'
  BY DEF Still, Counted, Unit, Made, Producer
<1>3. Queues'
  BY DEF Still, Queues, Producer
<1> QED
  BY <1>1, <1>2, <1>3

(* The caller decides on its answer, for a good reason.                    *)
Finishes ==
    /\ mode = "both" => log.begun[1] = 1 /\ log.begun[2] = 1
    /\ mode = "pool" => task[Producer].pc = "done" /\ Len(caller.got) = Made

LEMMA ShutSound ==
  ASSUME Sound, mode \in Calls, NEW r \in Answers \ {"pending"}, Shut(r),
         UNCHANGED <<mode, workers, task, jobs, log>>,
         token' \in TokenRec, gate' \in GateRec, gate'.arrived = gate.arrived,
         inbox' \in Seq(ResultRec), Once', Counted',
         Excused => Excused',
         r \in {"cancelled", "aborted"} => Excused',
         r = "value" => Finishes
  PROVE  Sound'
<1>1. /\ caller' \in CallerRec /\ caller'.pc = "close" /\ caller'.todo # <<>>
      /\ caller'.got = caller.got /\ answer' = r
  BY GuardsClosed, CallerGoes DEF Sound, Typed, Shut, CallerPcs
<1>2. Typed'
  BY <1>1 DEF Sound, Typed
<1>3. Roles' /\ SpawnList' /\ AwaitList' /\ Deciding'
  BY <1>1 DEF Sound, Roles, SpawnList, AwaitList, Deciding, Undecided, RolePcs, Producer,
     Workers, IsPair
<1>4. Gated' /\ Queues'
  BY <1>1 DEF Sound, Gated, Queues, Undecided, IsPair, Producer
<1>5. Complete'
  BY <1>1 DEF Complete, Finishes, Made, Producer
<1>6. Blames'
  BY <1>1 DEF Blames, Undecided
<1> QED
  BY <1>2, <1>3, <1>4, <1>5, <1>6 DEF Sound

(* The caller goes on with its call.                                       *)
LEMMA StaySound ==
  ASSUME Sound, Undecided, mode \in Calls,
         caller' \in CallerRec, caller'.pc \in {"check", "receive", "await"},
         caller'.got = caller.got, caller'.error = caller.error,
         UNCHANGED <<mode, workers, answer, token, task, gate, jobs, inbox, log>>,
         AwaitList'
  PROVE  Sound'
<1>1. Typed' /\ Roles' /\ SpawnList' /\ Deciding' /\ Gated' /\ Complete'
  <2>1. Typed'
    BY DEF Sound, Typed
  <2>2. Roles'
    BY DEF Sound, Roles, RolePcs, Producer, Workers, IsPair
  <2>3. SpawnList' /\ Deciding' /\ Gated' /\ Complete'
    BY DEF Sound, SpawnList, Deciding, Gated, Complete, Undecided, IsPair, Made, Producer
  <2> QED
    BY <2>1, <2>2, <2>3
<1>2. Once' /\ Counted' /\ Queues'
  BY StillKeeps DEF Still, Sound
<1>3. Undecided' /\ (Excused' <=> Excused)
  BY DEF Undecided, Excused
<1>4. NoneAborted /\ (mode # "pool" => NoneCancelled) => NoneAborted' /\ (mode # "pool" => NoneCancelled')
  BY DEF NoneAborted, NoneCancelled
<1>5. PoolBlames => PoolBlames'
  BY DEF PoolBlames, PoolCalm, FailureBefore, FailureKnown, Producer, Workers
<1>6. Blames'
  BY <1>3, <1>4, <1>5 DEF Sound, Blames
<1> QED
  BY <1>1, <1>2, <1>6 DEF Sound

(* The surroundings of the call.                                           *)
LEMMA SurroundingsSound ==
  ASSUME Sound, CancelCaller \/ CancelDescends \/ Expire PROVE Sound'
<1>1. UNCHANGED <<mode, workers, caller, answer, task, gate, jobs, inbox, log>>
  BY DEF CancelCaller, CancelDescends, Expire
<1>2. token \in TokenRec
  BY DEF Sound, Typed
<1>3. token' \in TokenRec /\ Excused'
  <2>1. CASE CancelCaller
    BY <1>2, <2>1 DEF CancelCaller, TokenRec, Excused
  <2>2. CASE CancelDescends
    <3>1. Own \in Tasks \cup {Own}
      OBVIOUS
    <3> QED
      BY <1>2, <2>2, <3>1, TokenCancelled DEF CancelDescends, Excused
  <2>3. CASE Expire
    BY <1>2, <2>3 DEF Expire, TokenRec, Excused
  <2> QED
    BY <2>1, <2>2, <2>3
<1>4. Typed'
  BY <1>1, <1>3 DEF Sound, Typed
<1>5. Roles' /\ SpawnList' /\ AwaitList'
  BY <1>1 DEF Sound, Roles, SpawnList, AwaitList, RolePcs, Producer, Workers, IsPair, Party,
     SpawnOrder
<1>6. Deciding' /\ Gated' /\ Complete'
  BY <1>1 DEF Sound, Deciding, Gated, Complete, Undecided, IsPair, Made, Producer
<1>7. Once' /\ Counted' /\ Queues'
  BY <1>1, StillKeeps DEF Still, Sound
<1>8. Blames'
  BY <1>3 DEF Blames
<1> QED
  BY <1>4, <1>5, <1>6, <1>7, <1>8 DEF Sound

(* The entry, and an action that runs on the caller's own evaluator.       *)
LEMMA EntrySound ==
  ASSUME Sound, Enter \/ \E kind \in {"cancelled", "value", "error"} : RunInline(kind)
  PROVE  Sound'
<1>1. /\ caller.pc \in {"enter", "inline"} /\ Undecided /\ answer = "pending"
      /\ UNCHANGED <<mode, workers, token, task, gate, jobs, inbox, log>>
  BY DEF Enter, RunInline, AtCaller, Sound, Deciding, Undecided
<1>2. \/ Go("returned", <<>>) /\ answer' \in Answers \ {"pending"}
           /\ (answer' = "cancelled" => token.caller) /\ answer' # "aborted"
           /\ (answer' = "value" => mode \notin Calls)
      \/ Go("inline", <<>>) /\ mode \notin Calls /\ UNCHANGED answer
      \/ Go("spawn", SpawnOrder) /\ mode \in Calls /\ UNCHANGED answer
  <2>1. CASE Enter
    BY <2>1 DEF Enter, Answers, Kinds, Calls
  <2>2. ASSUME NEW kind \in {"cancelled", "value", "error"}, RunInline(kind)
        PROVE  /\ Go("returned", <<>>) /\ answer' \in Answers \ {"pending"}
               /\ (answer' = "cancelled" => token.caller) /\ answer' # "aborted"
               /\ (answer' = "value" => mode \notin Calls)
    BY <2>2 DEF RunInline, Answers, Kinds, AtCaller, Sound, Roles
  <2> QED
    BY <2>1, <2>2
<1>3. PICK pc \in {"returned", "inline", "spawn"}, todo \in Seq(Tasks \cup {Own}) :
        /\ Go(pc, todo)
        /\ pc = "returned" => /\ answer' \in Answers \ {"pending"}
                              /\ (answer' = "cancelled" => token.caller) /\ answer' # "aborted"
                              /\ (answer' = "value" => mode \notin Calls)
        /\ pc = "inline" => mode \notin Calls
        /\ pc = "spawn" => mode \in Calls /\ todo = SpawnOrder
        /\ pc \in {"inline", "spawn"} => UNCHANGED answer
  <2>1. <<>> \in Seq(Tasks \cup {Own})
    BY EmptySeq
  <2>2. mode \in Calls => SpawnOrder \in Seq(Tasks \cup {Own})
    BY OrderOfSpawns DEF Sound, Typed
  <2> QED
    BY <1>2, <2>1, <2>2
<1>4. /\ caller' \in CallerRec /\ caller'.pc = pc /\ caller'.todo = todo
      /\ caller'.got = caller.got /\ caller'.error = caller.error
  BY <1>3, CallerGoes DEF Sound, Typed, CallerPcs
<1>5. Typed'
  BY <1>1, <1>3, <1>4 DEF Sound, Typed
<1>6. Idling
  BY <1>1 DEF Sound, Roles, Idling
<1>7. Roles'
  BY <1>1, <1>3, <1>4, <1>6 DEF Roles, Idling
<1>8. SpawnList'
  <2>1. CASE pc = "spawn"
    <3>1. todo = SpawnOrder /\ Injective(todo) /\ \A i \in 1..Len(todo) : todo[i] \in Party
      BY <1>3, <2>1, OrderOfSpawns DEF Sound, Typed
    <3>2. \A i \in 1..Len(todo) : task[todo[i]].pc = "none"
      BY <3>1, <1>6, PartyOfCall DEF Idling, Sound, Typed
    <3>3. Party' = Party
      BY <1>1 DEF Party, IsPair
    <3> QED
      BY <1>1, <1>4, <3>1, <3>2, <3>3 DEF SpawnList, Injective
  <2> QED
    BY <1>4, <2>1 DEF SpawnList
<1>9. AwaitList' /\ Deciding' /\ Gated'
  BY <1>1, <1>3, <1>4 DEF Sound, AwaitList, Deciding, Gated, Undecided, IsPair
<1>10. Complete'
  BY <1>1, <1>3 DEF Complete, Calls
<1>11. Once' /\ Counted' /\ Queues'
  BY <1>1, <1>4, StillKeeps DEF Still, Sound
<1>12. Blames'
  <2>1. Excused' <=> Excused
    BY <1>1 DEF Excused
  <2>2. ~Excused' => answer' \notin {"cancelled", "aborted"}
    BY <1>1, <1>3, <2>1 DEF Excused
  <2>3. NoneAborted /\ (mode # "pool" => NoneCancelled)
          => NoneAborted' /\ (mode # "pool" => NoneCancelled')
    BY <1>1 DEF NoneAborted, NoneCancelled
  <2>4. PoolBlames => PoolBlames'
    BY <1>1, <1>4 DEF PoolBlames, PoolCalm, FailureBefore, FailureKnown, Producer, Workers
  <2> QED
    BY <1>1, <2>1, <2>2, <2>3, <2>4 DEF Sound, Blames
<1> QED
  BY <1>5, <1>7, <1>8, <1>9, <1>10, <1>11, <1>12 DEF Sound

(* The closing of the scopes, one after the other.                         *)
LEMMA ClosingSound ==
  ASSUME Sound, CloseScope \/ AwaitTasks PROVE Sound'
<1> DEFINE s == Head(caller.todo)
           rest == Tail(caller.todo)
<1>1. /\ caller.pc \in {"close", "wait"} /\ caller.todo # <<>> /\ mode \in Calls
      /\ UNCHANGED <<mode, workers, task, gate, jobs, inbox>>
  BY DEF CloseScope, AwaitTasks, AtCaller, Sound, Deciding, Roles
<1>2. caller \in CallerRec /\ token \in TokenRec /\ log \in LogRec /\ answer \in Answers
  BY DEF Sound, Typed
<1>3. caller.todo \in Seq(Tasks \cup {Own})
  BY <1>2 DEF CallerRec
<1>4. s \in Tasks \cup {Own} /\ rest \in Seq(Tasks \cup {Own})
  BY <1>1, <1>3, TakenFirst
<1>5. /\ caller' \in CallerRec /\ caller'.got = caller.got
      /\ caller'.pc \in {"close", "wait", "returned"}
      /\ caller'.pc \in {"close", "wait"} => caller'.todo # <<>>
  <2>1. CASE CloseScope
    BY <1>1, <1>2, <1>3, <2>1, CallerGoes DEF CloseScope, CallerPcs
  <2>2. CASE AwaitTasks
    <3>1. Go(IF rest = <<>> THEN "returned" ELSE "close", rest)
      BY <2>2 DEF AwaitTasks
    <3> HIDE DEF rest
    <3>2. CASE rest = <<>>
      BY <1>2, <1>4, <3>1, <3>2, CallerGoes DEF CallerPcs
    <3>3. CASE rest # <<>>
      BY <1>2, <1>4, <3>1, <3>3, CallerGoes DEF CallerPcs
    <3> QED
      BY <3>2, <3>3
  <2> QED
    BY <2>1, <2>2
<1>6. token' \in TokenRec /\ token'.caller = token.caller /\ token'.expired = token.expired
  <2>1. CASE CloseScope
    BY <1>2, <1>4, <2>1, TokenCancelled DEF CloseScope
  <2>2. CASE AwaitTasks
    BY <1>2, <2>2 DEF AwaitTasks
  <2> QED
    BY <2>1, <2>2
<1>7. answer' \in {answer, "stalled"} /\ log' \in LogRec /\ log'.begun = log.begun
  <2>1. CASE CloseScope
    BY <1>2, <2>1 DEF CloseScope
  <2>2. CASE AwaitTasks
    <3>1. PICK stall \in BOOLEAN : log' = [log EXCEPT !.stalled = stall]
      BY <1>2, <2>2 DEF AwaitTasks, LogRec
    <3>2. log' \in LogRec /\ log'.begun = log.begun
      BY <1>2, <3>1 DEF LogRec
    <3> QED
      BY <2>2, <3>2 DEF AwaitTasks
  <2> QED
    BY <2>1, <2>2
<1> HIDE DEF s, rest
<1>8. answer # "pending" /\ ~Undecided /\ ~Undecided'
  BY <1>1, <1>5 DEF Sound, Deciding, Undecided
<1>9. Typed'
  BY <1>1, <1>2, <1>5, <1>6, <1>7 DEF Sound, Typed, Answers
<1>10. Roles' /\ SpawnList' /\ AwaitList'
  BY <1>1, <1>5 DEF Sound, Roles, SpawnList, AwaitList, RolePcs, Producer, Workers, IsPair
<1>11. Deciding' /\ Gated' /\ Complete'
  BY <1>1, <1>5, <1>7, <1>8 DEF Sound, Deciding, Gated, Complete, IsPair, Made, Producer
<1>12. Once' /\ Counted' /\ Queues'
  BY <1>1, <1>5, <1>7, StillKeeps DEF Still, Sound
<1>13. Blames'
  BY <1>6, <1>7, <1>8 DEF Sound, Blames, Excused
<1> QED
  BY <1>9, <1>10, <1>11, <1>12, <1>13 DEF Sound

-----------------------------------------------------------------------------
(* A refused spawn, the top of the polling loop, and a poll that runs out. *)
LEMMA PollingSound ==
  ASSUME Sound, SpawnRefused \/ Check \/ Poll PROVE Sound'
<1>1. /\ caller.pc \in {"spawn", "check", "receive"} /\ Undecided /\ mode \in Calls
      /\ UNCHANGED <<mode, workers, task, jobs, inbox, log>>
      /\ caller \in CallerRec /\ token \in TokenRec /\ gate \in GateRec
      /\ inbox \in Seq(ResultRec)
  BY DEF SpawnRefused, Check, Poll, AtCaller, Sound, Roles, Undecided, Typed
<1>2. <<>> \in Seq(Tasks \cup {Own})
  BY EmptySeq
<1>3. ASSUME NEW r \in {"refused", "cancelled", "nothing"}, Shut(r),
             token' \in TokenRec, gate' \in GateRec, gate'.arrived = gate.arrived,
             Excused => Excused', r = "cancelled" => Excused'
      PROVE  Sound'
  <2>1. caller'.got = caller.got
    BY <1>1, <1>3, GuardsClosed, CallerGoes DEF Shut, CallerPcs
  <2>2. Once' /\ Counted'
    BY <1>1, <2>1, StillKeeps DEF Still, Sound
  <2>3. r \in Answers \ {"pending"} /\ r # "value" /\ r # "aborted"
    BY DEF Answers, Kinds
  <2>4. /\ r \in {"cancelled", "aborted"} => Excused'
        /\ r = "value" => Finishes
    BY <1>3, <2>3
  <2>5. inbox' \in Seq(ResultRec) /\ UNCHANGED <<mode, workers, task, jobs, log>>
    BY <1>1
  <2>6. Sound /\ mode \in Calls
    BY <1>1
  <2> QED
    BY ONLY <1>3, <2>2, <2>3, <2>4, <2>5, <2>6, ShutSound
<1>4. CASE SpawnRefused
  <2>1. gate' \in GateRec /\ gate'.arrived = gate.arrived
    BY <1>1, <1>4 DEF SpawnRefused, GateRec
  <2>2. Shut("refused") /\ UNCHANGED token
    BY <1>4 DEF SpawnRefused
  <2> QED
    BY <1>1, <1>3, <2>1, <2>2 DEF Excused
<1>5. CASE Check
  <2>1. /\ CancelOwn(token) \in TokenRec
        /\ CancelOwn(token).caller = token.caller /\ CancelOwn(token).expired = token.expired
    <3>1. Own \in Tasks \cup {Own}
      OBVIOUS
    <3> QED
      BY <1>1, <3>1, TokenCancelled
  <2>2. UNCHANGED gate
    BY <1>5 DEF Check
  <2>3. CASE token.caller
    BY <1>1, <1>3, <1>5, <2>1, <2>2, <2>3 DEF Check, Excused
  <2>4. CASE ~token.caller /\ mode = "timeout" /\ token.expired
    BY <1>1, <1>3, <1>5, <2>1, <2>2, <2>4 DEF Check, Excused
  <2>5. CASE Go("receive", <<>>) /\ UNCHANGED <<answer, token>>
    <3>1. /\ caller' \in CallerRec /\ caller'.pc = "receive"
          /\ caller'.got = caller.got /\ caller'.error = caller.error
      BY <1>1, <1>2, <2>5, CallerGoes DEF CallerPcs
    <3>2. AwaitList'
      BY <3>1 DEF AwaitList
    <3> QED
      BY <1>1, <2>2, <2>5, <3>1, <3>2, StaySound
  <2> QED
    BY <1>5, <2>3, <2>4, <2>5 DEF Check
<1>6. CASE Poll
  <2>1. /\ caller' \in CallerRec /\ caller'.pc = "check"
        /\ caller'.got = caller.got /\ caller'.error = caller.error
    BY <1>1, <1>2, <1>6, CallerGoes DEF Poll, CallerPcs
  <2>2. AwaitList'
    BY <2>1 DEF AwaitList
  <2> QED
    BY <1>1, <1>6, <2>1, <2>2, StaySound DEF Poll
<1> QED
  BY <1>4, <1>5, <1>6

(* The results have all come in, and the caller waits for the threads of   *)
(* its pool, the producer first: it knows of no failure, so nobody has     *)
(* been cancelled unless from outside.                                     *)
LEMMA AwaitingSound ==
  ASSUME Sound, Drained \/ AwaitFinished \/ AwaitStalled PROVE Sound'
<1>1. /\ caller.pc \in {"receive", "await"} /\ Undecided /\ mode \in Calls
      /\ UNCHANGED <<mode, workers, token, task, gate, jobs, inbox, log>>
      /\ caller \in CallerRec /\ token \in TokenRec /\ gate \in GateRec
      /\ inbox \in Seq(ResultRec) /\ workers \in 1..MaxWorkers
  BY DEF Drained, AwaitFinished, AwaitStalled, AtCaller, Sound, Roles, Undecided, Typed
<1>2. ASSUME NEW r \in Answers \ {"pending"}, Shut(r),
             r \in {"cancelled", "aborted"} => Excused, r = "value" => Finishes
      PROVE  Sound'
  <2>1. caller'.got = caller.got
    BY <1>1, <1>2, GuardsClosed, CallerGoes DEF Shut, CallerPcs
  <2>2. Once' /\ Counted'
    BY <1>1, <2>1, StillKeeps DEF Still, Sound
  <2>3. Excused' <=> Excused
    BY <1>1 DEF Excused
  <2> QED
    BY <1>1, <1>2, <2>2, <2>3, ShutSound
<1>3. ASSUME NEW todo \in Seq(Tasks), Go("await", todo), UNCHANGED answer,
             mode = "pool", caller.error = "none", inbox = <<>>,
             \A w \in Workers : task[w].pc \in Exits,
             todo = SpawnOrder \/ (todo # <<>> /\ task[Producer].pc = "done")
      PROVE  Sound'
  <2>1. /\ caller' \in CallerRec /\ caller'.pc = "await" /\ caller'.todo = todo
        /\ caller'.got = caller.got /\ caller'.error = caller.error
    <3>1. todo \in Seq(Tasks \cup {Own})
      OBVIOUS
    <3> QED
      BY <1>1, <1>3, <3>1, CallerGoes DEF CallerPcs
  <2>2. SpawnOrder' = SpawnOrder /\ Producer' = Producer /\ Workers' = Workers
    BY <1>1 DEF SpawnOrder, Producer, Workers, IsPair
  <2>3. AwaitList'
    BY <1>1, <1>3, <2>1, <2>2 DEF AwaitList
  <2> QED
    BY <1>1, <1>3, <2>1, <2>3, StaySound
<1>4. CASE Drained
  <2>1. /\ mode = "pool" /\ inbox = <<>> /\ \A w \in Workers : task[w].pc \in Exits
        /\ caller.pc = "receive"
    BY <1>4 DEF Drained, SendersGone, Exits, AtCaller
  <2>2. CASE caller.error # "none"
    <3>1. Shut(caller.error) /\ caller.error \in {"error", "cancelled", "aborted"}
      BY <1>1, <1>4, <2>2 DEF Drained, CallerRec
    <3>2. caller.error \in {"cancelled", "aborted"} => Excused
      BY <1>1, <2>1, <2>2 DEF Sound, Blames, PoolBlames
    <3>3. caller.error \in Answers \ {"pending"} /\ caller.error # "value"
      BY <3>1 DEF Answers, Kinds
    <3> QED
      BY <1>2, <3>1, <3>2, <3>3
  <2>3. CASE caller.error = "none"
    <3>1. SpawnOrder \in Seq(Tasks)
      BY <1>1, OrderOfSpawns
    <3>2. Go("await", SpawnOrder) /\ UNCHANGED answer
      BY <1>4, <2>3 DEF Drained
    <3> QED
      BY <1>3, <2>1, <2>3, <3>1, <3>2
  <2> QED
    BY <2>2, <2>3
<1>5. CASE AwaitStalled
  <2>1. "stalled" \in Answers \ {"pending"} /\ Shut("stalled")
    BY <1>5 DEF AwaitStalled, Answers
  <2> QED
    BY <1>2, <2>1
<1>6. CASE AwaitFinished
  <2> DEFINE todo == caller.todo
             t == Head(todo)
  <2>1. /\ mode = "pool" /\ caller.error = "none" /\ inbox = <<>>
        /\ \A w \in Workers : task[w].pc \in Exits
        /\ todo \in Seq(Tasks)
        /\ todo = SpawnOrder \/ (todo # <<>> /\ task[Producer].pc = "done")
    BY <1>6 DEF AwaitFinished, AtCaller, Sound, AwaitList
  <2>2. todo # <<>>
    BY <1>1, <2>1, OrderOfSpawns
  <2>3. task[t].pc = "done"
    BY <1>6 DEF AwaitFinished
  <2>4. t \in Tasks /\ Tail(todo) \in Seq(Tasks) /\ Len(Tail(todo)) = Len(todo) - 1
        /\ Len(todo) \in Nat \ {0}
    BY <2>1, <2>2, TakenFirst
  <2>5. todo = SpawnOrder => t = Producer /\ Len(todo) > 1
    BY <1>1, <2>1, OrderOfSpawns
  <2>6. task[Producer].pc = "done"
    BY <2>1, <2>3, <2>5
  <2>7. task[t] \in TaskRec /\ task[t].kind \in Kinds
    BY <2>4 DEF Sound, Typed, TaskRec
  <2>8. \/ task[t].kind # "value" /\ Shut(task[t].kind)
        \/ Len(todo) > 1 /\ Go("await", Tail(todo)) /\ UNCHANGED answer
        \/ Shut(IF Len(caller.got) = Made THEN "value" ELSE "internal")
    BY <1>6 DEF AwaitFinished, Made
  <2> HIDE DEF t, todo
  <2>9. CASE task[t].kind # "value" /\ Shut(task[t].kind)
    <3> DEFINE r == task[t].kind
    <3>1. ASSUME ~Excused PROVE r \notin {"cancelled", "aborted"}
      <4>1. NoneAborted /\ PoolBlames
        BY <1>1, <2>1, <3>1 DEF Sound, Blames
      <4>2. ~FailureKnown
        BY <2>1 DEF FailureKnown
      <4>3. PoolCalm
        BY <4>1, <4>2 DEF PoolBlames
      <4> QED
        BY <2>4, <4>1, <4>3 DEF NoneAborted, PoolCalm
    <3>2. r \in Answers \ {"pending"} /\ r # "value" /\ Shut(r)
      BY <2>7, <2>9 DEF Answers, Kinds
    <3> HIDE DEF r
    <3> QED
      BY <1>2, <3>1, <3>2
  <2>10. CASE Len(todo) > 1 /\ Go("await", Tail(todo)) /\ UNCHANGED answer
    <3> DEFINE rest == Tail(todo)
    <3>1. rest \in Seq(Tasks) /\ rest # <<>>
      <4>1. rest \in Seq(Tasks) /\ Len(rest) > 0
        BY <2>4, <2>10
      <4> HIDE DEF rest
      <4>2. rest # <<>>
        BY <4>1
      <4> QED
        BY <4>1, <4>2
    <3> HIDE DEF rest
    <3>2. Go("await", rest) /\ UNCHANGED answer
      BY <2>10 DEF rest
    <3> QED
      BY <1>3, <2>1, <2>6, <3>1, <3>2
  <2>11. CASE Shut(IF Len(caller.got) = Made THEN "value" ELSE "internal")
    <3>1. CASE Len(caller.got) = Made
      <4>1. Shut("value") /\ Finishes /\ "value" \in Answers \ {"pending"}
        BY <2>1, <2>6, <2>11, <3>1 DEF Finishes, Answers, Kinds
      <4> QED
        BY <1>2, <4>1
    <3>2. CASE Len(caller.got) # Made
      <4>1. Shut("internal") /\ "internal" \in Answers \ {"pending"}
        BY <2>11, <3>2 DEF Answers
      <4> QED
        BY <1>2, <4>1
    <3> QED
      BY <3>1, <3>2
  <2> QED
    BY <2>8, <2>9, <2>10, <2>11
<1> QED
  BY <1>4, <1>5, <1>6

-----------------------------------------------------------------------------
(* A result is received: it leaves the channel, and it may be kept.        *)
Receives(got) ==
    /\ inbox # <<>> /\ inbox' = Tail(inbox)
    /\ UNCHANGED <<mode, workers, task, jobs, log>>
    /\ caller'.got = got
    /\ \/ got = caller.got
       \/ /\ got = Append(caller.got, Head(inbox)) /\ Head(inbox).kind = "value"
          /\ mode # "pool" => IsPair /\ caller.got = <<>>

LEMMA ReceivedOnce ==
  ASSUME Typed, Once, Counted, Queues, NEW got, Receives(got)
  PROVE  Once' /\ Counted' /\ Queues' /\ inbox' \in Seq(ResultRec) /\ got \in Seq(ResultRec)
<1> DEFINE first == Head(inbox)
           rest == Tail(inbox)
           k == Key(mode, first)
           old == caller.got
<1>1. /\ inbox \in Seq(ResultRec) /\ inbox # <<>> /\ old \in Seq(ResultRec)
      /\ inbox' = rest /\ caller'.got = got
      /\ UNCHANGED <<mode, workers, task, jobs, log>>
  BY DEF Receives, Typed, CallerRec
<1>2. /\ first \in ResultRec /\ first = inbox[1] /\ rest \in Seq(ResultRec)
      /\ Len(inbox) \in Nat \ {0} /\ Len(rest) = Len(inbox) - 1
      /\ \A i \in 1..Len(rest) : rest[i] = inbox[i + 1]
  BY <1>1, TakenFirst
<1>3. Distinct(mode, inbox) /\ Distinct(mode, old)
  BY DEF Once
<1>4. /\ Distinct(mode, rest) /\ k \in KeysOf(mode, inbox) /\ k \notin KeysOf(mode, rest)
      /\ KeysOf(mode, rest) \subseteq KeysOf(mode, inbox)
  BY <1>1, <1>3, KeysTaken
<1>5. k \notin KeysOf(mode, old)
  BY <1>4 DEF Once
<1>6. \/ got = old
      \/ got = Append(old, first) /\ first.kind = "value" /\ (mode # "pool" => IsPair /\ old = <<>>)
  BY DEF Receives
<1>7. /\ got \in Seq(ResultRec) /\ Distinct(mode, got)
      /\ KeysOf(mode, got) \subseteq KeysOf(mode, old) \cup {k}
  <2> DEFINE more == Append(old, first)
  <2>1. more \in Seq(ResultRec)
    BY <1>1, <1>2, AddedLast
  <2>2. KeysOf(mode, more) = KeysOf(mode, old) \cup {k} /\ Distinct(mode, more)
    BY <1>1, <1>2, <1>3, <1>5, KeysAdded
  <2>3. got = old \/ got = more
    BY <1>6
  <2> HIDE DEF more, k, old, first
  <2> QED
    BY <1>1, <1>3, <2>1, <2>2, <2>3
<1> HIDE DEF first, rest, k, old
<1>8. /\ UNCHANGED <<mode, workers, task, jobs>> /\ inbox' = rest /\ caller'.got = got
      /\ mode' = mode /\ jobs' = jobs /\ task' = task
  BY <1>1
<1>9. mode # "pool" /\ got # <<>> => IsPair /\ Len(got) = 1
  <2>1. CASE got = old
    BY <2>1 DEF Once, old
  <2>2. CASE got = Append(old, first) /\ (mode # "pool" => IsPair /\ old = <<>>)
    <3>1. Len(got) = Len(old) + 1
      BY <1>1, <1>2, <2>2, AddedLast
    <3>2. old = <<>> => Len(old) = 0
      OBVIOUS
    <3> QED
      BY <2>2, <3>1, <3>2
  <2> QED
    BY <1>6, <2>1, <2>2
<1>10. Once'
  <2>1. /\ KeysOf(mode, rest) \cap KeysOf(mode, got) = {}
        /\ Elements(jobs) \cap KeysOf(mode, rest) = {}
        /\ Elements(jobs) \cap KeysOf(mode, got) = {}
        /\ KeysOf(mode, rest) \subseteq Units /\ KeysOf(mode, got) \subseteq Units
    BY <1>4, <1>5, <1>7 DEF Once, old
  <2>2. \A t \in Tasks : task[t].pc \in Held(mode) =>
          Unit(t) \notin KeysOf(mode, rest) /\ Unit(t) \notin KeysOf(mode, got)
    BY <1>4, <1>7 DEF Once, old
  <2>3. Units' = Units /\ Made' = Made /\ (IsPair <=> IsPair') /\ \A t : Unit(t)' = Unit(t)
    BY <1>8 DEF Units, Made, Producer, Party, IsPair, Unit
  <2> QED
    BY <1>4, <1>7, <1>8, <1>9, <2>1, <2>2, <2>3 DEF Once
<1>11. Counted'
  <2>1. \A i \in 1..Len(rest) : i + 1 \in 1..Len(inbox) /\ rest[i] = inbox[i + 1]
    BY <1>2
  <2>2. \A i \in 1..Len(rest) : rest[i].kind = "value" => log.begun[Key(mode, rest[i])] = 1
    BY <2>1 DEF Counted
  <2>3. first.kind = "value" => log.begun[Key(mode, first)] = 1
    <3>1. 1 \in 1..Len(inbox)
      BY <1>2
    <3> QED
      BY <1>2, <3>1 DEF Counted
  <2>4. ASSUME NEW i \in 1..Len(got)
        PROVE  got[i].kind = "value" /\ log.begun[Key(mode, got[i])] = 1
    <3>1. CASE got = old
      BY <3>1 DEF Counted, old
    <3>2. CASE got = Append(old, first) /\ first.kind = "value"
      <4>1. i \in 1..Len(old) \/ i = Len(old) + 1
        BY <1>1, <1>2, <3>2, AddedLast
      <4>2. CASE i \in 1..Len(old)
        <5>1. got[i] = old[i]
          BY <1>1, <1>2, <3>2, <4>2, AddedLast
        <5> QED
          BY <4>2, <5>1 DEF Counted, old
      <4>3. CASE i = Len(old) + 1
        <5>1. got[i] = first
          BY <1>1, <1>2, <3>2, <4>3, AddedLast
        <5> QED
          BY <2>3, <3>2, <5>1
      <4> QED
        BY <4>1, <4>2, <4>3
    <3> QED
      BY <1>6, <3>1, <3>2
  <2>5. log' = log
    BY <1>1
  <2> QED
    BY <1>8, <2>2, <2>4, <2>5 DEF Counted, Unit, Made, Producer
<1>12. Queues'
  BY <1>8 DEF Queues, Producer
<1> QED
  BY <1>2, <1>7, <1>8, <1>10, <1>11, <1>12

(* What is known of a result when it is received.                          *)
LEMMA ReceivedKnown ==
  ASSUME Sound, TakeResult
  PROVE  /\ caller.pc = "receive" /\ Undecided /\ mode \in Calls /\ inbox # <<>>
         /\ Received \in ResultRec /\ Received = inbox[1] /\ 1 \in 1..Len(inbox)
         /\ Received.kind \in Kinds
         /\ mode # "pool" => Received.from \in Party /\ Received.from \notin KeysOf(mode, caller.got)
         /\ Received.kind = "value" => log.begun[Key(mode, Received)] = 1
         /\ ~Excused => Received.kind # "aborted"
         /\ ~Excused /\ mode # "pool" => Received.kind # "cancelled"
<1>1. caller.pc = "receive" /\ inbox # <<>>
  BY DEF TakeResult, AtCaller
<1>2. Undecided /\ mode \in Calls
  BY <1>1 DEF Sound, Roles, Undecided
<1>3. inbox \in Seq(ResultRec)
  BY DEF Sound, Typed
<1>4. Received \in ResultRec /\ Received = inbox[1] /\ Len(inbox) \in Nat \ {0}
  BY <1>1, <1>3, TakenFirst DEF Received
<1>5. 1 \in 1..Len(inbox)
  BY <1>4
<1>6. Key(mode, Received) \in KeysOf(mode, inbox)
  BY <1>4, <1>5 DEF KeysOf
<1>7. ASSUME mode # "pool"
      PROVE  Received.from \in Party /\ Received.from \notin KeysOf(mode, caller.got)
  BY <1>6, <1>7 DEF Sound, Once, Units, Key
<1>8. Received.kind = "value" => log.begun[Key(mode, Received)] = 1
  BY <1>4, <1>5 DEF Sound, Counted
<1>9. ASSUME ~Excused
      PROVE  Received.kind # "aborted" /\ (mode # "pool" => Received.kind # "cancelled")
  BY <1>2, <1>4, <1>5, <1>9 DEF Sound, Blames, NoneAborted, NoneCancelled
<1>10. Received.kind \in Kinds
  BY <1>4 DEF ResultRec
<1> QED
  BY <1>1, <1>2, <1>4, <1>5, <1>7, <1>8, <1>9, <1>10

(* A result decides the call.                                              *)
LEMMA ReceivedDecides ==
  ASSUME Sound, TakeResult, mode # "pool", Shut(Received.kind),
         UNCHANGED <<mode, workers, task, gate, jobs, log>>,
         token' \in TokenRec, token'.caller = token.caller, token'.expired = token.expired,
         Received.kind = "value" => Finishes
  PROVE  Sound'
<1> DEFINE r == Received.kind
<1>1. caller'.got = caller.got
  BY GuardsClosed, CallerGoes DEF Shut, CallerPcs, Sound, Typed
<1>2. inbox # <<>> /\ inbox' = Tail(inbox)
  BY DEF TakeResult
<1>3. Receives(caller.got)
  BY <1>1, <1>2 DEF Receives
<1>4. Once' /\ Counted' /\ inbox' \in Seq(ResultRec)
  BY <1>3, ReceivedOnce DEF Sound
<1>5. mode \in Calls /\ r \in Kinds /\ (~Excused => r \notin {"cancelled", "aborted"})
  BY ReceivedKnown
<1>6. Excused' <=> Excused
  BY DEF Excused
<1>7. r \in Answers \ {"pending"}
  BY <1>5 DEF Answers, Kinds
<1>8. gate' \in GateRec /\ gate'.arrived = gate.arrived
  BY DEF Sound, Typed
<1>9. Shut(r) /\ (r = "value" => Finishes)
  OBVIOUS
<1> HIDE DEF r
<1> QED
  BY <1>4, <1>5, <1>6, <1>7, <1>8, <1>9, ShutSound

(* The answer of a timeout is that of its action.                          *)
LEMMA TimedSound ==
  ASSUME Sound, ReceiveTimed PROVE Sound'
<1>1. /\ mode = "timeout" /\ TakeResult /\ Shut(Received.kind)
      /\ UNCHANGED <<mode, workers, token, task, gate, jobs, log>>
  BY DEF ReceiveTimed
<1>2. token' \in TokenRec /\ token'.caller = token.caller /\ token'.expired = token.expired
  BY <1>1 DEF Sound, Typed
<1>3. Finishes
  BY <1>1 DEF Finishes
<1> QED
  BY <1>1, <1>2, <1>3, ReceivedDecides

(* The answer of a pair: a first result that decides, a second one, or a   *)
(* first value that is kept until the other side has its own.              *)
LEMMA PairSound ==
  ASSUME Sound, ReceivePair PROVE Sound'
<1>1. /\ IsPair /\ mode # "pool" /\ TakeResult
      /\ UNCHANGED <<mode, workers, task, gate, jobs, log>>
  BY DEF ReceivePair, IsPair
<1>2. /\ Received \in ResultRec /\ Received.from \in {1, 2} /\ Received = inbox[1]
      /\ caller.pc = "receive" /\ Undecided /\ mode \in Calls /\ inbox # <<>>
      /\ Received.from \notin KeysOf(mode, caller.got)
      /\ Received.kind = "value" => log.begun[Received.from] = 1
  BY <1>1, ReceivedKnown DEF Party, Key
<1>3. token \in TokenRec /\ caller \in CallerRec
  BY DEF Sound, Typed
<1>4. CASE caller.got = <<>> /\ Decisive(Received)
  <2>1. token' = CancelScope(token, 3 - Received.from) /\ Shut(Received.kind)
    BY <1>4 DEF ReceivePair
  <2>2. 3 - Received.from \in Tasks \cup {Own}
    BY <1>2, NumbersFit
  <2>3. token' \in TokenRec /\ token'.caller = token.caller /\ token'.expired = token.expired
    BY <1>3, <2>1, <2>2, TokenCancelled
  <2>4. Received.kind = "value" => Finishes
    BY <1>1, <1>4 DEF Decisive, Finishes
  <2> QED
    BY <1>1, <2>1, <2>3, <2>4, ReceivedDecides
<1>5. CASE caller.got # <<>>
  <2>1. Shut(Received.kind) /\ UNCHANGED token
    BY <1>5 DEF ReceivePair
  <2>2. token' \in TokenRec /\ token'.caller = token.caller /\ token'.expired = token.expired
    BY <1>3, <2>1
  <2>3. Len(caller.got) = 1
    BY <1>1, <1>5 DEF Sound, Once
  <2>4. 1 \in 1..Len(caller.got)
    BY <2>3
  <2>5. caller.got[1].from \in KeysOf(mode, caller.got)
    BY <1>1, <2>4 DEF KeysOf, Key
  <2>6. caller.got[1].from \in {1, 2} /\ log.begun[caller.got[1].from] = 1
    BY <1>1, <2>4, <2>5 DEF Sound, Once, Units, Party, Counted, Key
  <2>7. Received.kind = "value" => log.begun[1] = 1 /\ log.begun[2] = 1
    BY <1>2, <2>5, <2>6
  <2> QED
    BY <1>1, <2>1, <2>2, <2>7, ReceivedDecides DEF Finishes
<1>6. CASE caller.got = <<>> /\ ~Decisive(Received)
  <2>1. /\ caller' = [caller EXCEPT !.pc = "check", !.got = <<Received>>]
        /\ UNCHANGED <<answer, token>>
    BY <1>6 DEF ReceivePair
  <2>2. Received.kind = "value"
    BY <1>6 DEF Decisive
  <2> DEFINE got == <<Received>>
  <2>3. got = Append(caller.got, Received) /\ got \in Seq(ResultRec)
    BY <1>2, <1>6
  <2> HIDE DEF got
  <2>4. /\ caller' \in CallerRec /\ caller'.pc = "check" /\ caller'.got = got
        /\ caller'.error = caller.error
    BY <1>3, <2>1, <2>3 DEF CallerRec, CallerPcs, got
  <2>5. inbox # <<>> /\ inbox' = Tail(inbox)
    BY <1>1 DEF TakeResult
  <2>6. Receives(got)
    BY <1>1, <1>6, <2>2, <2>3, <2>4, <2>5 DEF Receives, Received
  <2>7. Once' /\ Counted' /\ Queues' /\ inbox' \in Seq(ResultRec)
    BY <2>6, ReceivedOnce DEF Sound
  <2>8. Typed'
    BY <1>1, <2>1, <2>4, <2>7 DEF Sound, Typed
  <2>9. Roles' /\ SpawnList' /\ AwaitList'
    BY <1>1, <1>2, <2>4 DEF Sound, Roles, SpawnList, AwaitList, RolePcs, Producer, Workers, IsPair
  <2>10. Deciding' /\ Gated' /\ Complete'
    BY <1>1, <1>2, <2>1, <2>4 DEF Sound, Deciding, Gated, Complete, Undecided, IsPair, Made,
       Producer
  <2>11. Blames'
    <3>1. \A i \in 1..Len(inbox') : i + 1 \in 1..Len(inbox) /\ inbox'[i] = inbox[i + 1]
      BY <2>5, TakenFirst DEF Sound, Typed
    <3>2. NoneAborted /\ NoneCancelled => NoneAborted' /\ NoneCancelled'
      BY <1>1, <2>1, <3>1 DEF NoneAborted, NoneCancelled
    <3> QED
      BY <1>1, <1>2, <2>1, <3>2 DEF Sound, Blames, Excused
  <2> QED
    BY <2>7, <2>8, <2>9, <2>10, <2>11 DEF Sound
<1> QED
  BY <1>4, <1>5, <1>6

(* A pool collects its results and keeps the first failure: if nobody      *)
(* asked for a cancellation, that is the failure and not one of the        *)
(* cancellations it set off.                                               *)
LEMMA PoolSound ==
  ASSUME Sound, ReceivePool PROVE Sound'
<1>1. /\ mode = "pool" /\ TakeResult /\ inbox' = Tail(inbox)
      /\ UNCHANGED <<mode, workers, answer, task, gate, jobs, log>>
  BY DEF ReceivePool, TakeResult
<1>2. /\ Received \in ResultRec /\ Received = inbox[1] /\ 1 \in 1..Len(inbox)
      /\ Received.kind \in Kinds /\ inbox # <<>>
      /\ caller.pc = "receive" /\ Undecided /\ mode \in Calls
      /\ ~Excused => Received.kind # "aborted"
  BY <1>1, ReceivedKnown
<1>3. token \in TokenRec /\ caller \in CallerRec /\ caller.got \in Seq(ResultRec)
  BY DEF Sound, Typed, CallerRec
<1>4. \A i \in 1..Len(inbox') : i + 1 \in 1..Len(inbox) /\ inbox'[i] = inbox[i + 1]
  BY <1>1, <1>2, TakenFirst DEF Sound, Typed
<1> DEFINE value == Received.kind = "value"
           got == IF value THEN Append(caller.got, Received) ELSE caller.got
           error == IF value \/ caller.error # "none" THEN caller.error ELSE Received.kind
<1>5. /\ caller' \in CallerRec /\ caller'.pc = "check"
      /\ caller'.got = got /\ caller'.error = error
  <2>1. CASE value
    <3>1. caller' = [caller EXCEPT !.pc = "check", !.got = Append(caller.got, Received)]
      BY <2>1 DEF ReceivePool
    <3>2. Append(caller.got, Received) \in Seq(ResultRec)
      BY <1>2, <1>3, AddedLast
    <3> QED
      BY <1>3, <2>1, <3>1, <3>2 DEF CallerRec, CallerPcs
  <2>2. CASE ~value
    <3>1. caller' = [caller EXCEPT !.pc = "check",
                        !.error = IF caller.error = "none" THEN Received.kind ELSE caller.error]
      BY <1>3, <2>2 DEF ReceivePool, CallerRec
    <3>2. Received.kind \in {"error", "cancelled", "aborted"}
      BY <1>2, <2>2 DEF Kinds
    <3> QED
      BY <1>3, <2>2, <3>1, <3>2 DEF CallerRec, CallerPcs
  <2> QED
    BY <2>1, <2>2
<1>6. token' = IF value THEN token ELSE CancelOwn(token)
  BY DEF ReceivePool
<1>7. token' \in TokenRec /\ token'.caller = token.caller /\ token'.expired = token.expired
  BY <1>3, <1>6, TokenCancelled
<1>8. Receives(got)
  BY <1>1, <1>2, <1>5 DEF Receives, Received
<1>9. Once' /\ Counted' /\ Queues' /\ inbox' \in Seq(ResultRec)
  BY <1>8, ReceivedOnce DEF Sound
<1>10. Typed'
  BY <1>1, <1>5, <1>7, <1>9 DEF Sound, Typed
<1>11. Roles' /\ SpawnList' /\ AwaitList'
  BY <1>1, <1>2, <1>5 DEF Sound, Roles, SpawnList, AwaitList, RolePcs, Producer, Workers, IsPair
<1>12. Deciding' /\ Gated' /\ Complete'
  BY <1>1, <1>2, <1>5 DEF Sound, Deciding, Gated, Complete, Undecided, IsPair, Made, Producer
<1>13. Blames'
  <2>1. answer = "pending" /\ answer' = "pending"
    BY <1>1, <1>2 DEF Sound, Deciding
  <2> SUFFICES ASSUME ~Excused PROVE NoneAborted' /\ PoolBlames'
    BY <1>1, <1>7, <2>1 DEF Blames, Excused
  <2>2. NoneAborted /\ PoolBlames
    BY <1>1, <1>2 DEF Sound, Blames
  <2>3. token'.cut = token.cut
    BY <1>3, <1>6 DEF CancelOwn, TokenRec
  <2>4. NoneAborted'
    BY <1>1, <1>4, <2>2, <2>3 DEF NoneAborted
  <2>5. CASE ~value
    <3>1. error = "error"
      <4>1. CASE caller.error = "none"
        <5>1. ~FailureBefore(1)
          BY <4>1 DEF FailureBefore
        <5>2. Received.kind # "cancelled"
          BY <1>2, <2>2, <5>1 DEF PoolBlames
        <5> QED
          BY <1>2, <2>5, <4>1, <5>2 DEF Kinds
      <4>2. CASE caller.error # "none"
        BY <2>2, <4>2 DEF PoolBlames
      <4> QED
        BY <4>1, <4>2
    <3>2. caller'.error = "error"
      BY <1>5, <3>1
    <3> QED
      BY <2>4, <3>2 DEF PoolBlames, FailureBefore, FailureKnown
  <2>6. CASE value
    <3>1. caller'.error = caller.error /\ token' = token
      BY <1>5, <1>6, <2>6
    <3>2. ASSUME NEW j \in 1..Len(inbox), inbox[j].kind = "error"
          PROVE  j - 1 \in 1..Len(inbox') /\ inbox'[j - 1].kind = "error"
      <4>1. j # 1
        BY <1>2, <2>6, <3>2
      <4>2. Len(inbox') = Len(inbox) - 1 /\ Len(inbox) \in Nat
        BY <1>1, <1>2, TakenFirst DEF Sound, Typed
      <4>3. j - 1 \in 1..Len(inbox') /\ j - 1 + 1 = j
        BY <4>1, <4>2
      <4> QED
        BY <1>4, <3>2, <4>3
    <3>3. FailureKnown => FailureKnown'
      BY <3>1, <3>2 DEF FailureKnown
    <3>4. PoolCalm => PoolCalm'
      BY <1>1, <3>1 DEF PoolCalm, Producer, Workers
    <3>5. ASSUME NEW i \in 1..Len(inbox'), inbox'[i].kind = "cancelled"
          PROVE  FailureBefore(i)'
      <4>1. i + 1 \in 1..Len(inbox) /\ inbox[i + 1].kind = "cancelled"
        BY <1>4, <3>5
      <4>2. FailureBefore(i + 1)
        BY <2>2, <4>1 DEF PoolBlames
      <4>3. CASE caller.error = "error"
        BY <3>1, <4>3 DEF FailureBefore
      <4>4. CASE \E j \in 1..Len(inbox) : j < i + 1 /\ inbox[j].kind = "error"
        <5>1. PICK j \in 1..Len(inbox) : j < i + 1 /\ inbox[j].kind = "error"
          BY <4>4
        <5>2. j - 1 \in 1..Len(inbox') /\ inbox'[j - 1].kind = "error" /\ j - 1 < i
          BY <3>2, <5>1
        <5> QED
          BY <5>2 DEF FailureBefore
      <4> QED
        BY <4>2, <4>3, <4>4 DEF FailureBefore
    <3> QED
      BY <2>2, <2>4, <3>1, <3>3, <3>4, <3>5 DEF PoolBlames
  <2> QED
    BY <2>5, <2>6
<1> QED
  BY <1>9, <1>10, <1>11, <1>12, <1>13 DEF Sound

-----------------------------------------------------------------------------
(* A thread moves on with the unit of work it has, if it has one.          *)
Moves(t, n) ==
    /\ task' = [task EXCEPT ![t] = n] /\ n.job = task[t].job
    /\ n.pc \in Held(mode) => task[t].pc \in Held(mode)
    /\ mode = "pool" /\ n.pc \in {"offer", "put"} => n.job < MaxCells

LEMMA MovedOnce ==
  ASSUME Typed, Once, Queues, NEW t \in Tasks, NEW n \in TaskRec, Moves(t, n),
         UNCHANGED <<mode, workers, jobs, inbox>>, caller'.got = caller.got
  PROVE  Once' /\ Queues'
<1>1. \A u \in Tasks : task'[u] = IF u = t THEN n ELSE task[u]
  BY DEF Typed, Moves
<1>2. n.job = task[t].job
  BY DEF Moves
<1>3. Producer \in Tasks /\ Producer' = Producer
  BY PartyOfCall DEF Typed, Producer
<1>4. Made' = Made
  BY <1>1, <1>2, <1>3 DEF Made
<1>5. \A u \in Tasks : /\ Unit(u)' = Unit(u)
                       /\ task'[u].pc \in Held(mode) => task[u].pc \in Held(mode)
  BY <1>1, <1>2 DEF Unit, Moves
<1>6. Units' = Units /\ (IsPair' <=> IsPair)
  BY <1>4 DEF Units, Party, IsPair
<1>7. Once'
  BY <1>4, <1>5, <1>6 DEF Once
<1>8. Queues'
  BY <1>1, <1>3 DEF Queues, Moves
<1> QED
  BY <1>7, <1>8

LEMMA MovedCounted ==
  ASSUME Typed, Counted, NEW t \in Tasks, NEW n \in TaskRec, Moves(t, n),
         UNCHANGED <<mode, workers, jobs, inbox>>, caller'.got = caller.got,
         log'.begun = log.begun,
         n.pc \in Early(mode) => task[t].pc \in Early(mode),
         HasRun(n) => HasRun(task[t])
  PROVE  Counted'
<1>1. \A u \in Tasks : task'[u] = IF u = t THEN n ELSE task[u]
  BY DEF Typed, Moves
<1>2. n.job = task[t].job
  BY DEF Moves
<1>3. Producer \in Tasks /\ Producer' = Producer
  BY PartyOfCall DEF Typed, Producer
<1>4. Made' = Made
  BY <1>1, <1>2, <1>3 DEF Made
<1>5. \A u \in Tasks : /\ Unit(u)' = Unit(u)
                       /\ task'[u].pc \in Early(mode) => task[u].pc \in Early(mode)
                       /\ HasRun(task'[u]) => HasRun(task[u])
  BY <1>1, <1>2 DEF Unit
<1> QED
  BY <1>4, <1>5 DEF Counted

(* Whatever a thread does that has been spawned and has not ended.         *)
LEMMA MoveSound ==
  ASSUME Sound, NEW t \in Tasks, NEW n \in TaskRec, task' = [task EXCEPT ![t] = n],
         UNCHANGED <<mode, workers, caller, answer>>,
         token' \in TokenRec, gate' \in GateRec, log' \in LogRec,
         jobs' \in Seq(Inputs), inbox' \in Seq(ResultRec),
         Excused => Excused',
         gate'.aborted => gate.aborted, ~IsPair => gate'.arrived = 0,
         task[t].pc \notin {"none", "done"}, n.pc \in RolePcs(t),
         task[t].pc = "ended" => n.pc = "done",
         caller.pc = "await" => inbox' = <<>>,
         \A u \in Tasks : log.begun[u] = 1 => log'.begun[u] = 1,
         Once', Counted', Queues',
         Undecided /\ ~Excused' =>
           /\ NoneAborted'
           /\ mode # "pool" => NoneCancelled'
           /\ mode = "pool" => PoolBlames'
  PROVE  Sound'
<1>1. Typed
  BY DEF Sound
<1>2. \A u \in Tasks : task'[u] = IF u = t THEN n ELSE task[u]
  BY <1>1 DEF Typed
<1>3. Producer \in Tasks /\ Producer' = Producer /\ Workers \subseteq Tasks /\ Workers' = Workers
  BY <1>1, PartyOfCall DEF Typed, Producer, Workers
<1>4. Typed'
  BY <1>1 DEF Typed
<1>5. Roles'
  <2>1. caller.pc \notin {"enter", "inline"}
    BY DEF Sound, Roles
  <2>2. \A u : RolePcs(u)' = RolePcs(u)
    BY <1>3 DEF RolePcs, IsPair
  <2>3. \A u \in Tasks : task'[u].pc = "none" \/ task'[u].pc \in RolePcs(u)
    BY <1>2 DEF Sound, Roles
  <2> QED
    BY <2>1, <2>2, <2>3 DEF Sound, Roles
<1>6. SpawnList'
  <2> SUFFICES ASSUME caller.pc = "spawn" PROVE SpawnList'
    BY DEF SpawnList
  <2>1. Party' = Party /\ Party \subseteq Tasks
    BY <1>1, PartyOfCall DEF Party, IsPair, Typed
  <2>2. ASSUME NEW i \in 1..Len(caller.todo)
        PROVE  caller.todo[i] \in Party /\ task'[caller.todo[i]].pc = "none"
    <3>1. caller.todo[i] \in Party /\ task[caller.todo[i]].pc = "none"
      BY DEF Sound, SpawnList
    <3> QED
      BY <1>2, <2>1, <3>1
  <2> QED
    BY <2>1, <2>2 DEF Sound, SpawnList
<1>7. AwaitList'
  <2> SUFFICES ASSUME caller.pc = "await" PROVE AwaitList'
    BY DEF AwaitList
  <2>1. /\ mode = "pool" /\ caller.error = "none" /\ \A w \in Workers : task[w].pc \in Exits
        /\ caller.todo \in Seq(Tasks)
        /\ caller.todo = SpawnOrder \/ (caller.todo # <<>> /\ task[Producer].pc = "done")
    BY DEF Sound, AwaitList
  <2>2. \A w \in Workers : task'[w].pc \in Exits
    BY <1>2, <1>3, <2>1 DEF Exits
  <2>3. task[Producer].pc = "done" => task'[Producer].pc = "done"
    BY <1>2, <1>3
  <2>4. SpawnOrder' = SpawnOrder
    BY <1>3 DEF SpawnOrder, IsPair
  <2> QED
    BY <1>3, <2>1, <2>2, <2>3, <2>4 DEF AwaitList
<1>8. Deciding' /\ Gated'
  BY DEF Sound, Deciding, Gated, Undecided, IsPair
<1>9. Complete'
  <2>1. task[Producer].pc = "done" => task'[Producer] = task[Producer]
    BY <1>2, <1>3
  <2> QED
    BY <1>3, <2>1, NumbersFit DEF Sound, Complete, Made
<1>10. Blames'
  BY DEF Sound, Blames, Undecided
<1> QED
  BY <1>4, <1>5, <1>6, <1>7, <1>8, <1>9, <1>10 DEF Sound

(* A move gives nobody a reason to stop that the caller cannot know.       *)
Innocent(t, n) ==
    /\ n.pc # "fail" /\ n.kind # "cancelled"
    /\ t = Producer /\ task[Producer].pc \in Exits => n.pc \in Exits
    /\ t \in Workers /\ n.pc \in Exits => task[t].pc \in Exits \/ task[Producer].pc \in Exits

LEMMA MovedBlames ==
  ASSUME Sound, NEW t \in Tasks, NEW n \in TaskRec, task' = [task EXCEPT ![t] = n],
         UNCHANGED <<mode, workers, token, inbox>>, caller'.error = caller.error,
         Undecided, ~Excused, n.kind # "aborted",
         mode # "pool" => n.kind # "cancelled",
         mode = "pool" => FailureKnown \/ Innocent(t, n)
  PROVE  /\ NoneAborted'
         /\ mode # "pool" => NoneCancelled'
         /\ mode = "pool" => PoolBlames'
<1>1. \A u \in Tasks : task'[u] = IF u = t THEN n ELSE task[u]
  BY DEF Sound, Typed
<1>2. NoneAborted /\ (mode # "pool" => NoneCancelled) /\ (mode = "pool" => PoolBlames)
  BY DEF Sound, Blames
<1>3. NoneAborted'
  BY <1>1, <1>2 DEF NoneAborted
<1>4. mode # "pool" => NoneCancelled'
  BY <1>1, <1>2 DEF NoneCancelled
<1>5. ASSUME mode = "pool" PROVE PoolBlames'
  <2>1. Producer \in Tasks /\ Producer' = Producer /\ Workers \subseteq Tasks /\ Workers' = Workers
        /\ Producer \notin Workers
    BY PartyOfCall DEF Sound, Typed, Producer, Workers
  <2>2. FailureKnown' <=> FailureKnown
    BY DEF FailureKnown
  <2>3. \A i : FailureBefore(i)' <=> FailureBefore(i)
    BY DEF FailureBefore
  <2>4. ASSUME PoolCalm, Innocent(t, n) PROVE PoolCalm'
    <3>1. ~token'.own /\ \A u \in Tasks : task'[u].pc # "fail" /\ task'[u].kind # "cancelled"
      BY <1>1, <2>4 DEF PoolCalm, Innocent
    <3>2. task[Producer].pc \in Exits => task'[Producer].pc \in Exits
      BY <1>1, <2>1, <2>4 DEF Innocent
    <3>3. ASSUME \A w \in Workers : task[w].pc \notin Exits, task[Producer].pc \notin Exits
          PROVE  \A w \in Workers : task'[w].pc \notin Exits
      BY <1>1, <2>1, <2>4, <3>3 DEF Innocent
    <3> QED
      BY <2>1, <2>4, <3>1, <3>2, <3>3 DEF PoolCalm
  <2> QED
    BY <1>2, <1>5, <2>2, <2>3, <2>4 DEF PoolBlames
<1> QED
  BY <1>3, <1>4, <1>5

(* A move that touches neither the channel and the queue nor the tokens.   *)
LEMMA PlainSound ==
  ASSUME Sound, NEW t \in Tasks, NEW n \in TaskRec, Moves(t, n),
         UNCHANGED <<mode, workers, caller, answer, token, jobs, inbox, log>>,
         gate' \in GateRec, gate'.aborted => gate.aborted, ~IsPair => gate'.arrived = 0,
         task[t].pc \notin {"none", "done"}, n.pc \in RolePcs(t),
         task[t].pc = "ended" => n.pc = "done",
         n.pc \in Early(mode) => task[t].pc \in Early(mode),
         HasRun(n) => HasRun(task[t]),
         Undecided /\ ~Excused =>
           /\ n.kind # "aborted"
           /\ mode # "pool" => n.kind # "cancelled"
           /\ mode = "pool" => FailureKnown \/ Innocent(t, n)
  PROVE  Sound'
<1>1. Typed /\ Once /\ Counted /\ Queues
  BY DEF Sound
<1>2. /\ token' \in TokenRec /\ log' \in LogRec /\ jobs' \in Seq(Inputs)
      /\ inbox' \in Seq(ResultRec) /\ caller'.got = caller.got /\ log'.begun = log.begun
  BY <1>1 DEF Typed
<1>3. Once' /\ Queues' /\ Counted'
  BY <1>1, <1>2, MovedOnce, MovedCounted
<1>4. task' = [task EXCEPT ![t] = n]
  BY DEF Moves
<1>5. Excused' <=> Excused
  BY DEF Excused
<1>6. Undecided /\ ~Excused' =>
           /\ NoneAborted'
           /\ mode # "pool" => NoneCancelled'
           /\ mode = "pool" => PoolBlames'
  BY <1>4, <1>5, MovedBlames
<1>7. caller.pc = "await" => inbox' = <<>>
  BY DEF Sound, AwaitList
<1>8. \A u \in Tasks : log.begun[u] = 1 => log'.begun[u] = 1
  BY <1>2
<1> QED
  BY <1>2, <1>3, <1>4, <1>5, <1>6, <1>7, <1>8, MoveSound

-----------------------------------------------------------------------------
(* A thread that takes one of its steps.                                   *)
LEMMA StepSound ==
  ASSUME Sound, NEW t \in Tasks, NEW pc \in TaskPcs, NEW kind \in Kinds, Step(t, pc, kind),
         UNCHANGED <<mode, workers, caller, answer, token, jobs, inbox, log>>,
         gate' \in GateRec, gate'.aborted => gate.aborted, ~IsPair => gate'.arrived = 0,
         task[t].pc \notin {"none", "done"}, pc \in RolePcs(t),
         task[t].pc = "ended" => pc = "done",
         pc \in Held(mode) => task[t].pc \in Held(mode),
         pc \in Early(mode) => task[t].pc \in Early(mode),
         pc = "running" \/ (pc = "send" /\ kind = "value") => HasRun(task[t]),
         mode = "pool" /\ pc \in {"offer", "put"} => task[t].job < MaxCells,
         Undecided /\ ~Excused =>
           /\ kind # "aborted"
           /\ mode # "pool" => kind # "cancelled"
           /\ mode = "pool" =>
                FailureKnown \/ Innocent(t, [task[t] EXCEPT !.pc = pc, !.kind = kind])
  PROVE  Sound'
<1> DEFINE n == [task[t] EXCEPT !.pc = pc, !.kind = kind]
<1>0. task[t] \in TaskRec /\ task \in [Tasks -> TaskRec]
  BY DEF Sound, Typed
<1>1. /\ n \in TaskRec /\ n.pc = pc /\ n.kind = kind /\ n.job = task[t].job
  BY <1>0 DEF TaskRec
<1>5. task' = [task EXCEPT ![t] = n]
  BY <1>0 DEF Step, TaskRec
<1>2. Undecided /\ ~Excused =>
           /\ kind # "aborted"
           /\ mode # "pool" => kind # "cancelled"
           /\ mode = "pool" => FailureKnown \/ Innocent(t, n)
  OBVIOUS
<1> HIDE DEF n
<1>3. Moves(t, n)
  BY <1>1, <1>5 DEF Moves
<1>4. HasRun(n) => HasRun(task[t])
  BY <1>1 DEF HasRun
<1> QED
  BY <1>1, <1>2, <1>3, <1>4, PlainSound

(* Who is at which step.                                                   *)
LEMMA RolesKnown ==
  ASSUME Sound, NEW t \in Tasks
  PROVE  /\ task[t].pc \in {"prepare", "arrive", "gate"} =>
              IsPair /\ mode # "pool" /\ RolePcs(t) = SidePcs
         /\ task[t].pc \in {"safepoint", "poll", "take", "got", "fail"} =>
              mode = "pool" /\ t \in Workers /\ t # Producer /\ RolePcs(t) = WorkerPcs
         /\ task[t].pc \in {"produce", "offer", "put"} =>
              mode = "pool" /\ t = Producer /\ RolePcs(t) = ProducerPcs
         /\ task[t].pc = "ended" => RolePcs(t) \in {SidePcs, WorkerPcs, ProducerPcs}
         /\ task[t].pc \in {"start", "running", "send"} =>
              /\ mode \in Calls
              /\ IsPair => RolePcs(t) = SidePcs /\ t \in {1, 2}
              /\ mode = "timeout" => RolePcs(t) = TimedPcs /\ t = 1
              /\ mode = "pool" => RolePcs(t) = WorkerPcs /\ t \in Workers /\ t # Producer
<1>1. task[t].pc = "none" \/ task[t].pc \in RolePcs(t)
  BY DEF Sound, Roles
<1>2. Producer \notin Workers
  BY PartyOfCall DEF Sound, Typed
<1> QED
  BY <1>1, <1>2 DEF RolePcs, SidePcs, TimedPcs, WorkerPcs, ProducerPcs, IsPair, Calls

(* A cancellation has a cause: one from outside, or a failure in the pool. *)
LEMMA CancelledKnown ==
  ASSUME Sound, Undecided, ~Excused, NEW t \in Tasks
  PROVE  /\ ~gate.aborted /\ task[t].kind # "aborted"
         /\ mode # "pool" => ~Cancelled(t) /\ ~OwnCancelled /\ task[t].kind # "cancelled"
         /\ mode = "pool" /\ (Cancelled(t) \/ OwnCancelled) => FailureKnown
         /\ mode = "pool" /\ ~FailureKnown => PoolCalm
         /\ ~token.expired
BY DEF Sound, Blames, NoneAborted, NoneCancelled, PoolBlames, PoolCalm, Cancelled, OwnCancelled,
       Excused, Gated

(* The kind and the gate are as they were.                                 *)
LEMMA TypedParts ==
  ASSUME Sound, NEW t \in Tasks
  PROVE  /\ task[t] \in TaskRec /\ task[t].kind \in Kinds /\ task[t].job \in JobNumbers
         /\ gate \in GateRec /\ token \in TokenRec /\ log \in LogRec
         /\ (~IsPair => gate.arrived = 0) /\ (gate.aborted => ~Undecided)
BY DEF Sound, Typed, TaskRec, Gated

-----------------------------------------------------------------------------
(* The sides of a pair up to the gate and through it.                      *)
LEMMA SideSound ==
  ASSUME Sound, NEW t \in Tasks, NEW kind \in {"cancelled", "value", "error"},
         Prepare(t, kind) \/ Arrive(t) \/ PassGate(t)
  PROVE  Sound'
<1>1. /\ task[t].pc \in {"prepare", "arrive", "gate"}
      /\ UNCHANGED <<mode, workers, caller, answer, token, jobs, inbox, log>>
  BY DEF Prepare, Arrive, PassGate, At
<1>2. IsPair /\ mode # "pool" /\ RolePcs(t) = SidePcs
  BY <1>1, RolesKnown
<1>3. task[t].kind \in Kinds /\ gate \in GateRec
  BY TypedParts
<1>4. gate' \in GateRec /\ gate'.aborted = gate.aborted
  BY <1>3 DEF Prepare, Arrive, PassGate, GateRec
<1>5. PICK pc \in {"arrive", "gate", "start", "send"}, k \in Kinds :
        /\ Step(t, pc, k)
        /\ pc = "send" => k # "value"
        /\ k = "cancelled" => Cancelled(t) \/ task[t].kind = "cancelled"
        /\ k = "aborted" => gate.aborted \/ task[t].kind = "aborted"
  <2>1. CASE Prepare(t, kind)
    BY <2>1 DEF Prepare, Kinds
  <2>2. CASE Arrive(t)
    BY <1>3, <2>2 DEF Arrive
  <2>3. CASE PassGate(t) /\ gate.aborted
    BY <2>3 DEF PassGate, Kinds
  <2>4. CASE PassGate(t) /\ ~gate.aborted
    BY <1>3, <2>4 DEF PassGate
  <2> QED
    BY <2>1, <2>2, <2>3, <2>4
<1>6. pc \in TaskPcs /\ pc \in RolePcs(t) /\ task[t].pc \in Early(mode) /\ task[t].pc \in Held(mode)
  BY <1>1, <1>2 DEF TaskPcs, SidePcs, Early, Held
<1>7. Undecided /\ ~Excused => k # "aborted" /\ k # "cancelled"
  BY <1>2, <1>5, CancelledKnown
<1>8. ~(pc = "running" \/ (pc = "send" /\ k = "value"))
  BY <1>5
<1>9. task[t].pc \notin {"none", "done", "ended"}
  BY <1>1
<1> QED
  BY <1>1, <1>2, <1>4, <1>5, <1>6, <1>7, <1>8, <1>9, StepSound

(* An action or a callback ends, and a thread that has ended is finished.  *)
LEMMA EndSound ==
  ASSUME Sound, NEW t \in Tasks, NEW kind \in {"cancelled", "value", "error"},
         EndRun(t, kind) \/ Publish(t)
  PROVE  Sound'
<1>1. UNCHANGED <<mode, workers, caller, answer, token, gate, jobs, inbox, log>>
  BY DEF EndRun, Publish
<1>2. /\ task[t] \in TaskRec /\ task[t].kind \in Kinds
      /\ gate' \in GateRec /\ gate'.aborted = gate.aborted /\ (~IsPair => gate'.arrived = 0)
  BY <1>1, TypedParts
<1>3. CASE EndRun(t, kind)
  <2>1. /\ task[t].pc = "running" /\ Step(t, "send", kind) /\ (kind = "cancelled" => Noticed(t))
        /\ kind \in Kinds /\ "send" \in TaskPcs
    BY <1>3 DEF EndRun, At, Kinds, TaskPcs
  <2>2. "send" \in RolePcs(t)
    BY <2>1, RolesKnown DEF Calls, IsPair, SidePcs, TimedPcs, WorkerPcs
  <2>3. task[t].pc \in Held(mode) /\ "send" \notin Early(mode) /\ HasRun(task[t])
    BY <2>1 DEF Held, Early, HasRun
  <2> DEFINE n == [task[t] EXCEPT !.pc = "send", !.kind = kind]
  <2>4. n.pc = "send" /\ n.kind = kind
    BY <1>2 DEF TaskRec
  <2>5. mode = "pool" => t # Producer
    BY <2>1, RolesKnown
  <2> HIDE DEF n
  <2>6. ASSUME Undecided, ~Excused
        PROVE  /\ kind # "aborted"
               /\ mode # "pool" => kind # "cancelled"
               /\ mode = "pool" => FailureKnown \/ Innocent(t, n)
    <3>1. kind = "cancelled" => Cancelled(t)
      BY <2>1, <2>6, CancelledKnown DEF Noticed
    <3>2. mode # "pool" => kind # "cancelled"
      BY <2>6, <3>1, CancelledKnown
    <3>3. mode = "pool" /\ kind = "cancelled" => FailureKnown
      BY <2>6, <3>1, CancelledKnown
    <3>4. mode = "pool" /\ kind # "cancelled" => Innocent(t, n)
      BY <2>4, <2>5 DEF Innocent, Exits
    <3> QED
      BY <3>2, <3>3, <3>4
  <2>7. task[t].pc \notin {"none", "done", "ended"}
    BY <2>1
  <2> QED
    BY <1>1, <1>2, <2>1, <2>2, <2>3, <2>6, <2>7, StepSound DEF n
<1>4. CASE Publish(t)
  <2> DEFINE k == task[t].kind
  <2>1. task[t].pc = "ended" /\ Step(t, "done", k) /\ k \in Kinds /\ "done" \in TaskPcs
    BY <1>2, <1>4 DEF Publish, At, TaskPcs
  <2>2. "done" \in RolePcs(t)
    BY <2>1, RolesKnown DEF SidePcs, WorkerPcs, ProducerPcs
  <2>3. "done" \notin Held(mode) /\ "done" \notin Early(mode)
    BY DEF Held, Early
  <2> DEFINE n == [task[t] EXCEPT !.pc = "done", !.kind = k]
  <2>4. n.pc = "done" /\ n.kind = k
    BY <1>2 DEF TaskRec
  <2> HIDE DEF n
  <2>6. ASSUME Undecided, ~Excused
        PROVE  /\ k # "aborted"
               /\ mode # "pool" => k # "cancelled"
               /\ mode = "pool" => FailureKnown \/ Innocent(t, n)
    <3>1. k # "aborted" /\ (mode # "pool" => k # "cancelled")
      BY <2>6, CancelledKnown
    <3>2. mode = "pool" /\ ~FailureKnown => k # "cancelled"
      BY <2>6, CancelledKnown DEF PoolCalm
    <3>3. k # "cancelled" => Innocent(t, n)
      BY <2>1, <2>4 DEF Innocent, Exits
    <3> QED
      BY <3>1, <3>2, <3>3
  <2> HIDE DEF k
  <2>7. task[t].pc \notin {"none", "done"}
    BY <2>1
  <2> QED
    BY <1>1, <1>2, <2>1, <2>2, <2>3, <2>6, <2>7, StepSound DEF n
<1> QED
  BY <1>3, <1>4

-----------------------------------------------------------------------------
(* The steps of a pool's threads that leave the queue and the channel      *)
(* alone: a worker's safepoint, token and polls, the producer's cells.     *)
PoolPcs == {"safepoint", "poll", "take", "got", "produce", "offer", "put"}

(* Any of these steps but a start's own, with an innocent end.             *)
LEMMA PoolStepSound ==
  ASSUME Sound, NEW t \in Tasks, task[t].pc \in PoolPcs,
         NEW pc \in (PoolPcs \ {"got"}) \cup {"start", "ended"},
         NEW kind \in Kinds \ {"aborted"}, Step(t, pc, kind),
         UNCHANGED <<mode, workers, caller, answer, token, gate, jobs, inbox, log>>,
         IF t = Producer THEN pc \in {"produce", "offer", "put", "ended"}
                         ELSE pc \in {"safepoint", "poll", "take", "start", "ended"},
         pc = "start" => task[t].pc = "got",
         pc \in {"offer", "put"} => task[t].job < MaxCells,
         Undecided /\ ~Excused => \/ FailureKnown
                                  \/ /\ kind # "cancelled"
                                     /\ pc = "ended" => t = Producer \/ task[Producer].pc \in Exits
  PROVE  Sound'
<1>1. /\ mode = "pool" /\ pc \in RolePcs(t)
      /\ t = Producer \/ (t \in Workers /\ t # Producer)
  BY RolesKnown DEF PoolPcs, WorkerPcs, ProducerPcs
<1>2. /\ task[t] \in TaskRec
      /\ gate' \in GateRec /\ gate'.aborted = gate.aborted /\ (~IsPair => gate'.arrived = 0)
  BY TypedParts
<1>3. pc \in TaskPcs /\ kind \in Kinds
  BY DEF TaskPcs, PoolPcs
<1>4. /\ pc \in Early(mode) => task[t].pc \in Early(mode)
      /\ pc \in Held(mode) => task[t].pc \in Held(mode)
      /\ pc # "running" /\ pc # "send"
  BY <1>1 DEF Early, Held, PoolPcs
<1>5. task[t].pc \notin {"none", "done", "ended"}
  BY DEF PoolPcs
<1> DEFINE n == [task[t] EXCEPT !.pc = pc, !.kind = kind]
<1>6. n.pc = pc /\ n.kind = kind
  BY <1>2 DEF TaskRec
<1> HIDE DEF n
<1>7. ASSUME Undecided, ~Excused
      PROVE  FailureKnown \/ Innocent(t, n)
  <2>1. pc # "fail" /\ (pc \in Exits => pc = "ended")
    BY DEF PoolPcs, Exits
  <2>2. task[Producer].pc \in Exits => t # Producer
    BY DEF PoolPcs, Exits
  <2>3. Producer \notin Workers
    BY PartyOfCall DEF Sound, Typed
  <2> QED
    BY <1>6, <1>7, <2>1, <2>2, <2>3 DEF Innocent
<1> QED
  BY <1>1, <1>2, <1>3, <1>4, <1>5, <1>7, StepSound DEF n

(* A worker between two callbacks.                                         *)
LEMMA WorkerSound ==
  ASSUME Sound, NEW t \in Tasks,
         \/ PollToken(t) \/ KeepJob(t)
         \/ Safepoint(t) /\ ~token.expired
         \/ TakeJob(t) /\ jobs = <<>>
  PROVE  Sound'
<1>1. /\ task[t].pc \in {"safepoint", "poll", "take", "got"}
      /\ UNCHANGED <<mode, workers, caller, answer, token, gate, jobs, inbox, log>>
  BY DEF PollToken, KeepJob, Safepoint, TakeJob, At
<1>2. mode = "pool" /\ t \in Workers /\ t # Producer /\ task[t].pc \in PoolPcs
  BY <1>1, RolesKnown DEF PoolPcs
<1>3. PICK pc \in {"safepoint", "poll", "take", "start", "ended"}, kind \in {"value", "cancelled"} :
        /\ Step(t, pc, kind)
        /\ pc = "start" => task[t].pc = "got"
        /\ kind = "cancelled" => Cancelled(t)
        /\ pc = "ended" => Cancelled(t) \/ OwnCancelled \/ task[Producer].pc \in Exits
  <2>1. CASE PollToken(t)
    BY <2>1 DEF PollToken
  <2>2. CASE KeepJob(t)
    BY <2>2 DEF KeepJob, At
  <2>3. CASE Safepoint(t) /\ ~token.expired
    BY <2>3 DEF Safepoint
  <2>4. CASE TakeJob(t) /\ jobs = <<>>
    BY <2>4 DEF TakeJob, Exits
  <2> QED
    BY <2>1, <2>2, <2>3, <2>4
<1>4. ASSUME Undecided, ~Excused
      PROVE  FailureKnown \/ (kind # "cancelled" /\ (pc = "ended" => task[Producer].pc \in Exits))
  BY <1>2, <1>3, <1>4, CancelledKnown
<1>5. /\ kind \in Kinds \ {"aborted"} /\ pc \in (PoolPcs \ {"got"}) \cup {"start", "ended"}
      /\ pc \notin {"offer", "put"}
  BY DEF Kinds, PoolPcs
<1> QED
  BY <1>1, <1>2, <1>3, <1>4, <1>5, PoolStepSound

(* Fewer cells are produced than the bound allows jobs.                    *)
LEMMA CellsFit ==
  ASSUME NEW w \in Nat \ {0}, NEW j \in Nat, NEW m \in Nat, w * (j + 1) <= m
  PROVE  j < m
<1>1. j + 1 \in Nat /\ w * (j + 1) \in Nat
  OBVIOUS
<1>2. PICK v \in Nat : w = v + 1
  <2>1. w - 1 \in Nat /\ w = (w - 1) + 1
    OBVIOUS
  <2> QED
    BY <2>1
<1>3. w * (j + 1) = v * (j + 1) + (j + 1)
  BY <1>2
<1>4. v * (j + 1) \in Nat
  BY <1>1, <1>2
<1> QED
  BY <1>1, <1>3, <1>4

(* The producer, but for a job that finds room in the queue.               *)
LEMMA ProducerSound ==
  ASSUME Sound, mode = "pool", NEW kind \in {"cancelled", "value", "error"},
         Produce(kind) \/ ProduceCell \/ Offer \/ (Put /\ (SendersGone \/ Len(jobs) = 2 * workers))
  PROVE  Sound'
<1>1. /\ task[Producer].pc \in {"produce", "offer", "put"}
      /\ UNCHANGED <<mode, workers, caller, answer, token, gate, jobs, inbox, log>>
  BY DEF Produce, ProduceCell, Offer, Put, At
<1>2. /\ Producer \in Tasks /\ task[Producer].pc \in PoolPcs /\ 1 \in Workers
      /\ workers \in Nat \ {0} /\ MaxCells \in Nat
  BY <1>1, PartyOfCall, NumbersFit, BoundsAssumption DEF Sound, Typed, PoolPcs
<1>3. task[Producer].job \in Nat
  BY <1>2, TypedParts, NumbersFit
<1>4. PICK pc \in {"offer", "put", "ended"}, k \in {"value", "cancelled", "error"} :
        /\ Step(Producer, pc, k)
        /\ pc \in {"offer", "put"} => task[Producer].job < MaxCells
        /\ k = "cancelled" => OwnCancelled \/ (task[Producer].pc = "put" /\ SendersGone)
  <2>1. CASE Produce(kind)
    BY <2>1 DEF Produce
  <2>2. CASE ProduceCell
    <3>1. task[Producer].job < MaxCells
      BY <1>2, <1>3, <2>2, CellsFit DEF ProduceCell
    <3> QED
      BY <2>2, <3>1 DEF ProduceCell
  <2>3. CASE Offer
    BY <2>3 DEF Offer, At, Sound, Queues
  <2>4. CASE Put /\ (SendersGone \/ Len(jobs) = 2 * workers)
    <3>1. task[Producer].pc = "put" /\ task[Producer].job < MaxCells
      BY <2>4 DEF Put, At, Sound, Queues
    <3> QED
      BY <2>4, <3>1 DEF Put
  <2> QED
    BY <2>1, <2>2, <2>3, <2>4
<1>5. ASSUME Undecided, ~Excused
      PROVE  FailureKnown \/ k # "cancelled"
  <2>1. OwnCancelled => FailureKnown
    BY <1>2, <1>5, CancelledKnown
  <2>2. task[Producer].pc = "put" /\ SendersGone => FailureKnown
    BY <1>2, <1>5, CancelledKnown DEF PoolCalm, SendersGone, Exits
  <2> QED
    BY <1>4, <2>1, <2>2
<1>6. /\ k \in Kinds \ {"aborted"} /\ pc \in (PoolPcs \ {"got"}) \cup {"start", "ended"}
      /\ pc \in {"produce", "offer", "put", "ended"} /\ pc # "start"
  BY DEF Kinds, PoolPcs
<1> QED
  BY <1>1, <1>2, <1>4, <1>5, <1>6, PoolStepSound
-----------------------------------------------------------------------------
(* A worker notices the deadline, or cancels the pool's token after its    *)
(* failure.                                                                *)
LEMMA TokenSound ==
  ASSUME Sound, NEW t \in Tasks, Fail(t) \/ (Safepoint(t) /\ token.expired)
  PROVE  Sound'
<1>1. /\ task[t].pc \in {"fail", "safepoint"}
      /\ UNCHANGED <<mode, workers, caller, answer, gate, jobs, inbox, log>>
  BY DEF Fail, Safepoint, At
<1>2. mode = "pool" /\ t \in Workers /\ t # Producer /\ RolePcs(t) = WorkerPcs
  BY <1>1, RolesKnown
<1>3. task[t] \in TaskRec /\ gate \in GateRec /\ token \in TokenRec /\ log \in LogRec
      /\ task \in [Tasks -> TaskRec] /\ jobs \in Seq(Inputs) /\ inbox \in Seq(ResultRec)
      /\ (~IsPair => gate.arrived = 0) /\ Typed /\ Once /\ Counted /\ Queues
  BY TypedParts DEF Sound, Typed
<1>4. PICK k \in {"value", "cancelled"} :
        /\ Step(t, "ended", k)
        /\ token' \in TokenRec /\ (Excused => Excused')
        /\ Fail(t) => k = "value" /\ task[t].pc = "fail"
        /\ ~Fail(t) => Excused'
  <2>1. CASE Fail(t)
    BY <1>3, <2>1 DEF Fail, TokenRec, Excused, At
  <2>2. CASE Safepoint(t) /\ token.expired
    <3>1. token' = CancelScope(token, t) /\ Step(t, "ended", "cancelled")
      BY <2>2 DEF Safepoint
    <3>2. token' \in TokenRec /\ token'.expired = token.expired
      BY <1>3, <3>1, TokenCancelled
    <3> QED
      BY <2>2, <3>1, <3>2 DEF Excused, Fail, Safepoint, At
  <2> QED
    BY <2>1, <2>2
<1> DEFINE n == [task[t] EXCEPT !.pc = "ended", !.kind = k]
<1>5. k \in Kinds /\ "ended" \in TaskPcs
  BY DEF Kinds, TaskPcs
<1>6. n \in TaskRec /\ n.pc = "ended" /\ n.kind = k /\ n.job = task[t].job
  BY <1>3, <1>5 DEF TaskRec
<1>7. task' = [task EXCEPT ![t] = n]
  BY <1>3, <1>4 DEF Step, TaskRec
<1> HIDE DEF n
<1>8. Moves(t, n) /\ ~HasRun(n) /\ n.pc \notin Early(mode) /\ n.pc \in RolePcs(t)
  BY <1>2, <1>6, <1>7 DEF Moves, HasRun, Early, Held, WorkerPcs
<1>9. Once' /\ Counted' /\ Queues'
  BY <1>1, <1>3, <1>6, <1>8, MovedOnce, MovedCounted
<1>10. ASSUME Undecided, ~Excused'
       PROVE  /\ NoneAborted'
              /\ mode # "pool" => NoneCancelled'
              /\ mode = "pool" => PoolBlames'
  <2>1. Fail(t) /\ k = "value" /\ task[t].pc = "fail" /\ ~Excused
    BY <1>4, <1>10
  <2>2. NoneAborted /\ PoolBlames /\ FailureKnown
    BY <1>2, <1>10, <2>1 DEF Sound, Blames, PoolBlames, PoolCalm
  <2>3. \A u \in Tasks : task'[u] = IF u = t THEN n ELSE task[u]
    BY <1>3, <1>7
  <2>4. NoneAborted'
    <3>1. token'.cut = token.cut
      BY <1>3, <2>1 DEF Fail, TokenRec
    <3> QED
      BY <1>1, <1>6, <2>1, <2>2, <2>3, <3>1 DEF NoneAborted
  <2>5. PoolBlames'
    BY <1>1, <2>2 DEF PoolBlames, FailureKnown, FailureBefore
  <2> QED
    BY <1>2, <2>4, <2>5
<1>11. caller.pc = "await" => inbox' = <<>>
  BY <1>1 DEF Sound, AwaitList
<1>12. task[t].pc \notin {"none", "done", "ended"}
  BY <1>1
<1> QED
  BY <1>1, <1>3, <1>4, <1>6, <1>7, <1>8, <1>9, <1>10, <1>11, <1>12, MoveSound

-----------------------------------------------------------------------------
(* A worker takes the first job of the queue.                              *)
LEMMA TakeJobSound ==
  ASSUME Sound, NEW t \in Tasks, TakeJob(t), jobs # <<>>
  PROVE  Sound'
<1> DEFINE e == Head(jobs)
<1>1. /\ task[t].pc = "take"
      /\ task' = [task EXCEPT ![t].pc = "got", ![t].job = e] /\ jobs' = Tail(jobs)
      /\ UNCHANGED <<mode, workers, caller, answer, token, gate, inbox, log>>
  BY DEF TakeJob, At
<1>2. mode = "pool" /\ t \in Workers /\ t # Producer /\ RolePcs(t) = WorkerPcs
  BY <1>1, RolesKnown
<1>3. task[t] \in TaskRec /\ gate \in GateRec /\ token \in TokenRec /\ log \in LogRec
      /\ task \in [Tasks -> TaskRec] /\ jobs \in Seq(Inputs) /\ inbox \in Seq(ResultRec)
      /\ (~IsPair => gate.arrived = 0) /\ Typed /\ Once /\ Counted /\ Queues
  BY TypedParts DEF Sound, Typed
<1>4. /\ e \in Inputs /\ Tail(jobs) \in Seq(Inputs) /\ Len(Tail(jobs)) = Len(jobs) - 1
      /\ Len(jobs) \in Nat
  BY <1>3, TakenFirst
<1>5. Injective(Tail(jobs)) /\ e \in Elements(jobs)
      /\ Elements(Tail(jobs)) \subseteq Elements(jobs) /\ e \notin Elements(Tail(jobs))
  BY <1>3, JobsTaken DEF Once
<1> HIDE DEF e
<1> DEFINE n == [task[t] EXCEPT !.pc = "got", !.job = e]
<1>6. n \in TaskRec /\ n.pc = "got" /\ n.kind = task[t].kind /\ n.job = e
  BY <1>3, <1>4, NumbersFit DEF TaskRec, TaskPcs
<1>7. task' = [task EXCEPT ![t] = n]
  BY <1>1, <1>3 DEF TaskRec
<1> HIDE DEF n
<1>8. \A u \in Tasks : task'[u] = IF u = t THEN n ELSE task[u]
  BY <1>3, <1>7
<1>9. Producer \in Tasks /\ Producer' = Producer /\ Made' = Made /\ task'[Producer] = task[Producer]
  <2>1. Producer \in Tasks /\ Producer' = Producer
    BY <1>1, <1>3, PartyOfCall DEF Typed, Producer
  <2> QED
    BY <1>2, <1>8, <2>1 DEF Made
<1>10. /\ \A u \in Tasks : u # t => Unit(u)' = Unit(u)
       /\ Unit(t)' = e
  <2>1. mode = "pool" /\ mode' = "pool"
    BY <1>1, <1>2
  <2>2. \A u \in Tasks : Unit(u) = task[u].job /\ Unit(u)' = task'[u].job
    BY <2>1 DEF Unit
  <2>3. ASSUME NEW u \in Tasks, u # t PROVE Unit(u)' = Unit(u)
    BY <1>8, <2>2, <2>3
  <2>4. Unit(t)' = e
    BY <1>6, <1>8, <2>2
  <2> QED
    BY <2>3, <2>4
<1>11. Units' = Units /\ Units = 1..Made
  BY <1>1, <1>2, <1>9 DEF Units
<1>12. e \in Units /\ e \notin KeysOf(mode, inbox) /\ e \notin KeysOf(mode, caller.got)
       /\ \A u \in Tasks : task[u].pc \in Held(mode) => Unit(u) # e
  BY <1>3, <1>5 DEF Once
<1>13. Once'
  <2>1. \A u \in Tasks : task'[u].pc \in Held(mode) /\ u # t =>
          /\ task[u].pc \in Held(mode) /\ Unit(u)' = Unit(u) /\ Unit(u) # e
          /\ Unit(u) \in 1..Made /\ Unit(u) \notin KeysOf(mode, inbox)
          /\ Unit(u) \notin KeysOf(mode, caller.got) /\ Unit(u) \notin Elements(jobs)
    BY <1>2, <1>3, <1>8, <1>10, <1>12 DEF Once
  <2>2. \A u \in Tasks : task'[u].pc \in Held(mode) =>
          /\ Unit(u)' \in 1..Made /\ Unit(u)' \notin KeysOf(mode, inbox)
          /\ Unit(u)' \notin KeysOf(mode, caller.got) /\ Unit(u)' \notin Elements(Tail(jobs))
    BY <1>5, <1>10, <1>11, <1>12, <2>1
  <2>3. \A u, v \in Tasks : task'[u].pc \in Held(mode) /\ task'[v].pc \in Held(mode)
                              /\ Unit(u)' = Unit(v)' => u = v
    BY <1>3, <1>10, <2>1 DEF Once
  <2> QED
    BY <1>1, <1>2, <1>3, <1>5, <1>9, <1>11, <2>2, <2>3 DEF Once
<1>14. Counted'
  <2>1. log.begun[e] = 0
    BY <1>2, <1>3, <1>4, <1>5 DEF Counted
  <2>2. \A u \in Tasks : /\ task'[u].pc \in Early(mode) => log.begun[Unit(u)'] = 0
                         /\ HasRun(task'[u]) => log.begun[Unit(u)'] = 1
    <3>1. ~HasRun(n)
      BY <1>6 DEF HasRun
    <3> QED
      BY <1>3, <1>8, <1>10, <2>1, <3>1 DEF Counted
  <2> QED
    BY <1>1, <1>3, <1>5, <1>9, <2>2 DEF Counted
<1>15. Queues'
  BY <1>1, <1>3, <1>4, <1>9, NumbersFit DEF Queues, Typed
<1>16. Undecided /\ ~Excused =>
         /\ n.kind # "aborted"
         /\ FailureKnown \/ Innocent(t, n)
  BY <1>2, <1>6, CancelledKnown DEF PoolCalm, Innocent, Exits
<1>17. Excused' <=> Excused
  BY <1>1 DEF Excused
<1>18. Undecided /\ ~Excused' =>
         /\ NoneAborted'
         /\ mode # "pool" => NoneCancelled'
         /\ mode = "pool" => PoolBlames'
  BY <1>1, <1>2, <1>6, <1>7, <1>16, <1>17, MovedBlames
<1>19. caller.pc = "await" => inbox' = <<>>
  BY <1>1 DEF Sound, AwaitList
<1>20. task[t].pc \notin {"none", "done", "ended"} /\ n.pc \in RolePcs(t)
  BY <1>1, <1>2, <1>6 DEF WorkerPcs
<1> QED
  BY <1>1, <1>3, <1>4, <1>6, <1>7, <1>13, <1>14, <1>15, <1>17, <1>18, <1>19, <1>20, MoveSound
-----------------------------------------------------------------------------
(* The producer sends a cell's job to the queue.                           *)
LEMMA PutSound ==
  ASSUME Sound, mode = "pool", Put, ~SendersGone, Len(jobs) # 2 * workers
  PROVE  Sound'
<1> DEFINE t == Producer
           e == task[Producer].job + 1
<1>1. /\ task[t].pc = "put"
      /\ task' = [task EXCEPT ![t].pc = "produce", ![t].job = e] /\ jobs' = Append(jobs, e)
      /\ UNCHANGED <<mode, workers, caller, answer, token, gate, inbox, log>>
  BY DEF Put, At
<1>2. t \in Tasks /\ t \notin Workers /\ t' = t /\ workers \in Nat \ {0}
  BY <1>1, PartyOfCall, NumbersFit DEF Sound, Typed, Producer
<1>3. task[t] \in TaskRec /\ gate \in GateRec /\ token \in TokenRec /\ log \in LogRec
      /\ task \in [Tasks -> TaskRec] /\ jobs \in Seq(Inputs) /\ inbox \in Seq(ResultRec)
      /\ (~IsPair => gate.arrived = 0) /\ Typed /\ Once /\ Counted /\ Queues
  BY <1>2, TypedParts DEF Sound, Typed
<1>4. /\ e \in Inputs /\ e \in JobNumbers /\ Made \in Nat /\ e = Made + 1
  <2>1. task[t].job < MaxCells /\ task[t].job \in Nat
    BY <1>1, <1>2, <1>3, NumbersFit DEF Queues, TaskRec
  <2>2. e \in Inputs
    BY <2>1, BoundsAssumption DEF Inputs
  <2> QED
    BY <2>1, <2>2, NumbersFit DEF Made
<1>5. /\ jobs' \in Seq(Inputs) /\ Len(jobs) \in Nat /\ Len(jobs') = Len(jobs) + 1
      /\ Elements(jobs') = Elements(jobs) \cup {e}
      /\ Injective(jobs) /\ e \notin Elements(jobs) => Injective(jobs')
  BY <1>1, <1>3, <1>4, AddedLast, JobsAdded
<1> HIDE DEF e
<1> DEFINE n == [task[t] EXCEPT !.pc = "produce", !.job = e]
<1>6. n \in TaskRec /\ n.pc = "produce" /\ n.kind = task[t].kind /\ n.job = e
  BY <1>3, <1>4 DEF TaskRec, TaskPcs
<1>7. task' = [task EXCEPT ![t] = n]
  BY <1>1, <1>3 DEF TaskRec
<1> HIDE DEF n, t
<1>8. \A u \in Tasks : task'[u] = IF u = t THEN n ELSE task[u]
  BY <1>3, <1>7
<1>9. Made' = e
  BY <1>2, <1>6, <1>8 DEF Made, t
<1>10. /\ \A u \in Tasks : task'[u].pc \in Held(mode) => u # t /\ task[u].pc \in Held(mode)
       /\ \A u \in Tasks : u # t => Unit(u)' = Unit(u) /\ task'[u] = task[u]
  <2>1. mode' = "pool"
    BY <1>1
  <2>2. "produce" \notin Held(mode)
    BY DEF Held, Early
  <2> QED
    BY <1>6, <1>8, <2>1, <2>2 DEF Unit
<1>11. Units = 1..Made /\ Units' = 1..e /\ e \notin Units /\ Units \subseteq Units' /\ e \in Units'
  <2>1. Units = 1..Made /\ Units' = 1..e
    BY <1>1, <1>9 DEF Units
  <2> QED
    BY <1>4, <2>1
<1>12. Once'
  <2>1. e \notin Elements(jobs) /\ e \notin KeysOf(mode, inbox) /\ e \notin KeysOf(mode, caller.got)
    BY <1>3, <1>11 DEF Once
  <2>2. \A u, v \in Tasks : task'[u].pc \in Held(mode) /\ task'[v].pc \in Held(mode)
                              /\ Unit(u)' = Unit(v)' => u = v
    BY <1>3, <1>10 DEF Once
  <2>3. \A u \in Tasks : task'[u].pc \in Held(mode) =>
          /\ Unit(u)' \in 1..Made /\ Unit(u)' \notin KeysOf(mode, inbox)
          /\ Unit(u)' \notin KeysOf(mode, caller.got) /\ Unit(u)' \notin Elements(jobs)
    BY <1>3, <1>10 DEF Once
  <2>4. \A u \in Tasks : task'[u].pc \in Held(mode) =>
          /\ Unit(u)' \in 1..Made' /\ Unit(u)' \notin KeysOf(mode, inbox)
          /\ Unit(u)' \notin KeysOf(mode, caller.got) /\ Unit(u)' \notin Elements(jobs')
    BY <1>5, <1>9, <1>11, <2>3
  <2> QED
    BY <1>1, <1>3, <1>5, <1>11, <2>1, <2>2, <2>4 DEF Once
<1>13. Counted'
  <2>1. \A u \in Tasks \cup Inputs : u > Made' \/ u \in Elements(jobs') => log.begun[u] = 0
    <3>1. \A u \in Tasks \cup Inputs : u > e => u > Made
      BY <1>4 DEF Tasks, Inputs
    <3>2. log.begun[e] = 0
      <4>1. e > Made
        BY <1>4
      <4> QED
        BY <1>3, <1>4, <4>1 DEF Counted
    <3> QED
      BY <1>3, <1>5, <1>9, <3>1, <3>2 DEF Counted
  <2>2. \A u \in Tasks : /\ task'[u].pc \in Early(mode) => log.begun[Unit(u)'] = 0
                         /\ HasRun(task'[u]) => log.begun[Unit(u)'] = 1
    <3>1. ~HasRun(n) /\ n.pc \notin Early(mode)
      BY <1>6 DEF HasRun, Early
    <3> QED
      BY <1>3, <1>8, <1>10, <3>1 DEF Counted
  <2> QED
    BY <1>1, <1>3, <2>1, <2>2 DEF Counted
<1>14. Queues'
  <2>1. Len(jobs) <= 2 * workers /\ Len(jobs) # 2 * workers
    BY <1>3 DEF Queues
  <2>2. Len(jobs') <= 2 * workers
    BY <1>2, <1>5, <2>1
  <2> QED
    BY <1>1, <1>2, <1>6, <1>8, <2>2 DEF Queues, t
<1>15. Undecided /\ ~Excused =>
         /\ n.kind # "aborted"
         /\ FailureKnown \/ Innocent(t, n)
  <2>1. task[t].pc \notin Exits /\ n.pc \notin Exits
    BY <1>1, <1>6 DEF Exits
  <2> QED
    BY <1>2, <1>6, <2>1, CancelledKnown DEF PoolCalm, Innocent, t
<1>16. Excused' <=> Excused
  BY <1>1 DEF Excused
<1>17. Undecided /\ ~Excused' =>
         /\ NoneAborted'
         /\ mode # "pool" => NoneCancelled'
         /\ mode = "pool" => PoolBlames'
  BY <1>1, <1>2, <1>6, <1>7, <1>15, <1>16, MovedBlames
<1>18. caller.pc = "await" => inbox' = <<>>
  BY <1>1 DEF Sound, AwaitList
<1>19. task[t].pc \notin {"none", "done", "ended"} /\ n.pc \in RolePcs(t)
  BY <1>1, <1>2, <1>6 DEF RolePcs, ProducerPcs, t
<1> QED
  BY <1>1, <1>2, <1>3, <1>5, <1>6, <1>7, <1>12, <1>13, <1>14, <1>16, <1>17, <1>18, <1>19, MoveSound

-----------------------------------------------------------------------------
(* The action or callback starts, or its evaluator is cancelled.           *)
LEMMA BeginSound ==
  ASSUME Sound, NEW t \in Tasks, Begin(t)
  PROVE  Sound'
<1>1. /\ task[t].pc = "start"
      /\ UNCHANGED <<mode, workers, caller, answer, token, gate, jobs, inbox>>
  BY DEF Begin, At
<1>2. /\ mode \in Calls /\ "running" \in RolePcs(t) /\ "send" \in RolePcs(t)
      /\ mode = "pool" => t \in Workers /\ t # Producer
  BY <1>1, RolesKnown DEF Calls, IsPair, SidePcs, TimedPcs, WorkerPcs
<1>3. task[t] \in TaskRec /\ gate \in GateRec /\ token \in TokenRec /\ log \in LogRec
      /\ task \in [Tasks -> TaskRec] /\ jobs \in Seq(Inputs) /\ inbox \in Seq(ResultRec)
      /\ (~IsPair => gate.arrived = 0) /\ Typed /\ Once /\ Counted /\ Queues
  BY TypedParts DEF Sound, Typed
<1>4. task[t].pc \in Early(mode) /\ task[t].pc \in Held(mode)
  BY <1>1 DEF Early, Held
<1>5. task[t].pc \notin {"none", "done", "ended"}
  BY <1>1
<1>6. CASE Cancelled(t)
  <2>1. Step(t, "send", "cancelled") /\ UNCHANGED log
    BY <1>6 DEF Begin
  <2>2. "send" \in TaskPcs /\ "cancelled" \in Kinds /\ "send" \notin Early(mode)
    BY DEF TaskPcs, Kinds, Early
  <2>3. gate' \in GateRec /\ gate'.aborted = gate.aborted /\ (~IsPair => gate'.arrived = 0)
    BY <1>1, <1>3
  <2>4. Undecided /\ ~Excused => mode = "pool" /\ FailureKnown
    BY <1>6, CancelledKnown
  <2> QED
    BY <1>1, <1>2, <1>4, <1>5, <2>1, <2>2, <2>3, <2>4, StepSound
<1>7. CASE ~Cancelled(t)
  <2> DEFINE n == [task[t] EXCEPT !.pc = "running", !.kind = "value"]
             w == Unit(t)
  <2>1. Step(t, "running", "value") /\ log' = [log EXCEPT !.begun[w] = @ + 1]
    BY <1>7 DEF Begin
  <2>2. "running" \in TaskPcs /\ "value" \in Kinds /\ "running" \notin Early(mode)
    BY DEF TaskPcs, Kinds, Early
  <2>3. n \in TaskRec /\ n.pc = "running" /\ n.kind = "value" /\ n.job = task[t].job
    BY <1>3, <2>2 DEF TaskRec
  <2>4. task' = [task EXCEPT ![t] = n]
    BY <1>3, <2>1 DEF Step, TaskRec
  <2>5. w \in Tasks \cup Inputs
    <3>1. CASE mode = "pool"
      <4>1. w \in 1..Made /\ Made \in JobNumbers
        BY <1>3, <1>4, <3>1, PartyOfCall DEF Once, Made, Typed, TaskRec
      <4> QED
        BY <4>1, BoundsAssumption DEF JobNumbers, Inputs
    <3>2. CASE mode # "pool"
      BY <3>2 DEF Unit
    <3> QED
      BY <3>1, <3>2
  <2> HIDE DEF n, w
  <2>6. /\ log' \in LogRec
        /\ \A u \in Tasks \cup Inputs : log'.begun[u] = IF u = w THEN 1 ELSE log.begun[u]
    <3>1. log.begun[w] = 0 /\ log.begun \in [Tasks \cup Inputs -> Nat]
      BY <1>3, <1>4 DEF Counted, LogRec, w
    <3>2. log' = [log EXCEPT !.begun = [log.begun EXCEPT ![w] = 1]]
      BY <1>3, <2>1, <2>5, <3>1 DEF LogRec
    <3> QED
      BY <1>3, <2>5, <3>1, <3>2 DEF LogRec
  <2>7. Moves(t, n)
    BY <1>4, <2>3, <2>4 DEF Moves
  <2>8. Once' /\ Queues'
    BY <1>1, <1>3, <2>3, <2>7, MovedOnce
  <2>9. Counted'
    <3>1. \A u \in Tasks : task'[u] = IF u = t THEN n ELSE task[u]
      BY <1>3, <2>4
    <3>2. Producer \in Tasks /\ Producer' = Producer /\ Made' = Made
      <4>1. Producer \in Tasks /\ Producer' = Producer
        BY <1>1, <1>3, PartyOfCall DEF Typed, Producer
      <4> QED
        BY <2>3, <3>1, <4>1 DEF Made
    <3>3. \A u \in Tasks : Unit(u)' = Unit(u)
      BY <1>1, <2>3, <3>1 DEF Unit
    <3>4. \A u \in Tasks \cup Inputs : log'.begun[u] \in {0, 1} /\ (log.begun[u] = 1 => log'.begun[u] = 1)
      BY <1>3, <2>6 DEF Counted
    <3>5. ASSUME mode = "pool", NEW u \in Tasks \cup Inputs, u > Made \/ u \in Elements(jobs)
          PROVE  log'.begun[u] = 0
      <4>1. w \in 1..Made /\ w \notin Elements(jobs) /\ Made \in JobNumbers
        BY <1>3, <1>4, <3>2, <3>5 DEF Once, Made, TaskRec, w
      <4>2. u # w
        BY <3>5, <4>1, NumbersFit
      <4> QED
        BY <1>3, <2>6, <3>5, <4>2 DEF Counted
    <3>6. ASSUME NEW u \in Tasks
          PROVE  /\ task'[u].pc \in Early(mode) => log'.begun[Unit(u)] = 0
                 /\ HasRun(task'[u]) => log'.begun[Unit(u)] = 1
      <4>1. CASE u = t
        <5>1. task'[u].pc \notin Early(mode)
          BY <2>2, <2>3, <3>1, <4>1
        <5>2. log'.begun[Unit(u)] = 1
          BY <2>5, <2>6, <4>1 DEF w
        <5> QED
          BY <5>1, <5>2
      <4>2. CASE u # t
        <5>1. task'[u] = task[u]
          BY <3>1, <4>2
        <5>2. ASSUME task[u].pc \in Held(mode) PROVE Unit(u) \in Tasks \cup Inputs /\ Unit(u) # w
          <6>1. Unit(u) # w
            BY <1>3, <1>4, <4>2, <5>2 DEF Once, w
          <6>2. CASE mode = "pool"
            <7>1. Unit(u) \in 1..Made /\ Made \in JobNumbers
              BY <1>3, <5>2, <6>2, <3>2 DEF Once, Made, TaskRec
            <7> QED
              BY <6>1, <7>1, BoundsAssumption DEF JobNumbers, Inputs
          <6>3. CASE mode # "pool"
            BY <6>1, <6>3 DEF Unit
          <6> QED
            BY <6>2, <6>3
        <5>3. task[u].pc \in Early(mode) \/ HasRun(task[u]) => task[u].pc \in Held(mode)
          BY DEF Held, HasRun
        <5> QED
          BY <1>3, <2>6, <5>1, <5>2, <5>3 DEF Counted
      <4> QED
        BY <4>1, <4>2
    <3>7. ASSUME NEW k, log.begun[k] = 1, k \in Tasks \cup Inputs PROVE log'.begun[k] = 1
      BY <3>4, <3>7
    <3>8. /\ KeysOf(mode, inbox) \subseteq Tasks \cup Inputs
          /\ KeysOf(mode, caller.got) \subseteq Tasks \cup Inputs
      <4>1. Units \subseteq Tasks \cup Inputs
        <5>1. Made \in JobNumbers
          BY <1>3, <3>2 DEF Made, TaskRec
        <5>2. 1..Made \subseteq Inputs
          BY <5>1, BoundsAssumption DEF JobNumbers, Inputs
        <5> QED
          BY <1>3, <5>2, PartyOfCall DEF Units, Typed
      <4> QED
        BY <1>3, <4>1 DEF Once
    <3>9. \A i \in 1..Len(inbox) : inbox[i].kind = "value" => log'.begun[Key(mode, inbox[i])] = 1
      BY <1>3, <3>4, <3>8 DEF Counted, KeysOf
    <3>10. \A i \in 1..Len(caller.got) :
             caller.got[i].kind = "value" /\ log'.begun[Key(mode, caller.got[i])] = 1
      BY <1>3, <3>4, <3>8 DEF Counted, KeysOf
    <3> QED
      BY <1>1, <3>2, <3>3, <3>4, <3>5, <3>6, <3>9, <3>10 DEF Counted
  <2>10. Undecided /\ ~Excused =>
           /\ n.kind # "aborted"
           /\ mode # "pool" => n.kind # "cancelled"
           /\ mode = "pool" => FailureKnown \/ Innocent(t, n)
    BY <1>2, <2>3 DEF Innocent, Exits
  <2>11. Excused' <=> Excused
    BY <1>1 DEF Excused
  <2>12. Undecided /\ ~Excused' =>
           /\ NoneAborted'
           /\ mode # "pool" => NoneCancelled'
           /\ mode = "pool" => PoolBlames'
    BY <1>1, <2>3, <2>4, <2>10, <2>11, MovedBlames
  <2>13. caller.pc = "await" => inbox' = <<>>
    BY <1>1 DEF Sound, AwaitList
  <2>14. \A u \in Tasks : log.begun[u] = 1 => log'.begun[u] = 1
    BY <2>6
  <2> QED
    BY <1>1, <1>2, <1>3, <1>5, <2>3, <2>4, <2>6, <2>8, <2>9, <2>11, <2>12, <2>13, <2>14, MoveSound
<1> QED
  BY <1>6, <1>7
-----------------------------------------------------------------------------
(* A thread sends its result, and nobody listens once the call is over.    *)
LEMMA SendSound ==
  ASSUME Sound, NEW t \in Tasks, Send(t)
  PROVE  Sound'
<1> DEFINE r == [from |-> t, job |-> task[t].job, kind |-> task[t].kind]
           n == [pc |-> AfterSend(t), job |-> 0, kind |-> "value"]
           w == Unit(t)
<1>1. /\ task[t].pc = "send" /\ task' = [task EXCEPT ![t] = n]
      /\ inbox' = IF caller.pc = "returned" THEN inbox ELSE Append(inbox, r)
      /\ log' = [log EXCEPT !.sent = TRUE, !.failed = @ \/ task[t].kind = "error"]
      /\ UNCHANGED <<mode, workers, caller, answer, token, gate, jobs>>
  BY DEF Send, At, AtCaller
<1>2. /\ mode \in Calls /\ RolePcs(t) \in {SidePcs, TimedPcs, WorkerPcs}
      /\ IsPair => RolePcs(t) = SidePcs /\ t \in {1, 2}
      /\ mode = "timeout" => RolePcs(t) = TimedPcs /\ t = 1
      /\ mode = "pool" => RolePcs(t) = WorkerPcs /\ t \in Workers /\ t # Producer
  BY <1>1, RolesKnown DEF Calls, IsPair
<1>3. task[t] \in TaskRec /\ gate \in GateRec /\ token \in TokenRec /\ log \in LogRec
      /\ task \in [Tasks -> TaskRec] /\ jobs \in Seq(Inputs) /\ inbox \in Seq(ResultRec)
      /\ (~IsPair => gate.arrived = 0) /\ Typed /\ Once /\ Counted /\ Queues
  BY TypedParts DEF Sound, Typed
<1>4. /\ AfterSend(t) \in TaskPcs /\ AfterSend(t) \in RolePcs(t)
      /\ AfterSend(t) \in {"ended", "done", "safepoint", "fail"}
      /\ mode = "pool" => AfterSend(t) = IF task[t].kind = "value" THEN "safepoint" ELSE "fail"
  BY <1>2 DEF AfterSend, TaskPcs, SidePcs, TimedPcs, WorkerPcs, IsPair, Calls
<1>5. /\ r \in ResultRec /\ r.kind = task[t].kind
      /\ n \in TaskRec /\ n.pc = AfterSend(t) /\ n.kind = "value"
  BY <1>3, <1>4, NumbersFit DEF ResultRec, TaskRec, Kinds
<1>6. Key(mode, r) = w
  BY DEF Key, Unit
<1>7. task[t].pc \in Held(mode) /\ n.pc \notin Held(mode) /\ n.pc \notin Early(mode) /\ ~HasRun(n)
  BY <1>1, <1>4, <1>5 DEF Held, Early, HasRun
<1> HIDE DEF n, r, w
<1>8. \A u \in Tasks : task'[u] = IF u = t THEN n ELSE task[u]
  BY <1>1, <1>3
<1>9. /\ Producer \in Tasks /\ Producer' = Producer
      /\ mode = "pool" => task'[Producer] = task[Producer] /\ Made' = Made
  <2>1. Producer \in Tasks /\ Producer' = Producer
    BY <1>1, <1>3, PartyOfCall DEF Typed, Producer
  <2> QED
    BY <1>2, <1>8, <2>1 DEF Made
<1>10. Units' = Units
  BY <1>1, <1>9 DEF Units, Party, IsPair
<1>11. w \in Units
  <2>1. CASE mode = "pool"
    BY <1>3, <1>7, <2>1 DEF Once, Units, w
  <2>2. CASE mode # "pool"
    BY <1>2, <2>2 DEF Units, Party, w, Unit, Calls, IsPair
  <2> QED
    BY <2>1, <2>2
<1>12. w \notin KeysOf(mode, inbox) /\ w \notin KeysOf(mode, caller.got) /\ w \notin Elements(jobs)
  BY <1>3, <1>7 DEF Once, w
<1>13. /\ inbox' \in Seq(ResultRec) /\ Distinct(mode, inbox')
       /\ KeysOf(mode, inbox') \subseteq KeysOf(mode, inbox) \cup {w}
       /\ Len(inbox) \in Nat
       /\ \A i \in 1..Len(inbox') : inbox'[i] = r \/ (i \in 1..Len(inbox) /\ inbox'[i] = inbox[i])
  <2>1. Distinct(mode, inbox) /\ Len(inbox) \in Nat
    BY <1>3, LenProperties DEF Once
  <2>2. CASE caller.pc = "returned"
    BY <1>1, <1>3, <2>1, <2>2
  <2>3. CASE caller.pc # "returned"
    <3>1. inbox' = Append(inbox, r)
      BY <1>1, <2>3
    <3>2. /\ KeysOf(mode, inbox') = KeysOf(mode, inbox) \cup {w} /\ Distinct(mode, inbox')
      BY <1>3, <1>5, <1>6, <1>12, <2>1, <3>1, KeysAdded
    <3>3. /\ inbox' \in Seq(ResultRec) /\ Len(inbox') = Len(inbox) + 1
          /\ \A i \in 1..Len(inbox) : inbox'[i] = inbox[i]
          /\ inbox'[Len(inbox) + 1] = r
      BY <1>3, <1>5, <3>1, AddedLast
    <3>4. \A i \in 1..Len(inbox') : i = Len(inbox) + 1 \/ i \in 1..Len(inbox)
      BY <2>1, <3>3
    <3> QED
      BY <2>1, <3>2, <3>3, <3>4
  <2> QED
    BY <2>2, <2>3
<1>14. \A u \in Tasks : u # t => task'[u] = task[u] /\ Unit(u)' = Unit(u)
  BY <1>1, <1>8 DEF Unit
<1>15. Once'
  <2>1. \A u \in Tasks : task'[u].pc \in Held(mode) =>
          /\ u # t /\ task[u].pc \in Held(mode) /\ Unit(u)' = Unit(u) /\ Unit(u) # w
    BY <1>3, <1>7, <1>8, <1>14 DEF Once, w
  <2>2. \A u, v \in Tasks : task'[u].pc \in Held(mode) /\ task'[v].pc \in Held(mode)
                              /\ Unit(u)' = Unit(v)' => u = v
    BY <1>3, <2>1 DEF Once
  <2>3. \A u \in Tasks : task'[u].pc \in Held(mode) =>
          /\ mode = "pool" => Unit(u)' \in 1..Made
          /\ Unit(u)' \notin KeysOf(mode, inbox)
          /\ Unit(u)' \notin KeysOf(mode, caller.got) /\ Unit(u)' \notin Elements(jobs)
    BY <1>3, <2>1 DEF Once
  <2>4. \A u \in Tasks : task'[u].pc \in Held(mode) =>
          /\ mode = "pool" => Unit(u)' \in 1..Made'
          /\ Unit(u)' \notin KeysOf(mode, inbox')
    BY <1>9, <1>13, <2>1, <2>3
  <2>5. /\ KeysOf(mode, inbox') \cap KeysOf(mode, caller.got) = {}
        /\ Elements(jobs) \cap KeysOf(mode, inbox') = {}
        /\ KeysOf(mode, inbox') \subseteq Units
    BY <1>3, <1>11, <1>12, <1>13 DEF Once
  <2>6. IsPair' <=> IsPair
    BY <1>1 DEF IsPair
  <2> QED
    BY <1>1, <1>3, <1>10, <1>13, <2>2, <2>3, <2>4, <2>5, <2>6 DEF Once
<1>16. log' \in LogRec /\ log'.begun = log.begun
  <2>1. PICK f \in BOOLEAN : log' = [log EXCEPT !.sent = TRUE, !.failed = f]
    <3>1. (log.failed \/ task[t].kind = "error") \in BOOLEAN
      BY <1>3 DEF LogRec
    <3> QED
      BY <1>1, <3>1
  <2> QED
    BY <1>3, <2>1 DEF LogRec
<1>17. Counted'
  <2>1. \A u \in Tasks : /\ task'[u].pc \in Early(mode) => log.begun[Unit(u)'] = 0
                         /\ HasRun(task'[u]) => log.begun[Unit(u)'] = 1
    BY <1>3, <1>7, <1>8, <1>14 DEF Counted
  <2>2. r.kind = "value" => log.begun[w] = 1
    BY <1>1, <1>3, <1>5 DEF Counted, HasRun, w
  <2>3. \A i \in 1..Len(inbox') :
          inbox'[i].kind = "value" => log.begun[Key(mode, inbox'[i])] = 1
    BY <1>3, <1>6, <1>13, <2>2 DEF Counted
  <2> QED
    BY <1>1, <1>3, <1>9, <1>16, <2>1, <2>3 DEF Counted
<1>18. Queues'
  <2>1. mode = "pool" => task'[Producer] = task[Producer]
    BY <1>9
  <2> QED
    BY <1>1, <1>3, <1>9, <2>1 DEF Queues
<1>19. Excused' <=> Excused
  BY <1>1 DEF Excused
<1>20. ASSUME Undecided, ~Excused
       PROVE  /\ NoneAborted'
              /\ mode # "pool" => NoneCancelled'
              /\ mode = "pool" => PoolBlames'
  <2>1. NoneAborted /\ (mode # "pool" => NoneCancelled) /\ (mode = "pool" => PoolBlames)
    BY <1>20 DEF Sound, Blames
  <2>2. NoneAborted'
    BY <1>1, <1>5, <1>8, <1>13, <2>1 DEF NoneAborted
  <2>3. mode # "pool" => NoneCancelled'
    BY <1>1, <1>5, <1>8, <1>13, <2>1 DEF NoneCancelled
  <2>4. ASSUME mode = "pool" PROVE PoolBlames'
    <3>1. inbox' = Append(inbox, r)
      <4>1. caller.pc # "returned"
        BY <1>20 DEF Undecided
      <4> QED
        BY <1>1, <4>1
    <3>2. /\ Len(inbox') = Len(inbox) + 1 /\ \A i \in 1..Len(inbox) : inbox'[i] = inbox[i]
          /\ inbox'[Len(inbox) + 1] = r /\ Len(inbox) \in Nat
      BY <1>3, <1>5, <3>1, AddedLast
    <3>3. 1..Len(inbox) \subseteq 1..Len(inbox') /\ Len(inbox) + 1 \in 1..Len(inbox')
          /\ \A j \in 1..Len(inbox) : j < Len(inbox) + 1
      BY <3>2
    <3>4. ASSUME NEW k, FailureBefore(k) PROVE FailureBefore(k)'
      <4> USE <1>1
      <4> QED
        BY <3>2, <3>3, <3>4 DEF FailureBefore
    <3>5. ASSUME FailureKnown, NEW k \in Nat, k = Len(inbox) + 1
          PROVE  FailureBefore(k)' /\ FailureKnown'
      <4>1. CASE caller.error = "error"
        BY <1>1, <4>1 DEF FailureBefore, FailureKnown
      <4>2. ASSUME NEW j \in 1..Len(inbox), inbox[j].kind = "error"
            PROVE  FailureBefore(k)' /\ FailureKnown'
        <5>1. j \in 1..Len(inbox') /\ j < k /\ inbox'[j].kind = "error"
          BY <3>2, <3>3, <3>5, <4>2
        <5> QED
          BY <5>1 DEF FailureBefore, FailureKnown
      <4> QED
        BY <3>5, <4>1, <4>2 DEF FailureKnown
    <3>6. r.kind = "error" => FailureKnown'
      BY <3>2, <3>3 DEF FailureKnown
    <3>7. r.kind = "cancelled" => FailureKnown
      BY <1>5, <2>1, <2>4 DEF PoolBlames, PoolCalm
    <3>8. ASSUME NEW i \in 1..Len(inbox'), inbox'[i].kind = "cancelled"
          PROVE  FailureBefore(i)'
      <4>1. CASE i \in 1..Len(inbox)
        BY <2>1, <2>4, <3>2, <3>4, <3>8, <4>1 DEF PoolBlames
      <4>2. CASE i = Len(inbox) + 1
        <5>1. i \in Nat /\ FailureKnown
          BY <3>2, <3>7, <3>8, <4>2
        <5> QED
          BY <3>5, <4>2, <5>1
      <4> QED
        BY <3>2, <4>1, <4>2
    <3>9. FailureKnown' \/ PoolCalm'
      <4>1. CASE FailureKnown \/ r.kind = "error"
        <5>1. Len(inbox) + 1 \in Nat
          BY <3>2
        <5> QED
          BY <3>5, <3>6, <4>1, <5>1
      <4>2. CASE ~FailureKnown /\ r.kind # "error"
        <5>1. PoolCalm /\ task[t].kind \notin {"cancelled", "error", "aborted"}
          BY <1>5, <2>1, <2>4, <4>2 DEF PoolBlames, PoolCalm, NoneAborted
        <5>2. task[t].kind = "value" /\ n.pc = "safepoint"
          BY <1>3, <1>4, <1>5, <2>4, <5>1 DEF TaskRec, Kinds
        <5>3. /\ ~token'.own /\ \A u \in Tasks : task'[u].pc # "fail" /\ task'[u].kind # "cancelled"
          BY <1>1, <1>5, <1>8, <5>1, <5>2 DEF PoolCalm
        <5>4. \/ task'[Producer].pc \in Exits
              \/ \A u \in Workers : task'[u].pc \notin Exits
          <6>1. Workers \subseteq Tasks
            BY <1>3, PartyOfCall DEF Typed
          <6>2. n.pc \notin Exits
            BY <5>2 DEF Exits
          <6> QED
            BY <1>8, <1>9, <2>4, <5>1, <6>1, <6>2 DEF PoolCalm
        <5>5. Workers' = Workers
          BY <1>1 DEF Workers
        <5> QED
          BY <1>9, <5>3, <5>4, <5>5 DEF PoolCalm
      <4> QED
        BY <4>1, <4>2
    <3> QED
      BY <1>1, <2>1, <2>4, <3>8, <3>9 DEF PoolBlames
  <2> QED
    BY <2>2, <2>3, <2>4
<1>21. caller.pc # "await"
  <2>1. task[t].pc \notin Exits
    BY <1>1 DEF Exits
  <2> QED
    BY <1>2, <2>1 DEF Sound, AwaitList
<1>22. task[t].pc \notin {"none", "done", "ended"} /\ n.pc \in RolePcs(t)
  BY <1>1, <1>4, <1>5
<1> QED
  BY <1>1, <1>3, <1>5, <1>13, <1>15, <1>16, <1>17, <1>18, <1>19, <1>20, <1>21, <1>22, MoveSound
-----------------------------------------------------------------------------
(* The caller spawns the next thread of its list.                          *)
LEMMA SpawnSound ==
  ASSUME Sound, Spawn
  PROVE  Sound'
<1> DEFINE t == Head(caller.todo)
           rest == Tail(caller.todo)
           n == [task[t] EXCEPT !.pc = FirstPc(t)]
<1>1. /\ caller.pc = "spawn" /\ caller.todo # <<>>
      /\ task' = [task EXCEPT ![t].pc = FirstPc(t)]
      /\ Go(IF Len(caller.todo) = 1 THEN "check" ELSE "spawn", rest)
      /\ UNCHANGED <<mode, workers, answer, token, gate, jobs, inbox, log>>
  BY DEF Spawn, AtCaller
<1>2. /\ mode \in Calls /\ Undecided /\ answer = "pending"
      /\ caller \in CallerRec /\ task \in [Tasks -> TaskRec]
      /\ caller.todo \in Seq(Tasks \cup {Own}) /\ workers \in 1..MaxWorkers
      /\ Typed /\ Once /\ Counted /\ Queues
  BY <1>1 DEF Sound, Roles, Deciding, Undecided, Typed, CallerRec
<1>3. /\ t = caller.todo[1] /\ rest \in Seq(Tasks \cup {Own})
      /\ Len(caller.todo) \in Nat \ {0} /\ Len(rest) = Len(caller.todo) - 1
      /\ \A i \in 1..Len(rest) : rest[i] = caller.todo[i + 1]
  BY <1>1, <1>2, TakenFirst
<1>4. /\ t \in Party /\ task[t].pc = "none"
      /\ \A i \in 1..Len(rest) : /\ rest[i] \in Party /\ rest[i] # t
                                 /\ task[rest[i]].pc = "none"
      /\ \A i, j \in 1..Len(rest) : rest[i] = rest[j] => i = j
  <2>1. \A i \in 1..Len(rest) : i + 1 \in 1..Len(caller.todo) /\ i + 1 # 1 /\ i \in Nat
    BY <1>3
  <2>2. 1 \in 1..Len(caller.todo)
    BY <1>3
  <2>3. /\ \A i \in 1..Len(caller.todo) :
             caller.todo[i] \in Party /\ task[caller.todo[i]].pc = "none"
        /\ \A i, j \in 1..Len(caller.todo) : caller.todo[i] = caller.todo[j] => i = j
    BY <1>1 DEF Sound, SpawnList
  <2> HIDE DEF t, rest
  <2>4. t \in Party /\ task[t].pc = "none"
    BY <1>3, <2>2, <2>3
  <2>5. ASSUME NEW i \in 1..Len(rest)
        PROVE  rest[i] \in Party /\ rest[i] # t /\ task[rest[i]].pc = "none"
    <3>1. PICK k \in 1..Len(caller.todo) : k = i + 1 /\ k # 1 /\ rest[i] = caller.todo[k]
      BY <1>3, <2>1
    <3>2. caller.todo[k] \in Party /\ task[caller.todo[k]].pc = "none"
      BY <2>3
    <3>3. caller.todo[k] # caller.todo[1]
      BY ONLY k \in 1..Len(caller.todo), <2>2, <2>3, <3>1
    <3> QED
      BY <1>3, <3>1, <3>2, <3>3
  <2>6. ASSUME NEW i \in 1..Len(rest), NEW j \in 1..Len(rest), rest[i] = rest[j]
        PROVE  i = j
    <3>1. PICK k, m \in 1..Len(caller.todo) : /\ k = i + 1 /\ rest[i] = caller.todo[k]
                                             /\ m = j + 1 /\ rest[j] = caller.todo[m]
      BY <1>3, <2>1
    <3>2. k = m
      BY ONLY k \in 1..Len(caller.todo), m \in 1..Len(caller.todo), <2>3, <2>6, <3>1
    <3> QED
      BY <2>1, <3>1, <3>2
  <2> QED
    BY <2>4, <2>5, <2>6
<1> HIDE DEF t, rest
<1>5. PICK pc \in {"check", "spawn"} : Go(pc, rest)
  BY <1>1
<1>6. /\ caller' \in CallerRec /\ caller'.pc = pc /\ caller'.todo = rest
      /\ caller'.got = caller.got /\ caller'.error = caller.error
  BY <1>2, <1>3, <1>5, CallerGoes DEF CallerPcs
<1>7. /\ Party \subseteq Tasks /\ Producer \in Tasks /\ Producer \notin Workers
      /\ t \in Tasks /\ workers \in Nat \ {0}
  BY <1>2, <1>4, PartyOfCall, NumbersFit
<1>8. FirstPc(t) \in TaskPcs /\ FirstPc(t) \in RolePcs(t) /\ FirstPc(t) \notin {"offer", "put", "running", "send"}
      /\ FirstPc(t) \notin Exits /\ FirstPc(t) # "fail" /\ (mode = "pool" => FirstPc(t) \notin Held(mode))
  <2>1. CASE IsPair
    <3>1. FirstPc(t) = "prepare" /\ mode # "pool"
      BY <2>1 DEF FirstPc, IsPair
    <3> QED
      BY <1>4, <2>1, <3>1 DEF TaskPcs, RolePcs, SidePcs, Party, Exits
  <2>2. CASE mode = "timeout"
    <3>1. FirstPc(t) = "start" /\ ~IsPair
      BY <2>2 DEF FirstPc, IsPair
    <3> QED
      BY <1>4, <2>2, <3>1 DEF TaskPcs, RolePcs, TimedPcs, Party, Exits
  <2>3. CASE mode = "pool"
    <3>1. FirstPc(t) = IF t = Producer THEN "produce" ELSE "safepoint"
      BY <2>3 DEF FirstPc, IsPair
    <3>2. t = Producer \/ (t # Producer /\ t \in Workers)
      BY <1>4, <1>7, <2>3 DEF Party, Producer, Workers
    <3> QED
      BY <2>3, <3>1, <3>2 DEF TaskPcs, RolePcs, ProducerPcs, WorkerPcs, Exits, Held, Early
  <2> QED
    BY <1>2, <2>1, <2>2, <2>3 DEF Calls, IsPair
<1>9. n \in TaskRec /\ n.pc = FirstPc(t) /\ n.kind = task[t].kind /\ n.job = task[t].job
  BY <1>2, <1>7, <1>8 DEF TaskRec
<1>10. task' = [task EXCEPT ![t] = n]
  BY <1>1, <1>2, <1>7 DEF TaskRec
<1> HIDE DEF n
<1>11. \A u \in Tasks : task'[u] = IF u = t THEN n ELSE task[u]
  BY <1>2, <1>10
<1>12. Moves(t, n) /\ ~HasRun(n) /\ (n.pc \in Early(mode) => task[t].pc \in Early(mode))
  BY <1>4, <1>8, <1>9, <1>10 DEF Moves, HasRun, Held, Early
<1>13. Once' /\ Counted' /\ Queues'
  BY <1>1, <1>2, <1>6, <1>7, <1>9, <1>12, MovedOnce, MovedCounted
<1>14. Typed'
  BY <1>1, <1>2, <1>6, <1>7, <1>9, <1>10 DEF Typed
<1>15. Roles'
  <2>1. \A u : RolePcs(u)' = RolePcs(u)
    BY <1>1 DEF RolePcs, IsPair, Producer, Workers
  <2>2. \A u \in Tasks : task'[u].pc = "none" \/ task'[u].pc \in RolePcs(u)
    BY <1>8, <1>9, <1>11 DEF Sound, Roles
  <2> QED
    BY <1>1, <1>2, <1>6, <2>1, <2>2 DEF Roles
<1>16. SpawnList'
  <2>1. Party' = Party
    BY <1>1 DEF Party, IsPair
  <2>2. \A i \in 1..Len(rest) : task'[rest[i]].pc = "none"
    BY <1>4, <1>7, <1>11
  <2> QED
    BY <1>4, <1>6, <2>1, <2>2 DEF SpawnList
<1>17. AwaitList' /\ Deciding' /\ Gated' /\ Complete'
  BY <1>1, <1>2, <1>6 DEF Sound, AwaitList, Deciding, Gated, Complete, Undecided, IsPair
<1>18. Blames'
  <2>1. Excused' <=> Excused
    BY <1>1 DEF Excused
  <2>2. ASSUME ~Excused
        PROVE  /\ n.kind # "aborted"
               /\ mode # "pool" => n.kind # "cancelled"
               /\ mode = "pool" => FailureKnown \/ Innocent(t, n)
    <3>1. /\ task[t].kind # "aborted" /\ (mode # "pool" => task[t].kind # "cancelled")
          /\ mode = "pool" /\ ~FailureKnown => PoolCalm
      BY <1>2, <1>7, <2>2, CancelledKnown
    <3>2. task[t].pc \notin Exits
      BY <1>4 DEF Exits
    <3>3. PoolCalm => Innocent(t, n)
      BY <1>7, <1>8, <1>9, <3>2 DEF PoolCalm, Innocent
    <3> QED
      BY <1>9, <3>1, <3>3
  <2>3. ~Excused => /\ NoneAborted'
                    /\ mode # "pool" => NoneCancelled'
                    /\ mode = "pool" => PoolBlames'
    BY <1>1, <1>2, <1>6, <1>7, <1>9, <1>10, <2>2, MovedBlames
  <2>4. answer' = "pending"
    BY <1>1, <1>2
  <2> QED
    BY <1>1, <2>1, <2>3, <2>4 DEF Blames
<1> QED
  BY <1>13, <1>14, <1>15, <1>16, <1>17, <1>18 DEF Sound
-----------------------------------------------------------------------------
(* Every step of the call, of its surroundings and of its threads.         *)
LEMMA EveryStepSound == Sound /\ [Next]_vars => Sound'
<1> SUFFICES ASSUME Sound, [Next]_vars PROVE Sound'
  OBVIOUS
<1>1. CASE UNCHANGED vars
  <2>1. UNCHANGED <<mode, workers, caller, answer, token, task, gate, jobs, inbox, log>>
    BY <1>1 DEF vars
  <2>2. Typed' /\ Roles' /\ SpawnList' /\ AwaitList'
    BY <2>1 DEF Sound, Typed, Roles, SpawnList, AwaitList, RolePcs, Producer, Workers, IsPair,
       Party, SpawnOrder
  <2>3. Deciding' /\ Gated' /\ Complete'
    BY <2>1 DEF Sound, Deciding, Gated, Complete, Undecided, IsPair, Made, Producer
  <2>4. Once' /\ Counted' /\ Queues'
    BY <2>1, StillKeeps DEF Still, Sound
  <2>5. NoneAborted /\ (mode # "pool" => NoneCancelled)
          => NoneAborted' /\ (mode # "pool" => NoneCancelled')
    BY <2>1 DEF NoneAborted, NoneCancelled
  <2>6. PoolBlames => PoolBlames'
    BY <2>1 DEF PoolBlames, PoolCalm, FailureBefore, FailureKnown, Producer, Workers
  <2>7. (Undecided' <=> Undecided) /\ (Excused' <=> Excused)
    BY <2>1 DEF Undecided, Excused
  <2>8. Blames'
    BY <2>1, <2>5, <2>6, <2>7 DEF Sound, Blames
  <2> QED
    BY <2>2, <2>3, <2>4, <2>8 DEF Sound
<1>2. CASE CancelCaller \/ CancelDescends \/ Expire
  BY <1>2, SurroundingsSound
<1>3. CASE Enter \/ \E kind \in {"cancelled", "value", "error"} : RunInline(kind)
  BY <1>3, EntrySound
<1>4. CASE Spawn
  BY <1>4, SpawnSound
<1>5. CASE SpawnRefused \/ Check \/ Poll
  BY <1>5, PollingSound
<1>6. CASE ReceiveTimed
  BY <1>6, TimedSound
<1>7. CASE ReceivePair
  BY <1>7, PairSound
<1>8. CASE ReceivePool
  BY <1>8, PoolSound
<1>9. CASE Drained \/ AwaitFinished \/ AwaitStalled
  BY <1>9, AwaitingSound
<1>10. CASE CloseScope \/ AwaitTasks
  BY <1>10, ClosingSound
<1>11. ASSUME NEW t \in Tasks, NEW kind \in {"cancelled", "value", "error"},
              Prepare(t, kind) \/ Arrive(t) \/ PassGate(t)
       PROVE  Sound'
  BY <1>11, SideSound
<1>12. ASSUME NEW t \in Tasks, NEW kind \in {"cancelled", "value", "error"},
              EndRun(t, kind) \/ Publish(t)
       PROVE  Sound'
  BY <1>12, EndSound
<1>13. ASSUME NEW t \in Tasks, Begin(t) PROVE Sound'
  BY <1>13, BeginSound
<1>14. ASSUME NEW t \in Tasks, Send(t) PROVE Sound'
  BY <1>14, SendSound
<1>15. ASSUME NEW t \in Tasks, Safepoint(t) \/ Fail(t) PROVE Sound'
  BY <1>15, WorkerSound, TokenSound
<1>16. ASSUME NEW t \in Tasks, PollToken(t) \/ TakeJob(t) \/ KeepJob(t) PROVE Sound'
  BY <1>16, WorkerSound, TakeJobSound
<1>17. ASSUME mode = "pool", NEW kind \in {"cancelled", "value", "error"},
              Produce(kind) \/ ProduceCell \/ Offer
       PROVE  Sound'
  BY <1>17, ProducerSound
<1>18. ASSUME mode = "pool", Put PROVE Sound'
  <2>1. "value" \in {"cancelled", "value", "error"}
    OBVIOUS
  <2>2. CASE SendersGone \/ Len(jobs) = 2 * workers
    BY <1>18, <2>1, <2>2, ProducerSound
  <2>3. CASE ~SendersGone /\ Len(jobs) # 2 * workers
    BY <1>18, <2>3, PutSound
  <2> QED
    BY <2>2, <2>3
<1>19. CASE CallerStep
  BY <1>3, <1>4, <1>5, <1>6, <1>7, <1>8, <1>9, <1>10, <1>19 DEF CallerStep
<1>20. ASSUME NEW t \in Tasks, TaskStep(t) PROVE Sound'
  <2>1. CASE SideStep(t)
    BY <1>11, <2>1 DEF SideStep
  <2>2. CASE PoolStep(t)
    BY <1>15, <1>16, <1>17, <1>18, <2>2 DEF PoolStep
  <2> QED
    BY <1>12, <1>13, <1>14, <1>20, <2>1, <2>2 DEF TaskStep
<1>21. CASE UserStep
  BY <1>3, <1>11, <1>12, <1>17, <1>21 DEF UserStep
<1>22. CASE mode = "pool" /\ ProduceCell
  BY <1>17, <1>22
<1> QED
  BY <1>1, <1>2, <1>19, <1>20, <1>21, <1>22 DEF Next

-----------------------------------------------------------------------------
(* The results of a call, counted by their keys.                           *)
LEMMA ResultsFit ==
  ASSUME Sound
  PROVE  /\ mode = "pool" => Len(inbox) <= MaxCells /\ Len(caller.got) <= MaxCells
         /\ mode # "pool" => Len(inbox) <= 2 /\ Len(caller.got) <= 1
<1>1. /\ Typed /\ Once /\ caller.got \in Seq(ResultRec) /\ inbox \in Seq(ResultRec)
      /\ Made \in JobNumbers
  BY PartyOfCall DEF Sound, Typed, CallerRec, TaskRec, Made
<1>2. /\ Distinct(mode, inbox) /\ Distinct(mode, caller.got)
      /\ KeysOf(mode, inbox) \subseteq Units /\ KeysOf(mode, caller.got) \subseteq Units
  BY <1>1 DEF Once
<1>3. ASSUME mode = "pool" PROVE Len(inbox) <= MaxCells /\ Len(caller.got) <= MaxCells
  <2>1. Units \subseteq 1..MaxCells /\ MaxCells \in Nat
    BY <1>1, <1>3, BoundsAssumption DEF Units, JobNumbers
  <2>2. KeysOf(mode, inbox) \subseteq 1..MaxCells /\ KeysOf(mode, caller.got) \subseteq 1..MaxCells
    BY <1>2, <2>1
  <2> QED
    BY <1>1, <1>2, <2>1, <2>2, KeysCount
<1>4. ASSUME mode # "pool" PROVE Len(inbox) <= 2 /\ Len(caller.got) <= 1
  <2>1. Units \subseteq 1..2
    BY <1>4 DEF Units, Party
  <2>2. KeysOf(mode, inbox) \subseteq 1..2
    BY <1>2, <2>1
  <2>3. Len(inbox) <= 2
    <3>1. PICK n \in Nat : n = 2
      OBVIOUS
    <3>2. KeysOf(mode, inbox) \subseteq 1..n
      BY <2>2, <3>1
    <3>3. Len(inbox) <= n
      BY <1>1, <1>2, <3>2, KeysCount
    <3> QED
      BY <3>1, <3>3
  <2>4. Len(caller.got) <= 1
    <3>1. CASE caller.got = <<>>
      BY <3>1
    <3>2. CASE caller.got # <<>>
      <4>1. mode # "pool" /\ caller.got # <<>> => IsPair /\ Len(caller.got) = 1
        BY <1>1, Zenon DEF Once
      <4>2. Len(caller.got) = 1
        BY <1>4, <3>2, <4>1, Zenon
      <4> QED
        BY ONLY <4>2
    <3> QED
      BY <3>1, <3>2
  <2> QED
    BY <2>3, <2>4
<1> QED
  BY <1>3, <1>4

(* Every field has its type, and every queue its bound.                    *)
LEMMA SoundIsTyped == Sound /\ GateInv => TypeOK
<1> SUFFICES ASSUME Sound, GateInv PROVE TypeOK
  OBVIOUS
<1>1. Typed
  BY DEF Sound
<1>2. /\ mode \in Modes /\ workers \in 1..MaxWorkers /\ answer \in Answers
      /\ caller.pc \in CallerPcs /\ caller.error \in Kinds \cup {"none"}
      /\ token.cut \subseteq Tasks
  BY <1>1 DEF Typed, CallerRec, TokenRec, Kinds
<1>3. \A t \in Tasks : task[t].pc \in TaskPcs /\ task[t].kind \in Kinds /\ task[t].job \in 0..MaxCells
  BY <1>1 DEF Typed, TaskRec, JobNumbers
<1>4. caller.pc = "returned" => answer # "pending"
  BY DEF Sound, Deciding, Undecided
<1>5. gate.arrived \in 0..2
  <2>1. CASE IsPair
    BY <2>1 DEF GateInv, PairInv, GateCounts
  <2>2. CASE ~IsPair
    BY <2>2 DEF Sound, Gated
  <2> QED
    BY <2>1, <2>2
<1>6. Len(jobs) <= 2 * workers
  BY DEF Sound, Queues
<1> QED
  BY <1>2, <1>3, <1>4, <1>5, <1>6, ResultsFit DEF TypeOK

(* A value stands for a result of every side or cell, each run once.       *)
LEMMA SoundIsComplete == Sound => OnePerInput
<1> SUFFICES ASSUME Sound PROVE OnePerInput
  OBVIOUS
<1>1. Typed /\ Once /\ Counted /\ Complete /\ log.begun \in [Tasks \cup Inputs -> Nat]
      /\ caller.got \in Seq(ResultRec) /\ Made \in JobNumbers
  BY PartyOfCall DEF Sound, Typed, CallerRec, TaskRec, LogRec, Made
<1>2. \A u \in DOMAIN log.begun : log.begun[u] <= 1
  BY <1>1 DEF Counted
<1>3. ASSUME answer = "value", mode = "pool"
      PROVE  /\ {caller.got[i].job : i \in 1..Len(caller.got)} = 1..task[Producer].job
             /\ Len(caller.got) = task[Producer].job
             /\ \A i \in 1..task[Producer].job : log.begun[i] = 1
  <2>1. Len(caller.got) = Made /\ Made \in Nat
    BY <1>1, <1>3, NumbersFit DEF Complete
  <2>2. Distinct(mode, caller.got) /\ KeysOf(mode, caller.got) \subseteq 1..Made
    BY <1>1, <1>3 DEF Once, Units
  <2>3. KeysOf(mode, caller.got) = 1..Made
    BY <1>1, <2>1, <2>2, KeysCount
  <2>4. KeysOf(mode, caller.got) = {caller.got[i].job : i \in 1..Len(caller.got)}
    BY <1>3 DEF KeysOf, Key
  <2>5. \A i \in 1..Made : log.begun[i] = 1
    BY <1>1, <2>3 DEF KeysOf, Counted
  <2> QED
    BY <2>1, <2>3, <2>4, <2>5 DEF Made
<1>4. answer = "value" /\ mode = "both" => log.begun[1] = 1 /\ log.begun[2] = 1
  BY <1>1 DEF Complete
<1> QED
  BY <1>2, <1>3, <1>4 DEF OnePerInput

(* What a call answers is the cause of its failure or one result for every *)
(* input, and its queues stay within their bounds: concurrently, race,     *)
(* timeout and the pooled loops of concurrency.rs, however their threads,  *)
(* cancellations and deadlines interleave.                                 *)
THEOREM ResultsAreSound == Spec => []ResultsSound
<1>1. Init => Sound /\ GateInv
  BY InitiallySound, Initially
<1>2. (Sound /\ GateInv) /\ [Next]_vars => (Sound /\ GateInv)'
  BY EveryStepSound, StepPreserves
<1>3. Sound /\ GateInv => ResultsSound
  <2>1. Sound => CauseReported
    BY DEF Sound, Blames, CauseReported, Excused, Returned
  <2> QED
    BY <2>1, SoundIsTyped, SoundIsComplete DEF ResultsSound
<1> QED
  BY <1>1, <1>2, <1>3, PTL DEF Spec
=============================================================================
