---------------------------- MODULE ThunkMachine ----------------------------
(***************************************************************************)
(* The call-by-need machine of crates/hell-runtime/src/lib.rs: thunks that *)
(* several evaluators (one per thread) force at the same time.             *)
(*                                                                         *)
(* A thunk is a cell guarded by its own mutex.  An evaluator that finds it *)
(* Suspended claims it (Evaluating), pushes an update frame, runs the      *)
(* suspension and stores the outcome when the frame is popped.  An         *)
(* evaluator that finds it claimed by another one registers an edge in the *)
(* global wait graph and waits on the cell's condition variable for 10 ms  *)
(* at a time.  One step below is one critical section, or one iteration of *)
(* the machine loop, of one evaluator.                                     *)
(*                                                                         *)
(* Abstracted: environments, natives and values.  What a suspension does   *)
(* is one of six codes (Ops); the value a code builds is named after the   *)
(* thunk that built it, so that two values are equal exactly when the code *)
(* compares them with Arc::ptr_eq.                                         *)
(***************************************************************************)
EXTENDS Naturals, Sequences, FiniteSets

CONSTANTS
    Thunks,      \* the shared thunks
    Evaluators,  \* the evaluators, one per thread
    Programs,    \* the programs to explore: functions from Thunks to Codes
    MaxFrames,   \* max_machine_frames, the limit on one machine stack
    MaxForces    \* bound: top-level forces of one evaluator

(* What a suspension does once it is claimed:                              *)
(*   Value   returns a WHNF (a lambda, a constant, a list cell)            *)
(*   Raise   raises a user error                                           *)
(*   Alias   returns another thunk (a variable, identity, a projection)    *)
(*   Demand  pushes a frame, enters another thunk, then builds a value     *)
(*   Native  a host operation that calls Evaluator::force on another thunk *)
(*   Panic   a host operation that unwinds                                 *)
Ops == {"Value", "Raise", "Alias", "Demand", "Native", "Panic"}
HostOps == {"Native", "Panic"}
Codes == [op : Ops, arg : Thunks]

Errors == {"user", "black hole", "cross black hole", "frame limit",
           "step limit", "cancelled", "unwound", "panic"}

ASSUME ThunksAssumption == Thunks # {} /\ IsFiniteSet(Thunks)
ASSUME EvaluatorsAssumption == IsFiniteSet(Evaluators)
ASSUME ProgramsAssumption == Programs \subseteq [Thunks -> Codes]
ASSUME BoundsAssumption == MaxFrames \in Nat /\ MaxForces \in Nat

ThunkStates ==
    [tag : {"Suspended"}]
        \cup [tag : {"Evaluating"}, owner : Evaluators]
        \cup [tag : {"Evaluated"}, value : Thunks]
        \cup [tag : {"Indirection"}, target : Thunks]
        \cup [tag : {"Failed"}, error : Errors]

(* A frame of the machine stack.  "Native" is the Rust frame of a host     *)
(* operation that called force again: the frames above it are the stack of *)
(* the nested machine.                                                     *)
Frames == [kind : {"Update", "Demand", "Native"}, thunk : Thunks]

(* Where an evaluator is: at the top of the machine loop with a Control    *)
(* (enter, run, value, alias, raise), inside enter_thunk (probe, wait,     *)
(* host), unwinding its stack, dropping it, or outside force (idle).       *)
LoopPcs == {"enter", "run", "value", "alias"}
ThunkPcs == LoopPcs \cup {"probe", "wait", "host"}
Controls ==
    [pc : {"idle"}]
        \cup [pc : ThunkPcs, thunk : Thunks]
        \cup [pc : {"raise", "unwind", "drop"}, error : Errors]

Results ==
    [tag : {"none"}]
        \cup [tag : {"ok"}, thunk : Thunks, value : Thunks]
        \cup [tag : {"err"}, thunk : Thunks, error : Errors]

VARIABLES
    program,    \* the code of every thunk, fixed when the program starts
    state,      \* Thunk.state, under the thunk's mutex
    stack,      \* the frames of an evaluator, nested machines included
    control,    \* the control of an evaluator
    waitGraph,  \* WAIT_GRAPH: the set of edges <<waiter, owner>>
    cancelled,  \* the evaluators whose cancellation token is cancelled
    exhausted,  \* the step budget of the policy, shared by all, is spent
    root,       \* the thunk of the current or last top-level force
    result,     \* what the last top-level force returned
    forces      \* top-level forces so far, for the bound

vars == <<program, state, stack, control, waitGraph, cancelled, exhausted,
          root, result, forces>>

-----------------------------------------------------------------------------
At(pc, t) == [pc |-> pc, thunk |-> t]
Failing(pc, err) == [pc |-> pc, error |-> err]
Idle == [pc |-> "idle"]
Resolved(s) == s.tag \in {"Evaluated", "Indirection", "Failed"}

Top(s) == s[Len(s)]
Pop(s) == SubSeq(s, 1, Len(s) - 1)
Push(s, kind, t) == Append(s, [kind |-> kind, thunk |-> t])

(* b is where the running machine's own stack begins in s: every frame up  *)
(* to b belongs to the machines of outer force calls.                      *)
IsBase(s, b) ==
    /\ b > 0 => s[b].kind = "Native"
    /\ \A i \in 1..Len(s) : i > b => s[i].kind # "Native"
Depth(s) == Cardinality({i \in 1..Len(s) :
                           \A j \in i..Len(s) : s[j].kind # "Native"})
MachineEmpty(s) == s # <<>> => Top(s).kind = "Native"

Init ==
    /\ program \in Programs
    /\ state = [t \in Thunks |-> [tag |-> "Suspended"]]
    /\ stack = [e \in Evaluators |-> <<>>]
    /\ control = [e \in Evaluators |-> Idle]
    /\ waitGraph = {}
    /\ cancelled = {}
    /\ exhausted = FALSE
    /\ root = [e \in Evaluators |-> CHOOSE t \in Thunks : TRUE]
    /\ result = [e \in Evaluators |-> [tag |-> "none"]]
    /\ forces = [e \in Evaluators |-> 0]

-----------------------------------------------------------------------------
(* Leaving a machine: the top-level force returns, or the host operation   *)
(* that called the nested one does (an error becomes Control::Raise, a     *)
(* success becomes the host operation's own value).                        *)
ReturnOk(e, v) ==
    IF stack[e] = <<>>
    THEN /\ control' = [control EXCEPT ![e] = Idle]
         /\ result' = [result EXCEPT
                         ![e] = [tag |-> "ok", thunk |-> root[e], value |-> v]]
         /\ UNCHANGED stack
    ELSE /\ control' = [control EXCEPT ![e] = At("value", Top(stack[e]).thunk)]
         /\ stack' = [stack EXCEPT ![e] = Pop(@)]
         /\ UNCHANGED result

ReturnErr(e, err) ==
    IF stack[e] = <<>>
    THEN /\ control' = [control EXCEPT ![e] = Idle]
         /\ result' = [result EXCEPT
                         ![e] = [tag |-> "err", thunk |-> root[e], error |-> err]]
         /\ UNCHANGED stack
    ELSE /\ control' = [control EXCEPT ![e] = Failing("raise", err)]
         /\ stack' = [stack EXCEPT ![e] = Pop(@)]
         /\ UNCHANGED result

(* Evaluator::force called from outside the machine.                       *)
BeginForce(e, t) ==
    /\ control[e] = Idle
    /\ forces[e] < MaxForces
    /\ forces' = [forces EXCEPT ![e] = @ + 1]
    /\ root' = [root EXCEPT ![e] = t]
    /\ result' = [result EXCEPT ![e] = [tag |-> "none"]]
    /\ control' = [control EXCEPT ![e] = At("enter", t)]
    /\ UNCHANGED <<program, state, stack, waitGraph, cancelled, exhausted>>

(* The two checks at the top of every loop iteration.  An error there      *)
(* returns from run_machine at once: the stack is dropped, not unwound.    *)
MayRun(e) == ~exhausted /\ e \notin cancelled

Abort(e) ==
    /\ control[e].pc \in LoopPcs \cup {"raise"}
    /\ ~MayRun(e)
    /\ control' = [control EXCEPT
         ![e] = Failing("drop", IF exhausted THEN "step limit" ELSE "cancelled")]
    /\ UNCHANGED <<program, state, stack, waitGraph, cancelled, exhausted,
                   root, result, forces>>

(* Control::Enter and the loop of enter_thunk: the evaluator looks at its  *)
(* current thunk under that thunk's mutex.  Only Control::Enter comes      *)
(* through the checks of the machine loop; following an indirection does   *)
(* not.                                                                    *)
Probing(e, t) ==
    \/ control[e] = At("enter", t) /\ MayRun(e)
    \/ control[e] = At("probe", t)

(* Mutant: an indirection is taken for a value.                            *)
ProbeSettledAliasAsValue(e, t) ==
    /\ Probing(e, t)
    /\ Resolved(state[t])
    /\ control' = [control EXCEPT ![e] =
         CASE state[t].tag = "Evaluated" -> At("value", state[t].value)
           [] state[t].tag = "Indirection" -> At("value", state[t].target)
           [] state[t].tag = "Failed" -> Failing("raise", state[t].error)]
    /\ UNCHANGED <<program, state, stack, waitGraph, cancelled, exhausted,
                   root, result, forces>>

(* Mutant: a memoized failure is raised as an error of a new kind.         *)
ProbeSettledRewraps(e, t) ==
    /\ Probing(e, t)
    /\ Resolved(state[t])
    /\ control' = [control EXCEPT ![e] =
         CASE state[t].tag = "Evaluated" -> At("value", state[t].value)
           [] state[t].tag = "Indirection" -> At("probe", state[t].target)
           [] state[t].tag = "Failed" -> Failing("raise", "memoized")]
    /\ UNCHANGED <<program, state, stack, waitGraph, cancelled, exhausted,
                   root, result, forces>>

ProbeSettled(e, t) ==
    /\ Probing(e, t)
    /\ Resolved(state[t])
    /\ control' = [control EXCEPT ![e] =
         CASE state[t].tag = "Evaluated" -> At("value", state[t].value)
           [] state[t].tag = "Indirection" -> At("probe", state[t].target)
           [] state[t].tag = "Failed" -> Failing("raise", state[t].error)]
    /\ UNCHANGED <<program, state, stack, waitGraph, cancelled, exhausted,
                   root, result, forces>>

(* The evaluator demands a thunk it is itself evaluating.                  *)
(* Mutant: any claimed thunk is a black hole.                              *)
IsBlackHoleAnyOwner(e, s) == s.tag = "Evaluating"

IsBlackHole(e, s) == s.tag = "Evaluating" /\ s.owner = e

ProbeBlackHole(e, t) ==
    /\ Probing(e, t)
    /\ IsBlackHole(e, state[t])
    /\ control' = [control EXCEPT ![e] = Failing("raise", "black hole")]
    /\ UNCHANGED <<program, state, stack, waitGraph, cancelled, exhausted,
                   root, result, forces>>

(* register_wait walks the edges from the owner: every evaluator has at    *)
(* most one, so the walk visits the evaluators some path leads to.         *)
WaitsFor(graph, from) ==
    LET reach[n \in 0..Cardinality(Evaluators)] ==
          IF n = 0 THEN {from}
          ELSE reach[n - 1] \cup
               {f \in Evaluators : \E g \in reach[n - 1] : <<g, f>> \in graph}
    IN reach[Cardinality(Evaluators)]

(* register_wait fails: the error leaves enter_thunk and is raised.        *)
ProbeWaitCycle(e, t) ==
    /\ Probing(e, t)
    /\ state[t].tag = "Evaluating" /\ state[t].owner # e
    /\ e \in WaitsFor(waitGraph, state[t].owner)
    /\ control' = [control EXCEPT ![e] = Failing("raise", "cross black hole")]
    /\ UNCHANGED <<program, state, stack, waitGraph, cancelled, exhausted,
                   root, result, forces>>

(* register_wait inserts the edge and the evaluator waits on the thunk's   *)
(* condition variable, which releases the thunk's mutex.                   *)
(* Mutant: the edge is inserted without the walk.                          *)
ProbeWaitUnchecked(e, t) ==
    /\ Probing(e, t)
    /\ state[t].tag = "Evaluating" /\ state[t].owner # e
    /\ waitGraph' = {w \in waitGraph : w[1] # e} \cup {<<e, state[t].owner>>}
    /\ control' = [control EXCEPT ![e] = At("wait", t)]
    /\ UNCHANGED <<program, state, stack, cancelled, exhausted,
                   root, result, forces>>

ProbeWait(e, t) ==
    /\ Probing(e, t)
    /\ state[t].tag = "Evaluating" /\ state[t].owner # e
    /\ e \notin WaitsFor(waitGraph, state[t].owner)
    /\ waitGraph' = {w \in waitGraph : w[1] # e} \cup {<<e, state[t].owner>>}
    /\ control' = [control EXCEPT ![e] = At("wait", t)]
    /\ UNCHANGED <<program, state, stack, cancelled, exhausted,
                   root, result, forces>>

(* The wait ends, on a notification, after 10 ms or spuriously: the        *)
(* registration is dropped, and a cancelled evaluator gives up here.       *)
Wake(e) ==
    /\ control[e].pc = "wait"
    /\ waitGraph' = {w \in waitGraph : w[1] # e}
    /\ control' = [control EXCEPT ![e] =
         IF e \in cancelled THEN Failing("raise", "cancelled")
                            ELSE At("probe", control[e].thunk)]
    /\ UNCHANGED <<program, state, stack, cancelled, exhausted,
                   root, result, forces>>

(* The claim of a suspended thunk, refused when the machine's stack is     *)
(* full.                                                                   *)
(* Mutant: off by one.                                                     *)
FullOffByOne(e) == Depth(stack[e]) > MaxFrames

Full(e) == Depth(stack[e]) >= MaxFrames

(* Mutant: the limit is checked after the cell was replaced.               *)
ProbeFullAfterClaim(e, t) ==
    /\ Probing(e, t)
    /\ state[t].tag = "Suspended"
    /\ Full(e)
    /\ state' = [state EXCEPT ![t] = [tag |-> "Evaluating", owner |-> e]]
    /\ control' = [control EXCEPT ![e] = Failing("raise", "frame limit")]
    /\ UNCHANGED <<program, stack, waitGraph, cancelled, exhausted,
                   root, result, forces>>

ProbeFull(e, t) ==
    /\ Probing(e, t)
    /\ state[t].tag = "Suspended"
    /\ Full(e)
    /\ control' = [control EXCEPT ![e] = Failing("raise", "frame limit")]
    /\ UNCHANGED <<program, state, stack, waitGraph, cancelled, exhausted,
                   root, result, forces>>

Claim(e, t) ==
    /\ Probing(e, t)
    /\ state[t].tag = "Suspended"
    /\ ~Full(e)
    /\ state' = [state EXCEPT ![t] = [tag |-> "Evaluating", owner |-> e]]
    /\ stack' = [stack EXCEPT ![e] = Push(@, "Update", t)]
    /\ control' = [control EXCEPT ![e] =
         At(IF program[t].op \in HostOps THEN "host" ELSE "run", t)]
    /\ UNCHANGED <<program, waitGraph, cancelled, exhausted,
                   root, result, forces>>

-----------------------------------------------------------------------------
(* Control::Evaluate of the claimed thunk's code.                          *)
RunReturn(e) ==
    /\ control[e].pc = "run"
    /\ MayRun(e)
    /\ LET t == control[e].thunk
           code == program[t]
       IN /\ code.op # "Demand"
          /\ control' = [control EXCEPT ![e] =
               CASE code.op = "Value" -> At("value", t)
                 [] code.op = "Alias" -> At("alias", code.arg)
                 [] OTHER -> Failing("raise", "user")]
    /\ UNCHANGED <<program, state, stack, waitGraph, cancelled, exhausted,
                   root, result, forces>>

(* A strict frame is pushed before its operand is entered; push_frame      *)
(* refuses to go over the limit.                                           *)
RunDemand(e) ==
    /\ control[e].pc = "run"
    /\ MayRun(e)
    /\ program[control[e].thunk].op = "Demand"
    /\ IF Full(e)
       THEN /\ control' = [control EXCEPT ![e] = Failing("raise", "frame limit")]
            /\ UNCHANGED stack
       ELSE /\ stack' = [stack EXCEPT ![e] = Push(@, "Demand", control[e].thunk)]
            /\ control' = [control EXCEPT
                             ![e] = At("enter", program[control[e].thunk].arg)]
    /\ UNCHANGED <<program, state, waitGraph, cancelled, exhausted,
                   root, result, forces>>

(* A host operation runs inside enter_thunk, without the loop's checks: it *)
(* calls force, which starts a machine with a stack of its own, or panics, *)
(* which drops the frames of the machine that called it.                   *)
RunHost(e) ==
    /\ control[e].pc = "host"
    /\ LET t == control[e].thunk
       IN \/ /\ program[t].op = "Native"
             /\ stack' = [stack EXCEPT ![e] = Push(@, "Native", t)]
             /\ control' = [control EXCEPT ![e] = At("enter", program[t].arg)]
          \/ /\ program[t].op = "Panic"
             /\ control' = [control EXCEPT ![e] = Failing("drop", "panic")]
             /\ UNCHANGED stack
    /\ UNCHANGED <<program, state, waitGraph, cancelled, exhausted,
                   root, result, forces>>

(* Control::Return(Value): the top frame is resumed.  ThunkUpdateGuard     *)
(* ::store publishes the value whatever the cell held.                     *)
ReturnValue(e) ==
    /\ control[e].pc = "value"
    /\ MayRun(e)
    /\ LET v == control[e].thunk
           s == stack[e]
       IN \/ /\ MachineEmpty(s)
             /\ ReturnOk(e, v)
             /\ UNCHANGED state
          \/ /\ ~MachineEmpty(s)
             /\ stack' = [stack EXCEPT ![e] = Pop(@)]
             /\ IF Top(s).kind = "Update"
                THEN /\ state' = [state EXCEPT
                          ![Top(s).thunk] = [tag |-> "Evaluated", value |-> v]]
                     /\ UNCHANGED control
                ELSE /\ control' = [control EXCEPT
                                      ![e] = At("value", Top(s).thunk)]
                     /\ UNCHANGED state
             /\ UNCHANGED result
    /\ UNCHANGED <<program, waitGraph, cancelled, exhausted, root, forces>>

(* Control::Return(Alias): an update frame on top is popped and its thunk  *)
(* becomes an indirection before the target has been evaluated.            *)
(* Mutant: the update frame is inspected but not popped.                   *)
ReturnAliasKeepsFrame(e) ==
    /\ control[e].pc = "alias"
    /\ MayRun(e)
    /\ LET t == control[e].thunk
           s == stack[e]
       IN /\ control' = [control EXCEPT ![e] = At("enter", t)]
          /\ IF s # <<>> /\ Top(s).kind = "Update"
             THEN state' = [state EXCEPT
                    ![Top(s).thunk] = [tag |-> "Indirection", target |-> t]]
             ELSE UNCHANGED state
    /\ UNCHANGED <<program, stack, waitGraph, cancelled, exhausted, root, result,
                   forces>>

ReturnAlias(e) ==
    /\ control[e].pc = "alias"
    /\ MayRun(e)
    /\ LET t == control[e].thunk
           s == stack[e]
       IN /\ control' = [control EXCEPT ![e] = At("enter", t)]
          /\ IF s # <<>> /\ Top(s).kind = "Update"
             THEN /\ stack' = [stack EXCEPT ![e] = Pop(@)]
                  /\ state' = [state EXCEPT
                       ![Top(s).thunk] = [tag |-> "Indirection", target |-> t]]
             ELSE UNCHANGED <<stack, state>>
    /\ UNCHANGED <<program, waitGraph, cancelled, exhausted, root, result,
                   forces>>

(* Control::Raise starts unwind_machine, which pops every frame of this    *)
(* machine and stores the error in the thunks of the update frames.        *)
Raise(e) ==
    /\ control[e].pc = "raise"
    /\ MayRun(e)
    /\ control' = [control EXCEPT ![e] = Failing("unwind", control[e].error)]
    /\ UNCHANGED <<program, state, stack, waitGraph, cancelled, exhausted,
                   root, result, forces>>

Unwind(e) ==
    /\ control[e].pc = "unwind"
    /\ LET err == control[e].error
           s == stack[e]
       IN \/ /\ MachineEmpty(s)
             /\ ReturnErr(e, err)
             /\ UNCHANGED state
          \/ /\ ~MachineEmpty(s)
             /\ stack' = [stack EXCEPT ![e] = Pop(@)]
             /\ state' = IF Top(s).kind = "Update"
                         THEN [state EXCEPT ![Top(s).thunk] =
                                 [tag |-> "Failed", error |-> err]]
                         ELSE state
             /\ UNCHANGED <<control, result>>
    /\ UNCHANGED <<program, waitGraph, cancelled, exhausted, root, forces>>

(* The machine's Vec of frames is dropped, oldest frame first; the Drop of *)
(* ThunkUpdateGuard fails a cell that is still Evaluating.                 *)
RemoveAt(s, i) == SubSeq(s, 1, i - 1) \o SubSeq(s, i + 1, Len(s))

(* Mutant: the guard has no Drop.                                          *)
DropFramesLeavesCells(e) ==
    /\ control[e].pc = "drop"
    /\ LET s == stack[e]
       IN IF MachineEmpty(s)
          THEN ReturnErr(e, control[e].error)
          ELSE /\ \E b \in 0..(Len(s) - 1) :
                    /\ IsBase(s, b)
                    /\ stack' = [stack EXCEPT ![e] = RemoveAt(@, b + 1)]
               /\ UNCHANGED <<control, result>>
    /\ UNCHANGED <<program, state, waitGraph, cancelled, exhausted, root, forces>>

DropFrames(e) ==
    /\ control[e].pc = "drop"
    /\ LET s == stack[e]
       IN \/ /\ MachineEmpty(s)
             /\ ReturnErr(e, control[e].error)
             /\ UNCHANGED state
          \/ /\ ~MachineEmpty(s)
             /\ \E b \in 0..(Len(s) - 1) :
                  /\ IsBase(s, b)
                  /\ stack' = [stack EXCEPT ![e] = RemoveAt(@, b + 1)]
                  /\ state' = IF /\ s[b + 1].kind = "Update"
                                 /\ state[s[b + 1].thunk].tag = "Evaluating"
                              THEN [state EXCEPT ![s[b + 1].thunk] =
                                      [tag |-> "Failed", error |-> "unwound"]]
                              ELSE state
             /\ UNCHANGED <<control, result>>
    /\ UNCHANGED <<program, waitGraph, cancelled, exhausted, root, forces>>

-----------------------------------------------------------------------------
(* The environment: another task cancels the evaluator's token, or the     *)
(* shared step budget runs out.                                            *)
Cancel(e) ==
    /\ e \notin cancelled
    /\ cancelled' = cancelled \cup {e}
    /\ UNCHANGED <<program, state, stack, control, waitGraph, exhausted,
                   root, result, forces>>

Exhaust ==
    /\ ~exhausted
    /\ exhausted' = TRUE
    /\ UNCHANGED <<program, state, stack, control, waitGraph, cancelled,
                   root, result, forces>>

Probe(e) ==
    \E t \in Thunks :
        \/ ProbeSettled(e, t) \/ ProbeBlackHole(e, t) \/ ProbeWaitCycle(e, t)
        \/ ProbeWait(e, t) \/ ProbeFull(e, t) \/ Claim(e, t)

Step(e) ==
    \/ Abort(e) \/ Probe(e) \/ Wake(e)
    \/ RunReturn(e) \/ RunDemand(e) \/ RunHost(e)
    \/ ReturnValue(e) \/ ReturnAlias(e)
    \/ Raise(e) \/ Unwind(e) \/ DropFrames(e)

Next ==
    \/ \E e \in Evaluators : Step(e) \/ Cancel(e) \/ \E t \in Thunks : BeginForce(e, t)
    \/ Exhaust

Spec == Init /\ [][Next]_vars

(* Every evaluator is a thread of its own: one that can step does.  The    *)
(* strong fairness is about the polling of enter_thunk: a waiter holds its *)
(* edge for 10 ms of every poll and is off the graph for microseconds, so  *)
(* two evaluators that wait for each other are not for ever registered at  *)
(* disjoint times.                                                         *)
Fairness ==
    \A e \in Evaluators :
        /\ WF_vars(Step(e))
        /\ SF_vars(\E t \in Thunks : ProbeWaitCycle(e, t))

FairSpec == Spec /\ Fairness

-----------------------------------------------------------------------------
TypeOK ==
    /\ program \in [Thunks -> Codes]
    /\ state \in [Thunks -> ThunkStates]
    /\ stack \in [Evaluators -> Seq(Frames)]
    /\ control \in [Evaluators -> Controls]
    /\ waitGraph \subseteq Evaluators \X Evaluators
    /\ cancelled \subseteq Evaluators
    /\ exhausted \in BOOLEAN
    /\ root \in [Evaluators -> Thunks]
    /\ result \in [Evaluators -> Results]
    /\ forces \in [Evaluators -> Nat]

Updates(e) == {i \in 1..Len(stack[e]) : stack[e][i].kind = "Update"}
OwnedBy(e) == [tag |-> "Evaluating", owner |-> e]

FramesOwn ==
    \A e \in Evaluators : \A i \in Updates(e) :
        state[stack[e][i].thunk] = OwnedBy(e)
OwnersHold ==
    \A e \in Evaluators, t \in Thunks :
        state[t] = OwnedBy(e) => \E i \in Updates(e) : stack[e][i].thunk = t
FramesDistinct ==
    \A e \in Evaluators : \A i, j \in Updates(e) :
        stack[e][i].thunk = stack[e][j].thunk => i = j
IdleHoldsNothing ==
    \A e \in Evaluators : control[e] = Idle => stack[e] = <<>>

(* A thunk is Evaluating exactly while its owner holds the one update      *)
(* frame that will publish it, and an evaluator outside force holds none:  *)
(* "a claimed thunk can never be left in Evaluating" (ThunkUpdateGuard),   *)
(* whether the machine returned, unwound, was dropped or panicked.         *)
Ownership == FramesOwn /\ OwnersHold /\ FramesDistinct /\ IdleHoldsNothing

(* A thunk is evaluated at most once and its outcome is memoized: no step  *)
(* of any evaluator re-suspends a thunk or rewrites a published outcome.   *)
(* ThunkUpdateGuard::store itself overwrites whatever it finds.            *)
WriteOnce ==
    [][\A t \in Thunks :
         /\ Resolved(state[t]) => state'[t] = state[t]
         /\ state'[t].tag = "Suspended" => state[t].tag = "Suspended"]_vars

(* The machine implements the call-by-need cell: a step touches at most    *)
(* one thunk, and a claimed thunk is settled exactly once.                 *)
CBN == INSTANCE CallByNeed WITH
         cell <- state, Outcomes <- {s \in ThunkStates : Resolved(s)}
ImplementsCallByNeed == CBN!Spec

(* No machine stack, nested or not, outgrows max_machine_frames.           *)
FrameBound == \A e \in Evaluators : Depth(stack[e]) <= MaxFrames

(* Two forces of one thunk agree: when one of them returned a value, every *)
(* other one returned the same value, unless it was itself cancelled, out  *)
(* of steps, or refused by the wait graph.                                 *)
GivenUp == {"cancelled", "step limit", "cross black hole"}
ForcesAgree ==
    \A e, f \in Evaluators :
        /\ result[e].tag = "ok"
        /\ result[f].tag # "none"
        /\ result[f].thunk = result[e].thunk
        => \/ result[f].tag = "ok" /\ result[f].value = result[e].value
           \/ result[f].tag = "err" /\ result[f].error \in GivenUp

(* The thunks that the code of t needs, directly or not.                   *)
Operands ==
    {<<t, program[t].arg>> :
       t \in {v \in Thunks : program[v].op \in {"Alias", "Demand", "Native"}}}
Needs(t) ==
    LET step(S) == {u \in Thunks : \E v \in S : <<v, u>> \in Operands}
        need[n \in 0..Cardinality(Thunks)] ==
          IF n = 0 THEN step({t}) ELSE need[n - 1] \cup step(need[n - 1])
    IN need[Cardinality(Thunks)]
DependsOnItself(t) == \E u \in Needs(t) \cup {t} : u \in Needs(u)

RaisedFor(t, err) ==
    \/ state[t] = [tag |-> "Failed", error |-> err]
    \/ \E e \in Evaluators : result[e] = [tag |-> "err", thunk |-> t, error |-> err]

(* The black hole an evaluator finds by meeting its own claim is a real    *)
(* dependency cycle of the program, whatever the other evaluators did.     *)
BlackHoleIsReal ==
    \A t \in Thunks : RaisedFor(t, "black hole") => DependsOnItself(t)

(* The same for a black hole found in the wait graph.                      *)
CrossBlackHoleIsReal ==
    \A t \in Thunks : RaisedFor(t, "cross black hole") => DependsOnItself(t)

(* Nobody waits for itself: the edges of the wait graph, current or stale, *)
(* never close a cycle, so waiting evaluators cannot all block each other. *)
WaitGraphAcyclic ==
    \A e \in Evaluators : \A w \in waitGraph :
        w[1] = e => e \notin WaitsFor(waitGraph, w[2])

(* Every force returns, by whichever path: a result, a memoized error, a   *)
(* detected cycle or an abort.                                             *)
ForceReturns ==
    \A e \in Evaluators : control[e] # Idle ~> control[e] = Idle

(* Cancelling an evaluator that runs interrupts it.                        *)
CancelInterrupts ==
    \A e \in Evaluators :
        control[e] # Idle /\ e \in cancelled ~> control[e] = Idle

(* The machine's cells, stacks and edges have their types, and no stack    *)
(* outgrows its limit (lib.rs:2270-2420).                                  *)
WellFormed == TypeOK /\ FrameBound
=============================================================================
