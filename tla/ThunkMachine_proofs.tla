------------------------- MODULE ThunkMachine_proofs -------------------------
(***************************************************************************)
(* Proofs about ThunkMachine, for every set of thunks and evaluators,      *)
(* every program and every bound: type correctness, the ownership of       *)
(* claimed thunks, write-once publication and the frame limit; then about  *)
(* its three graphs: who waits for whom (the wait graph is acyclic), what  *)
(* a thunk needs (a black hole is a real cycle) and where the indirections *)
(* of a thunk lead (the forces of a thunk agree).                          *)
(***************************************************************************)
EXTENDS ThunkMachine, SequenceTheorems, FiniteSetTheorems, WellFoundedInduction, TLAPS

-----------------------------------------------------------------------------
(* Lemmas about the machine stack.                                         *)

(* Popping a frame (Vec::pop) keeps the frames below it.                   *)
LEMMA PopFrame ==
  ASSUME NEW s \in Seq(Frames), s # <<>>
  PROVE  /\ Len(s) \in Nat \ {0}
         /\ Top(s) \in Frames
         /\ Pop(s) \in Seq(Frames)
         /\ Len(Pop(s)) = Len(s) - 1
         /\ \A i \in 1..Len(Pop(s)) : Pop(s)[i] = s[i]
<1> DEFINE p == SubSeq(s, 1, Len(s) - 1)
<1>1. Len(s) \in Nat \ {0}
  BY EmptySeq
<1>2. \A i \in 1..Len(s) : s[i] \in Frames
  BY ElementOfSeq
<1>3. \A i \in 1..(Len(s) - 1) : s[i] \in Frames
  BY <1>1, <1>2
<1>4. /\ p \in Seq(Frames)
      /\ Len(p) = IF 1 <= Len(s) - 1 THEN (Len(s) - 1) - 1 + 1 ELSE 0
      /\ \A i \in 1..((Len(s) - 1) - 1 + 1) : p[i] = s[1 + i - 1]
  <2>1. 1 \in Int /\ Len(s) - 1 \in Int
    BY <1>1
  <2>2. QED
    BY <2>1, <1>3, SubSeqProperties
<1>5. s[Len(s)] \in Frames
  BY <1>1, <1>2
<1>6. Pop(s) = p
  BY DEF Pop
<1> HIDE DEF p
<1>7. Len(p) = Len(s) - 1
  <2>1. \A n \in Nat \ {0} :
          (IF 1 <= n - 1 THEN (n - 1) - 1 + 1 ELSE 0) = n - 1
    OBVIOUS
  <2>2. QED
    BY ONLY <2>1, <1>1, <1>4
<1>8. \A i \in 1..Len(p) : p[i] = s[i]
  BY <1>1, <1>4, <1>7
<1>9. QED
  BY <1>1, <1>4, <1>5, <1>6, <1>7, <1>8 DEF Top

(* Pushing a frame (Vec::push).                                            *)
LEMMA PushFrame ==
  ASSUME NEW s \in Seq(Frames), NEW k \in {"Update", "Demand", "Native"},
         NEW t \in Thunks
  PROVE  /\ Len(s) \in Nat
         /\ Push(s, k, t) \in Seq(Frames)
         /\ Len(Push(s, k, t)) = Len(s) + 1
         /\ \A i \in 1..Len(s) : Push(s, k, t)[i] = s[i]
         /\ Push(s, k, t)[Len(s) + 1] = [kind |-> k, thunk |-> t]
<1>1. [kind |-> k, thunk |-> t] \in Frames
  BY DEF Frames
<1>2. QED
  BY <1>1, AppendProperties, LenProperties DEF Push

(* Dropping the frame at a position of the Vec.                            *)
LEMMA RemoveFrameAt ==
  ASSUME NEW s \in Seq(Frames), NEW i \in 1..Len(s)
  PROVE  /\ RemoveAt(s, i) \in Seq(Frames)
         /\ Len(RemoveAt(s, i)) = Len(s) - 1
         /\ \A j \in 1..(Len(s) - 1) :
              RemoveAt(s, i)[j] = IF j < i THEN s[j] ELSE s[j + 1]
<1> DEFINE lo == SubSeq(s, 1, i - 1)
           hi == SubSeq(s, i + 1, Len(s))
<1>1. Len(s) \in Nat /\ i \in Nat /\ 1 <= i /\ i <= Len(s)
  BY LenProperties
<1>2. \A j \in 1..Len(s) : s[j] \in Frames
  BY ElementOfSeq
<1>3. /\ lo \in Seq(Frames)
      /\ Len(lo) = i - 1
      /\ \A j \in 1..(i - 1) : lo[j] = s[j]
  <2>1. \A j \in 1..(i - 1) : s[j] \in Frames
    BY <1>1, <1>2
  <2>2. i - 1 \in Int
    BY <1>1
  <2>3. /\ lo \in Seq(Frames)
        /\ Len(lo) = IF 1 <= i - 1 THEN (i - 1) - 1 + 1 ELSE 0
        /\ \A j \in 1..((i - 1) - 1 + 1) : lo[j] = s[1 + j - 1]
    BY <2>1, <2>2, SubSeqProperties
  <2>4. QED
    BY <2>3, <1>1
<1>4. /\ hi \in Seq(Frames)
      /\ Len(hi) = Len(s) - i
      /\ \A j \in 1..(Len(s) - i) : hi[j] = s[i + j]
  <2>1. \A j \in (i + 1)..Len(s) : s[j] \in Frames
    BY <1>1, <1>2
  <2>2. i + 1 \in Int /\ Len(s) \in Int
    BY <1>1
  <2>3. /\ hi \in Seq(Frames)
        /\ Len(hi) = IF i + 1 <= Len(s) THEN Len(s) - (i + 1) + 1 ELSE 0
        /\ \A j \in 1..(Len(s) - (i + 1) + 1) : hi[j] = s[(i + 1) + j - 1]
    BY <2>1, <2>2, SubSeqProperties
  <2>4. QED
    BY <2>3, <1>1
<1> HIDE DEF lo, hi
<1>5. /\ lo \o hi \in Seq(Frames)
      /\ Len(lo \o hi) = Len(lo) + Len(hi)
      /\ \A j \in 1..(Len(lo) + Len(hi)) :
           (lo \o hi)[j] = IF j <= Len(lo) THEN lo[j] ELSE hi[j - Len(lo)]
  BY <1>3, <1>4, ConcatProperties
<1>6. RemoveAt(s, i) = lo \o hi
  BY DEF RemoveAt, lo, hi
<1>7. ASSUME NEW j \in 1..(Len(s) - 1)
      PROVE  (lo \o hi)[j] = IF j < i THEN s[j] ELSE s[j + 1]
  <2>1. CASE j < i
    BY <2>1, <1>1, <1>3, <1>4, <1>5
  <2>2. CASE ~(j < i)
    <3>1. (lo \o hi)[j] = hi[j - (i - 1)]
      BY <2>2, <1>1, <1>3, <1>4, <1>5
    <3>2. j - (i - 1) \in 1..(Len(s) - i)
      BY <2>2, <1>1
    <3>3. hi[j - (i - 1)] = s[i + (j - (i - 1))]
      BY <3>2, <1>4
    <3>4. QED
      BY <3>1, <3>3, <2>2, <1>1
  <2>3. QED
    BY <2>1, <2>2
<1>8. Len(lo \o hi) = Len(s) - 1
  BY <1>1, <1>3, <1>4, <1>5
<1>9. QED
  BY <1>5, <1>6, <1>7, <1>8

-----------------------------------------------------------------------------
(* Lemmas about controls.                                                  *)

LEMMA ControlFields ==
  ASSUME NEW c \in Controls
  PROVE  /\ c.pc \in ThunkPcs => c.thunk \in Thunks
         /\ c.pc \in {"raise", "unwind", "drop"} => c.error \in Errors
         /\ c = Idle => c.pc = "idle"
BY DEF Controls, ThunkPcs, LoopPcs, Idle

LEMMA ControlBuilt ==
  /\ Idle \in Controls
  /\ \A pc \in ThunkPcs, t \in Thunks :
       At(pc, t) \in Controls /\ At(pc, t) # Idle
  /\ \A pc \in {"raise", "unwind", "drop"}, err \in Errors :
       Failing(pc, err) \in Controls /\ Failing(pc, err) # Idle
BY DEF Controls, At, Failing, Idle, ThunkPcs, LoopPcs

LEMMA StateFields ==
  ASSUME NEW s \in ThunkStates
  PROVE  /\ s.tag = "Evaluating" => s.owner \in Evaluators
         /\ s.tag = "Evaluated" => s.value \in Thunks
         /\ s.tag = "Indirection" => s.target \in Thunks
         /\ s.tag = "Failed" => s.error \in Errors
         /\ s.tag = "Suspended" \/ s.tag = "Evaluating" \/ Resolved(s)
BY DEF ThunkStates, Resolved

LEMMA StateBuilt ==
  /\ \A e \in Evaluators : OwnedBy(e) \in ThunkStates
  /\ \A v \in Thunks : [tag |-> "Evaluated", value |-> v] \in ThunkStates
  /\ \A t \in Thunks : [tag |-> "Indirection", target |-> t] \in ThunkStates
  /\ \A err \in Errors : [tag |-> "Failed", error |-> err] \in ThunkStates
BY DEF ThunkStates, OwnedBy

LEMMA ResultBuilt ==
  /\ [tag |-> "none"] \in Results
  /\ \A t, v \in Thunks : [tag |-> "ok", thunk |-> t, value |-> v] \in Results
  /\ \A t \in Thunks, err \in Errors :
       [tag |-> "err", thunk |-> t, error |-> err] \in Results
BY DEF Results

-----------------------------------------------------------------------------
(* Type correctness.                                                       *)

LEMMA InitType == Init => TypeOK
<1> SUFFICES ASSUME Init PROVE TypeOK
  OBVIOUS
<1>1. program \in [Thunks -> Codes]
  BY ProgramsAssumption DEF Init
<1>2. [tag |-> "Suspended"] \in ThunkStates
  BY DEF ThunkStates
<1>3. (CHOOSE t \in Thunks : TRUE) \in Thunks
  BY ThunksAssumption
<1>4. <<>> \in Seq(Frames)
  BY EmptySeq
<1>5. QED
  BY <1>1, <1>2, <1>3, <1>4, ControlBuilt, ResultBuilt DEF Init, TypeOK

(* Leaving a machine.                                                      *)
LEMMA ReturnType ==
  ASSUME TypeOK, NEW e \in Evaluators,
         \/ \E v \in Thunks : ReturnOk(e, v)
         \/ \E err \in Errors : ReturnErr(e, err)
  PROVE  /\ stack' \in [Evaluators -> Seq(Frames)]
         /\ control' \in [Evaluators -> Controls]
         /\ result' \in [Evaluators -> Results]
<1>1. stack[e] \in Seq(Frames) /\ root[e] \in Thunks
  BY DEF TypeOK
<1>2. stack[e] # <<>> =>
        Pop(stack[e]) \in Seq(Frames) /\ Top(stack[e]).thunk \in Thunks
  BY <1>1, PopFrame DEF Frames
<1>3. "value" \in ThunkPcs
  BY DEF ThunkPcs, LoopPcs
<1>4. ASSUME NEW v \in Thunks, ReturnOk(e, v)
      PROVE  /\ stack' \in [Evaluators -> Seq(Frames)]
             /\ control' \in [Evaluators -> Controls]
             /\ result' \in [Evaluators -> Results]
  <2>1. CASE stack[e] = <<>>
    <3>1. [tag |-> "ok", thunk |-> root[e], value |-> v] \in Results
      BY <1>1, ResultBuilt
    <3>2. QED
      BY <1>4, <2>1, <3>1, ControlBuilt DEF TypeOK, ReturnOk
  <2>2. CASE stack[e] # <<>>
    <3>1. /\ control' = [control EXCEPT ![e] = At("value", Top(stack[e]).thunk)]
          /\ stack' = [stack EXCEPT ![e] = Pop(stack[e])]
          /\ UNCHANGED result
      BY <1>4, <2>2 DEF ReturnOk, TypeOK
    <3>2. At("value", Top(stack[e]).thunk) \in Controls
      BY <1>2, <1>3, <2>2, ControlBuilt
    <3>3. QED
      BY <1>2, <2>2, <3>1, <3>2 DEF TypeOK
  <2>3. QED
    BY <2>1, <2>2
<1>5. ASSUME NEW err \in Errors, ReturnErr(e, err)
      PROVE  /\ stack' \in [Evaluators -> Seq(Frames)]
             /\ control' \in [Evaluators -> Controls]
             /\ result' \in [Evaluators -> Results]
  <2>1. CASE stack[e] = <<>>
    <3>1. [tag |-> "err", thunk |-> root[e], error |-> err] \in Results
      BY <1>1, ResultBuilt
    <3>2. QED
      BY <1>5, <2>1, <3>1, ControlBuilt DEF TypeOK, ReturnErr
  <2>2. CASE stack[e] # <<>>
    <3>1. /\ control' = [control EXCEPT ![e] = Failing("raise", err)]
          /\ stack' = [stack EXCEPT ![e] = Pop(stack[e])]
          /\ UNCHANGED result
      BY <1>5, <2>2 DEF ReturnErr, TypeOK
    <3>2. Failing("raise", err) \in Controls
      BY ControlBuilt
    <3>3. QED
      BY <1>2, <2>2, <3>1, <3>2 DEF TypeOK
  <2>3. QED
    BY <2>1, <2>2
<1>6. QED
  BY <1>4, <1>5

(* Every action preserves the types.                                       *)
LEMMA NextType == TypeOK /\ [Next]_vars => TypeOK'
<1> SUFFICES ASSUME TypeOK, [Next]_vars PROVE TypeOK'
  OBVIOUS
<1>e. {"user", "black hole", "cross black hole", "frame limit", "step limit",
       "cancelled", "unwound", "panic"} \subseteq Errors
  BY DEF Errors
<1>p. /\ {"enter", "run", "value", "alias", "probe", "wait", "host"} \subseteq ThunkPcs
      /\ {"raise", "unwind", "drop"} \subseteq {"raise", "unwind", "drop"}
  BY DEF ThunkPcs, LoopPcs
<1>c. \A t \in Thunks : program[t].arg \in Thunks
  BY DEF TypeOK, Codes
<1>1. ASSUME NEW e \in Evaluators, NEW t \in Thunks, BeginForce(e, t) PROVE TypeOK'
  BY <1>1, <1>p, ControlBuilt, ResultBuilt DEF TypeOK, BeginForce
<1>2. ASSUME NEW e \in Evaluators, Cancel(e) PROVE TypeOK'
  BY <1>2 DEF TypeOK, Cancel
<1>3. CASE Exhaust
  BY <1>3 DEF TypeOK, Exhaust
<1>4. ASSUME NEW e \in Evaluators, Abort(e) PROVE TypeOK'
  BY <1>4, <1>e, ControlBuilt DEF TypeOK, Abort
<1>5. ASSUME NEW e \in Evaluators, NEW t \in Thunks, ProbeSettled(e, t)
      PROVE  TypeOK'
  <2> DEFINE c == CASE state[t].tag = "Evaluated" -> At("value", state[t].value)
                    [] state[t].tag = "Indirection" -> At("probe", state[t].target)
                    [] state[t].tag = "Failed" -> Failing("raise", state[t].error)
  <2>1. c \in Controls
    BY <1>5, <1>p, StateFields, ControlBuilt DEF TypeOK, ProbeSettled, Resolved
  <2>2. control' = [control EXCEPT ![e] = c]
    BY <1>5 DEF ProbeSettled
  <2> HIDE DEF c
  <2>3. QED
    BY <1>5, <2>1, <2>2 DEF TypeOK, ProbeSettled
<1>6. ASSUME NEW e \in Evaluators, NEW t \in Thunks,
             ProbeBlackHole(e, t) \/ ProbeWaitCycle(e, t) \/ ProbeFull(e, t)
      PROVE  TypeOK'
  BY <1>6, <1>e, ControlBuilt DEF TypeOK, ProbeBlackHole, ProbeWaitCycle, ProbeFull
<1>7. ASSUME NEW e \in Evaluators, NEW t \in Thunks, ProbeWait(e, t)
      PROVE  TypeOK'
  BY <1>7, <1>p, StateFields, ControlBuilt DEF TypeOK, ProbeWait
<1>8. ASSUME NEW e \in Evaluators, NEW t \in Thunks, Claim(e, t) PROVE TypeOK'
  <2>1. Push(stack[e], "Update", t) \in Seq(Frames)
    BY PushFrame DEF TypeOK
  <2>2. [tag |-> "Evaluating", owner |-> e] \in ThunkStates
    BY StateBuilt DEF OwnedBy
  <2>3. QED
    BY <1>8, <1>p, <2>1, <2>2, ControlBuilt DEF TypeOK, Claim
<1>9. ASSUME NEW e \in Evaluators, Wake(e) PROVE TypeOK'
  <2>1. control[e].thunk \in Thunks
    BY <1>9, <1>p, ControlFields DEF TypeOK, Wake
  <2>2. QED
    BY <1>9, <1>p, <1>e, <2>1, ControlBuilt DEF TypeOK, Wake
<1>10. ASSUME NEW e \in Evaluators, RunReturn(e) PROVE TypeOK'
  <2>1. control[e].thunk \in Thunks
    BY <1>10, <1>p, ControlFields DEF TypeOK, RunReturn
  <2>2. QED
    BY <1>10, <1>p, <1>e, <1>c, <2>1, ControlBuilt DEF TypeOK, RunReturn
<1>11. ASSUME NEW e \in Evaluators, RunDemand(e) PROVE TypeOK'
  <2>1. control[e].thunk \in Thunks
    BY <1>11, <1>p, ControlFields DEF TypeOK, RunDemand
  <2>2. Push(stack[e], "Demand", control[e].thunk) \in Seq(Frames)
    BY <2>1, PushFrame DEF TypeOK
  <2>3. CASE Full(e)
    BY <1>11, <1>e, <2>3, ControlBuilt DEF TypeOK, RunDemand
  <2>4. CASE ~Full(e)
    <3>1. At("enter", program[control[e].thunk].arg) \in Controls
      BY <1>p, <1>c, <2>1, ControlBuilt
    <3>2. QED
      BY <1>11, <2>2, <2>4, <3>1 DEF TypeOK, RunDemand
  <2>5. QED
    BY <2>3, <2>4
<1>12. ASSUME NEW e \in Evaluators, RunHost(e) PROVE TypeOK'
  <2>1. control[e].thunk \in Thunks
    BY <1>12, <1>p, ControlFields DEF TypeOK, RunHost
  <2>2. Push(stack[e], "Native", control[e].thunk) \in Seq(Frames)
    BY <2>1, PushFrame DEF TypeOK
  <2>3. At("enter", program[control[e].thunk].arg) \in Controls
    BY <1>p, <1>c, <2>1, ControlBuilt
  <2>4. Failing("drop", "panic") \in Controls
    BY <1>e, ControlBuilt
  <2>5. QED
    BY <1>12, <2>2, <2>3, <2>4 DEF TypeOK, RunHost
<1>13. ASSUME NEW e \in Evaluators, ReturnValue(e) PROVE TypeOK'
  <2>1. control[e].thunk \in Thunks
    BY <1>13, <1>p, ControlFields DEF TypeOK, ReturnValue
  <2>2. CASE MachineEmpty(stack[e])
    BY <1>13, <2>1, <2>2, ReturnType DEF TypeOK, ReturnValue
  <2>3. CASE ~MachineEmpty(stack[e])
    <3>1. Pop(stack[e]) \in Seq(Frames) /\ Top(stack[e]).thunk \in Thunks
      BY <2>3, PopFrame DEF TypeOK, MachineEmpty, Frames
    <3>2. At("value", Top(stack[e]).thunk) \in Controls
      BY <1>p, <3>1, ControlBuilt
    <3>3. [tag |-> "Evaluated", value |-> control[e].thunk] \in ThunkStates
      BY <2>1, StateBuilt
    <3>4. QED
      BY <1>13, <2>3, <3>1, <3>2, <3>3 DEF TypeOK, ReturnValue
  <2>4. QED
    BY <2>2, <2>3
<1>14. ASSUME NEW e \in Evaluators, ReturnAlias(e) PROVE TypeOK'
  <2>1. control[e].thunk \in Thunks
    BY <1>14, <1>p, ControlFields DEF TypeOK, ReturnAlias
  <2>2. stack[e] # <<>> =>
          Pop(stack[e]) \in Seq(Frames) /\ Top(stack[e]).thunk \in Thunks
    BY PopFrame DEF TypeOK, Frames
  <2>3. QED
    BY <1>14, <1>p, <2>1, <2>2, ControlBuilt, StateBuilt DEF TypeOK, ReturnAlias
<1>15. ASSUME NEW e \in Evaluators, Raise(e) PROVE TypeOK'
  <2>1. control[e].error \in Errors
    BY <1>15, ControlFields DEF TypeOK, Raise
  <2>2. QED
    BY <1>15, <2>1, ControlBuilt DEF TypeOK, Raise
<1>16. ASSUME NEW e \in Evaluators, Unwind(e) PROVE TypeOK'
  <2>1. control[e].error \in Errors
    BY <1>16, ControlFields DEF TypeOK, Unwind
  <2>2. CASE MachineEmpty(stack[e])
    BY <1>16, <2>1, <2>2, ReturnType DEF TypeOK, Unwind
  <2>3. CASE ~MachineEmpty(stack[e])
    <3>1. Pop(stack[e]) \in Seq(Frames) /\ Top(stack[e]).thunk \in Thunks
      BY <2>3, PopFrame DEF TypeOK, MachineEmpty, Frames
    <3>2. QED
      BY <1>16, <2>1, <2>3, <3>1, StateBuilt DEF TypeOK, Unwind
  <2>4. QED
    BY <2>2, <2>3
<1>17. ASSUME NEW e \in Evaluators, DropFrames(e) PROVE TypeOK'
  <2>1. control[e].error \in Errors
    BY <1>17, ControlFields DEF TypeOK, DropFrames
  <2>2. CASE MachineEmpty(stack[e])
    BY <1>17, <2>1, <2>2, ReturnType DEF TypeOK, DropFrames
  <2>3. CASE ~MachineEmpty(stack[e])
    <3>1. PICK b \in 0..(Len(stack[e]) - 1) :
            /\ stack' = [stack EXCEPT ![e] = RemoveAt(@, b + 1)]
            /\ state' = IF /\ stack[e][b + 1].kind = "Update"
                           /\ state[stack[e][b + 1].thunk].tag = "Evaluating"
                        THEN [state EXCEPT ![stack[e][b + 1].thunk] =
                                [tag |-> "Failed", error |-> "unwound"]]
                        ELSE state
      BY <1>17, <2>3 DEF TypeOK, DropFrames
    <3>2. b + 1 \in 1..Len(stack[e])
      BY <3>1, LenProperties DEF TypeOK
    <3>3. RemoveAt(stack[e], b + 1) \in Seq(Frames)
      BY <3>2, RemoveFrameAt DEF TypeOK
    <3>4. [tag |-> "Failed", error |-> "unwound"] \in ThunkStates
      BY <1>e, StateBuilt
    <3>5. QED
      BY <1>17, <2>3, <3>1, <3>3, <3>4 DEF TypeOK, DropFrames
  <2>4. QED
    BY <2>2, <2>3
<1>18. CASE UNCHANGED vars
  BY <1>18 DEF TypeOK, vars
<1>19. ASSUME NEW e \in Evaluators, Step(e) PROVE TypeOK'
  BY <1>19, <1>4, <1>5, <1>6, <1>7, <1>8, <1>9, <1>10, <1>11, <1>12, <1>13,
     <1>14, <1>15, <1>16, <1>17, Zenon DEF Step, Probe
<1>20. QED
  BY <1>1, <1>2, <1>3, <1>18, <1>19, Zenon DEF Next

(* Every state of the machine is well typed.                               *)
THEOREM TypeCorrect == Spec => []TypeOK
<1>1. QED
  BY InitType, NextType, PTL DEF Spec

-----------------------------------------------------------------------------
(* Ownership.                                                              *)

(* What is said of the frames, without the control.                        *)
FrameOwnership == FramesOwn /\ OwnersHold /\ FramesDistinct

(* A step that removes one frame of one stack and, when it is an update    *)
(* frame, settles its thunk keeps the ownership of every other thunk.      *)
LEMMA FrameRemoved ==
  ASSUME TypeOK, FrameOwnership, NEW e \in Evaluators,
         NEW i \in 1..Len(stack[e]), NEW s \in Seq(Frames), NEW c \in ThunkStates,
         Len(s) = Len(stack[e]) - 1,
         \A j \in 1..Len(s) : s[j] = IF j < i THEN stack[e][j] ELSE stack[e][j + 1],
         stack' = [stack EXCEPT ![e] = s],
         c.tag # "Evaluating",
         state' = IF stack[e][i].kind = "Update"
                  THEN [state EXCEPT ![stack[e][i].thunk] = c]
                  ELSE state
  PROVE  FrameOwnership'
<1> DEFINE old == stack[e]
<1>1. /\ old \in Seq(Frames) /\ Len(old) \in Nat /\ i \in Nat
      /\ state \in [Thunks -> ThunkStates]
      /\ stack \in [Evaluators -> Seq(Frames)]
  BY LenProperties DEF TypeOK
<1>2. \A f \in Evaluators : \A j \in 1..Len(stack[f]) : stack[f][j].thunk \in Thunks
  <2> SUFFICES ASSUME NEW f \in Evaluators, NEW j \in 1..Len(stack[f])
               PROVE  stack[f][j].thunk \in Thunks
    OBVIOUS
  <2>1. stack[f] \in Seq(Frames)
    BY <1>1
  <2>2. stack[f][j] \in Frames
    BY <2>1, ElementOfSeq
  <2>3. QED
    BY <2>2 DEF Frames
<1>3. stack'[e] = s /\ \A f \in Evaluators : f # e => stack'[f] = stack[f]
  BY <1>1
<1>4. \A j \in 1..Len(s) :
        \E k \in 1..Len(old) : k # i /\ s[j] = old[k] /\ (k = IF j < i THEN j ELSE j + 1)
  BY <1>1
<1>5. \A k \in 1..Len(old) : k # i => \E j \in 1..Len(s) : s[j] = old[k]
  <2> SUFFICES ASSUME NEW k \in 1..Len(old), k # i
               PROVE  \E j \in 1..Len(s) : s[j] = old[k]
    OBVIOUS
  <2>1. CASE k < i
    BY <2>1, <1>1
  <2>2. CASE k > i
    <3>1. k - 1 \in 1..Len(s) /\ ~(k - 1 < i) /\ (k - 1) + 1 = k
      BY <2>2, <1>1
    <3>2. QED
      BY <3>1
  <2>3. QED
    BY <2>1, <2>2, <1>1
<1>6. ASSUME NEW t \in Thunks
      PROVE  state'[t] = IF old[i].kind = "Update" /\ old[i].thunk = t
                         THEN c ELSE state[t]
  BY <1>1
<1>7. \A f \in Evaluators : c # OwnedBy(f)
  BY DEF OwnedBy
<1> HIDE DEF old
<1>o. old = stack[e]
  BY DEF old
(* A remaining update frame keeps its thunk.                               *)
<1>8. FramesOwn'
  <2> SUFFICES ASSUME NEW f \in Evaluators, NEW j \in Updates(f)'
               PROVE  state'[stack'[f][j].thunk] = OwnedBy(f)
    BY DEF FramesOwn, OwnedBy
  <2>1. CASE f = e
    <3>1. PICK k \in 1..Len(old) : k # i /\ s[j] = old[k]
      BY <2>1, <1>3, <1>4 DEF Updates
    <3>2. old[k].kind = "Update"
      BY <2>1, <3>1, <1>3 DEF Updates
    <3>3. state[old[k].thunk] = OwnedBy(e)
      BY <3>2, <1>o DEF FrameOwnership, FramesOwn, Updates
    <3>4. ~(old[i].kind = "Update" /\ old[i].thunk = old[k].thunk)
      BY <3>1, <3>2, <1>o DEF FrameOwnership, FramesDistinct, Updates
    <3>5. old[k].thunk \in Thunks
      BY <1>2, <1>o
    <3>6. state'[old[k].thunk] = state[old[k].thunk]
      BY <3>4, <3>5, <1>6
    <3>7. QED
      BY <2>1, <3>1, <3>3, <3>6, <1>3
  <2>2. CASE f # e
    <3>1. j \in Updates(f) /\ stack'[f] = stack[f]
      BY <2>2, <1>3 DEF Updates
    <3>2. state[stack[f][j].thunk] = OwnedBy(f) /\ stack[f][j].thunk \in Thunks
      BY <3>1, <1>2 DEF FrameOwnership, FramesOwn, Updates
    <3>3. ~(old[i].kind = "Update" /\ old[i].thunk = stack[f][j].thunk)
      <4>1. old[i].kind = "Update" => state[old[i].thunk] = OwnedBy(e)
        BY <1>o DEF FrameOwnership, FramesOwn, Updates
      <4>2. OwnedBy(e) # OwnedBy(f)
        BY <2>2 DEF OwnedBy
      <4>3. QED
        BY <4>1, <4>2, <3>2
    <3>4. QED
      BY <3>1, <3>2, <3>3, <1>6
  <2>3. QED
    BY <2>1, <2>2
(* A thunk that is still claimed is not the one of the removed frame.      *)
<1>9. OwnersHold'
  <2> SUFFICES ASSUME NEW f \in Evaluators, NEW t \in Thunks, state'[t] = OwnedBy(f)
               PROVE  \E j \in Updates(f)' : stack'[f][j].thunk = t
    BY DEF OwnersHold, OwnedBy
  <2>1. state[t] = OwnedBy(f) /\ ~(old[i].kind = "Update" /\ old[i].thunk = t)
    BY <1>6, <1>7
  <2>2. PICK k \in Updates(f) : stack[f][k].thunk = t
    BY <2>1 DEF FrameOwnership, OwnersHold
  <2>3. CASE f = e
    <3>1. k \in 1..Len(old) /\ old[k].kind = "Update" /\ old[k].thunk = t
      BY <2>2, <2>3, <1>o DEF Updates
    <3>2. k # i
      BY <3>1, <2>1
    <3>3. PICK j \in 1..Len(s) : s[j] = old[k]
      BY <3>1, <3>2, <1>5
    <3>4. QED
      BY <2>3, <3>1, <3>3, <1>3 DEF Updates
  <2>4. CASE f # e
    BY <2>2, <2>4, <1>3 DEF Updates
  <2>5. QED
    BY <2>3, <2>4
<1>10. FramesDistinct'
  <2> SUFFICES ASSUME NEW f \in Evaluators, NEW j \in Updates(f)', NEW k \in Updates(f)',
                      stack'[f][j].thunk = stack'[f][k].thunk
               PROVE  j = k
    BY DEF FramesDistinct
  <2>1. CASE f = e
    <3>1. j \in 1..Len(s) /\ k \in 1..Len(s) /\ s[j].thunk = s[k].thunk
          /\ s[j].kind = "Update" /\ s[k].kind = "Update"
      BY <2>1, <1>3 DEF Updates
    <3>2. PICK m \in 1..Len(old) :
            m # i /\ s[j] = old[m] /\ (m = IF j < i THEN j ELSE j + 1)
      BY <3>1, <1>4
    <3>3. PICK n \in 1..Len(old) :
            n # i /\ s[k] = old[n] /\ (n = IF k < i THEN k ELSE k + 1)
      BY <3>1, <1>4
    <3>4. m = n
      <4>1. m \in Updates(e) /\ n \in Updates(e)
        BY <3>1, <3>2, <3>3, <1>o DEF Updates
      <4>2. stack[e][m].thunk = stack[e][n].thunk
        BY <3>1, <3>2, <3>3, <1>o
      <4>3. QED
        BY <4>1, <4>2 DEF FrameOwnership, FramesDistinct
    <3>5. j \in Int /\ k \in Int
      BY <3>1
    <3>6. QED
      BY <3>2, <3>3, <3>4, <3>5, <1>1
  <2>2. CASE f # e
    BY <2>2, <1>3 DEF FrameOwnership, FramesDistinct, Updates
  <2>3. QED
    BY <2>1, <2>2
<1>11. QED
  BY <1>8, <1>9, <1>10 DEF FrameOwnership

(* A step that pushes a frame that is not an update frame, or leaves the   *)
(* frames alone, claims and publishes nothing.                             *)
LEMMA FramesKept ==
  ASSUME TypeOK, FrameOwnership, UNCHANGED state,
         \/ UNCHANGED stack
         \/ \E e \in Evaluators, k \in {"Demand", "Native"}, t \in Thunks :
              stack' = [stack EXCEPT ![e] = Push(@, k, t)]
  PROVE  FrameOwnership'
<1>1. CASE UNCHANGED stack
  BY <1>1 DEF FrameOwnership, FramesOwn, OwnersHold, FramesDistinct, Updates, OwnedBy
<1>2. ASSUME NEW e \in Evaluators, NEW k \in {"Demand", "Native"}, NEW t \in Thunks,
             stack' = [stack EXCEPT ![e] = Push(@, k, t)]
      PROVE  FrameOwnership'
  <2>1. stack[e] \in Seq(Frames) /\ stack \in [Evaluators -> Seq(Frames)]
    BY DEF TypeOK
  <2>2. /\ Len(stack[e]) \in Nat
        /\ Len(Push(stack[e], k, t)) = Len(stack[e]) + 1
        /\ \A i \in 1..Len(stack[e]) : Push(stack[e], k, t)[i] = stack[e][i]
        /\ Push(stack[e], k, t)[Len(stack[e]) + 1] = [kind |-> k, thunk |-> t]
    BY <2>1, PushFrame
  <2>3. stack'[e] = Push(stack[e], k, t)
        /\ \A f \in Evaluators : f # e => stack'[f] = stack[f]
    BY <1>2, <2>1
  <2>4. ASSUME NEW f \in Evaluators
        PROVE  /\ Updates(f)' = Updates(f)
               /\ \A i \in Updates(f) : stack'[f][i] = stack[f][i]
    <3>1. CASE f = e
      BY <3>1, <2>2, <2>3 DEF Updates
    <3>2. CASE f # e
      BY <3>2, <2>3 DEF Updates
    <3>3. QED
      BY <3>1, <3>2
  <2>5. QED
    BY <2>4 DEF FrameOwnership, FramesOwn, OwnersHold, FramesDistinct, OwnedBy
<1>3. QED
  BY <1>1, <1>2

(* The claim: the new update frame is the only one of its thunk.           *)
LEMMA ClaimOwns ==
  ASSUME TypeOK, FrameOwnership, NEW e \in Evaluators, NEW t \in Thunks, Claim(e, t)
  PROVE  FrameOwnership'
<1> DEFINE n == Len(stack[e]) + 1
<1>1. /\ stack[e] \in Seq(Frames)
      /\ stack \in [Evaluators -> Seq(Frames)]
      /\ state \in [Thunks -> ThunkStates]
  BY DEF TypeOK
<1>2. /\ Len(stack[e]) \in Nat
      /\ Len(Push(stack[e], "Update", t)) = n
      /\ \A i \in 1..Len(stack[e]) : Push(stack[e], "Update", t)[i] = stack[e][i]
      /\ Push(stack[e], "Update", t)[n] = [kind |-> "Update", thunk |-> t]
  BY <1>1, PushFrame
<1>3. /\ stack'[e] = Push(stack[e], "Update", t)
      /\ \A f \in Evaluators : f # e => stack'[f] = stack[f]
      /\ state'[t] = OwnedBy(e)
      /\ \A u \in Thunks : u # t => state'[u] = state[u]
  BY <1>1 DEF Claim, OwnedBy
<1>4. \A f \in Evaluators : state[t] # OwnedBy(f)
  BY DEF Claim, OwnedBy
<1>5. n \in Updates(e)' /\ stack'[e][n].thunk = t
  BY <1>2, <1>3 DEF Updates
<1>6. ASSUME NEW f \in Evaluators, NEW i \in Updates(f)
      PROVE  /\ i \in Updates(f)' /\ stack'[f][i] = stack[f][i]
             /\ stack[f][i].thunk \in Thunks
             /\ stack[f][i].thunk # t
  <2>1. stack[f] \in Seq(Frames)
    BY <1>1
  <2>2. stack[f][i] \in Frames
    BY <2>1, ElementOfSeq DEF Updates
  <2>3. state[stack[f][i].thunk] = OwnedBy(f)
    BY DEF FrameOwnership, FramesOwn
  <2>4. i \in Updates(f)' /\ stack'[f][i] = stack[f][i]
    <3>1. CASE f = e
      BY <3>1, <1>2, <1>3 DEF Updates
    <3>2. CASE f # e
      BY <3>2, <1>3 DEF Updates
    <3>3. QED
      BY <3>1, <3>2
  <2>5. QED
    BY <2>2, <2>3, <2>4, <1>4 DEF Frames
<1>7. ASSUME NEW f \in Evaluators, NEW i \in Updates(f)'
      PROVE  i \in Updates(f) \/ (f = e /\ i = n)
  <2>1. CASE f = e
    BY <2>1, <1>2, <1>3 DEF Updates
  <2>2. CASE f # e
    BY <2>2, <1>3 DEF Updates
  <2>3. QED
    BY <2>1, <2>2
<1> HIDE DEF n
<1>8. FramesOwn'
  <2> SUFFICES ASSUME NEW f \in Evaluators, NEW i \in Updates(f)'
               PROVE  state'[stack'[f][i].thunk] = OwnedBy(f)
    BY DEF FramesOwn, OwnedBy
  <2>1. CASE i \in Updates(f)
    BY <2>1, <1>3, <1>6 DEF FrameOwnership, FramesOwn
  <2>2. CASE f = e /\ i = n
    BY <2>2, <1>3, <1>5
  <2>3. QED
    BY <2>1, <2>2, <1>7
<1>9. OwnersHold'
  <2> SUFFICES ASSUME NEW f \in Evaluators, NEW u \in Thunks, state'[u] = OwnedBy(f)
               PROVE  \E i \in Updates(f)' : stack'[f][i].thunk = u
    BY DEF OwnersHold, OwnedBy
  <2>1. CASE u = t
    BY <2>1, <1>3, <1>5 DEF OwnedBy
  <2>2. CASE u # t
    BY <2>2, <1>3, <1>6 DEF FrameOwnership, OwnersHold
  <2>3. QED
    BY <2>1, <2>2
<1>10. FramesDistinct'
  <2> SUFFICES ASSUME NEW f \in Evaluators, NEW i \in Updates(f)', NEW j \in Updates(f)',
                      stack'[f][i].thunk = stack'[f][j].thunk
               PROVE  i = j
    BY DEF FramesDistinct
  <2>1. CASE i \in Updates(f) /\ j \in Updates(f)
    BY <2>1, <1>6 DEF FrameOwnership, FramesDistinct
  <2>2. CASE f = e /\ i = n /\ j \in Updates(f)
    BY <2>2, <1>5, <1>6
  <2>3. CASE f = e /\ j = n /\ i \in Updates(f)
    BY <2>3, <1>5, <1>6
  <2>4. CASE i = n /\ j = n
    BY <2>4
  <2>5. QED
    BY <2>1, <2>2, <2>3, <2>4, <1>7
<1>11. QED
  BY <1>8, <1>9, <1>10 DEF FrameOwnership

-----------------------------------------------------------------------------
(* The inductive invariant and the steps.                                  *)

IInv == TypeOK /\ Ownership

(* What a step may do to the cells: nothing, one claim, or one settlement. *)
CellStep == UNCHANGED state \/ CBN!Next

LEMMA Owned == Ownership <=> FrameOwnership /\ IdleHoldsNothing
BY DEF Ownership, FrameOwnership

(* The frame on top of a stack, or at any position, is its owner's.        *)
LEMMA FrameSettles ==
  ASSUME TypeOK, FrameOwnership, NEW e \in Evaluators, NEW i \in 1..Len(stack[e]),
         stack[e][i].kind = "Update", NEW c \in ThunkStates, Resolved(c),
         state' = [state EXCEPT ![stack[e][i].thunk] = c]
  PROVE  CBN!Next
<1>1. stack[e] \in Seq(Frames) /\ stack[e][i] \in Frames
  BY ElementOfSeq DEF TypeOK
<1>2. stack[e][i].thunk \in Thunks
  BY <1>1 DEF Frames
<1>3. state[stack[e][i].thunk] = [tag |-> "Evaluating", owner |-> e]
  BY DEF FrameOwnership, FramesOwn, Updates, OwnedBy
<1>4. CBN!Settle(e, stack[e][i].thunk)
  BY <1>3 DEF CBN!Settle
<1>5. QED
  BY <1>2, <1>4 DEF CBN!Next

(* Popping the top frame; c is what its thunk is settled with.             *)
LEMMA TopPopped ==
  ASSUME TypeOK, FrameOwnership, NEW e \in Evaluators, stack[e] # <<>>,
         stack' = [stack EXCEPT ![e] = Pop(@)],
         NEW c \in ThunkStates, Resolved(c),
         state' = IF Top(stack[e]).kind = "Update"
                  THEN [state EXCEPT ![Top(stack[e]).thunk] = c]
                  ELSE state
  PROVE  FrameOwnership' /\ CellStep
<1>1. stack[e] \in Seq(Frames)
  BY DEF TypeOK
<1>2. /\ Len(stack[e]) \in Nat \ {0}
      /\ Pop(stack[e]) \in Seq(Frames)
      /\ Len(Pop(stack[e])) = Len(stack[e]) - 1
      /\ \A j \in 1..Len(Pop(stack[e])) : Pop(stack[e])[j] = stack[e][j]
  BY <1>1, PopFrame
<1>3. Len(stack[e]) \in 1..Len(stack[e])
  BY <1>2
<1>4. \A j \in 1..Len(Pop(stack[e])) :
        Pop(stack[e])[j] = IF j < Len(stack[e]) THEN stack[e][j] ELSE stack[e][j + 1]
  BY <1>2
<1>5. c.tag # "Evaluating"
  BY DEF Resolved
<1>6. stack' = [stack EXCEPT ![e] = Pop(stack[e])]
  BY DEF TypeOK
<1>7. FrameOwnership'
  <2> DEFINE n == Len(stack[e])
             p == Pop(stack[e])
  <2>1. state' = IF stack[e][n].kind = "Update"
                 THEN [state EXCEPT ![stack[e][n].thunk] = c] ELSE state
    BY DEF Top
  <2>2. n \in 1..Len(stack[e]) /\ p \in Seq(Frames) /\ Len(p) = Len(stack[e]) - 1
    BY <1>2, <1>3
  <2>3. \A j \in 1..Len(p) : p[j] = IF j < n THEN stack[e][j] ELSE stack[e][j + 1]
    BY <1>4
  <2>4. stack' = [stack EXCEPT ![e] = p]
    BY <1>6
  <2> HIDE DEF n, p
  <2>5. TypeOK /\ FrameOwnership /\ c.tag # "Evaluating" /\ c \in ThunkStates
    BY <1>5
  <2>6. QED
    BY ONLY <2>1, <2>2, <2>3, <2>4, <2>5, e \in Evaluators, FrameRemoved
<1>8. CellStep
  BY <1>3, FrameSettles DEF Top, CellStep
<1>9. QED
  BY <1>7, <1>8

(* Leaving a machine pops a Native frame, or nothing.                      *)
LEMMA ReturnKeeps ==
  ASSUME TypeOK, FrameOwnership, IdleHoldsNothing, NEW e \in Evaluators,
         MachineEmpty(stack[e]), UNCHANGED state,
         \/ \E v \in Thunks : ReturnOk(e, v)
         \/ \E err \in Errors : ReturnErr(e, err)
  PROVE  FrameOwnership' /\ IdleHoldsNothing'
<1>1. /\ stack \in [Evaluators -> Seq(Frames)]
      /\ control \in [Evaluators -> Controls]
  BY DEF TypeOK
<1>2. CASE stack[e] = <<>>
  <2>1. UNCHANGED stack /\ control' = [control EXCEPT ![e] = Idle]
    BY <1>2 DEF ReturnOk, ReturnErr
  <2>2. FrameOwnership'
    BY <2>1, FramesKept
  <2>3. IdleHoldsNothing'
    BY <1>1, <1>2, <2>1 DEF IdleHoldsNothing
  <2>4. QED
    BY <2>2, <2>3
<1>3. CASE stack[e] # <<>>
  <2>1. /\ stack' = [stack EXCEPT ![e] = Pop(@)]
        /\ \E c : c # Idle /\ control' = [control EXCEPT ![e] = c]
    BY <1>3 DEF ReturnOk, ReturnErr, At, Failing, Idle
  <2>2. Top(stack[e]).kind # "Update"
    BY <1>3 DEF MachineEmpty
  <2>3. [tag |-> "Failed", error |-> "unwound"] \in ThunkStates
        /\ Resolved([tag |-> "Failed", error |-> "unwound"])
    BY DEF ThunkStates, Errors, Resolved
  <2>4. FrameOwnership'
    BY <1>3, <2>1, <2>2, <2>3, TopPopped
  <2>5. IdleHoldsNothing'
    BY <1>1, <2>1 DEF IdleHoldsNothing
  <2>6. QED
    BY <2>4, <2>5
<1>4. QED
  BY <1>2, <1>3

(* Init establishes the invariant.                                         *)
LEMMA InitInv == Init => IInv
<1> SUFFICES ASSUME Init PROVE Ownership
  BY InitType DEF IInv
<1>1. \A e \in Evaluators : Updates(e) = {}
  BY DEF Init, Updates
<1>2. \A e \in Evaluators, t \in Thunks : state[t] # OwnedBy(e)
  BY DEF Init, OwnedBy
<1>3. QED
  BY <1>1, <1>2 DEF Init, Ownership, FramesOwn, OwnersHold, FramesDistinct,
     IdleHoldsNothing

(* A step that only moves the control of an evaluator that stays inside    *)
(* force.                                                                  *)
LEMMA ControlMoved ==
  ASSUME TypeOK, FrameOwnership, IdleHoldsNothing, NEW e \in Evaluators,
         NEW c, c # Idle, control' = [control EXCEPT ![e] = c],
         UNCHANGED <<state, stack>>
  PROVE  FrameOwnership' /\ IdleHoldsNothing' /\ CellStep
<1>1. FrameOwnership'
  BY FramesKept
<1>2. IdleHoldsNothing'
  BY DEF IdleHoldsNothing, TypeOK
<1>3. QED
  BY <1>1, <1>2 DEF CellStep

(* A push of a frame that is not an update frame.                          *)
LEMMA FramePushed ==
  ASSUME TypeOK, FrameOwnership, IdleHoldsNothing, NEW e \in Evaluators,
         NEW c, c # Idle, control' = [control EXCEPT ![e] = c], UNCHANGED state,
         NEW k \in {"Demand", "Native"}, NEW t \in Thunks,
         stack' = [stack EXCEPT ![e] = Push(@, k, t)]
  PROVE  FrameOwnership' /\ IdleHoldsNothing' /\ CellStep
<1>1. FrameOwnership'
  BY FramesKept
<1>2. IdleHoldsNothing'
  BY DEF IdleHoldsNothing, TypeOK
<1>3. QED
  BY <1>1, <1>2 DEF CellStep

LEMMA NeverIdle ==
  /\ \A pc \in ThunkPcs : \A t : At(pc, t) # Idle
  /\ \A pc \in {"raise", "unwind", "drop"} : \A err : Failing(pc, err) # Idle
BY DEF At, Failing, Idle

(* Every action preserves it and touches at most one cell.                 *)
LEMMA NextInv == IInv /\ [Next]_vars => IInv' /\ CellStep
<1> SUFFICES ASSUME IInv, [Next]_vars
             PROVE  FrameOwnership' /\ IdleHoldsNothing' /\ CellStep
  BY NextType DEF IInv, Ownership, FrameOwnership
<1> DEFINE Kept == FrameOwnership' /\ IdleHoldsNothing' /\ CellStep
<1>t. /\ TypeOK /\ FrameOwnership /\ IdleHoldsNothing
      /\ stack \in [Evaluators -> Seq(Frames)]
      /\ control \in [Evaluators -> Controls]
  BY Owned DEF IInv, TypeOK
<1>p. {"enter", "run", "value", "alias", "probe", "wait", "host"} \subseteq ThunkPcs
  BY DEF ThunkPcs, LoopPcs
<1>1. ASSUME NEW e \in Evaluators, NEW t \in Thunks, BeginForce(e, t)
      PROVE  Kept
  BY <1>1, <1>t, <1>p, NeverIdle, ControlMoved DEF BeginForce
<1>2. ASSUME UNCHANGED <<state, stack, control>>
      PROVE  Kept
  BY <1>2, <1>t, FramesKept DEF IdleHoldsNothing, CellStep
<1>3. ASSUME NEW e \in Evaluators, NEW t \in Thunks, ProbeSettled(e, t)
      PROVE  Kept
  <2> DEFINE c == CASE state[t].tag = "Evaluated" -> At("value", state[t].value)
                    [] state[t].tag = "Indirection" -> At("probe", state[t].target)
                    [] state[t].tag = "Failed" -> Failing("raise", state[t].error)
  <2>1. c # Idle
    BY <1>3, <1>p, NeverIdle DEF ProbeSettled, Resolved
  <2>2. control' = [control EXCEPT ![e] = c] /\ UNCHANGED <<state, stack>>
    BY <1>3 DEF ProbeSettled
  <2> HIDE DEF c
  <2>3. QED
    BY <2>1, <2>2, <1>t, ControlMoved
<1>4. ASSUME NEW e \in Evaluators, NEW t \in Thunks,
             \/ ProbeBlackHole(e, t) \/ ProbeWaitCycle(e, t)
             \/ ProbeWait(e, t) \/ ProbeFull(e, t)
      PROVE  Kept
  <2>1. UNCHANGED <<state, stack>>
    BY <1>4 DEF ProbeBlackHole, ProbeWaitCycle, ProbeWait, ProbeFull
  <2>2. PICK c : c # Idle /\ control' = [control EXCEPT ![e] = c]
    BY <1>4, <1>p, NeverIdle DEF ProbeBlackHole, ProbeWaitCycle, ProbeWait, ProbeFull
  <2>3. QED
    BY <2>1, <2>2, <1>t, ControlMoved
<1>5. ASSUME NEW e \in Evaluators, NEW t \in Thunks, Claim(e, t)
      PROVE  Kept
  <2>1. FrameOwnership'
    BY <1>5, <1>t, ClaimOwns
  <2>2. IdleHoldsNothing'
    BY <1>5, <1>t, <1>p, NeverIdle DEF Claim, IdleHoldsNothing
  <2>3. state[t] = [tag |-> "Suspended"]
    BY <1>5, <1>t DEF Claim, TypeOK, ThunkStates
  <2>4. CBN!Claim(e, t)
    BY <1>5, <2>3 DEF Claim, CBN!Claim
  <2>5. QED
    BY <2>1, <2>2, <2>4 DEF CellStep, CBN!Next
<1>6. ASSUME NEW e \in Evaluators, Abort(e) \/ Wake(e) \/ RunReturn(e) \/ Raise(e)
      PROVE  Kept
  <2>1. UNCHANGED <<state, stack>>
    BY <1>6 DEF Abort, Wake, RunReturn, Raise
  <2>2. PICK c : c # Idle /\ control' = [control EXCEPT ![e] = c]
    <3>1. CASE Abort(e)
      BY <3>1, NeverIdle DEF Abort
    <3>2. CASE Wake(e)
      BY <3>2, <1>p, NeverIdle DEF Wake
    <3>3. CASE RunReturn(e)
      <4> DEFINE u == control[e].thunk
                 d == CASE program[u].op = "Value" -> At("value", u)
                        [] program[u].op = "Alias" -> At("alias", program[u].arg)
                        [] OTHER -> Failing("raise", "user")
      <4>1. d # Idle
        BY <1>p, NeverIdle
      <4>2. control' = [control EXCEPT ![e] = d]
        BY <3>3 DEF RunReturn
      <4> HIDE DEF d
      <4>3. QED
        BY <4>1, <4>2
    <3>4. CASE Raise(e)
      BY <3>4, NeverIdle DEF Raise
    <3>5. QED
      BY <1>6, <3>1, <3>2, <3>3, <3>4
  <2>3. QED
    BY <2>1, <2>2, <1>t, ControlMoved
<1>7. ASSUME NEW e \in Evaluators, RunDemand(e)
      PROVE  Kept
  <2>1. control[e].thunk \in Thunks
    BY <1>7, <1>t, <1>p, ControlFields DEF RunDemand
  <2>2. CASE Full(e)
    BY <1>7, <2>2, <1>t, NeverIdle, ControlMoved DEF RunDemand
  <2>3. CASE ~Full(e)
    BY <1>7, <2>1, <2>3, <1>t, <1>p, NeverIdle, FramePushed DEF RunDemand
  <2>4. QED
    BY <2>2, <2>3
<1>8. ASSUME NEW e \in Evaluators, RunHost(e)
      PROVE  Kept
  <2>1. control[e].thunk \in Thunks
    BY <1>8, <1>t, <1>p, ControlFields DEF RunHost
  <2>2. CASE program[control[e].thunk].op = "Native"
    BY <1>8, <2>1, <2>2, <1>t, <1>p, NeverIdle, FramePushed DEF RunHost
  <2>3. CASE program[control[e].thunk].op # "Native"
    BY <1>8, <2>3, <1>t, NeverIdle, ControlMoved DEF RunHost
  <2>4. QED
    BY <2>2, <2>3
<1>9. ASSUME NEW e \in Evaluators, ReturnValue(e)
      PROVE  Kept
  <2>1. control[e].thunk \in Thunks
    BY <1>9, <1>t, <1>p, ControlFields DEF ReturnValue
  <2>2. CASE MachineEmpty(stack[e])
    BY <1>9, <2>1, <2>2, <1>t, ReturnKeeps DEF ReturnValue, CellStep
  <2>3. CASE ~MachineEmpty(stack[e])
    <3> DEFINE c == [tag |-> "Evaluated", value |-> control[e].thunk]
    <3>1. c \in ThunkStates /\ Resolved(c)
      BY <2>1, StateBuilt DEF Resolved
    <3>2. stack[e] # <<>>
      BY <2>3 DEF MachineEmpty
    <3>3. /\ stack' = [stack EXCEPT ![e] = Pop(@)]
          /\ state' = IF Top(stack[e]).kind = "Update"
                      THEN [state EXCEPT ![Top(stack[e]).thunk] = c]
                      ELSE state
      BY <1>9, <2>3 DEF ReturnValue
    <3>4. FrameOwnership' /\ CellStep
      BY <3>1, <3>2, <3>3, <1>t, TopPopped
    <3>5. UNCHANGED control \/ control' = [control EXCEPT
                                 ![e] = At("value", Top(stack[e]).thunk)]
      BY <1>9, <2>3 DEF ReturnValue
    <3>6. control[e] # Idle
      BY <1>9 DEF ReturnValue, Idle
    <3>7. IdleHoldsNothing'
      BY <3>3, <3>5, <3>6, <1>t, <1>p, NeverIdle DEF IdleHoldsNothing
    <3>8. QED
      BY <3>4, <3>7
  <2>4. QED
    BY <2>2, <2>3
<1>10. ASSUME NEW e \in Evaluators, ReturnAlias(e)
       PROVE  Kept
  <2> DEFINE c == [tag |-> "Indirection", target |-> control[e].thunk]
  <2>1. control[e].thunk \in Thunks
    BY <1>10, <1>t, <1>p, ControlFields DEF ReturnAlias
  <2>2. c \in ThunkStates /\ Resolved(c)
    BY <2>1, StateBuilt DEF Resolved
  <2>3. control' = [control EXCEPT ![e] = At("enter", control[e].thunk)]
    BY <1>10 DEF ReturnAlias
  <2>4. CASE stack[e] # <<>> /\ Top(stack[e]).kind = "Update"
    <3>1. /\ stack' = [stack EXCEPT ![e] = Pop(@)]
          /\ state' = IF Top(stack[e]).kind = "Update"
                      THEN [state EXCEPT ![Top(stack[e]).thunk] = c]
                      ELSE state
      BY <1>10, <2>4 DEF ReturnAlias
    <3>2. FrameOwnership' /\ CellStep
      BY <2>2, <2>4, <3>1, <1>t, TopPopped
    <3>3. IdleHoldsNothing'
      BY <2>3, <3>1, <1>t, <1>p, NeverIdle DEF IdleHoldsNothing
    <3>4. QED
      BY <3>2, <3>3
  <2>5. CASE ~(stack[e] # <<>> /\ Top(stack[e]).kind = "Update")
    BY <1>10, <2>3, <2>5, <1>t, <1>p, NeverIdle, ControlMoved DEF ReturnAlias
  <2>6. QED
    BY <2>4, <2>5
<1>11. ASSUME NEW e \in Evaluators, Unwind(e)
       PROVE  Kept
  <2>1. control[e].error \in Errors
    BY <1>11, <1>t, ControlFields DEF Unwind
  <2>2. CASE MachineEmpty(stack[e])
    BY <1>11, <2>1, <2>2, <1>t, ReturnKeeps DEF Unwind, CellStep
  <2>3. CASE ~MachineEmpty(stack[e])
    <3> DEFINE c == [tag |-> "Failed", error |-> control[e].error]
    <3>1. c \in ThunkStates /\ Resolved(c)
      BY <2>1, StateBuilt DEF Resolved
    <3>2. stack[e] # <<>>
      BY <2>3 DEF MachineEmpty
    <3>3. /\ stack' = [stack EXCEPT ![e] = Pop(@)]
          /\ state' = IF Top(stack[e]).kind = "Update"
                      THEN [state EXCEPT ![Top(stack[e]).thunk] = c]
                      ELSE state
          /\ UNCHANGED control
      BY <1>11, <2>3 DEF Unwind
    <3>4. FrameOwnership' /\ CellStep
      BY <3>1, <3>2, <3>3, <1>t, TopPopped
    <3>5. control[e] # Idle
      BY <1>11 DEF Unwind, Idle
    <3>6. IdleHoldsNothing'
      BY <3>3, <3>5, <1>t DEF IdleHoldsNothing
    <3>7. QED
      BY <3>4, <3>6
  <2>4. QED
    BY <2>2, <2>3
<1>12. ASSUME NEW e \in Evaluators, DropFrames(e)
       PROVE  Kept
  <2>1. control[e].error \in Errors
    BY <1>12, <1>t, ControlFields DEF DropFrames
  <2>2. CASE MachineEmpty(stack[e])
    BY <1>12, <2>1, <2>2, <1>t, ReturnKeeps DEF DropFrames, CellStep
  <2>3. CASE ~MachineEmpty(stack[e])
    <3> DEFINE c == [tag |-> "Failed", error |-> "unwound"]
    <3>1. c \in ThunkStates /\ Resolved(c) /\ c.tag # "Evaluating"
      BY DEF ThunkStates, Errors, Resolved
    <3>2. PICK b \in 0..(Len(stack[e]) - 1) :
            /\ stack' = [stack EXCEPT ![e] = RemoveAt(@, b + 1)]
            /\ state' = IF /\ stack[e][b + 1].kind = "Update"
                           /\ state[stack[e][b + 1].thunk].tag = "Evaluating"
                        THEN [state EXCEPT ![stack[e][b + 1].thunk] = c]
                        ELSE state
      BY <1>12, <2>3 DEF DropFrames
    <3> DEFINE i == b + 1
               s == RemoveAt(stack[e], i)
    <3>3. i \in 1..Len(stack[e]) /\ stack[e] \in Seq(Frames) /\ Len(stack[e]) \in Nat
      BY <3>2, <1>t, LenProperties
    <3>4. /\ s \in Seq(Frames)
          /\ Len(s) = Len(stack[e]) - 1
          /\ \A j \in 1..(Len(stack[e]) - 1) :
               s[j] = IF j < i THEN stack[e][j] ELSE stack[e][j + 1]
      BY <3>3, RemoveFrameAt
    <3>5. stack' = [stack EXCEPT ![e] = s]
      BY <3>2, <1>t
    <3>6. state' = IF stack[e][i].kind = "Update"
                   THEN [state EXCEPT ![stack[e][i].thunk] = c]
                   ELSE state
      <4>1. stack[e][i].kind = "Update" => state[stack[e][i].thunk].tag = "Evaluating"
        <5>1. CASE stack[e][i].kind = "Update"
          <6>1. i \in Updates(e)
            BY <3>3, <5>1 DEF Updates
          <6>2. FramesOwn
            BY <1>t DEF FrameOwnership
          <6>3. state[stack[e][i].thunk] = OwnedBy(e)
            BY <6>1, <6>2 DEF FramesOwn
          <6>4. OwnedBy(e).tag = "Evaluating"
            BY DEF OwnedBy
          <6>5. QED
            BY <6>3, <6>4
        <5>2. QED
          BY <5>1
      <4>2. QED
        BY <3>2, <4>1
    <3> HIDE DEF c, i, s
    <3>7. FrameOwnership'
      BY <3>1, <3>3, <3>4, <3>5, <3>6, <1>t, FrameRemoved
    <3>8. CellStep
      BY <3>1, <3>3, <3>6, <1>t, FrameSettles DEF CellStep
    <3>9. control[e] # Idle /\ UNCHANGED control
      BY <1>12, <2>3 DEF DropFrames, Idle
    <3>10. IdleHoldsNothing'
      BY <3>5, <3>9, <1>t DEF IdleHoldsNothing
    <3>11. QED
      BY <3>7, <3>8, <3>10
  <2>4. QED
    BY <2>2, <2>3
<1>13. ASSUME NEW e \in Evaluators, Step(e)
       PROVE  Kept
  BY <1>13, <1>3, <1>4, <1>5, <1>6, <1>7, <1>8, <1>9, <1>10, <1>11, <1>12, Zenon
  DEF Step, Probe
<1>14. ASSUME NEW e \in Evaluators, Cancel(e)
       PROVE  Kept
  BY <1>14, <1>2 DEF Cancel
<1>15. CASE Exhaust
  BY <1>15, <1>2 DEF Exhaust
<1>16. CASE UNCHANGED vars
  BY <1>16, <1>2 DEF vars
<1>17. QED
  BY <1>1, <1>13, <1>14, <1>15, <1>16, Zenon DEF Next

-----------------------------------------------------------------------------
(* Every claimed thunk is owned by exactly one update frame of its owner,  *)
(* whatever the program, the number of evaluators, the cancellations and   *)
(* the panics; the machine never leaves a thunk Evaluating for ever.       *)
THEOREM OwnershipHolds == Spec => []Ownership
<1>1. IInv => Ownership
  BY DEF IInv
<1>2. QED
  BY InitInv, NextInv, <1>1, PTL DEF Spec

(* A published outcome is never rewritten and no thunk runs twice.         *)
THEOREM WriteOnceHolds == Spec => WriteOnce
<1>1. ASSUME IInv, CellStep
      PROVE  \A t \in Thunks :
               /\ Resolved(state[t]) => state'[t] = state[t]
               /\ state'[t].tag = "Suspended" => state[t].tag = "Suspended"
  <2>1. state \in [Thunks -> ThunkStates]
    BY <1>1 DEF IInv, TypeOK
  <2>2. CASE UNCHANGED state
    BY <2>2
  <2>3. ASSUME NEW e \in Evaluators, NEW u \in Thunks, CBN!Claim(e, u)
        PROVE  \A t \in Thunks :
                 /\ Resolved(state[t]) => state'[t] = state[t]
                 /\ state'[t].tag = "Suspended" => state[t].tag = "Suspended"
    BY <2>1, <2>3 DEF CBN!Claim, Resolved
  <2>4. ASSUME NEW e \in Evaluators, NEW u \in Thunks, CBN!Settle(e, u)
        PROVE  \A t \in Thunks :
                 /\ Resolved(state[t]) => state'[t] = state[t]
                 /\ state'[t].tag = "Suspended" => state[t].tag = "Suspended"
    <3>1. PICK c \in {s \in ThunkStates : Resolved(s)} : state' = [state EXCEPT ![u] = c]
      BY <2>4 DEF CBN!Settle
    <3>2. state[u].tag = "Evaluating" /\ c.tag # "Suspended"
      BY <2>4, <3>1 DEF CBN!Settle, Resolved
    <3>3. QED
      BY <2>1, <3>1, <3>2 DEF Resolved
  <2>5. QED
    BY <1>1, <2>2, <2>3, <2>4 DEF CellStep, CBN!Next
<1>2. QED
  BY InitInv, NextInv, <1>1, PTL DEF Spec, WriteOnce

(* The machine implements the abstract call-by-need cell.                  *)
THEOREM CallByNeedImplemented == Spec => ImplementsCallByNeed
<1>1. Init => CBN!Init
  BY DEF Init, CBN!Init
<1>2. CellStep => [CBN!Next]_state
  BY DEF CellStep
<1>3. QED
  BY InitInv, NextInv, <1>1, <1>2, PTL DEF Spec, ImplementsCallByNeed, CBN!Spec

-----------------------------------------------------------------------------
(* The frame limit.                                                        *)

(* The frames of the machine that was innermost when the stack had k frames. *)

(* The frames of the machine that runs in the first k frames of s: those   *)
(* above the innermost host operation.                                     *)
Machine(s, k) == {i \in 1..k : \A j \in i..k : s[j].kind # "Native"}

(* No machine of the stack s, running or waiting for an inner one, is      *)
(* larger than max_machine_frames.  Only that is inductive: popping a      *)
(* "Native" frame makes an outer machine the running one again.            *)
Bounded(s) == \A k \in 0..Len(s) : Cardinality(Machine(s, k)) <= MaxFrames
StacksBounded == \A e \in Evaluators : Bounded(stack[e])

(* The frames of one machine can be counted.                               *)
LEMMA MachineFinite ==
  ASSUME NEW s, NEW k \in Nat
  PROVE  IsFiniteSet(Machine(s, k)) /\ Cardinality(Machine(s, k)) \in Nat
<1>1. IsFiniteSet(1..k)
  BY FS_Interval
<1>2. Machine(s, k) \in SUBSET (1..k)
  BY DEF Machine
<1> QED
  BY <1>1, <1>2, FS_Subset, FS_CardinalityType

(* A machine is made of the frames it stands on and no others.             *)
LEMMA MachineSame ==
  ASSUME NEW s, NEW r, NEW k \in Nat, \A i \in 1..k : r[i] = s[i]
  PROVE  Machine(r, k) = Machine(s, k)
<1>1. \A i \in 1..k : \A j \in i..k : r[j] = s[j]
  OBVIOUS
<1> QED
  BY <1>1 DEF Machine

(* machine.len() is the size of the running machine.                       *)
LEMMA DepthIs ==
  ASSUME NEW s
  PROVE  Depth(s) = Cardinality(Machine(s, Len(s)))
BY DEF Depth, Machine

(* Popping a frame keeps every machine of the stack within the limit.      *)
LEMMA PopBounded ==
  ASSUME NEW s \in Seq(Frames), s # <<>>, Bounded(s)
  PROVE  Bounded(Pop(s))
<1> DEFINE p == Pop(s)
<1>1. Len(s) \in Nat \ {0} /\ Len(p) = Len(s) - 1 /\ \A i \in 1..Len(p) : p[i] = s[i]
  BY PopFrame
<1> HIDE DEF p
<1>2. ASSUME NEW k \in 0..Len(p) PROVE Cardinality(Machine(p, k)) <= MaxFrames
  <2>1. k \in Nat /\ k \in 0..Len(s) /\ \A i \in 1..k : p[i] = s[i]
    BY <1>1
  <2>2. Machine(p, k) = Machine(s, k)
    BY <2>1, MachineSame
  <2> QED
    BY <2>1, <2>2 DEF Bounded
<1>3. Bounded(p)
  BY <1>2 DEF Bounded
<1> QED
  BY <1>3 DEF p

(* A push that the limit allowed keeps every machine within it; a host     *)
(* operation starts an empty machine of its own.                           *)
LEMMA PushBounded ==
  ASSUME NEW s \in Seq(Frames), Bounded(s), NEW kind \in {"Update", "Demand", "Native"},
         NEW t \in Thunks, kind # "Native" => Depth(s) < MaxFrames
  PROVE  Bounded(Push(s, kind, t))
<1> DEFINE p == Push(s, kind, t)
           n == Len(s)
<1>1. /\ n \in Nat /\ Len(p) = n + 1
      /\ \A i \in 1..n : p[i] = s[i]
      /\ p[n + 1] = [kind |-> kind, thunk |-> t]
  BY PushFrame
<1>2. p[n + 1].kind = kind
  BY <1>1
<1>d. Depth(s) = Cardinality(Machine(s, n))
  BY DepthIs
<1> HIDE DEF p, n
<1>3. Machine(p, n) = Machine(s, n)
  BY <1>1, MachineSame
<1>4. MaxFrames \in Nat
  BY BoundsAssumption
<1>5. Cardinality(Machine(p, n + 1)) <= MaxFrames
  <2>1. CASE kind = "Native"
    <3>1. Machine(p, n + 1) = {}
      <4> SUFFICES ASSUME NEW i \in 1..(n + 1) PROVE \E j \in i..(n + 1) : p[j].kind = "Native"
        BY DEF Machine
      <4>1. n + 1 \in i..(n + 1)
        BY <1>1
      <4> QED
        BY <4>1, <1>2, <2>1
    <3> QED
      BY <3>1, <1>4, FS_EmptySet
  <2>2. CASE kind # "Native"
    <3>1. Machine(p, n + 1) = Machine(p, n) \cup {n + 1}
      <4>1. ASSUME NEW i \in 1..(n + 1)
            PROVE  i \in Machine(p, n + 1) <=> i \in Machine(p, n) \/ i = n + 1
        <5>1. CASE i = n + 1
          BY <5>1, <1>1, <1>2, <2>2 DEF Machine
        <5>2. CASE i # n + 1
          <6>1. i \in 1..n /\ \A j \in i..(n + 1) : j \in i..n \/ j = n + 1
            BY <5>2, <1>1
          <6>2. i..n \subseteq i..(n + 1)
            BY <1>1
          <6> QED
            BY <5>2, <6>1, <6>2, <1>2, <2>2 DEF Machine
        <5> QED
          BY <5>1, <5>2
      <4>2. Machine(p, n + 1) \subseteq 1..(n + 1) /\ Machine(p, n) \cup {n + 1} \subseteq 1..(n + 1)
        BY <1>1 DEF Machine
      <4> QED
        BY <4>1, <4>2
    <3>2. IsFiniteSet(Machine(p, n)) /\ Cardinality(Machine(p, n)) \in Nat
      BY <1>1, MachineFinite
    <3>3. Cardinality(Machine(p, n)) < MaxFrames
      BY <1>d, <1>3, <2>2
    <3>4. n + 1 \notin Machine(p, n)
      BY <1>1 DEF Machine
    <3>5. Cardinality(Machine(p, n) \cup {n + 1}) = Cardinality(Machine(p, n)) + 1
      BY <3>2, <3>4, FS_AddElement
    <3>6. Cardinality(Machine(p, n + 1)) = Cardinality(Machine(p, n)) + 1
      BY <3>1, <3>5
    <3> HIDE DEF Machine
    <3> QED
      BY <3>2, <3>3, <3>6, <1>4
  <2> QED
    BY <2>1, <2>2
<1>6. ASSUME NEW k \in 0..(n + 1) PROVE Cardinality(Machine(p, k)) <= MaxFrames
  <2>1. CASE k = n + 1
    BY <1>5, <2>1
  <2>2. CASE k # n + 1
    <3>1. k \in Nat /\ k \in 0..n /\ \A i \in 1..k : p[i] = s[i]
      BY <1>1, <2>2
    <3>2. Machine(p, k) = Machine(s, k)
      BY <3>1, MachineSame
    <3> QED
      BY <3>1, <3>2 DEF Bounded, n
  <2> QED
    BY <2>1, <2>2
<1>7. Bounded(p)
  BY <1>1, <1>6 DEF Bounded
<1> QED
  BY <1>7 DEF p

(* Dropping the oldest frame of the running machine keeps every machine    *)
(* within the limit.                                                       *)
LEMMA RemoveBounded ==
  ASSUME NEW s \in Seq(Frames), Bounded(s), NEW b \in 0..(Len(s) - 1), IsBase(s, b)
  PROVE  Bounded(RemoveAt(s, b + 1))
<1> DEFINE r == RemoveAt(s, b + 1)
           n == Len(s)
<1>1. n \in Nat /\ b \in Nat /\ b + 1 \in 1..n
  BY LenProperties
<1>2. /\ Len(r) = n - 1
      /\ \A j \in 1..(n - 1) : r[j] = IF j < b + 1 THEN s[j] ELSE s[j + 1]
  BY <1>1, RemoveFrameAt
<1>3. \A j \in 1..n : j > b => s[j].kind # "Native"
  BY DEF IsBase
<1>b. \A k \in 0..n : Cardinality(Machine(s, k)) <= MaxFrames
  BY DEF Bounded
<1> HIDE DEF r, n
<1>4. ASSUME NEW k \in 0..(n - 1) PROVE Cardinality(Machine(r, k)) <= MaxFrames
  <2>0. k \in Nat /\ k \in 0..n /\ k + 1 \in 0..n /\ k + 1 \in Nat
    BY <1>1
  <2>1. CASE k <= b
    <3>1. \A i \in 1..k : r[i] = s[i]
      BY <1>1, <1>2, <2>0, <2>1
    <3>2. Machine(r, k) = Machine(s, k)
      BY <2>0, <3>1, MachineSame
    <3> QED
      BY <1>b, <2>0, <3>2
  <2>2. CASE k > b
    <3> DEFINE S == Machine(r, k)
               T == Machine(s, k + 1)
               f == [i \in S |-> IF i < b + 1 THEN i ELSE i + 1]
    <3>1. ASSUME NEW i \in S PROVE f[i] \in T
      <4>1. i \in 1..k /\ \A j \in i..k : r[j].kind # "Native"
        BY DEF Machine
      <4>2. CASE i < b + 1
        <5>1. ASSUME NEW j \in i..(k + 1) PROVE s[j].kind # "Native"
          <6>1. CASE j < b + 1
            <7>1. j \in i..k /\ j \in 1..(n - 1)
              BY <6>1, <4>1, <2>0, <2>2, <1>1
            <7>2. r[j] = s[j]
              BY <7>1, <6>1, <1>2
            <7> QED
              BY <7>1, <7>2, <4>1
          <6>2. CASE ~(j < b + 1)
            BY <6>2, <4>1, <2>0, <1>1, <1>3
          <6> QED
            BY <6>1, <6>2
        <5>2. i \in 1..(k + 1) /\ f[i] = i
          BY <4>1, <4>2, <2>0
        <5> HIDE DEF f, S
        <5> QED
          BY <5>1, <5>2 DEF Machine
      <4>3. CASE ~(i < b + 1)
        <5>1. \A j \in (i + 1)..(k + 1) : s[j].kind # "Native"
          BY <4>1, <4>3, <2>0, <1>1, <1>3
        <5>2. i + 1 \in 1..(k + 1) /\ f[i] = i + 1
          BY <4>1, <4>3, <2>0
        <5> HIDE DEF f, S
        <5> QED
          BY <5>1, <5>2 DEF Machine
      <4> QED
        BY <4>2, <4>3
    <3>2. \A i \in S : i \in Nat /\ f[i] = IF i < b + 1 THEN i ELSE i + 1
      BY <2>0 DEF Machine
    <3>3. f \in [S -> T]
      <4>1. f = [i \in S |-> f[i]]
        OBVIOUS
      <4> HIDE DEF f, S, T
      <4> QED
        BY <3>1, <4>1
    <3>4. \A i, j \in S : f[i] = f[j] => i = j
      <4> HIDE DEF f, S
      <4> QED
        BY <3>2, <1>1
    <3> HIDE DEF f, S
    <3>5. f \in Injection(S, T)
      BY <3>3, <3>4 DEF Injection, IsInjective
    <3>6. IsFiniteSet(T) /\ Cardinality(T) \in Nat /\ Cardinality(T) <= MaxFrames
      BY <2>0, <1>b, MachineFinite
    <3> HIDE DEF T
    <3>7. Cardinality(S) <= Cardinality(T)
      BY <3>5, <3>6, FS_Injection
    <3>8. Cardinality(S) \in Nat /\ MaxFrames \in Nat
      BY <2>0, MachineFinite, BoundsAssumption DEF S
    <3>9. Cardinality(S) <= MaxFrames
      BY <3>6, <3>7, <3>8
    <3> QED
      BY <3>9 DEF S
  <2> QED
    BY <2>0, <2>1, <2>2, <1>1
<1>5. Bounded(r)
  BY <1>2, <1>4 DEF Bounded
<1> QED
  BY <1>5 DEF r

(* What one step of the machine loop of e may do to its stack.             *)
Moved(e, s) ==
    \/ s = stack[e]
    \/ stack[e] # <<>> /\ s = Pop(stack[e])
    \/ \E k \in {"Update", "Demand", "Native"}, t \in Thunks :
          (k # "Native" => ~Full(e)) /\ s = Push(stack[e], k, t)
    \/ \E b \in 0..(Len(stack[e]) - 1) :
          IsBase(stack[e], b) /\ s = RemoveAt(stack[e], b + 1)

(* Every step of the machine loop moves its own stack by one frame at      *)
(* most, and no other stack.                                               *)
LEMMA StackMoves ==
  ASSUME TypeOK, NEW e \in Evaluators, Step(e)
  PROVE  /\ Moved(e, stack'[e])
         /\ \A f \in Evaluators \ {e} : stack'[f] = stack[f]
<1> DEFINE Good == /\ Moved(e, stack'[e])
                   /\ \A f \in Evaluators \ {e} : stack'[f] = stack[f]
<1>1. stack \in [Evaluators -> Seq(Frames)] /\ control[e] \in Controls
  BY DEF TypeOK
<1>2. ASSUME UNCHANGED stack PROVE Good
  BY <1>2 DEF Moved
<1>3. ASSUME NEW s, stack' = [stack EXCEPT ![e] = s], Moved(e, s) PROVE Good
  <2>1. stack'[e] = s /\ \A f \in Evaluators \ {e} : stack'[f] = stack[f]
    BY <1>1, <1>3
  <2> QED
    BY <1>3, <2>1
<1>4. ASSUME stack[e] # <<>>, stack' = [stack EXCEPT ![e] = Pop(stack[e])] PROVE Good
  <2>1. Moved(e, Pop(stack[e]))
    BY <1>4 DEF Moved
  <2> QED
    BY <1>3, <1>4, <2>1
<1>5. ASSUME NEW k \in {"Update", "Demand", "Native"}, NEW t \in Thunks, k # "Native" => ~Full(e),
             stack' = [stack EXCEPT ![e] = Push(stack[e], k, t)]
      PROVE  Good
  <2>1. Moved(e, Push(stack[e], k, t))
    BY <1>5 DEF Moved
  <2> QED
    BY <1>3, <1>5, <2>1
<1>6. ASSUME (\E v : ReturnOk(e, v)) \/ (\E err : ReturnErr(e, err)) PROVE Good
  <2>1. UNCHANGED stack \/ (stack[e] # <<>> /\ stack' = [stack EXCEPT ![e] = Pop(stack[e])])
    BY <1>6 DEF ReturnOk, ReturnErr
  <2> QED
    BY <1>2, <1>4, <2>1
<1>t. control[e].pc \in {"run", "host"} => control[e].thunk \in Thunks
  BY <1>1, ControlFields DEF ThunkPcs, LoopPcs
<1> SUFFICES Good
  OBVIOUS
<1> HIDE DEF Good
<1>10. CASE Abort(e) \/ Wake(e) \/ RunReturn(e) \/ Raise(e)
  BY <1>2, <1>10 DEF Abort, Wake, RunReturn, Raise
<1>11. CASE Probe(e)
  BY <1>2, <1>5, <1>11 DEF Probe, ProbeSettled, ProbeBlackHole, ProbeWaitCycle, ProbeWait,
     ProbeFull, Claim
<1>12. CASE RunDemand(e)
  BY <1>t, <1>2, <1>5, <1>12 DEF RunDemand
<1>13. CASE RunHost(e)
  BY <1>t, <1>2, <1>5, <1>13 DEF RunHost
<1>14. CASE ReturnValue(e)
  BY <1>4, <1>6, <1>14 DEF ReturnValue, MachineEmpty
<1>15. CASE ReturnAlias(e)
  BY <1>2, <1>4, <1>15 DEF ReturnAlias
<1>16. CASE Unwind(e)
  BY <1>4, <1>6, <1>16 DEF Unwind, MachineEmpty
<1>17. CASE DropFrames(e)
  <2>1. CASE MachineEmpty(stack[e])
    BY <1>6, <1>17, <2>1 DEF DropFrames
  <2>2. CASE ~MachineEmpty(stack[e])
    <3>1. PICK b \in 0..(Len(stack[e]) - 1) :
            IsBase(stack[e], b) /\ stack' = [stack EXCEPT ![e] = RemoveAt(stack[e], b + 1)]
      BY <1>17, <2>2 DEF DropFrames
    <3>2. Moved(e, RemoveAt(stack[e], b + 1))
      BY <3>1 DEF Moved
    <3> QED
      BY <1>3, <3>1, <3>2
  <2> QED
    BY <2>1, <2>2
<1> QED
  BY <1>10, <1>11, <1>12, <1>13, <1>14, <1>15, <1>16, <1>17, Zenon DEF Step

(* No step of the program takes a machine over its limit.                  *)
LEMMA NextBounded == TypeOK /\ StacksBounded /\ [Next]_vars => StacksBounded'
<1> SUFFICES ASSUME TypeOK, StacksBounded, [Next]_vars, NEW f \in Evaluators
             PROVE  Bounded(stack'[f])
  BY DEF StacksBounded, Bounded, Machine
<1>1. \A e \in Evaluators : stack[e] \in Seq(Frames) /\ Bounded(stack[e])
  BY DEF TypeOK, StacksBounded
<1>2. ASSUME NEW e \in Evaluators, Step(e) PROVE Bounded(stack'[f])
  <2>1. Moved(e, stack'[e]) /\ (f # e => stack'[f] = stack[f])
    BY <1>2, StackMoves
  <2>2. ASSUME NEW k \in {"Update", "Demand", "Native"}, NEW t \in Thunks, k # "Native" => ~Full(e)
        PROVE  Bounded(Push(stack[e], k, t))
    <3>1. k # "Native" => Depth(stack[e]) < MaxFrames
      <4>1. Depth(stack[e]) \in Nat
        <5>1. Len(stack[e]) \in Nat
          BY <1>1, LenProperties
        <5> QED
          BY <5>1, DepthIs, MachineFinite
      <4> QED
        BY <2>2, <4>1, BoundsAssumption DEF Full
    <3> QED
      BY <1>1, <3>1, PushBounded
  <2>3. stack[e] # <<>> => Bounded(Pop(stack[e]))
    BY <1>1, PopBounded
  <2>4. \A b \in 0..(Len(stack[e]) - 1) :
           IsBase(stack[e], b) => Bounded(RemoveAt(stack[e], b + 1))
    BY <1>1, RemoveBounded
  <2>5. Bounded(stack'[e])
    BY <1>1, <2>1, <2>2, <2>3, <2>4 DEF Moved
  <2> QED
    BY <1>1, <2>1, <2>5
<1>3. ASSUME UNCHANGED stack PROVE Bounded(stack'[f])
  BY <1>1, <1>3
<1> QED
  BY <1>2, <1>3 DEF Next, Cancel, BeginForce, Exhaust, vars

(* The program starts with empty machines.                                 *)
LEMMA InitBounded == Init => StacksBounded
<1> SUFFICES ASSUME Init, NEW e \in Evaluators PROVE Bounded(stack[e])
  BY DEF StacksBounded
<1>1. stack[e] = <<>>
  BY DEF Init
<1>2. \A k \in 0..Len(<<>>) : k = 0
  OBVIOUS
<1>3. Machine(<<>>, 0) = {}
  BY DEF Machine
<1> QED
  BY <1>1, <1>2, <1>3, FS_EmptySet, BoundsAssumption DEF Bounded

(* The machine's cells, stacks and edges have their types, and no machine  *)
(* stack, nested or not, ever outgrows max_machine_frames (the claim of a  *)
(* suspended thunk and push_frame both refuse).                            *)
THEOREM MachineWellFormed == Spec => []WellFormed
<1> DEFINE I == TypeOK /\ StacksBounded
<1>1. Init => I
  BY InitType, InitBounded
<1>2. I /\ [Next]_vars => I'
  BY NextType, NextBounded
<1>3. I => WellFormed
  <2> SUFFICES ASSUME I, NEW e \in Evaluators PROVE Depth(stack[e]) <= MaxFrames
    BY DEF WellFormed, FrameBound
  <2>1. Len(stack[e]) \in Nat
    BY LenProperties DEF TypeOK
  <2>2. Len(stack[e]) \in 0..Len(stack[e])
    BY <2>1
  <2> QED
    BY <2>2, DepthIs DEF StacksBounded, Bounded
<1> QED
  BY <1>1, <1>2, <1>3, PTL DEF Spec

-----------------------------------------------------------------------------
(* Walks: the recursive functions that WaitsFor and Needs are made of.     *)

(* Every set of naturals that has members has a least one.                 *)
LEMMA LeastNatural ==
  ASSUME NEW T, T \subseteq Nat, T # {}
  PROVE  \E n \in T : \A m \in T : n <= m
<1> DEFINE R == {p \in Nat \X Nat : p[1] < p[2]}
<1>1. OpToRel(<, Nat) = R
  BY Zenon DEF OpToRel
<1>2. IsWellFoundedOn(R, Nat)
  BY <1>1, NatLessThanWellFounded
<1>3. \A m, n \in Nat : <<m, n>> \in R <=> m < n
  OBVIOUS
<1> HIDE DEF R
<1>4. PICK n \in T : \A m \in T : ~(<<m, n>> \in R)
  BY <1>2, WFMin
<1>5. ASSUME NEW m \in T PROVE n <= m
  <2>1. m \in Nat /\ n \in Nat
    OBVIOUS
  <2>2. ~(m < n)
    BY <1>3, <1>4, <2>1
  <2> QED
    BY <2>1, <2>2
<1> QED
  BY <1>5

(* Induction over the naturals, for a set: what a recursive function       *)
(* computes at every argument is proved with it.                           *)
LEMMA InductionOnSet ==
  ASSUME NEW T, 0 \in T, \A n \in Nat : n \in T => n + 1 \in T
  PROVE  Nat \subseteq T
<1> SUFFICES ASSUME Nat \ T # {} PROVE FALSE
  OBVIOUS
<1>1. PICK n \in Nat \ T : \A m \in Nat \ T : n <= m
  BY LeastNatural
<1> QED
  BY <1>1

(* A walk from the set S along the edges G, within the nodes V: what one   *)
(* more edge reaches, what no edge leaves, and the function that walks on  *)
(* for N steps (the recursive functions of WaitsFor and Needs).            *)
Onward(G, V, S) == {y \in V : \E x \in S : <<x, y>> \in G}
ClosedUnder(G, V, S) == \A x \in S, y \in V : <<x, y>> \in G => y \in S
IsWalk(f, G, V, S, N) ==
    f = [n \in 0..N |-> IF n = 0 THEN S ELSE f[n - 1] \cup Onward(G, V, f[n - 1])]

(* There is a walk of every length.                                        *)
LEMMA WalkExists ==
  ASSUME NEW G, NEW V, NEW S, NEW N \in Nat
  PROVE  \E f : IsWalk(f, G, V, S, N)
<1> DEFINE T == {k \in Nat : \E f : IsWalk(f, G, V, S, k)}
<1>1. 0 \in T
  <2> DEFINE f == [n \in 0..0 |-> S]
  <2>1. IsWalk(f, G, V, S, 0)
    BY DEF IsWalk
  <2> QED
    BY <2>1
<1>2. ASSUME NEW k \in Nat, k \in T
      PROVE  k + 1 \in T
  <2>1. PICK f : IsWalk(f, G, V, S, k)
    BY <1>2
  <2> DEFINE g == [n \in 0..(k + 1) |-> IF n = k + 1 THEN f[k] \cup Onward(G, V, f[k])
                                                  ELSE f[n]]
  <2>2. \A n \in 0..k : f[n] = IF n = 0 THEN S ELSE f[n - 1] \cup Onward(G, V, f[n - 1])
    BY <2>1 DEF IsWalk
  <2>3. \A n \in 0..(k + 1) :
           g[n] = IF n = 0 THEN S ELSE g[n - 1] \cup Onward(G, V, g[n - 1])
    <3> SUFFICES ASSUME NEW n \in 0..(k + 1)
                 PROVE  g[n] = IF n = 0 THEN S ELSE g[n - 1] \cup Onward(G, V, g[n - 1])
      OBVIOUS
    <3>1. CASE n = k + 1
      <4>1. n # 0 /\ n - 1 = k /\ k \in 0..(k + 1) /\ k # k + 1
        BY <3>1
      <4>2. g[n] = f[k] \cup Onward(G, V, f[k]) /\ g[n - 1] = f[k]
        BY <3>1, <4>1
      <4> HIDE DEF g
      <4> QED
        BY <4>1, <4>2
    <3>2. CASE n = 0
      <4>1. 0 \in 0..k /\ 0 \in 0..(k + 1) /\ 0 # k + 1
        OBVIOUS
      <4>2. g[0] = f[0]
        BY <4>1
      <4>3. f[0] = S
        BY <4>1, <2>2
      <4> HIDE DEF g
      <4> QED
        BY <3>2, <4>2, <4>3
    <3>3. CASE n # 0 /\ n # k + 1
      <4>1. n \in 0..k /\ n - 1 \in 0..(k + 1) /\ n - 1 # k + 1
        BY <3>3
      <4>2. g[n] = f[n] /\ g[n - 1] = f[n - 1]
        BY <3>3, <4>1
      <4> HIDE DEF g
      <4> QED
        BY <4>1, <4>2, <3>3, <2>2
    <3> QED
      BY <3>1, <3>2, <3>3
  <2>4. IsWalk(g, G, V, S, k + 1)
    <3>1. g = [n \in 0..(k + 1) |-> g[n]]
      OBVIOUS
    <3> HIDE DEF g
    <3> QED
      BY <3>1, <2>3, Zenon DEF IsWalk
  <2> QED
    BY <2>4
<1>3. Nat \subseteq T
  <2> HIDE DEF T
  <2> QED
    BY <1>1, <1>2, InductionOnSet
<1> QED
  BY <1>3

(* What a walk has after any number of its steps.                          *)
WalkGrows(f, G, V, S, N) ==
    /\ f[0] = S
    /\ \A n \in 0..N : n # 0 => f[n] = f[n - 1] \cup Onward(G, V, f[n - 1])
    /\ \A n \in 0..N : S \subseteq f[n] /\ f[n] \subseteq V

(* A walk keeps what it reached, stays within the nodes, and stays within  *)
(* every set that holds its start and that no edge leaves.                 *)
LEMMA WalkSteps ==
  ASSUME NEW G, NEW V, NEW S, S \subseteq V, NEW N \in Nat, NEW f, IsWalk(f, G, V, S, N)
  PROVE  /\ WalkGrows(f, G, V, S, N)
         /\ \A C : S \subseteq C /\ ClosedUnder(G, V, C) => \A n \in 0..N : f[n] \subseteq C
<1>1. \A n \in 0..N : f[n] = IF n = 0 THEN S ELSE f[n - 1] \cup Onward(G, V, f[n - 1])
  BY DEF IsWalk
<1>2. ASSUME NEW C, S \subseteq C, ClosedUnder(G, V, C)
      PROVE  \A n \in 0..N : f[n] \subseteq C /\ S \subseteq f[n] /\ f[n] \subseteq V
  <2> DEFINE T == {n \in Nat : n \in 0..N =>
                     f[n] \subseteq C /\ S \subseteq f[n] /\ f[n] \subseteq V}
  <2>1. 0 \in T
    BY <1>1, <1>2
  <2>2. ASSUME NEW n \in Nat, n \in T PROVE n + 1 \in T
    <3> SUFFICES ASSUME n + 1 \in 0..N
                 PROVE f[n + 1] \subseteq C /\ S \subseteq f[n + 1] /\ f[n + 1] \subseteq V
      OBVIOUS
    <3>1. n \in 0..N /\ n + 1 # 0 /\ (n + 1) - 1 = n
      OBVIOUS
    <3>2. f[n] \subseteq C /\ S \subseteq f[n] /\ f[n] \subseteq V
      BY <2>2, <3>1
    <3>3. f[n + 1] = f[n] \cup Onward(G, V, f[n])
      BY <1>1, <3>1
    <3> QED
      BY <3>2, <3>3, <1>2 DEF Onward, ClosedUnder
  <2> HIDE DEF T
  <2>3. Nat \subseteq T
    BY <2>1, <2>2, InductionOnSet
  <2> QED
    BY <2>3 DEF T
<1>3. S \subseteq V /\ ClosedUnder(G, V, V)
  BY DEF ClosedUnder
<1>4. f[0] = S
  <2>1. 0 \in 0..N
    OBVIOUS
  <2> QED
    BY <1>1, <2>1
<1>5. \A n \in 0..N : S \subseteq f[n] /\ f[n] \subseteq V
  BY <1>2, <1>3
<1>6. \A n \in 0..N : n # 0 => f[n] = f[n - 1] \cup Onward(G, V, f[n - 1])
  BY <1>1
<1>7. \A C : S \subseteq C /\ ClosedUnder(G, V, C) => \A n \in 0..N : f[n] \subseteq C
  BY <1>2
<1> QED
  BY <1>4, <1>5, <1>6, <1>7 DEF WalkGrows

(* In a finite graph a walk of as many steps as there are nodes has been   *)
(* everywhere it can go.                                                   *)
LEMMA WalkCloses ==
  ASSUME NEW G, NEW V, IsFiniteSet(V), NEW S, S \subseteq V, S # {}, NEW f,
         NEW N \in Nat, N = Cardinality(V), IsWalk(f, G, V, S, N)
  PROVE  ClosedUnder(G, V, f[N])
<1>1. /\ \A n \in 0..N : n # 0 => f[n] = f[n - 1] \cup Onward(G, V, f[n - 1])
      /\ \A n \in 0..N : S \subseteq f[n] /\ f[n] \subseteq V
  <2>1. WalkGrows(f, G, V, S, N)
    BY WalkSteps
  <2> QED
    BY <2>1 DEF WalkGrows
<1>2. \A n \in 0..N : IsFiniteSet(f[n]) /\ Cardinality(f[n]) \in Nat /\ Cardinality(f[n]) <= N
  BY <1>1, FS_Subset, FS_CardinalityType
<1> DEFINE Still(n) == ClosedUnder(G, V, f[n])
           T == {n \in Nat : n \in 0..N => Still(n) \/ Cardinality(f[n]) >= n + 1}
<1>3. 0 \in T
  <2>1. f[0] # {} /\ IsFiniteSet(f[0]) /\ Cardinality(f[0]) \in Nat
    BY <1>1, <1>2
  <2>2. Cardinality(f[0]) # 0
    BY <2>1, FS_EmptySet
  <2> QED
    BY <2>1, <2>2
<1>4. ASSUME NEW n \in Nat, n \in T PROVE n + 1 \in T
  <2> SUFFICES ASSUME n + 1 \in 0..N
               PROVE  Still(n + 1) \/ Cardinality(f[n + 1]) >= (n + 1) + 1
    OBVIOUS
  <2>1. n \in 0..N /\ n + 1 # 0 /\ (n + 1) - 1 = n
    OBVIOUS
  <2>2. f[n + 1] = f[n] \cup Onward(G, V, f[n])
    BY <1>1, <2>1
  <2>3. CASE Still(n)
    <3>1. f[n + 1] = f[n]
      BY <2>2, <2>3 DEF ClosedUnder, Onward
    <3> QED
      BY <2>3, <3>1
  <2>4. CASE ~Still(n)
    <3>1. Cardinality(f[n]) >= n + 1
      BY <1>4, <2>1, <2>4
    <3>2. f[n] \subseteq f[n + 1] /\ f[n] # f[n + 1]
      BY <2>2, <2>4 DEF ClosedUnder, Onward
    <3>3. /\ IsFiniteSet(f[n + 1])
          /\ Cardinality(f[n]) \in Nat /\ Cardinality(f[n + 1]) \in Nat
      BY <1>2, <2>1
    <3>4. Cardinality(f[n]) <= Cardinality(f[n + 1]) /\ Cardinality(f[n]) # Cardinality(f[n + 1])
      BY <3>2, <3>3, FS_Subset
    <3> QED
      BY <3>1, <3>3, <3>4
  <2> QED
    BY <2>3, <2>4
<1>5. Nat \subseteq T
  <2> HIDE DEF T
  <2> QED
    BY <1>3, <1>4, InductionOnSet
<1>6. N \in T /\ N \in 0..N
  BY <1>5
<1>7. Still(N) \/ Cardinality(f[N]) >= N + 1
  BY <1>6
<1>8. Cardinality(f[N]) \in Nat /\ Cardinality(f[N]) <= N
  BY <1>2, <1>6
<1> QED
  BY <1>7, <1>8

-----------------------------------------------------------------------------
(* The wait graph.                                                         *)

(* WaitsFor is such a walk of the wait graph.                              *)
LEMMA WaitsForWalks ==
  ASSUME NEW graph, NEW from \in Evaluators
  PROVE  \E f : /\ IsWalk(f, graph, Evaluators, {from}, Cardinality(Evaluators))
                /\ WaitsFor(graph, from) = f[Cardinality(Evaluators)]
<1> DEFINE N == Cardinality(Evaluators)
           Reaches(r) ==
             r = [n \in 0..N |-> IF n = 0 THEN {from}
                  ELSE r[n - 1] \cup {f \in Evaluators : \E g \in r[n - 1] : <<g, f>> \in graph}]
           reach == CHOOSE r : Reaches(r)
<1>1. N \in Nat
  BY EvaluatorsAssumption, FS_CardinalityType
<1>2. \A r : IsWalk(r, graph, Evaluators, {from}, N) <=> Reaches(r)
  BY DEF IsWalk, Onward
<1>3. \E r : Reaches(r)
  <2> HIDE DEF N, Reaches
  <2> QED
    BY <1>1, <1>2, WalkExists
<1>4. Reaches(reach)
  <2> HIDE DEF Reaches
  <2> QED
    BY <1>3
<1>5. WaitsFor(graph, from) = reach[N]
  BY DEF WaitsFor
<1> HIDE DEF reach, Reaches
<1> QED
  BY <1>2, <1>4, <1>5

(* The walk of register_wait finds exactly the evaluators some path of     *)
(* edges leads to: the least set that holds the owner and that no edge     *)
(* leaves.                                                                 *)
LEMMA WaitsForCloses ==
  ASSUME NEW graph, NEW from \in Evaluators
  PROVE  /\ from \in WaitsFor(graph, from)
         /\ WaitsFor(graph, from) \subseteq Evaluators
         /\ ClosedUnder(graph, Evaluators, WaitsFor(graph, from))
         /\ \A C : from \in C /\ ClosedUnder(graph, Evaluators, C)
                     => WaitsFor(graph, from) \subseteq C
<1> DEFINE N == Cardinality(Evaluators)
<1>1. N \in Nat /\ N \in 0..N
  BY EvaluatorsAssumption, FS_CardinalityType
<1>2. PICK f : /\ IsWalk(f, graph, Evaluators, {from}, N)
               /\ WaitsFor(graph, from) = f[N]
  BY WaitsForWalks
<1>3. {from} \subseteq Evaluators /\ {from} # {}
  OBVIOUS
<1>4. ClosedUnder(graph, Evaluators, f[N])
  BY <1>1, <1>2, <1>3, EvaluatorsAssumption, WalkCloses
<1>5. WalkGrows(f, graph, Evaluators, {from}, N)
  BY <1>1, <1>2, <1>3, WalkSteps
<1>6. \A C : {from} \subseteq C /\ ClosedUnder(graph, Evaluators, C)
               => \A n \in 0..N : f[n] \subseteq C
  BY <1>1, <1>2, <1>3, WalkSteps
<1> HIDE DEF N
<1>7. {from} \subseteq f[N] /\ f[N] \subseteq Evaluators
  BY <1>1, <1>5 DEF WalkGrows
<1> QED
  BY <1>1, <1>2, <1>4, <1>6, <1>7

(* No edge of the graph lies on a path back to its own start.              *)
Acyclic(graph) ==
  \A x, y \in Evaluators : <<x, y>> \in graph => x \notin WaitsFor(graph, y)

(* The property of the runs is that the wait graph is acyclic.             *)
LEMMA AcyclicWaits ==
  ASSUME waitGraph \subseteq Evaluators \X Evaluators
  PROVE  WaitGraphAcyclic <=> Acyclic(waitGraph)
<1>1. ASSUME Acyclic(waitGraph), NEW e \in Evaluators, NEW w \in waitGraph, w[1] = e
      PROVE  e \notin WaitsFor(waitGraph, w[2])
  <2>1. w = <<e, w[2]>> /\ w[2] \in Evaluators
    BY <1>1
  <2> QED
    BY <1>1, <2>1 DEF Acyclic
<1>2. ASSUME WaitGraphAcyclic, NEW x \in Evaluators, NEW y \in Evaluators,
             <<x, y>> \in waitGraph
      PROVE  x \notin WaitsFor(waitGraph, y)
  <2>1. <<x, y>>[1] = x /\ <<x, y>>[2] = y
    OBVIOUS
  <2> QED
    BY <1>2, <2>1 DEF WaitGraphAcyclic
<1> QED
  BY <1>1, <1>2 DEF Acyclic, WaitGraphAcyclic

(* Dropping edges (unregister_wait) closes no cycle.                       *)
LEMMA FewerEdges ==
  ASSUME NEW graph, Acyclic(graph), NEW less, less \subseteq graph
  PROVE  Acyclic(less)
<1> SUFFICES ASSUME NEW x \in Evaluators, NEW y \in Evaluators, <<x, y>> \in less
             PROVE  x \notin WaitsFor(less, y)
  BY DEF Acyclic
<1>1. x \notin WaitsFor(graph, y)
  BY DEF Acyclic
<1>2. y \in WaitsFor(graph, y) /\ ClosedUnder(graph, Evaluators, WaitsFor(graph, y))
  BY WaitsForCloses
<1>3. ClosedUnder(less, Evaluators, WaitsFor(graph, y))
  BY <1>2 DEF ClosedUnder
<1>4. WaitsFor(less, y) \subseteq WaitsFor(graph, y)
  BY <1>2, <1>3, WaitsForCloses
<1> QED
  BY <1>1, <1>4

(* An edge whose end does not lead back to its start (the walk of          *)
(* register_wait found no path) closes no cycle, whatever stale edges are  *)
(* in the graph.                                                           *)
LEMMA EdgeAdded ==
  ASSUME NEW graph, Acyclic(graph), NEW e \in Evaluators, NEW owner \in Evaluators,
         owner # e, e \notin WaitsFor(graph, owner),
         NEW more, more \subseteq graph \cup {<<e, owner>>}
  PROVE  Acyclic(more)
<1> DEFINE W(y) == WaitsFor(graph, y)
<1>0. \A y \in Evaluators :
         /\ y \in W(y)
         /\ \A u, v \in Evaluators : u \in W(y) /\ <<u, v>> \in graph => v \in W(y)
         /\ \A C : y \in C /\ ClosedUnder(graph, Evaluators, C) => W(y) \subseteq C
         /\ W(y) \subseteq Evaluators
  BY WaitsForCloses DEF ClosedUnder
<1> HIDE DEF W
<1> SUFFICES ASSUME NEW x \in Evaluators, NEW y \in Evaluators, <<x, y>> \in more
             PROVE  x \notin WaitsFor(more, y)
  BY DEF Acyclic
<1>1. ASSUME NEW C, y \in C, ClosedUnder(more, Evaluators, C), x \notin C
      PROVE  x \notin WaitsFor(more, y)
  BY <1>1, WaitsForCloses
<1>2. \A z \in Evaluators : e \notin W(z) => ClosedUnder(more, Evaluators, W(z))
  BY <1>0 DEF ClosedUnder
<1>3. e \notin W(owner)
  BY DEF W
<1>4. CASE x = e /\ y = owner
  BY <1>4, <1>3, <1>2, <1>1, <1>0
<1>5. CASE ~(x = e /\ y = owner)
  <2>1. <<x, y>> \in graph
    BY <1>5
  <2>2. x \notin W(y)
    BY <2>1 DEF Acyclic, W
  <2>3. CASE e \notin W(y)
    BY <2>2, <2>3, <1>2, <1>1, <1>0
  <2>4. CASE e \in W(y)
    <3>1. x \notin W(owner)
      <4> SUFFICES ASSUME x \in W(owner) PROVE FALSE
        OBVIOUS
      <4>1. y \in W(owner)
        BY <2>1, <1>0
      <4>2. ClosedUnder(graph, Evaluators, W(owner))
        BY <1>0 DEF ClosedUnder
      <4>3. W(y) \subseteq W(owner)
        BY <4>1, <4>2, <1>0
      <4> QED
        BY <4>3, <2>4, <1>3
    <3>2. ClosedUnder(more, Evaluators, W(y) \cup W(owner))
      BY <1>0 DEF ClosedUnder
    <3>3. y \in W(y) \cup W(owner) /\ x \notin W(y) \cup W(owner)
      BY <3>1, <2>2, <1>0
    <3> QED
      BY <3>2, <3>3, <1>1
  <2> QED
    BY <2>3, <2>4
<1> QED
  BY <1>4, <1>5

(* No step closes a cycle of the wait graph.                               *)
LEMMA WaitStep == TypeOK /\ Acyclic(waitGraph) /\ [Next]_vars => Acyclic(waitGraph')
<1> SUFFICES ASSUME TypeOK, Acyclic(waitGraph), [Next]_vars
             PROVE  Acyclic(waitGraph')
  OBVIOUS
<1>1. ASSUME NEW e \in Evaluators, NEW t \in Thunks, ProbeWait(e, t)
      PROVE  Acyclic(waitGraph')
  <2> DEFINE owner == state[t].owner
  <2>1. owner \in Evaluators
    BY <1>1, StateFields DEF TypeOK, ProbeWait
  <2>2. owner # e /\ e \notin WaitsFor(waitGraph, owner)
    BY <1>1 DEF ProbeWait
  <2>3. waitGraph' \subseteq waitGraph \cup {<<e, owner>>}
    BY <1>1 DEF ProbeWait
  <2> HIDE DEF owner
  <2> QED
    BY <2>1, <2>2, <2>3, EdgeAdded
<1>2. ASSUME waitGraph' \subseteq waitGraph
      PROVE  Acyclic(waitGraph')
  BY <1>2, FewerEdges
<1>3. ASSUME NEW e \in Evaluators, Step(e)
      PROVE  (\E t \in Thunks : ProbeWait(e, t)) \/ waitGraph' \subseteq waitGraph
  BY <1>3 DEF Step, Probe, Abort, ProbeSettled, ProbeBlackHole, ProbeWaitCycle,
     ProbeFull, Claim, Wake, RunReturn, RunDemand, RunHost, ReturnValue, ReturnAlias,
     Raise, Unwind, DropFrames
<1>4. ASSUME NEW e \in Evaluators, Cancel(e) \/ \E t \in Thunks : BeginForce(e, t)
      PROVE  waitGraph' \subseteq waitGraph
  BY <1>4 DEF Cancel, BeginForce
<1>5. CASE Exhaust \/ UNCHANGED vars
  BY <1>2, <1>5 DEF Exhaust, vars
<1> QED
  BY <1>1, <1>2, <1>3, <1>4, <1>5 DEF Next

(* Nobody waits for itself: the edges of the wait graph, current or stale, *)
(* never close a cycle, whatever the evaluators do between registering,    *)
(* waking and registering again (register_wait walks before it inserts).   *)
THEOREM NobodyWaitsForItself == Spec => []WaitGraphAcyclic
<1> DEFINE I == TypeOK /\ Acyclic(waitGraph)
<1>1. Init => I
  BY InitType DEF Init, Acyclic
<1>2. I /\ [Next]_vars => I'
  BY NextType, WaitStep
<1>3. I => WaitGraphAcyclic
  BY AcyclicWaits DEF TypeOK
<1> QED
  BY <1>1, <1>2, <1>3, PTL DEF Spec

-----------------------------------------------------------------------------
(* What a thunk needs, and the black holes.                                *)

(* Needs is such a walk, along the operands of the program.                *)
LEMMA NeedsWalks ==
  ASSUME NEW t
  PROVE  \E f : /\ IsWalk(f, Operands, Thunks, Onward(Operands, Thunks, {t}),
                          Cardinality(Thunks))
                /\ Needs(t) = f[Cardinality(Thunks)]
<1> DEFINE N == Cardinality(Thunks)
           step(S) == {u \in Thunks : \E v \in S : <<v, u>> \in Operands}
           Reaches(r) ==
             r = [n \in 0..N |-> IF n = 0 THEN step({t}) ELSE r[n - 1] \cup step(r[n - 1])]
           need == CHOOSE r : Reaches(r)
<1>1. N \in Nat
  BY ThunksAssumption, FS_CardinalityType
<1>2. \A r : IsWalk(r, Operands, Thunks, Onward(Operands, Thunks, {t}), N) <=> Reaches(r)
  BY DEF IsWalk, Onward
<1>3. \E r : Reaches(r)
  <2> HIDE DEF N, Reaches
  <2> QED
    BY <1>1, <1>2, WalkExists
<1>4. Reaches(need)
  <2> HIDE DEF Reaches
  <2> QED
    BY <1>3
<1>5. Needs(t) = need[N]
  BY DEF Needs
<1> HIDE DEF need, Reaches
<1> QED
  BY <1>2, <1>4, <1>5

(* Needs(t) is the least set of thunks that has the operands of t and of   *)
(* its own members.                                                        *)
LEMMA NeedsCloses ==
  ASSUME NEW t \in Thunks
  PROVE  /\ Onward(Operands, Thunks, {t}) \subseteq Needs(t)
         /\ Needs(t) \subseteq Thunks
         /\ ClosedUnder(Operands, Thunks, Needs(t))
         /\ \A C : Onward(Operands, Thunks, {t}) \subseteq C /\ ClosedUnder(Operands, Thunks, C)
                     => Needs(t) \subseteq C
<1> DEFINE N == Cardinality(Thunks)
           B == Onward(Operands, Thunks, {t})
<1>1. N \in Nat /\ N \in 0..N
  BY ThunksAssumption, FS_CardinalityType
<1>2. PICK f : IsWalk(f, Operands, Thunks, B, N) /\ Needs(t) = f[N]
  BY NeedsWalks
<1>3. B \subseteq Thunks
  BY DEF Onward
<1>5. WalkGrows(f, Operands, Thunks, B, N)
  <2> HIDE DEF B, N
  <2> QED
    BY <1>1, <1>2, <1>3, WalkSteps
<1>6. \A C : B \subseteq C /\ ClosedUnder(Operands, Thunks, C)
               => \A n \in 0..N : f[n] \subseteq C
  <2> HIDE DEF B, N
  <2> QED
    BY <1>1, <1>2, <1>3, WalkSteps
<1>4. ClosedUnder(Operands, Thunks, f[N])
  <2>1. CASE B # {}
    <3> HIDE DEF B
    <3> QED
      BY <2>1, <1>1, <1>2, <1>3, ThunksAssumption, WalkCloses
  <2>2. CASE B = {}
    <3>1. ClosedUnder(Operands, Thunks, {})
      BY DEF ClosedUnder
    <3>2. f[N] = {}
      <4> HIDE DEF B, N
      <4> QED
        BY <1>1, <1>6, <2>2, <3>1
    <3> QED
      BY <3>1, <3>2
  <2> QED
    BY <2>1, <2>2
<1> HIDE DEF N, B
<1>7. B \subseteq f[N] /\ f[N] \subseteq Thunks
  BY <1>1, <1>5 DEF WalkGrows
<1>8. \A C : B \subseteq C /\ ClosedUnder(Operands, Thunks, C) => f[N] \subseteq C
  BY <1>1, <1>6
<1> QED
  BY <1>2, <1>4, <1>7, <1>8 DEF B

(* The codes that force their operand.                                     *)
OperandOps == {"Alias", "Demand", "Native"}

(* What a thunk needs includes its operand and is transitive.              *)
LEMMA NeedsFacts ==
  ASSUME TypeOK, NEW t \in Thunks
  PROVE  /\ Needs(t) \subseteq Thunks
         /\ program[t].op \in OperandOps => program[t].arg \in Needs(t)
         /\ \A u \in Needs(t) : Needs(u) \subseteq Needs(t)
<1>1. program[t].arg \in Thunks
  BY DEF TypeOK, Codes
<1>2. ASSUME program[t].op \in OperandOps PROVE program[t].arg \in Needs(t)
  <2>1. <<t, program[t].arg>> \in Operands
    BY <1>2 DEF Operands, OperandOps
  <2> QED
    BY <1>1, <2>1, NeedsCloses DEF Onward
<1>3. ASSUME NEW u \in Needs(t) PROVE Needs(u) \subseteq Needs(t)
  <2>1. u \in Thunks /\ ClosedUnder(Operands, Thunks, Needs(t))
    BY NeedsCloses
  <2>2. Onward(Operands, Thunks, {u}) \subseteq Needs(t)
    BY <2>1 DEF Onward, ClosedUnder
  <2> QED
    BY <2>1, <2>2, NeedsCloses
<1> QED
  BY <1>2, <1>3, NeedsCloses

(* Who needs a thunk on a dependency cycle depends on that cycle too.      *)
LEMMA CycleIsNeeded ==
  ASSUME TypeOK, NEW t \in Thunks, NEW u \in Needs(t) \cup {t}, DependsOnItself(u)
  PROVE  DependsOnItself(t)
<1>1. u \in Thunks
  BY NeedsFacts
<1>2. PICK v \in Needs(u) \cup {u} : v \in Needs(v)
  BY DEF DependsOnItself
<1>3. v \in Needs(t) \cup {t}
  BY <1>1, <1>2, NeedsFacts
<1> QED
  BY <1>2, <1>3 DEF DependsOnItself

(* The code of a thunk never changes, so neither does what it needs.       *)
LEMMA NeedsKept ==
  ASSUME UNCHANGED program
  PROVE  \A t : Needs(t)' = Needs(t)
BY DEF Needs, Operands

(* The code of a thunk never changes, so neither do its cycles.            *)
LEMMA DependenceKept ==
  ASSUME UNCHANGED program
  PROVE  \A t : (DependsOnItself(t))' = DependsOnItself(t)
BY NeedsKept DEF DependsOnItself

(* The thunks whose frames are on the stack s.                             *)
HeldBy(s) == {s[i].thunk : i \in 1..Len(s)}

(* The controls that are about to look at a thunk, and those of an error.  *)
Seeking == {"enter", "probe", "wait", "alias"}
FailingPcs == {"raise", "unwind", "drop"}

(* What an evaluator does is justified by the program: every thunk with    *)
(* a frame on its stack, and the thunk it was asked to force, needs the    *)
(* thunk it looks at; and when it fails with a black hole, all of them     *)
(* depend on themselves.                                                   *)
Justified(c, held, r) ==
    /\ c.pc \in Seeking =>
         /\ \A h \in held : c.thunk \in Needs(h)
         /\ c.thunk \in Needs(r) \cup {r}
    /\ c.pc \in {"run", "host"} => \A h \in held \cup {r} : c.thunk \in Needs(h) \cup {h}
    /\ c.pc \in FailingPcs /\ c.error = "black hole" =>
         \A h \in held \cup {r} : DependsOnItself(h)

(* The invariant behind the black holes: every control is justified, an    *)
(* indirection leads to a thunk that is needed, and wherever the error     *)
(* "black hole" is memoized or returned there is a dependency cycle.       *)
ControlsJustified ==
    \A e \in Evaluators : Justified(control[e], HeldBy(stack[e]), root[e])
CellJustified(t, s) ==
    /\ s.tag = "Indirection" => s.target \in Needs(t)
    /\ s.tag = "Failed" /\ s.error = "black hole" => DependsOnItself(t)
CellsJustified == \A t \in Thunks : CellJustified(t, state[t])
ResultsJustified ==
    \A e \in Evaluators :
        result[e].tag = "err" /\ result[e].error = "black hole" =>
            DependsOnItself(result[e].thunk)
AllJustified == ControlsJustified /\ CellsJustified /\ ResultsJustified

(* How popping, pushing and dropping a frame change the thunks held.       *)
LEMMA HeldFrames ==
  ASSUME NEW s \in Seq(Frames)
  PROVE  /\ HeldBy(s) \subseteq Thunks
         /\ s # <<>> => Top(s).thunk \in HeldBy(s)
         /\ s # <<>> => HeldBy(Pop(s)) \subseteq HeldBy(s)
         /\ \A k \in {"Update", "Demand", "Native"}, t \in Thunks :
              HeldBy(Push(s, k, t)) \subseteq HeldBy(s) \cup {t}
         /\ \A i \in 1..Len(s) : HeldBy(RemoveAt(s, i)) \subseteq HeldBy(s)
<1>1. Len(s) \in Nat /\ \A i \in 1..Len(s) : s[i] \in Frames
  BY LenProperties, ElementOfSeq
<1>2. HeldBy(s) \subseteq Thunks
  BY <1>1 DEF HeldBy, Frames
<1>3. ASSUME s # <<>>
      PROVE  Top(s).thunk \in HeldBy(s) /\ HeldBy(Pop(s)) \subseteq HeldBy(s)
  <2>1. /\ Len(s) \in Nat \ {0}
        /\ Len(Pop(s)) = Len(s) - 1
        /\ \A i \in 1..Len(Pop(s)) : Pop(s)[i] = s[i]
    BY <1>3, PopFrame
  <2> QED
    BY <2>1 DEF HeldBy, Top
<1>4. ASSUME NEW k \in {"Update", "Demand", "Native"}, NEW t \in Thunks
      PROVE  HeldBy(Push(s, k, t)) \subseteq HeldBy(s) \cup {t}
  <2> DEFINE p == Push(s, k, t)
  <2>1. /\ Len(p) = Len(s) + 1
        /\ \A i \in 1..Len(s) : p[i] = s[i]
        /\ p[Len(s) + 1] = [kind |-> k, thunk |-> t]
    BY PushFrame
  <2> HIDE DEF p
  <2>2. \A i \in 1..Len(p) : p[i].thunk \in HeldBy(s) \cup {t}
    BY <1>1, <2>1 DEF HeldBy
  <2>3. HeldBy(p) \subseteq HeldBy(s) \cup {t}
    BY <2>2 DEF HeldBy
  <2> QED
    BY <2>3 DEF p
<1>5. ASSUME NEW i \in 1..Len(s) PROVE HeldBy(RemoveAt(s, i)) \subseteq HeldBy(s)
  <2> DEFINE r == RemoveAt(s, i)
  <2>1. /\ Len(r) = Len(s) - 1
        /\ \A j \in 1..(Len(s) - 1) : r[j] = IF j < i THEN s[j] ELSE s[j + 1]
    BY RemoveFrameAt
  <2> HIDE DEF r
  <2>2. \A j \in 1..Len(r) : r[j].thunk \in HeldBy(s)
    BY <1>1, <2>1 DEF HeldBy
  <2>3. HeldBy(r) \subseteq HeldBy(s)
    BY <2>2 DEF HeldBy
  <2> QED
    BY <2>3 DEF r
<1> QED
  BY <1>2, <1>3, <1>4, <1>5

(* When only e moves, and is justified where it arrives, every evaluator   *)
(* is justified.                                                           *)
LEMMA ControlsKept ==
  ASSUME ControlsJustified, UNCHANGED program, NEW e \in Evaluators,
         \A f \in Evaluators \ {e} :
            control'[f] = control[f] /\ stack'[f] = stack[f] /\ root'[f] = root[f],
         Justified(control'[e], HeldBy(stack'[e]), root'[e])
  PROVE  ControlsJustified'
<1> SUFFICES ASSUME NEW f \in Evaluators
             PROVE  Justified(control[f], HeldBy(stack[f]), root[f])'
  BY DEF ControlsJustified
<1>1. Justified(control'[f], HeldBy(stack'[f]), root'[f])
  <2>1. CASE f = e
    BY <2>1
  <2>2. CASE f # e
    BY <2>2 DEF ControlsJustified
  <2> QED
    BY <2>1, <2>2
<1> QED
  BY <1>1, NeedsKept, DependenceKept DEF Justified, HeldBy

(* Cells that stay, or are justified where they change, are justified.     *)
LEMMA CellsKept ==
  ASSUME CellsJustified, UNCHANGED program,
         \A t \in Thunks : state'[t] = state[t] \/ CellJustified(t, state'[t])
  PROVE  CellsJustified'
BY NeedsKept, DependenceKept DEF CellsJustified, CellJustified

(* The same for the results of the forces.                                 *)
LEMMA ResultsKept ==
  ASSUME ResultsJustified, UNCHANGED program,
         \A e \in Evaluators : \/ result'[e] = result[e]
                               \/ result'[e].tag = "err" /\ result'[e].error = "black hole" =>
                                     DependsOnItself(result'[e].thunk)
  PROVE  ResultsJustified'
BY DependenceKept DEF ResultsJustified

(* When a control of each form is justified.                               *)
LEMMA JustifiedBuilt ==
  ASSUME NEW held, NEW r
  PROVE  /\ Justified(Idle, held, r)
         /\ \A t : Justified(At("value", t), held, r)
         /\ \A pc \in Seeking : \A t :
              (\A h \in held : t \in Needs(h)) /\ t \in Needs(r) \cup {r}
              => Justified(At(pc, t), held, r)
         /\ \A pc \in {"run", "host"} : \A t :
              (\A h \in held \cup {r} : t \in Needs(h) \cup {h})
              => Justified(At(pc, t), held, r)
         /\ \A pc \in FailingPcs : \A err :
              (err = "black hole" => \A h \in held \cup {r} : DependsOnItself(h))
              => Justified(Failing(pc, err), held, r)
<1>1. Justified(Idle, held, r)
  BY DEF Justified, Seeking, FailingPcs, Idle
<1>2. \A t : Justified(At("value", t), held, r)
  BY DEF Justified, Seeking, FailingPcs, At
<1>3. ASSUME NEW pc \in Seeking, NEW t,
             \A h \in held : t \in Needs(h), t \in Needs(r) \cup {r}
      PROVE  Justified(At(pc, t), held, r)
  BY <1>3 DEF Justified, Seeking, FailingPcs, At
<1>4. ASSUME NEW pc \in {"run", "host"}, NEW t,
             \A h \in held \cup {r} : t \in Needs(h) \cup {h}
      PROVE  Justified(At(pc, t), held, r)
  BY <1>4 DEF Justified, Seeking, FailingPcs, At
<1>5. ASSUME NEW pc \in FailingPcs, NEW err,
             err = "black hole" => \A h \in held \cup {r} : DependsOnItself(h)
      PROVE  Justified(Failing(pc, err), held, r)
  BY <1>5 DEF Justified, Seeking, FailingPcs, Failing
<1> QED
  BY <1>1, <1>2, <1>3, <1>4, <1>5, Zenon

(* A control stays justified when frames leave its stack.                  *)
LEMMA FewerFrames ==
  ASSUME NEW c, NEW held, NEW r, Justified(c, held, r), NEW less, less \subseteq held
  PROVE  Justified(c, less, r)
BY DEF Justified

(* Leaving a machine, with a value or an error, is justified.              *)
LEMMA ReturnJustified ==
  ASSUME TypeOK, AllJustified, UNCHANGED <<program, state, root>>, NEW e \in Evaluators,
         \/ \E v \in Thunks : ReturnOk(e, v)
         \/ ReturnErr(e, control[e].error) /\ control[e].pc \in FailingPcs
  PROVE  AllJustified'
<1> DEFINE s == stack[e]
<1>0. s \in Seq(Frames) /\ Justified(control[e], HeldBy(s), root[e])
  BY DEF TypeOK, AllJustified, ControlsJustified
<1>1. CellsJustified'
  BY CellsKept DEF AllJustified
<1>2. CASE \E v \in Thunks : ReturnOk(e, v)
  <2>1. PICK v \in Thunks : ReturnOk(e, v)
    BY <1>2
  <2>2. /\ \A f \in Evaluators \ {e} : control'[f] = control[f] /\ stack'[f] = stack[f]
        /\ control'[e] = Idle \/ \E t : control'[e] = At("value", t)
    BY <2>1 DEF ReturnOk, TypeOK
  <2>3. Justified(control'[e], HeldBy(stack'[e]), root'[e])
    BY <2>2, JustifiedBuilt
  <2>4. ControlsJustified'
    BY <2>2, <2>3, ControlsKept DEF AllJustified
  <2>5. \A f \in Evaluators : result'[f] = result[f] \/ result'[f].tag = "ok"
    BY <2>1 DEF ReturnOk, TypeOK
  <2>6. ResultsJustified'
    BY <2>5, ResultsKept DEF AllJustified
  <2> QED
    BY <1>1, <2>4, <2>6 DEF AllJustified
<1>3. CASE ReturnErr(e, control[e].error) /\ control[e].pc \in FailingPcs
  <2> DEFINE err == control[e].error
  <2>1. err = "black hole" => \A h \in HeldBy(s) \cup {root[e]} : DependsOnItself(h)
    BY <1>0, <1>3 DEF Justified
  <2>2. CASE s = <<>>
    <3>1. control'[e] = Idle /\ stack' = stack
      BY <1>3, <2>2 DEF ReturnErr, TypeOK
    <3>2. Justified(control'[e], HeldBy(stack'[e]), root'[e])
      BY <3>1 DEF Justified, Seeking, FailingPcs, Idle
    <3>3. ControlsJustified'
      BY <1>3, <2>2, <3>2, ControlsKept DEF ReturnErr, AllJustified, TypeOK
    <3>4. result' = [result EXCEPT ![e] = [tag |-> "err", thunk |-> root[e], error |-> err]]
      BY <1>3, <2>2 DEF ReturnErr
    <3>5. ResultsJustified'
      BY <2>1, <3>4, ResultsKept DEF AllJustified, TypeOK
    <3> QED
      BY <1>1, <3>3, <3>5 DEF AllJustified
  <2>3. CASE s # <<>>
    <3>1. control'[e] = Failing("raise", err) /\ stack'[e] = Pop(s) /\ result' = result
      BY <1>3, <2>3 DEF ReturnErr, TypeOK
    <3>2. HeldBy(Pop(s)) \subseteq HeldBy(s)
      BY <1>0, <2>3, HeldFrames
    <3>3. Justified(control'[e], HeldBy(stack'[e]), root'[e])
      <4>1. err = "black hole" => \A h \in HeldBy(Pop(s)) \cup {root[e]} : DependsOnItself(h)
        BY <2>1, <3>2
      <4>2. "raise" \in FailingPcs
        BY DEF FailingPcs
      <4> HIDE DEF err, s
      <4>3. Justified(Failing("raise", err), HeldBy(Pop(s)), root[e])
        BY <4>1, <4>2, JustifiedBuilt
      <4> QED
        BY <3>1, <4>3
    <3>4. ControlsJustified'
      BY <1>3, <2>3, <3>3, ControlsKept DEF ReturnErr, AllJustified, TypeOK
    <3>5. ResultsJustified'
      BY <3>1, ResultsKept DEF AllJustified
    <3> QED
      BY <1>1, <3>4, <3>5 DEF AllJustified
  <2> QED
    BY <2>2, <2>3
<1> QED
  BY <1>2, <1>3

(* At the start there is nothing to justify.                               *)
LEMMA InitJustified == Init => AllJustified
<1> SUFFICES ASSUME Init PROVE AllJustified
  OBVIOUS
<1>1. ControlsJustified
  BY DEF Init, ControlsJustified, Justified, Seeking, FailingPcs, Idle
<1>2. CellsJustified
  BY DEF Init, CellsJustified, CellJustified
<1>3. ResultsJustified
  BY DEF Init, ResultsJustified
<1> QED
  BY <1>1, <1>2, <1>3 DEF AllJustified

(* A step that publishes nothing needs only its own control justified.     *)
LEMMA OnlyControl ==
  ASSUME TypeOK, AllJustified, UNCHANGED <<program, state, result>>, NEW e \in Evaluators,
         NEW c, control' = [control EXCEPT ![e] = c],
         NEW s, stack' = [stack EXCEPT ![e] = s] \/ (UNCHANGED stack /\ s = stack[e]),
         UNCHANGED root,
         Justified(c, HeldBy(s), root[e])
  PROVE  AllJustified'
<1>1. control'[e] = c /\ stack'[e] = s
  BY DEF TypeOK
<1>2. ControlsJustified'
  BY <1>1, ControlsKept DEF AllJustified, TypeOK
<1>3. CellsJustified' /\ ResultsJustified'
  BY CellsKept, ResultsKept DEF AllJustified
<1> QED
  BY <1>2, <1>3 DEF AllJustified

(* Every step of the machine loop is justified, one action at a time.      *)
LEMMA StepJustified ==
  ASSUME TypeOK, Ownership, AllJustified, NEW e \in Evaluators, Step(e)
  PROVE  AllJustified'
<1> DEFINE s == stack[e]
           c == control[e]
           held == HeldBy(s)
<1>1. /\ s \in Seq(Frames) /\ c \in Controls /\ root[e] \in Thunks
      /\ held \subseteq Thunks
      /\ Justified(c, held, root[e])
  BY HeldFrames DEF TypeOK, AllJustified, ControlsJustified
<1>2. UNCHANGED <<program, root>>
  BY DEF Step, Probe, Abort, ProbeSettled, ProbeBlackHole, ProbeWaitCycle, ProbeWait,
     ProbeFull, Claim, Wake, RunReturn, RunDemand, RunHost, ReturnValue, ReturnAlias,
     Raise, Unwind, DropFrames
<1>3. /\ \A h \in Thunks : \A u \in Needs(h) : u \in Thunks /\ Needs(u) \subseteq Needs(h)
      /\ \A h \in Thunks : program[h].op \in OperandOps => program[h].arg \in Needs(h)
      /\ \A h \in Thunks : program[h] \in Codes /\ program[h].arg \in Thunks
  BY NeedsFacts DEF TypeOK, Codes
<1>4. c.pc \in Seeking => /\ c.thunk \in Thunks
                          /\ \A h \in held : c.thunk \in Needs(h)
                          /\ c.thunk \in Needs(root[e]) \cup {root[e]}
  BY <1>1, <1>3 DEF Justified
<1>5. c.pc \in {"run", "host"} => /\ c.thunk \in Thunks
                                  /\ \A h \in held \cup {root[e]} : c.thunk \in Needs(h) \cup {h}
  BY <1>1, <1>3 DEF Justified
<1>6. c.pc \in FailingPcs /\ c.error = "black hole" =>
        \A h \in held \cup {root[e]} : DependsOnItself(h)
  BY <1>1 DEF Justified
<1>7. CellsJustified /\ ResultsJustified
  BY DEF AllJustified
(* an error other than a black hole                                        *)
<1>8. ASSUME NEW pc \in FailingPcs, NEW err, err # "black hole",
             control' = [control EXCEPT ![e] = Failing(pc, err)],
             UNCHANGED <<state, stack, result>>
      PROVE  AllJustified'
  <2>1. Justified(Failing(pc, err), held, root[e])
    BY <1>8, JustifiedBuilt
  <2> QED
    BY <1>2, <1>8, <2>1, OnlyControl
<1>10. CASE Abort(e)
  <2>1. "drop" \in FailingPcs
    BY DEF FailingPcs
  <2>2. PICK err \in {"step limit", "cancelled"} :
          control' = [control EXCEPT ![e] = Failing("drop", err)]
    BY <1>10 DEF Abort
  <2>3. err # "black hole" /\ UNCHANGED <<state, stack, result>>
    BY <1>10 DEF Abort
  <2> QED
    BY <1>8, <2>1, <2>2, <2>3
<1>11. ASSUME NEW t \in Thunks, Probing(e, t)
       PROVE  /\ \A h \in held : t \in Needs(h)
              /\ t \in Needs(root[e]) \cup {root[e]}
  BY <1>4, <1>11 DEF Probing, At, Seeking
<1>12. ASSUME NEW t \in Thunks, ProbeSettled(e, t)
       PROVE  AllJustified'
  <2>1. /\ \A h \in held : t \in Needs(h)
        /\ t \in Needs(root[e]) \cup {root[e]}
    BY <1>11, <1>12 DEF ProbeSettled
  <2>2. UNCHANGED <<state, stack, result>> /\ Resolved(state[t])
    BY <1>12 DEF ProbeSettled
  <2>3. CASE state[t].tag = "Evaluated"
    <3>1. control' = [control EXCEPT ![e] = At("value", state[t].value)]
      BY <1>12, <2>3 DEF ProbeSettled
    <3>2. Justified(At("value", state[t].value), held, root[e])
      BY JustifiedBuilt
    <3> QED
      BY <1>2, <2>2, <3>1, <3>2, OnlyControl
  <2>4. CASE state[t].tag = "Indirection"
    <3>1. control' = [control EXCEPT ![e] = At("probe", state[t].target)]
      BY <1>12, <2>4 DEF ProbeSettled
    <3>2. state[t].target \in Needs(t)
      BY <1>7, <2>4 DEF CellsJustified, CellJustified
    <3>3. /\ \A h \in held : state[t].target \in Needs(h)
          /\ state[t].target \in Needs(root[e]) \cup {root[e]}
      BY <1>1, <1>3, <2>1, <3>2
    <3>4. Justified(At("probe", state[t].target), held, root[e])
      BY <3>3, JustifiedBuilt DEF Seeking
    <3> QED
      BY <1>2, <2>2, <3>1, <3>4, OnlyControl
  <2>5. CASE state[t].tag = "Failed"
    <3>1. control' = [control EXCEPT ![e] = Failing("raise", state[t].error)]
      BY <1>12, <2>5 DEF ProbeSettled
    <3>2. state[t].error = "black hole" => DependsOnItself(t)
      BY <1>7, <2>5 DEF CellsJustified, CellJustified
    <3>3. state[t].error = "black hole" =>
            \A h \in held \cup {root[e]} : DependsOnItself(h)
      BY <1>1, <2>1, <3>2, CycleIsNeeded
    <3>4. Justified(Failing("raise", state[t].error), held, root[e])
      BY <3>3, JustifiedBuilt DEF FailingPcs
    <3> QED
      BY <1>2, <2>2, <3>1, <3>4, OnlyControl
  <2> QED
    BY <2>2, <2>3, <2>4, <2>5 DEF Resolved
<1>13. ASSUME NEW t \in Thunks, ProbeBlackHole(e, t)
       PROVE  AllJustified'
  <2>1. /\ \A h \in held : t \in Needs(h)
        /\ t \in Needs(root[e]) \cup {root[e]}
    BY <1>11, <1>13 DEF ProbeBlackHole
  <2>2. state[t] = OwnedBy(e)
    BY <1>13 DEF ProbeBlackHole, IsBlackHole, OwnedBy, TypeOK, ThunkStates
  <2>3. t \in held
    BY <2>2 DEF Ownership, OwnersHold, HeldBy, Updates
  <2>4. DependsOnItself(t)
    BY <2>1, <2>3 DEF DependsOnItself
  <2>5. \A h \in held \cup {root[e]} : DependsOnItself(h)
    BY <1>1, <2>1, <2>4, CycleIsNeeded
  <2>6. Justified(Failing("raise", "black hole"), held, root[e])
    BY <2>5, JustifiedBuilt DEF FailingPcs
  <2>7. control' = [control EXCEPT ![e] = Failing("raise", "black hole")]
        /\ UNCHANGED <<state, stack, result>>
    BY <1>13 DEF ProbeBlackHole
  <2> QED
    BY <1>2, <2>6, <2>7, OnlyControl
<1>14. ASSUME NEW t \in Thunks, ProbeWaitCycle(e, t) \/ ProbeFull(e, t)
       PROVE  AllJustified'
  BY <1>14, <1>8 DEF ProbeWaitCycle, ProbeFull, FailingPcs
<1>15. ASSUME NEW t \in Thunks, ProbeWait(e, t)
       PROVE  AllJustified'
  <2>1. /\ \A h \in held : t \in Needs(h)
        /\ t \in Needs(root[e]) \cup {root[e]}
    BY <1>11, <1>15 DEF ProbeWait
  <2>2. Justified(At("wait", t), held, root[e])
    BY <2>1, JustifiedBuilt DEF Seeking
  <2>3. control' = [control EXCEPT ![e] = At("wait", t)] /\ UNCHANGED <<state, stack, result>>
    BY <1>15 DEF ProbeWait
  <2> QED
    BY <1>2, <2>2, <2>3, OnlyControl
<1>16. ASSUME NEW t \in Thunks, Claim(e, t)
       PROVE  AllJustified'
  <2>1. /\ \A h \in held : t \in Needs(h)
        /\ t \in Needs(root[e]) \cup {root[e]}
    BY <1>11, <1>16 DEF Claim
  <2>2. PICK pc \in {"run", "host"} : control' = [control EXCEPT ![e] = At(pc, t)]
    BY <1>16 DEF Claim
  <2> DEFINE p == Push(s, "Update", t)
  <2>3. HeldBy(p) \subseteq held \cup {t}
    BY <1>1, HeldFrames
  <2>4. Justified(At(pc, t), HeldBy(p), root[e])
    BY <2>1, <2>3, JustifiedBuilt
  <2>5. stack' = [stack EXCEPT ![e] = p] /\ UNCHANGED result
    BY <1>16 DEF Claim
  <2>6. ControlsJustified'
    BY <1>2, <2>2, <2>4, <2>5, ControlsKept DEF AllJustified, TypeOK
  <2>7. state' = [state EXCEPT ![t] = [tag |-> "Evaluating", owner |-> e]]
    BY <1>16 DEF Claim
  <2>8. \A u \in Thunks : state'[u] = state[u] \/ state'[u].tag = "Evaluating"
    BY <2>7 DEF TypeOK
  <2>9. CellsJustified'
    BY <1>2, <1>7, <2>8, CellsKept DEF CellJustified
  <2>10. ResultsJustified'
    BY <1>2, <1>7, <2>5, ResultsKept
  <2> QED
    BY <2>6, <2>9, <2>10 DEF AllJustified
<1>17. CASE Wake(e)
  <2>0. c.pc \in Seeking
    BY <1>17 DEF Wake, Seeking
  <2>1. UNCHANGED <<state, stack, result>>
    BY <1>17 DEF Wake
  <2>2. CASE e \in cancelled
    BY <1>17, <2>2, <1>8 DEF Wake, FailingPcs
  <2>3. CASE e \notin cancelled
    <3>1. control' = [control EXCEPT ![e] = At("probe", c.thunk)]
      BY <1>17, <2>3 DEF Wake
    <3>2. Justified(At("probe", c.thunk), held, root[e])
      BY <1>4, <2>0, JustifiedBuilt DEF Seeking
    <3> QED
      BY <1>2, <2>1, <3>1, <3>2, OnlyControl
  <2> QED
    BY <2>2, <2>3
(* the operand of the claimed thunk                                        *)
<1>18. ASSUME c.pc \in {"run", "host"}, program[c.thunk].op \in OperandOps
       PROVE  /\ \A h \in held \cup {c.thunk} : program[c.thunk].arg \in Needs(h)
              /\ program[c.thunk].arg \in Needs(root[e])
  BY <1>1, <1>3, <1>5, <1>18
<1>19. CASE RunReturn(e)
  <2>1. UNCHANGED <<state, stack, result>> /\ c.pc = "run" /\ program[c.thunk].op # "Demand"
    BY <1>19 DEF RunReturn
  <2>2. CASE program[c.thunk].op = "Value"
    <3>1. control' = [control EXCEPT ![e] = At("value", c.thunk)]
      BY <1>19, <2>2 DEF RunReturn
    <3>2. Justified(At("value", c.thunk), held, root[e])
      BY JustifiedBuilt
    <3> QED
      BY <1>2, <2>1, <3>1, <3>2, OnlyControl
  <2>3. CASE program[c.thunk].op = "Alias"
    <3>1. control' = [control EXCEPT ![e] = At("alias", program[c.thunk].arg)]
      BY <1>19, <2>3 DEF RunReturn
    <3>2. Justified(At("alias", program[c.thunk].arg), held, root[e])
      BY <1>18, <2>1, <2>3, JustifiedBuilt DEF OperandOps, Seeking
    <3> QED
      BY <1>2, <2>1, <3>1, <3>2, OnlyControl
  <2>4. CASE program[c.thunk].op \notin {"Value", "Alias"}
    <3>1. control' = [control EXCEPT ![e] = Failing("raise", "user")]
      BY <1>19, <2>4 DEF RunReturn
    <3> QED
      BY <1>8, <2>1, <3>1 DEF FailingPcs
  <2> QED
    BY <2>2, <2>3, <2>4
(* entering that operand below a new frame                                 *)
<1>20. ASSUME c.pc \in {"run", "host"}, program[c.thunk].op \in OperandOps,
              NEW k \in {"Demand", "Native"}, stack' = [stack EXCEPT ![e] = Push(s, k, c.thunk)],
              control' = [control EXCEPT ![e] = At("enter", program[c.thunk].arg)],
              UNCHANGED <<state, result>>
       PROVE  AllJustified'
  <2>1. HeldBy(Push(s, k, c.thunk)) \subseteq held \cup {c.thunk}
    BY <1>1, <1>5, <1>20, HeldFrames
  <2>2. Justified(At("enter", program[c.thunk].arg), HeldBy(Push(s, k, c.thunk)), root[e])
    BY <1>18, <1>20, <2>1, JustifiedBuilt DEF Seeking
  <2> QED
    BY <1>2, <1>20, <2>2, OnlyControl
<1>21. CASE RunDemand(e)
  <2>1. CASE Full(e)
    BY <1>21, <2>1, <1>8 DEF RunDemand, FailingPcs
  <2>2. CASE ~Full(e)
    BY <1>21, <2>2, <1>20 DEF RunDemand, OperandOps
  <2> QED
    BY <2>1, <2>2
<1>22. CASE RunHost(e)
  <2>1. CASE program[c.thunk].op = "Native"
    BY <1>22, <2>1, <1>20 DEF RunHost, OperandOps
  <2>2. CASE program[c.thunk].op # "Native"
    BY <1>22, <2>2, <1>8 DEF RunHost, FailingPcs
  <2> QED
    BY <2>1, <2>2
<1>23. CASE Raise(e)
  <2>1. c.pc \in FailingPcs /\ control' = [control EXCEPT ![e] = Failing("unwind", c.error)]
        /\ UNCHANGED <<state, stack, result>>
    BY <1>23 DEF Raise, FailingPcs
  <2>2. Justified(Failing("unwind", c.error), held, root[e])
    BY <1>6, <2>1, JustifiedBuilt DEF FailingPcs
  <2> QED
    BY <1>2, <2>1, <2>2, OnlyControl
(* popping the top frame, whose thunk may be settled                       *)
<1>24. ASSUME s # <<>>, stack' = [stack EXCEPT ![e] = Pop(s)],
              UNCHANGED control \/ \E t : \E pc \in {"value", "enter"} :
                 /\ control' = [control EXCEPT ![e] = At(pc, t)]
                 /\ pc = "enter" => c.pc = "alias" /\ t = c.thunk,
              NEW cell, CellJustified(Top(s).thunk, cell),
              UNCHANGED state \/ state' = [state EXCEPT ![Top(s).thunk] = cell],
              UNCHANGED result
       PROVE  AllJustified'
  <2>1. HeldBy(Pop(s)) \subseteq held
    BY <1>1, <1>24, HeldFrames
  <2>2. Justified(c, HeldBy(Pop(s)), root[e])
    BY <1>1, <2>1, FewerFrames
  <2>3. Justified(control'[e], HeldBy(Pop(s)), root[e])
    <3>1. CASE UNCHANGED control
      BY <2>2, <3>1
    <3>2. ASSUME NEW t, control' = [control EXCEPT ![e] = At("value", t)]
          PROVE  Justified(control'[e], HeldBy(Pop(s)), root[e])
      <4>1. control'[e] = At("value", t)
        BY <3>2 DEF TypeOK
      <4> QED
        BY <4>1, JustifiedBuilt
    <3>3. ASSUME c.pc = "alias", control' = [control EXCEPT ![e] = At("enter", c.thunk)]
          PROVE  Justified(control'[e], HeldBy(Pop(s)), root[e])
      <4>1. control'[e] = At("enter", c.thunk)
        BY <3>3 DEF TypeOK
      <4>2. /\ \A h \in HeldBy(Pop(s)) : c.thunk \in Needs(h)
            /\ c.thunk \in Needs(root[e]) \cup {root[e]}
        BY <1>4, <2>1, <3>3 DEF Seeking
      <4> QED
        BY <4>1, <4>2, JustifiedBuilt DEF Seeking
    <3> QED
      BY <1>24, <3>1, <3>2, <3>3
  <2>4. stack'[e] = Pop(s) /\ \A f \in Evaluators \ {e} :
                                 control'[f] = control[f] /\ stack'[f] = stack[f]
    BY <1>24 DEF TypeOK
  <2>5. ControlsJustified'
    BY <1>2, <2>3, <2>4, ControlsKept DEF AllJustified
  <2>6. \A t \in Thunks : state'[t] = state[t] \/ CellJustified(t, state'[t])
    BY <1>24 DEF TypeOK
  <2>7. CellsJustified' /\ ResultsJustified'
    BY <1>2, <1>7, <1>24, <2>6, CellsKept, ResultsKept
  <2> QED
    BY <2>5, <2>7 DEF AllJustified
<1>25. CASE ReturnValue(e)
  <2>1. CASE MachineEmpty(s)
    <3>1. c.thunk \in Thunks
      BY <1>1, <1>25, ControlFields DEF ReturnValue, ThunkPcs, LoopPcs
    <3> QED
      BY <1>2, <1>25, <2>1, <3>1, ReturnJustified DEF ReturnValue
  <2>2. CASE ~MachineEmpty(s)
    <3> DEFINE cell == [tag |-> "Evaluated", value |-> c.thunk]
    <3>1. CellJustified(Top(s).thunk, cell)
      BY DEF CellJustified
    <3>2. s # <<>>
      BY <2>2 DEF MachineEmpty
    <3>3. UNCHANGED state \/ state' = [state EXCEPT ![Top(s).thunk] = cell]
      BY <1>25, <2>2 DEF ReturnValue
    <3>4. UNCHANGED control \/ control' = [control EXCEPT ![e] = At("value", Top(s).thunk)]
      BY <1>25, <2>2 DEF ReturnValue
    <3>5. stack' = [stack EXCEPT ![e] = Pop(s)] /\ UNCHANGED result
      BY <1>25, <2>2 DEF ReturnValue
    <3> HIDE DEF cell
    <3> QED
      BY <1>24, <3>1, <3>2, <3>3, <3>4, <3>5
  <2> QED
    BY <2>1, <2>2
<1>26. CASE ReturnAlias(e)
  <2>1. c.pc = "alias" /\ control' = [control EXCEPT ![e] = At("enter", c.thunk)]
        /\ UNCHANGED result
    BY <1>26 DEF ReturnAlias
  <2>2. CASE s # <<>> /\ Top(s).kind = "Update"
    <3> DEFINE cell == [tag |-> "Indirection", target |-> c.thunk]
    <3>1. c.thunk \in Needs(Top(s).thunk)
      BY <1>1, <1>4, <2>1, <2>2, HeldFrames DEF Seeking
    <3>2. CellJustified(Top(s).thunk, cell)
      BY <3>1 DEF CellJustified
    <3>3. stack' = [stack EXCEPT ![e] = Pop(s)] /\ state' = [state EXCEPT ![Top(s).thunk] = cell]
      BY <1>26, <2>2 DEF ReturnAlias
    <3> HIDE DEF cell
    <3> QED
      BY <1>24, <2>1, <2>2, <3>2, <3>3
  <2>3. CASE ~(s # <<>> /\ Top(s).kind = "Update")
    <3>1. UNCHANGED <<state, stack>>
      BY <1>26, <2>3 DEF ReturnAlias
    <3>2. Justified(At("enter", c.thunk), held, root[e])
      BY <1>4, <2>1, JustifiedBuilt DEF Seeking
    <3> QED
      BY <1>2, <2>1, <3>1, <3>2, OnlyControl
  <2> QED
    BY <2>2, <2>3
<1>27. CASE Unwind(e)
  <2>0. c.pc \in FailingPcs
    BY <1>27 DEF Unwind, FailingPcs
  <2>1. CASE MachineEmpty(s)
    BY <1>2, <1>27, <2>0, <2>1, ReturnJustified DEF Unwind
  <2>2. CASE ~MachineEmpty(s)
    <3> DEFINE cell == [tag |-> "Failed", error |-> c.error]
    <3>1. s # <<>>
      BY <2>2 DEF MachineEmpty
    <3>2. c.error = "black hole" => DependsOnItself(Top(s).thunk)
      BY <1>1, <1>6, <2>0, <3>1, HeldFrames
    <3>3. CellJustified(Top(s).thunk, cell)
      BY <3>2 DEF CellJustified
    <3>4. UNCHANGED state \/ state' = [state EXCEPT ![Top(s).thunk] = cell]
      BY <1>27, <2>2 DEF Unwind
    <3>5. stack' = [stack EXCEPT ![e] = Pop(s)] /\ UNCHANGED <<control, result>>
      BY <1>27, <2>2 DEF Unwind
    <3> HIDE DEF cell
    <3> QED
      BY <1>24, <3>1, <3>3, <3>4, <3>5
  <2> QED
    BY <2>1, <2>2
<1>28. CASE DropFrames(e)
  <2>0. c.pc \in FailingPcs
    BY <1>28 DEF DropFrames, FailingPcs
  <2>1. CASE MachineEmpty(s)
    BY <1>2, <1>28, <2>0, <2>1, ReturnJustified DEF DropFrames
  <2>2. CASE ~MachineEmpty(s)
    <3>1. PICK b \in 0..(Len(s) - 1) :
            /\ stack' = [stack EXCEPT ![e] = RemoveAt(s, b + 1)]
            /\ state' = IF /\ s[b + 1].kind = "Update"
                           /\ state[s[b + 1].thunk].tag = "Evaluating"
                        THEN [state EXCEPT ![s[b + 1].thunk] =
                                [tag |-> "Failed", error |-> "unwound"]]
                        ELSE state
      BY <1>28, <2>2 DEF DropFrames
    <3>2. UNCHANGED <<control, result>>
      BY <1>28, <2>2 DEF DropFrames
    <3>3. b + 1 \in 1..Len(s)
      BY <1>1, <3>1, LenProperties
    <3>4. HeldBy(RemoveAt(s, b + 1)) \subseteq held
      BY <1>1, <3>3, HeldFrames
    <3>5. Justified(c, HeldBy(RemoveAt(s, b + 1)), root[e])
      BY <1>1, <3>4, FewerFrames
    <3>6. stack'[e] = RemoveAt(s, b + 1) /\ \A f \in Evaluators \ {e} : stack'[f] = stack[f]
      BY <3>1 DEF TypeOK
    <3>7. ControlsJustified'
      BY <1>2, <3>2, <3>5, <3>6, ControlsKept DEF AllJustified
    <3>8. \A t \in Thunks : \/ state'[t] = state[t]
                            \/ state'[t] = [tag |-> "Failed", error |-> "unwound"]
      BY <3>1 DEF TypeOK
    <3>9. \A t : CellJustified(t, [tag |-> "Failed", error |-> "unwound"])
      BY DEF CellJustified
    <3>10. CellsJustified'
      BY <1>2, <1>7, <3>8, <3>9, CellsKept
    <3>11. ResultsJustified'
      BY <1>2, <1>7, <3>2, ResultsKept
    <3> QED
      BY <3>7, <3>10, <3>11 DEF AllJustified
  <2> QED
    BY <2>1, <2>2
<1> HIDE DEF s, c, held
<1> QED
  BY <1>10, <1>12, <1>13, <1>14, <1>15, <1>16, <1>17, <1>19, <1>21, <1>22, <1>23,
     <1>25, <1>26, <1>27, <1>28, Zenon DEF Step, Probe

(* Every step of the program is justified.                                 *)
LEMMA NextJustified == IInv /\ AllJustified /\ [Next]_vars => AllJustified'
<1> SUFFICES ASSUME IInv, AllJustified, [Next]_vars PROVE AllJustified'
  OBVIOUS
<1>1. TypeOK /\ Ownership
  BY DEF IInv
<1>2. ASSUME UNCHANGED <<program, state, stack, control, root, result>>
      PROVE  AllJustified'
  <2>1. CellsJustified' /\ ResultsJustified'
    BY <1>2, CellsKept, ResultsKept DEF AllJustified
  <2>2. ControlsJustified'
    <3>1. CASE Evaluators = {}
      BY <3>1 DEF ControlsJustified
    <3>2. ASSUME NEW e \in Evaluators PROVE ControlsJustified'
      <4>1. Justified(control'[e], HeldBy(stack'[e]), root'[e])
        BY <1>2 DEF AllJustified, ControlsJustified
      <4> QED
        BY <1>2, <4>1, ControlsKept DEF AllJustified
    <3> QED
      BY <3>1, <3>2
  <2> QED
    BY <2>1, <2>2 DEF AllJustified
<1>3. ASSUME NEW e \in Evaluators, NEW t \in Thunks, BeginForce(e, t)
      PROVE  AllJustified'
  <2>1. /\ UNCHANGED <<program, state, stack>> /\ control[e] = Idle
        /\ root' = [root EXCEPT ![e] = t] /\ control' = [control EXCEPT ![e] = At("enter", t)]
        /\ result' = [result EXCEPT ![e] = [tag |-> "none"]]
    BY <1>3 DEF BeginForce
  <2>2. stack'[e] = <<>>
    BY <1>1, <2>1 DEF Ownership, IdleHoldsNothing
  <2>3. HeldBy(<<>>) = {}
    BY DEF HeldBy
  <2>4. Justified(At("enter", t), {}, t)
    BY JustifiedBuilt DEF Seeking
  <2>5. control'[e] = At("enter", t) /\ root'[e] = t
    BY <1>1, <2>1 DEF TypeOK
  <2>6. \A f \in Evaluators \ {e} :
           control'[f] = control[f] /\ stack'[f] = stack[f] /\ root'[f] = root[f]
    BY <1>1, <2>1 DEF TypeOK
  <2>7. ControlsJustified'
    BY <2>1, <2>2, <2>3, <2>4, <2>5, <2>6, ControlsKept DEF AllJustified
  <2>8. \A f \in Evaluators : result'[f] = result[f] \/ result'[f].tag = "none"
    BY <1>1, <2>1 DEF TypeOK
  <2>9. CellsJustified' /\ ResultsJustified'
    BY <2>1, <2>8, CellsKept, ResultsKept DEF AllJustified
  <2> QED
    BY <2>7, <2>9 DEF AllJustified
<1>4. ASSUME NEW e \in Evaluators, Cancel(e) PROVE AllJustified'
  BY <1>2, <1>4 DEF Cancel
<1>5. CASE Exhaust
  BY <1>2, <1>5 DEF Exhaust
<1>6. CASE UNCHANGED vars
  BY <1>2, <1>6 DEF vars
<1> QED
  BY <1>1, <1>3, <1>4, <1>5, <1>6, StepJustified DEF Next

(* The black hole an evaluator finds by meeting its own claim, memoized in *)
(* a cell or returned by a force, is a real dependency cycle of the program, *)
(* whatever the other evaluators, cancellations and limits did meanwhile.  *)
THEOREM BlackHolesAreReal == Spec => []BlackHoleIsReal
<1> DEFINE I == IInv /\ AllJustified
<1>1. Init => I
  BY InitInv, InitJustified
<1>2. I /\ [Next]_vars => I'
  BY NextInv, NextJustified
<1>3. I => BlackHoleIsReal
  <2> SUFFICES ASSUME I, NEW t \in Thunks, RaisedFor(t, "black hole")
               PROVE  DependsOnItself(t)
    BY DEF BlackHoleIsReal
  <2>1. CASE state[t] = [tag |-> "Failed", error |-> "black hole"]
    <3>1. CellJustified(t, state[t])
      BY DEF AllJustified, CellsJustified
    <3> DEFINE cell == [tag |-> "Failed", error |-> "black hole"]
    <3>2. cell.tag = "Failed" /\ cell.error = "black hole" /\ state[t] = cell
      BY <2>1
    <3> HIDE DEF cell
    <3> QED
      BY <3>1, <3>2 DEF CellJustified
  <2>2. CASE \E e \in Evaluators :
               result[e] = [tag |-> "err", thunk |-> t, error |-> "black hole"]
    <3>1. PICK e \in Evaluators :
            result[e] = [tag |-> "err", thunk |-> t, error |-> "black hole"]
      BY <2>2
    <3> DEFINE r == [tag |-> "err", thunk |-> t, error |-> "black hole"]
    <3>2. r.tag = "err" /\ r.error = "black hole" /\ r.thunk = t /\ result[e] = r
      BY <3>1
    <3> HIDE DEF r
    <3> QED
      BY <3>2 DEF AllJustified, ResultsJustified
  <2> QED
    BY <2>1, <2>2 DEF RaisedFor
<1> QED
  BY <1>1, <1>2, <1>3, PTL DEF Spec

-----------------------------------------------------------------------------
(* Where indirections lead, and the forces of a thunk.                     *)

(* The indirections of the cells st lead from t to u: u is in every set    *)
(* that holds t and that no indirection leaves (the loop of enter_thunk).  *)
Follows(st, C) == \A x \in C : st[x].tag = "Indirection" => st[x].target \in C
Leads(st, t, u) == \A C \in SUBSET Thunks : t \in C /\ Follows(st, C) => u \in C

(* The cells st2 come after the cells st: what was published stays.        *)
Later(st, st2) == \A x \in Thunks : Resolved(st[x]) => st2[x] = st[x]

(* The indirections from t end in a failure; they end in the value v.      *)
Doomed(st, t) == \E u \in Thunks : Leads(st, t, u) /\ st[u].tag = "Failed"
Yields(st, t, v) ==
    \E u \in Thunks : /\ Leads(st, t, u)
                      /\ st[u].tag = "Evaluated"
                      /\ st[u].value = v
Cells == [Thunks -> ThunkStates]

(* Indirections lead to the thunk itself and one cell further.             *)
LEMMA LeadsSteps ==
  ASSUME NEW st \in Cells, NEW t \in Thunks
  PROVE  /\ Leads(st, t, t)
         /\ \A u \in Thunks : Leads(st, t, u) /\ st[u].tag = "Indirection"
                                 => Leads(st, t, st[u].target)
<1>1. Leads(st, t, t)
  BY DEF Leads
<1>2. ASSUME NEW u \in Thunks, Leads(st, t, u), st[u].tag = "Indirection"
      PROVE  Leads(st, t, st[u].target)
  BY <1>2 DEF Leads, Follows
<1> QED
  BY <1>1, <1>2

(* What the indirections of a thunk lead to stays so in later cells.       *)
LEMMA LeadsKept ==
  ASSUME NEW st \in Cells, NEW st2 \in Cells, Later(st, st2), NEW t \in Thunks
  PROVE  /\ \A u \in Thunks : Leads(st, t, u) => Leads(st2, t, u)
         /\ Doomed(st, t) => Doomed(st2, t)
         /\ \A v \in Thunks : Yields(st, t, v) => Yields(st2, t, v)
<1>1. \A C \in SUBSET Thunks : Follows(st2, C) => Follows(st, C)
  BY DEF Follows, Later, Resolved
<1>2. \A u \in Thunks : Leads(st, t, u) => Leads(st2, t, u)
  BY <1>1 DEF Leads
<1>3. Doomed(st, t) => Doomed(st2, t)
  BY <1>2 DEF Doomed, Later, Resolved
<1>4. \A v \in Thunks : Yields(st, t, v) => Yields(st2, t, v)
  BY <1>2 DEF Yields, Later, Resolved
<1> QED
  BY <1>2, <1>3, <1>4

(* The indirections from a thunk end in one cell only.                     *)
LEMMA OneEnd ==
  ASSUME NEW st \in Cells, NEW t \in Thunks, NEW u \in Thunks, NEW w \in Thunks,
         Leads(st, t, u), Leads(st, t, w),
         st[u].tag # "Indirection", st[w].tag # "Indirection"
  PROVE  u = w
<1> DEFINE Onto == {x \in Thunks : Leads(st, x, u)}
<1>1. t \in Onto
  OBVIOUS
<1>2. Follows(st, Onto)
  <2> SUFFICES ASSUME NEW x \in Onto, st[x].tag = "Indirection"
               PROVE  st[x].target \in Thunks /\ Leads(st, st[x].target, u)
    BY DEF Follows
  <2>1. st[x].target \in Thunks
    BY StateFields DEF Cells
  <2>2. ASSUME NEW C \in SUBSET Thunks, st[x].target \in C, Follows(st, C)
        PROVE  u \in C
    <3>1. Follows(st, C \cup {x})
      BY <2>2 DEF Follows
    <3>2. C \cup {x} \in SUBSET Thunks /\ x \in C \cup {x}
      OBVIOUS
    <3>3. u \in C \cup {x}
      BY <3>1, <3>2 DEF Leads
    <3> QED
      BY <3>3
  <2> QED
    BY <2>1, <2>2 DEF Leads
<1>3. w \in Onto
  BY <1>1, <1>2 DEF Leads
<1>4. Follows(st, {w})
  BY DEF Follows
<1>5. u \in {w}
  BY <1>3, <1>4 DEF Leads
<1> QED
  BY <1>5

(* Where a force of r stands: while frames are left, the oldest one        *)
(* publishes the cell the indirections from r lead to (or that cell has    *)
(* failed already, when the frames are being dropped); with none left the  *)
(* control itself is at that cell, its value or its error.                 *)
Tracked(st, c, s, r) ==
    /\ s # <<>> => \/ /\ c.pc = "drop" /\ Doomed(st, r)
                      /\ \A i \in 1..Len(s) : s[i].kind # "Native"
                   \/ s[1].kind = "Update" /\ Leads(st, r, s[1].thunk)
    /\ s = <<>> => /\ c.pc \in Seeking => Leads(st, r, c.thunk)
                   /\ c.pc = "value" => Yields(st, r, c.thunk)
                   /\ c.pc \in FailingPcs =>
                        c.error \in GivenUp \/ Doomed(st, r) \/ MaxFrames = 0
                   /\ c.pc \notin {"run", "host"}

(* What a force returned is what the cells say: its value, or, unless it   *)
(* gave up for reasons of its own, a failure; without any frames at all    *)
(* no thunk can be claimed.                                                *)
Reported(st, res) ==
    /\ res.tag = "ok" => Yields(st, res.thunk, res.value)
    /\ res.tag = "err" => res.error \in GivenUp \/ Doomed(st, res.thunk) \/ MaxFrames = 0

AllTracked == \A e \in Evaluators : Tracked(state, control[e], stack[e], root[e])
AllReported == \A e \in Evaluators : Reported(state, result[e])
Unstarted == MaxFrames = 0 => \A t \in Thunks : state[t].tag = "Suspended"
Agreed == AllTracked /\ AllReported /\ Unstarted

(* A force stays on track when other cells are published.                  *)
LEMMA TrackedKept ==
  ASSUME NEW st \in Cells, NEW st2 \in Cells, Later(st, st2), NEW c \in Controls,
         NEW s \in Seq(Frames), NEW r \in Thunks, Tracked(st, c, s, r)
  PROVE  Tracked(st2, c, s, r)
<1>1. /\ \A u \in Thunks : Leads(st, r, u) => Leads(st2, r, u)
      /\ Doomed(st, r) => Doomed(st2, r)
      /\ \A v \in Thunks : Yields(st, r, v) => Yields(st2, r, v)
  BY LeadsKept
<1>2. s # <<>> => s[1].thunk \in Thunks
  <2>1. s # <<>> => 1 \in 1..Len(s)
    BY EmptySeq, LenProperties
  <2>2. \A i \in 1..Len(s) : s[i] \in Frames
    BY ElementOfSeq
  <2> QED
    BY <2>1, <2>2 DEF Frames
<1>3. c.pc \in Seeking \cup {"value"} => c.thunk \in Thunks
  BY ControlFields DEF Seeking, ThunkPcs, LoopPcs
<1> QED
  BY <1>1, <1>2, <1>3 DEF Tracked

(* A result stays true when other cells are published.                     *)
LEMMA ReportedKept ==
  ASSUME NEW st \in Cells, NEW st2 \in Cells, Later(st, st2), NEW res \in Results,
         Reported(st, res)
  PROVE  Reported(st2, res)
<1>1. /\ res.tag \in {"ok", "err"} => res.thunk \in Thunks
      /\ res.tag = "ok" => res.value \in Thunks
  BY DEF Results
<1> QED
  BY <1>1, LeadsKept DEF Reported

(* The steps of the call-by-need cell keep what was published.             *)
LEMMA PublishedKept ==
  ASSUME TypeOK, CellStep
  PROVE  Later(state, state')
<1>1. state \in [Thunks -> ThunkStates]
  BY DEF TypeOK
<1>2. CASE UNCHANGED state
  BY <1>2 DEF Later
<1>3. ASSUME NEW e \in Evaluators, NEW u \in Thunks, CBN!Claim(e, u)
      PROVE  Later(state, state')
  BY <1>1, <1>3 DEF CBN!Claim, Resolved, Later
<1>4. ASSUME NEW e \in Evaluators, NEW u \in Thunks, CBN!Settle(e, u)
      PROVE  Later(state, state')
  BY <1>1, <1>4 DEF CBN!Settle, Resolved, Later
<1> QED
  BY <1>2, <1>3, <1>4 DEF CellStep, CBN!Next

(* A machine without room for one frame claims nothing.                    *)
NothingRuns == MaxFrames = 0 => \A t \in Thunks : state[t].tag # "Evaluating"

(* Ownership and the frame limit give just that.                           *)
LEMMA NoFrames == TypeOK /\ Ownership /\ StacksBounded => NothingRuns
<1> SUFFICES ASSUME TypeOK, Ownership, StacksBounded, MaxFrames = 0,
                    NEW t \in Thunks, state[t].tag = "Evaluating"
             PROVE  FALSE
  BY DEF NothingRuns
<1>1. PICK e \in Evaluators : state[t] = OwnedBy(e)
  BY DEF TypeOK, ThunkStates, OwnedBy
<1>2. PICK i \in Updates(e) : stack[e][i].thunk = t
  BY <1>1 DEF Ownership, OwnersHold
<1>3. i \in 1..Len(stack[e]) /\ stack[e][i].kind = "Update" /\ i \in Nat /\ Len(stack[e]) \in Nat
  BY <1>2, LenProperties DEF Updates, TypeOK
<1>4. i \in Machine(stack[e], i)
  BY <1>3 DEF Machine
<1>5. IsFiniteSet(Machine(stack[e], i)) /\ Cardinality(Machine(stack[e], i)) \in Nat
  BY <1>3, MachineFinite
<1>6. Cardinality(Machine(stack[e], i)) # 0
  BY <1>4, <1>5, FS_EmptySet
<1>7. Cardinality(Machine(stack[e], i)) <= MaxFrames
  BY <1>3 DEF StacksBounded, Bounded
<1> QED
  BY <1>5, <1>6, <1>7

(* Without room for one frame, nothing is ever evaluated.                  *)
LEMMA UnstartedKept ==
  ASSUME TypeOK, Unstarted, CellStep, NothingRuns'
  PROVE  Unstarted'
<1> SUFFICES ASSUME MaxFrames = 0, NEW t \in Thunks PROVE state'[t].tag = "Suspended"
  BY DEF Unstarted
<1>1. \A u \in Thunks : state[u].tag = "Suspended"
  BY DEF Unstarted
<1>2. \A u \in Thunks : state'[u].tag # "Evaluating"
  BY DEF NothingRuns
<1>3. ASSUME NEW e \in Evaluators, NEW u \in Thunks, CBN!Claim(e, u) PROVE FALSE
  <2>1. state'[u].tag = "Evaluating"
    BY <1>3 DEF CBN!Claim, TypeOK
  <2> QED
    BY <1>2, <2>1
<1>4. ASSUME NEW e \in Evaluators, NEW u \in Thunks, CBN!Settle(e, u) PROVE FALSE
  BY <1>1, <1>4 DEF CBN!Settle
<1> QED
  BY <1>1, <1>3, <1>4 DEF CellStep, CBN!Next

(* When a control with no frames left is on track.                         *)
LEMMA TrackedBuilt ==
  ASSUME NEW st, NEW r
  PROVE  /\ Tracked(st, Idle, <<>>, r)
         /\ \A pc \in Seeking : \A t : Leads(st, r, t) => Tracked(st, At(pc, t), <<>>, r)
         /\ \A v : Yields(st, r, v) => Tracked(st, At("value", v), <<>>, r)
         /\ \A pc \in FailingPcs : \A err :
              (err \in GivenUp \/ Doomed(st, r) \/ MaxFrames = 0)
              => Tracked(st, Failing(pc, err), <<>>, r)
<1>1. Tracked(st, Idle, <<>>, r)
  BY DEF Tracked, Seeking, FailingPcs, Idle
<1>2. \A pc \in Seeking : \A t : Leads(st, r, t) => Tracked(st, At(pc, t), <<>>, r)
  BY DEF Tracked, Seeking, FailingPcs, At
<1>3. \A v : Yields(st, r, v) => Tracked(st, At("value", v), <<>>, r)
  BY DEF Tracked, Seeking, FailingPcs, At
<1>4. \A pc \in FailingPcs : \A err :
         (err \in GivenUp \/ Doomed(st, r) \/ MaxFrames = 0)
         => Tracked(st, Failing(pc, err), <<>>, r)
  BY DEF Tracked, Seeking, FailingPcs, Failing
<1> QED
  BY <1>1, <1>2, <1>3, <1>4, Zenon

(* The oldest frame stays until it is itself popped or dropped.            *)
LEMMA BottomFrame ==
  ASSUME NEW s \in Seq(Frames), s # <<>>
  PROVE  /\ s[1] \in Frames
         /\ Pop(s) = <<>> => Top(s) = s[1]
         /\ Pop(s) # <<>> => Pop(s)[1] = s[1]
         /\ \A k \in {"Update", "Demand", "Native"}, t \in Thunks :
              Push(s, k, t) # <<>> /\ Push(s, k, t)[1] = s[1]
         /\ \A i \in 1..Len(s) : i > 1 => /\ RemoveAt(s, i) # <<>>
                                          /\ RemoveAt(s, i)[1] = s[1]
<1>1. Len(s) \in Nat \ {0} /\ \A i \in 1..Len(s) : s[i] \in Frames
  BY PopFrame, ElementOfSeq
<1>2. s[1] \in Frames
  BY <1>1
<1>3. (Pop(s) = <<>> => Top(s) = s[1]) /\ (Pop(s) # <<>> => Pop(s)[1] = s[1])
  <2>1. /\ Pop(s) \in Seq(Frames)
        /\ Len(Pop(s)) = Len(s) - 1
        /\ \A i \in 1..Len(Pop(s)) : Pop(s)[i] = s[i]
    BY PopFrame
  <2>2. Pop(s) = <<>> <=> Len(Pop(s)) = 0
    BY <2>1, EmptySeq
  <2> QED
    BY <1>1, <2>1, <2>2 DEF Top
<1>4. ASSUME NEW k \in {"Update", "Demand", "Native"}, NEW t \in Thunks
      PROVE  Push(s, k, t) # <<>> /\ Push(s, k, t)[1] = s[1]
  <2>1. /\ Push(s, k, t) \in Seq(Frames)
        /\ Len(Push(s, k, t)) = Len(s) + 1
        /\ \A i \in 1..Len(s) : Push(s, k, t)[i] = s[i]
    BY PushFrame
  <2>2. Push(s, k, t) = <<>> <=> Len(Push(s, k, t)) = 0
    BY <2>1, EmptySeq
  <2> QED
    BY <1>1, <2>1, <2>2
<1>5. ASSUME NEW i \in 1..Len(s), i > 1
      PROVE  RemoveAt(s, i) # <<>> /\ RemoveAt(s, i)[1] = s[1]
  <2>1. /\ RemoveAt(s, i) \in Seq(Frames)
        /\ Len(RemoveAt(s, i)) = Len(s) - 1
        /\ \A j \in 1..(Len(s) - 1) :
             RemoveAt(s, i)[j] = IF j < i THEN s[j] ELSE s[j + 1]
    BY RemoveFrameAt
  <2>2. RemoveAt(s, i) = <<>> <=> Len(RemoveAt(s, i)) = 0
    BY <2>1, EmptySeq
  <2>3. 1 \in 1..(Len(s) - 1)
    BY <1>1, <1>5
  <2> QED
    BY <1>1, <1>5, <2>1, <2>2, <2>3
<1> QED
  BY <1>2, <1>3, <1>4, <1>5

(* The oldest frame publishes the cell that r leads to.                    *)
Rooted(st, s, r) == s # <<>> /\ s[1].kind = "Update" /\ Leads(st, r, s[1].thunk)

(* With that frame left a force is on track, whatever its control is.      *)
LEMMA RootedTracked ==
  ASSUME NEW st \in Cells, NEW st2 \in Cells, Later(st, st2), NEW r \in Thunks,
         NEW s \in Seq(Frames), Rooted(st, s, r), NEW s2, s2 # <<>>, s2[1] = s[1]
  PROVE  \A c : Tracked(st2, c, s2, r)
<1>1. s[1].thunk \in Thunks
  BY BottomFrame DEF Rooted, Frames
<1>2. Leads(st2, r, s[1].thunk)
  BY <1>1, LeadsKept DEF Rooted
<1> QED
  BY <1>2 DEF Tracked, Rooted

(* When only e moves, and stays on track, every force is on track.         *)
LEMMA AgreedKept ==
  ASSUME TypeOK, Agreed, Later(state, state'), Unstarted', TypeOK', NEW e \in Evaluators,
         \A f \in Evaluators \ {e} :
            /\ control'[f] = control[f] /\ stack'[f] = stack[f] /\ root'[f] = root[f]
            /\ result'[f] = result[f],
         Tracked(state', control'[e], stack'[e], root'[e]),
         result'[e] = result[e] \/ Reported(state', result'[e])
  PROVE  Agreed'
<1>0. state \in Cells /\ state' \in Cells
  BY DEF TypeOK, Cells
<1>1. AllTracked'
  <2> SUFFICES ASSUME NEW f \in Evaluators, f # e
               PROVE  Tracked(state', control'[f], stack'[f], root'[f])
    BY DEF AllTracked
  <2>1. Tracked(state, control[f], stack[f], root[f])
    BY DEF Agreed, AllTracked
  <2>2. control[f] \in Controls /\ stack[f] \in Seq(Frames) /\ root[f] \in Thunks
    BY DEF TypeOK
  <2>3. Tracked(state', control[f], stack[f], root[f])
    BY <1>0, <2>1, <2>2, TrackedKept
  <2> QED
    BY <2>3
<1>2. AllReported'
  <2> SUFFICES ASSUME NEW f \in Evaluators PROVE Reported(state', result'[f])
    BY DEF AllReported
  <2>1. Reported(state, result[f]) /\ result[f] \in Results
    BY DEF Agreed, AllReported, TypeOK
  <2>2. Reported(state', result[f])
    BY <1>0, <2>1, ReportedKept
  <2> QED
    BY <2>2
<1> QED
  BY <1>1, <1>2 DEF Agreed

(* At the start nothing is forced.                                         *)
LEMMA InitAgreed == Init => Agreed
<1> SUFFICES ASSUME Init PROVE Agreed
  OBVIOUS
<1>1. AllTracked
  BY DEF Init, AllTracked, Tracked, Seeking, FailingPcs, Idle
<1>2. AllReported
  BY DEF Init, AllReported, Reported
<1>3. Unstarted
  BY DEF Init, Unstarted
<1> QED
  BY <1>1, <1>2, <1>3 DEF Agreed

(* Every step of the machine loop keeps its force on track.                *)
LEMMA StepAgreed ==
  ASSUME IInv, TypeOK', Agreed, Later(state, state'), Unstarted', NEW e \in Evaluators, Step(e)
  PROVE  Agreed'
<1> DEFINE s == stack[e]
           c == control[e]
           r == root[e]
<1>1. /\ s \in Seq(Frames) /\ c \in Controls /\ r \in Thunks /\ TypeOK /\ Ownership
      /\ state \in Cells /\ state' \in Cells
      /\ Tracked(state, c, s, r)
  BY DEF TypeOK, IInv, Agreed, AllTracked, Cells
<1>2. UNCHANGED <<program, root>>
  BY DEF Step, Probe, Abort, ProbeSettled, ProbeBlackHole, ProbeWaitCycle, ProbeWait,
     ProbeFull, Claim, Wake, RunReturn, RunDemand, RunHost, ReturnValue, ReturnAlias,
     Raise, Unwind, DropFrames
<1>3. \A t \in Thunks : /\ Leads(state, r, t) => Leads(state', r, t)
                        /\ Yields(state, r, t) => Yields(state', r, t)
  BY <1>1, LeadsKept
<1>4. Doomed(state, r) => Doomed(state', r)
  BY <1>1, LeadsKept
(* Tracked, taken apart                                                    *)
<1>5. s = <<>> /\ c.pc \in Seeking => c.thunk \in Thunks /\ Leads(state, r, c.thunk)
  BY <1>1, ControlFields DEF Tracked, Seeking, ThunkPcs, LoopPcs
<1>6. s = <<>> /\ c.pc = "value" => c.thunk \in Thunks /\ Yields(state, r, c.thunk)
  BY <1>1, ControlFields DEF Tracked, ThunkPcs, LoopPcs
<1>7. s = <<>> /\ c.pc \in FailingPcs =>
        c.error \in GivenUp \/ Doomed(state, r) \/ MaxFrames = 0
  BY <1>1 DEF Tracked
<1>8. c.pc \in {"run", "host"} => s # <<>>
  BY <1>1 DEF Tracked
<1>9. c.pc # "drop" /\ s # <<>> => Rooted(state, s, r)
  BY <1>1 DEF Tracked, Rooted
(* what is left of the machines of e, and what its force returned          *)
<1>10. ASSUME NEW c2, control' = [control EXCEPT ![e] = c2],
              NEW s2, stack' = [stack EXCEPT ![e] = s2] \/ (UNCHANGED stack /\ s2 = s),
              Tracked(state', c2, s2, r),
              UNCHANGED result \/ \E res : /\ result' = [result EXCEPT ![e] = res]
                                           /\ Reported(state', res)
       PROVE  Agreed'
  <2>1. control'[e] = c2 /\ stack'[e] = s2 /\ root'[e] = r
    BY <1>1, <1>2, <1>10 DEF TypeOK
  <2>2. \A f \in Evaluators \ {e} :
            /\ control'[f] = control[f] /\ stack'[f] = stack[f] /\ root'[f] = root[f]
            /\ result'[f] = result[f]
    BY <1>1, <1>2, <1>10 DEF TypeOK
  <2>3. result'[e] = result[e] \/ Reported(state', result'[e])
    BY <1>1, <1>10 DEF TypeOK
  <2>4. Tracked(state', control'[e], stack'[e], root'[e])
    BY <1>10, <2>1
  <2> QED
    BY <1>1, <2>2, <2>3, <2>4, AgreedKept
(* the first frame stays                                                   *)
<1>11. ASSUME Rooted(state, s, r),
              NEW c2, control' = [control EXCEPT ![e] = c2],
              NEW s2, stack' = [stack EXCEPT ![e] = s2] \/ (UNCHANGED stack /\ s2 = s),
              s2 # <<>>, s2[1] = s[1], UNCHANGED result
       PROVE  Agreed'
  <2>1. Tracked(state', c2, s2, r)
    BY <1>1, <1>11, RootedTracked
  <2> QED
    BY <1>10, <1>11, <2>1
(* only the control moves                                                  *)
<1>12. ASSUME c.pc # "drop", NEW c2, control' = [control EXCEPT ![e] = c2],
              UNCHANGED <<stack, result>>, s = <<>> => Tracked(state', c2, <<>>, r)
       PROVE  Agreed'
  <2>1. CASE s = <<>>
    BY <1>10, <1>12, <2>1
  <2>2. CASE s # <<>>
    BY <1>9, <1>11, <1>12, <2>2
  <2> QED
    BY <2>1, <2>2
<1>13. ASSUME c.pc # "drop", NEW pc \in FailingPcs, NEW err,
              control' = [control EXCEPT ![e] = Failing(pc, err)],
              UNCHANGED <<stack, result>>,
              s = <<>> => err \in GivenUp \/ Doomed(state', r) \/ MaxFrames = 0
       PROVE  Agreed'
  <2>1. s = <<>> => Tracked(state', Failing(pc, err), <<>>, r)
    BY <1>13, TrackedBuilt
  <2> QED
    BY <1>12, <1>13, <2>1
<1>14. ASSUME c.pc # "drop", NEW pc \in Seeking, NEW t,
              control' = [control EXCEPT ![e] = At(pc, t)],
              UNCHANGED <<stack, result>>, s = <<>> => Leads(state', r, t)
       PROVE  Agreed'
  <2>1. s = <<>> => Tracked(state', At(pc, t), <<>>, r)
    BY <1>14, TrackedBuilt
  <2> QED
    BY <1>12, <1>14, <2>1
<1>15. ASSUME NEW t \in Thunks, Probing(e, t)
       PROVE  c.pc \in {"enter", "probe"} /\ c.thunk = t /\ (s = <<>> => Leads(state, r, t))
  BY <1>5, <1>15 DEF Probing, At, Seeking
<1>20. CASE Abort(e)
  <2>1. PICK err \in {"step limit", "cancelled"} :
          control' = [control EXCEPT ![e] = Failing("drop", err)]
    BY <1>20 DEF Abort
  <2>2. c.pc # "drop" /\ UNCHANGED <<stack, result>>
    BY <1>20 DEF Abort, LoopPcs
  <2>3. err \in GivenUp
    BY DEF GivenUp
  <2> QED
    BY <1>13, <2>1, <2>2, <2>3 DEF FailingPcs
<1>21. ASSUME NEW t \in Thunks, ProbeSettled(e, t) PROVE Agreed'
  <2>1. c.pc # "drop" /\ (s = <<>> => Leads(state', r, t))
    BY <1>3, <1>15, <1>21 DEF ProbeSettled
  <2>2. UNCHANGED <<state, stack, result>> /\ Resolved(state[t])
    BY <1>21 DEF ProbeSettled
  <2>3. CASE state[t].tag = "Evaluated"
    <3>1. control' = [control EXCEPT ![e] = At("value", state[t].value)]
      BY <1>21, <2>3 DEF ProbeSettled
    <3>2. s = <<>> => Yields(state', r, state[t].value)
      BY <2>1, <2>2, <2>3 DEF Yields
    <3>3. s = <<>> => Tracked(state', At("value", state[t].value), <<>>, r)
      BY <3>2, TrackedBuilt
    <3> QED
      BY <1>12, <2>1, <2>2, <3>1, <3>3
  <2>4. CASE state[t].tag = "Indirection"
    <3>1. control' = [control EXCEPT ![e] = At("probe", state[t].target)]
      BY <1>21, <2>4 DEF ProbeSettled
    <3>2. s = <<>> => Leads(state', r, state[t].target)
      BY <1>1, <2>1, <2>2, <2>4, LeadsSteps
    <3> QED
      BY <1>14, <2>1, <2>2, <3>1, <3>2 DEF Seeking
  <2>5. CASE state[t].tag = "Failed"
    <3>1. control' = [control EXCEPT ![e] = Failing("raise", state[t].error)]
      BY <1>21, <2>5 DEF ProbeSettled
    <3>2. s = <<>> => Doomed(state', r)
      BY <2>1, <2>2, <2>5 DEF Doomed
    <3> QED
      BY <1>13, <2>1, <2>2, <3>1, <3>2 DEF FailingPcs
  <2> QED
    BY <2>2, <2>3, <2>4, <2>5 DEF Resolved
<1>22. ASSUME NEW t \in Thunks, ProbeBlackHole(e, t) PROVE Agreed'
  <2>1. state[t] = OwnedBy(e)
    BY <1>1, <1>22 DEF ProbeBlackHole, IsBlackHole, OwnedBy, TypeOK, ThunkStates
  <2>2. PICK i \in 1..Len(s) : s[i].thunk = t
    BY <1>1, <2>1 DEF Ownership, OwnersHold, Updates
  <2>3. s # <<>>
    BY <2>2
  <2>4. c.pc # "drop"
    BY <1>15, <1>22 DEF ProbeBlackHole
  <2> QED
    BY <1>13, <1>22, <2>3, <2>4 DEF ProbeBlackHole, FailingPcs
<1>23. ASSUME NEW t \in Thunks, ProbeWaitCycle(e, t) PROVE Agreed'
  <2>1. c.pc # "drop"
    BY <1>15, <1>23 DEF ProbeWaitCycle
  <2> QED
    BY <1>13, <1>23, <2>1 DEF ProbeWaitCycle, FailingPcs, GivenUp
<1>24. ASSUME NEW t \in Thunks, ProbeWait(e, t) PROVE Agreed'
  <2>1. c.pc # "drop" /\ (s = <<>> => Leads(state', r, t))
    BY <1>3, <1>15, <1>24 DEF ProbeWait
  <2> QED
    BY <1>14, <1>24, <2>1 DEF ProbeWait, Seeking
<1>25. ASSUME NEW t \in Thunks, ProbeFull(e, t) PROVE Agreed'
  <2>1. c.pc # "drop"
    BY <1>15, <1>25 DEF ProbeFull
  <2>2. s = <<>> => MaxFrames = 0
    <3>1. s = <<>> => Depth(s) = 0
      <4> SUFFICES Depth(<<>>) = 0
        OBVIOUS
      <4>1. {i \in 1..Len(<<>>) : \A j \in i..Len(<<>>) : <<>>[j].kind # "Native"} = {}
        OBVIOUS
      <4> QED
        BY <4>1, FS_EmptySet DEF Depth
    <3> QED
      <4>1. Depth(s) >= MaxFrames
        BY <1>25 DEF ProbeFull, Full
      <4> QED
        BY <3>1, <4>1, BoundsAssumption
  <2> QED
    BY <1>13, <1>25, <2>1, <2>2 DEF ProbeFull, FailingPcs
<1>26. ASSUME NEW t \in Thunks, Claim(e, t) PROVE Agreed'
  <2>1. c.pc # "drop" /\ (s = <<>> => Leads(state', r, t))
    BY <1>3, <1>15, <1>26 DEF Claim
  <2>2. PICK pc : control' = [control EXCEPT ![e] = At(pc, t)]
    BY <1>26 DEF Claim
  <2>3. stack' = [stack EXCEPT ![e] = Push(s, "Update", t)] /\ UNCHANGED result
    BY <1>26 DEF Claim
  <2>4. CASE s # <<>>
    <3>1. Push(s, "Update", t) # <<>> /\ Push(s, "Update", t)[1] = s[1]
      BY <1>1, <2>4, BottomFrame
    <3>2. Rooted(state, s, r)
      BY <1>9, <2>1, <2>4
    <3> QED
      BY <1>11, <2>2, <2>3, <3>1, <3>2
  <2>5. CASE s = <<>>
    <3> DEFINE p == Push(<<>>, "Update", t)
    <3>1. Len(p) = 1 /\ p[1] = [kind |-> "Update", thunk |-> t]
      <4>1. <<>> \in Seq(Frames) /\ "Update" \in {"Update", "Demand", "Native"}
        BY <1>1, <2>5
      <4>2. /\ Len(p) = Len(<<>>) + 1
            /\ p[Len(<<>>) + 1] = [kind |-> "Update", thunk |-> t]
        BY <4>1, PushFrame
      <4> HIDE DEF p
      <4> QED
        BY <4>2
    <3> HIDE DEF p
    <3>2. p # <<>> /\ p[1].kind = "Update" /\ p[1].thunk = t
      BY <3>1
    <3>3. Tracked(state', At(pc, t), p, r)
      BY <2>1, <2>5, <3>2 DEF Tracked
    <3>4. stack' = [stack EXCEPT ![e] = p]
      BY <2>3, <2>5 DEF p
    <3> QED
      BY <1>10, <2>2, <2>3, <3>3, <3>4
  <2> QED
    BY <2>4, <2>5
<1>27. CASE Wake(e)
  <2>1. c.pc = "wait" /\ UNCHANGED <<state, stack, result>>
    BY <1>27 DEF Wake
  <2>2. CASE e \in cancelled
    BY <1>13, <1>27, <2>1, <2>2 DEF Wake, FailingPcs, GivenUp
  <2>3. CASE e \notin cancelled
    BY <1>5, <1>14, <1>27, <2>1, <2>3 DEF Wake, Seeking
  <2> QED
    BY <2>2, <2>3
<1>28. CASE RunReturn(e)
  <2>1. s # <<>> /\ c.pc # "drop"
    BY <1>8, <1>28 DEF RunReturn
  <2> QED
    BY <1>12, <1>28, <2>1 DEF RunReturn
<1>29. CASE RunDemand(e)
  <2>1. c.pc = "run" /\ s # <<>> /\ c.pc # "drop" /\ c.thunk \in Thunks
    BY <1>1, <1>8, <1>29, ControlFields DEF RunDemand, ThunkPcs, LoopPcs
  <2>2. CASE Full(e)
    BY <1>12, <1>29, <2>1, <2>2 DEF RunDemand
  <2>3. CASE ~Full(e)
    BY <1>1, <1>9, <1>11, <1>29, <2>1, <2>3, BottomFrame DEF RunDemand
  <2> QED
    BY <2>2, <2>3
<1>30. CASE RunHost(e)
  <2>1. c.pc = "host" /\ s # <<>> /\ c.pc # "drop" /\ c.thunk \in Thunks
    BY <1>1, <1>8, <1>30, ControlFields DEF RunHost, ThunkPcs, LoopPcs
  <2>2. CASE program[c.thunk].op = "Native"
    BY <1>1, <1>9, <1>11, <1>30, <2>1, <2>2, BottomFrame DEF RunHost
  <2>3. CASE program[c.thunk].op # "Native"
    BY <1>12, <1>30, <2>1, <2>3 DEF RunHost
  <2> QED
    BY <2>2, <2>3
<1>31. CASE Raise(e)
  <2>1. c.pc = "raise" /\ control' = [control EXCEPT ![e] = Failing("unwind", c.error)]
        /\ UNCHANGED <<state, stack, result>>
    BY <1>31 DEF Raise
  <2> QED
    BY <1>4, <1>7, <1>13, <2>1 DEF FailingPcs
(* leaving a machine                                                       *)
<1>32. ASSUME Rooted(state, s, r), MachineEmpty(s)
       PROVE  Pop(s) # <<>> /\ Pop(s)[1] = s[1]
  BY <1>1, <1>32, BottomFrame DEF MachineEmpty, Rooted
<1>33. ASSUME NEW v \in Thunks, ReturnOk(e, v), MachineEmpty(s), c.pc # "drop",
              s = <<>> => Yields(state', r, v)
       PROVE  Agreed'
  <2>1. CASE s = <<>>
    <3> DEFINE res == [tag |-> "ok", thunk |-> r, value |-> v]
    <3>1. control' = [control EXCEPT ![e] = Idle] /\ UNCHANGED stack
          /\ result' = [result EXCEPT ![e] = res]
      BY <1>33, <2>1 DEF ReturnOk
    <3>2. res.tag = "ok" /\ res.thunk = r /\ res.value = v
      OBVIOUS
    <3> HIDE DEF res
    <3>3. Reported(state', res)
      BY <1>33, <2>1, <3>2 DEF Reported
    <3>4. Tracked(state', Idle, <<>>, r)
      BY TrackedBuilt
    <3> QED
      BY <1>10, <2>1, <3>1, <3>3, <3>4
  <2>2. CASE s # <<>>
    BY <1>9, <1>11, <1>32, <1>33, <2>2 DEF ReturnOk
  <2> QED
    BY <2>1, <2>2
<1>34. ASSUME ReturnErr(e, c.error), MachineEmpty(s), c.pc \in FailingPcs
       PROVE  Agreed'
  <2>1. CASE s = <<>>
    <3> DEFINE res == [tag |-> "err", thunk |-> r, error |-> c.error]
    <3>1. control' = [control EXCEPT ![e] = Idle] /\ UNCHANGED stack
          /\ result' = [result EXCEPT ![e] = res]
      BY <1>34, <2>1 DEF ReturnErr
    <3>2. res.tag = "err" /\ res.thunk = r /\ res.error = c.error
      OBVIOUS
    <3> HIDE DEF res
    <3>3. Reported(state', res)
      BY <1>4, <1>7, <1>34, <2>1, <3>2 DEF Reported
    <3>4. Tracked(state', Idle, <<>>, r)
      BY TrackedBuilt
    <3> QED
      BY <1>10, <2>1, <3>1, <3>3, <3>4
  <2>2. CASE s # <<>>
    <3>1. Top(s).kind = "Native" /\ \E i \in 1..Len(s) : s[i].kind = "Native"
      <4>1. Len(s) \in 1..Len(s)
        BY <1>1, <2>2, PopFrame
      <4> QED
        BY <1>34, <2>2, <4>1 DEF MachineEmpty, Top
    <3>2. Rooted(state, s, r)
      BY <1>1, <2>2, <3>1 DEF Tracked, Rooted
    <3> QED
      BY <1>11, <1>32, <1>34, <2>2, <3>2 DEF ReturnErr
  <2> QED
    BY <2>1, <2>2
(* popping a frame of the running machine                                  *)
<1>35. ASSUME c.pc # "drop", s # <<>>, stack' = [stack EXCEPT ![e] = Pop(s)],
              NEW c2, control' = [control EXCEPT ![e] = c2], UNCHANGED result,
              Top(s).kind = "Update" /\ Leads(state, r, Top(s).thunk)
                => Tracked(state', c2, <<>>, r)
       PROVE  Agreed'
  <2>1. CASE Pop(s) = <<>>
    <3>1. Top(s).kind = "Update" /\ Leads(state, r, Top(s).thunk)
      BY <1>1, <1>9, <1>35, <2>1, BottomFrame DEF Rooted
    <3> QED
      BY <1>10, <1>35, <2>1, <3>1
  <2>2. CASE Pop(s) # <<>>
    BY <1>1, <1>9, <1>11, <1>35, <2>2, BottomFrame
  <2> QED
    BY <2>1, <2>2
<1>36. UNCHANGED control => control' = [control EXCEPT ![e] = c]
  BY <1>1 DEF TypeOK
<1>37. s # <<>> => Top(s).thunk \in Thunks
  BY <1>1, PopFrame DEF Frames
<1>38. CASE ReturnValue(e)
  <2>1. c.pc = "value" /\ c.pc # "drop" /\ c.thunk \in Thunks
    BY <1>1, <1>38, ControlFields DEF ReturnValue, ThunkPcs, LoopPcs
  <2>2. CASE MachineEmpty(s)
    <3>1. ReturnOk(e, c.thunk) /\ UNCHANGED state
      BY <1>38, <2>2 DEF ReturnValue
    <3> QED
      BY <1>6, <1>33, <2>1, <2>2, <3>1
  <2>3. CASE ~MachineEmpty(s)
    <3>1. s # <<>> /\ stack' = [stack EXCEPT ![e] = Pop(s)] /\ UNCHANGED result
      BY <1>38, <2>3 DEF ReturnValue, MachineEmpty
    <3>2. CASE Top(s).kind = "Update"
      <4> DEFINE cell == [tag |-> "Evaluated", value |-> c.thunk]
      <4>1. state' = [state EXCEPT ![Top(s).thunk] = cell] /\ UNCHANGED control
        BY <1>38, <2>3, <3>2 DEF ReturnValue
      <4>2. cell.tag = "Evaluated" /\ cell.value = c.thunk
        OBVIOUS
      <4> HIDE DEF cell
      <4>3. state'[Top(s).thunk] = cell
        BY <1>1, <1>37, <3>1, <4>1 DEF Cells
      <4>4. Leads(state, r, Top(s).thunk) => Yields(state', r, c.thunk)
        BY <1>3, <1>37, <3>1, <4>2, <4>3 DEF Yields
      <4>5. Leads(state, r, Top(s).thunk) => Tracked(state', c, <<>>, r)
        BY <2>1, <4>4 DEF Tracked, Seeking, FailingPcs
      <4> QED
        BY <1>35, <1>36, <2>1, <3>1, <4>1, <4>5
    <3>3. CASE Top(s).kind # "Update"
      BY <1>35, <1>38, <2>1, <2>3, <3>1, <3>3 DEF ReturnValue
    <3> QED
      BY <3>2, <3>3
  <2> QED
    BY <2>2, <2>3
<1>39. CASE ReturnAlias(e)
  <2>1. c.pc = "alias" /\ c.pc # "drop" /\ c.thunk \in Thunks
        /\ control' = [control EXCEPT ![e] = At("enter", c.thunk)] /\ UNCHANGED result
    BY <1>1, <1>39, ControlFields DEF ReturnAlias, ThunkPcs, LoopPcs
  <2>2. CASE s # <<>> /\ Top(s).kind = "Update"
    <3> DEFINE cell == [tag |-> "Indirection", target |-> c.thunk]
    <3>1. /\ stack' = [stack EXCEPT ![e] = Pop(s)]
          /\ state' = [state EXCEPT ![Top(s).thunk] = cell]
      BY <1>39, <2>2 DEF ReturnAlias
    <3>2. cell.tag = "Indirection" /\ cell.target = c.thunk
      OBVIOUS
    <3> HIDE DEF cell
    <3>3. state'[Top(s).thunk] = cell
      BY <1>1, <1>37, <2>2, <3>1 DEF Cells
    <3>4. Leads(state, r, Top(s).thunk) => Leads(state', r, c.thunk)
      BY <1>1, <1>3, <1>37, <2>2, <3>2, <3>3, LeadsSteps
    <3>5. Leads(state, r, Top(s).thunk) => Tracked(state', At("enter", c.thunk), <<>>, r)
      BY <3>4, TrackedBuilt DEF Seeking
    <3> QED
      BY <1>35, <2>1, <2>2, <3>1, <3>5
  <2>3. CASE ~(s # <<>> /\ Top(s).kind = "Update")
    <3>1. UNCHANGED <<stack, state>>
      BY <1>39, <2>3 DEF ReturnAlias
    <3> QED
      BY <1>5, <1>14, <2>1, <3>1 DEF Seeking
  <2> QED
    BY <2>2, <2>3
<1>40. CASE Unwind(e)
  <2>1. c.pc = "unwind" /\ c.pc \in FailingPcs /\ c.pc # "drop"
    BY <1>40 DEF Unwind, FailingPcs
  <2>2. CASE MachineEmpty(s)
    BY <1>34, <1>40, <2>1, <2>2 DEF Unwind
  <2>3. CASE ~MachineEmpty(s)
    <3> DEFINE cell == [tag |-> "Failed", error |-> c.error]
    <3>1. s # <<>> /\ stack' = [stack EXCEPT ![e] = Pop(s)] /\ UNCHANGED <<control, result>>
      BY <1>40, <2>3 DEF Unwind, MachineEmpty
    <3>2. Top(s).kind = "Update" => state' = [state EXCEPT ![Top(s).thunk] = cell]
      BY <1>40, <2>3 DEF Unwind
    <3>3. cell.tag = "Failed"
      OBVIOUS
    <3> HIDE DEF cell
    <3>4. Top(s).kind = "Update" => state'[Top(s).thunk] = cell
      BY <1>1, <1>37, <3>1, <3>2 DEF Cells
    <3>5. Top(s).kind = "Update" /\ Leads(state, r, Top(s).thunk) => Doomed(state', r)
      BY <1>3, <1>37, <3>1, <3>3, <3>4 DEF Doomed
    <3>6. Top(s).kind = "Update" /\ Leads(state, r, Top(s).thunk)
            => Tracked(state', c, <<>>, r)
      BY <2>1, <3>5 DEF Tracked, Seeking, FailingPcs
    <3> QED
      BY <1>35, <1>36, <2>1, <3>1, <3>6
  <2> QED
    BY <2>2, <2>3
<1>41. CASE DropFrames(e)
  <2>1. c.pc = "drop" /\ c.pc \in FailingPcs
    BY <1>41 DEF DropFrames, FailingPcs
  <2>2. CASE MachineEmpty(s)
    BY <1>34, <1>41, <2>1, <2>2 DEF DropFrames
  <2>3. CASE ~MachineEmpty(s)
    <3> DEFINE cell == [tag |-> "Failed", error |-> "unwound"]
    <3>1. PICK b \in 0..(Len(s) - 1) :
            /\ IsBase(s, b)
            /\ stack' = [stack EXCEPT ![e] = RemoveAt(s, b + 1)]
            /\ state' = IF /\ s[b + 1].kind = "Update"
                           /\ state[s[b + 1].thunk].tag = "Evaluating"
                        THEN [state EXCEPT ![s[b + 1].thunk] = cell]
                        ELSE state
      BY <1>41, <2>3 DEF DropFrames
    <3>2. UNCHANGED <<control, result>> /\ s # <<>>
      BY <1>41, <2>3 DEF DropFrames, MachineEmpty
    <3>3. b + 1 \in 1..Len(s) /\ Len(s) \in Nat
      BY <1>1, <3>1, LenProperties
    <3> DEFINE s2 == RemoveAt(s, b + 1)
    <3>4. CASE b > 0
      <4>1. s[b].kind = "Native" /\ b \in 1..Len(s) /\ b + 1 > 1
        BY <3>1, <3>3, <3>4 DEF IsBase
      <4>2. Rooted(state, s, r)
        BY <1>1, <3>2, <4>1 DEF Tracked, Rooted
      <4>3. s2 # <<>> /\ s2[1] = s[1]
        BY <1>1, <3>2, <3>3, <4>1, BottomFrame
      <4> HIDE DEF s2
      <4> QED
        BY <1>11, <1>36, <3>1, <3>2, <4>2, <4>3 DEF s2
    <3>5. CASE b = 0
      <4>1. \A i \in 1..Len(s) : s[i].kind # "Native"
        BY <3>1, <3>5 DEF IsBase
      <4>2. Doomed(state', r)
        <5>1. CASE Doomed(state, r)
          BY <1>4, <5>1
        <5>2. CASE s[1].kind = "Update" /\ Leads(state, r, s[1].thunk)
          <6>1. s[1].thunk \in Thunks /\ 1 \in Updates(e)
            <7>1. s[1] \in Frames /\ 1 \in 1..Len(s)
              BY <1>1, <3>2, <3>3, <3>5, BottomFrame
            <7>2. 1 \in Updates(e)
              BY <5>2, <7>1 DEF Updates
            <7> QED
              BY <7>1, <7>2 DEF Frames
          <6>2. state[s[1].thunk].tag = "Evaluating"
            <7>1. state[s[1].thunk] = OwnedBy(e)
              BY <1>1, <6>1 DEF Ownership, FramesOwn
            <7> QED
              BY <7>1 DEF OwnedBy
          <6>3. state' = [state EXCEPT ![s[1].thunk] = cell]
            BY <3>1, <3>5, <5>2, <6>2
          <6>4. cell.tag = "Failed"
            OBVIOUS
          <6> HIDE DEF cell
          <6>5. state'[s[1].thunk].tag = "Failed"
            BY <1>1, <6>1, <6>3, <6>4 DEF Cells
          <6> QED
            BY <1>3, <5>2, <6>1, <6>5 DEF Doomed
        <5> QED
          BY <1>1, <3>2, <5>1, <5>2 DEF Tracked
      <4>3. \A i \in 1..Len(s2) : s2[i].kind # "Native"
        <5>1. /\ Len(s2) = Len(s) - 1
              /\ \A j \in 1..(Len(s) - 1) : s2[j] = IF j < b + 1 THEN s[j] ELSE s[j + 1]
          BY <1>1, <3>3, RemoveFrameAt
        <5> HIDE DEF s2
        <5> QED
          BY <3>3, <4>1, <5>1
      <4> HIDE DEF s2
      <4>4. Tracked(state', c, s2, r)
        BY <2>1, <4>2, <4>3 DEF Tracked, Seeking
      <4> QED
        BY <1>10, <1>36, <3>1, <3>2, <4>4 DEF s2
    <3> QED
      BY <3>1, <3>4, <3>5
  <2> QED
    BY <2>2, <2>3
<1> HIDE DEF s, c, r
<1> QED
  BY <1>20, <1>21, <1>22, <1>23, <1>24, <1>25, <1>26, <1>27, <1>28, <1>29, <1>30,
     <1>31, <1>38, <1>39, <1>40, <1>41, Zenon DEF Step, Probe

(* Every step of the program keeps every force on track.                   *)
LEMMA NextAgreed == IInv /\ Agreed /\ [Next]_vars /\ IInv' /\ NothingRuns' => Agreed'
<1> SUFFICES ASSUME IInv, Agreed, [Next]_vars, IInv', NothingRuns' PROVE Agreed'
  OBVIOUS
<1>1. TypeOK /\ Ownership /\ TypeOK'
  BY DEF IInv
<1>2. CellStep
  BY NextInv
<1>3. Later(state, state')
  BY <1>1, <1>2, PublishedKept
<1>4. Unstarted'
  BY <1>1, <1>2, UnstartedKept DEF Agreed
<1>5. ASSUME UNCHANGED <<program, state, stack, control, root, result>>
      PROVE  Agreed'
  <2>1. AllTracked'
    BY <1>5 DEF Agreed, AllTracked
  <2>2. AllReported'
    BY <1>5 DEF Agreed, AllReported
  <2> QED
    BY <1>4, <2>1, <2>2 DEF Agreed
<1>6. ASSUME NEW e \in Evaluators, NEW t \in Thunks, BeginForce(e, t)
      PROVE  Agreed'
  <2> DEFINE res == [tag |-> "none"]
  <2>1. /\ UNCHANGED <<program, state, stack>> /\ control[e] = Idle
        /\ root' = [root EXCEPT ![e] = t] /\ control' = [control EXCEPT ![e] = At("enter", t)]
        /\ result' = [result EXCEPT ![e] = res]
    BY <1>6 DEF BeginForce
  <2>2. stack'[e] = <<>> /\ control'[e] = At("enter", t) /\ root'[e] = t
        /\ result'[e] = res
    BY <1>1, <2>1 DEF Ownership, IdleHoldsNothing, TypeOK
  <2>3. \A f \in Evaluators \ {e} :
           /\ control'[f] = control[f] /\ stack'[f] = stack[f] /\ root'[f] = root[f]
           /\ result'[f] = result[f]
    BY <1>1, <2>1 DEF TypeOK
  <2>4. Leads(state', t, t)
    BY DEF Leads
  <2>5. Tracked(state', control'[e], stack'[e], root'[e])
    BY <2>2, <2>4, TrackedBuilt DEF Seeking
  <2>6. res.tag = "none"
    OBVIOUS
  <2>7. Reported(state', result'[e])
    BY <2>2, <2>6 DEF Reported
  <2> QED
    BY <1>1, <1>3, <1>4, <2>3, <2>5, <2>7, AgreedKept
<1>7. ASSUME NEW e \in Evaluators, Cancel(e) PROVE Agreed'
  BY <1>5, <1>7 DEF Cancel
<1>8. CASE Exhaust
  BY <1>5, <1>8 DEF Exhaust
<1>9. CASE UNCHANGED vars
  BY <1>5, <1>9 DEF vars
<1> QED
  BY <1>1, <1>3, <1>4, <1>6, <1>7, <1>8, <1>9, StepAgreed DEF Next

(* Two forces of one thunk, by any evaluators at any time, agree: when one *)
(* returned a value, the other returned the same value unless it was       *)
(* cancelled, out of steps or refused by the wait graph itself.  The       *)
(* indirections of a thunk end in one cell, and a cell is written once.    *)
THEOREM ForcesOfAThunkAgree == Spec => []ForcesAgree
<1> DEFINE I == IInv /\ StacksBounded /\ Agreed
<1>1. Init => I
  <2>1. Init => StacksBounded
    BY InitBounded
  <2> QED
    BY <2>1, InitInv, InitAgreed
<1>2. I /\ [Next]_vars => I'
  <2>1. IInv /\ StacksBounded /\ [Next]_vars => IInv' /\ StacksBounded'
    BY NextInv, NextBounded DEF IInv
  <2>2. IInv' /\ StacksBounded' => NothingRuns'
    BY NoFrames, PTL DEF IInv
  <2> QED
    BY <2>1, <2>2, NextAgreed
<1>3. I => ForcesAgree
  <2> SUFFICES ASSUME IInv, Agreed, NEW e \in Evaluators, NEW f \in Evaluators,
                      result[e].tag = "ok", result[f].tag # "none",
                      result[f].thunk = result[e].thunk
               PROVE  \/ result[f].tag = "ok" /\ result[f].value = result[e].value
                      \/ result[f].tag = "err" /\ result[f].error \in GivenUp
    BY DEF ForcesAgree
  <2>1. state \in Cells /\ result[e] \in Results /\ result[f] \in Results
    BY DEF IInv, TypeOK, Cells
  <2> DEFINE t == result[e].thunk
  <2>2. t \in Thunks /\ result[f].tag \in {"ok", "err"}
    BY <2>1 DEF Results
  <2>3. PICK u \in Thunks : /\ Leads(state, t, u) /\ state[u].tag = "Evaluated"
                            /\ state[u].value = result[e].value
    BY DEF Agreed, AllReported, Reported, Yields
  <2>4. Reported(state, result[f])
    BY DEF Agreed, AllReported
  <2>5. CASE result[f].tag = "ok"
    <3>1. PICK w \in Thunks : /\ Leads(state, t, w) /\ state[w].tag = "Evaluated"
                              /\ state[w].value = result[f].value
      BY <2>4, <2>5 DEF Reported, Yields
    <3>2. u = w
      BY <2>1, <2>2, <2>3, <3>1, OneEnd
    <3> QED
      BY <2>3, <2>5, <3>1, <3>2
  <2>6. CASE result[f].tag = "err"
    <3>1. MaxFrames # 0
      BY <2>3 DEF Agreed, Unstarted
    <3>2. ASSUME Doomed(state, t) PROVE FALSE
      <4>1. PICK w \in Thunks : Leads(state, t, w) /\ state[w].tag = "Failed"
        BY <3>2 DEF Doomed
      <4>2. u = w
        BY <2>1, <2>2, <2>3, <4>1, OneEnd
      <4> QED
        BY <2>3, <4>1, <4>2
    <3> QED
      BY <2>4, <2>6, <3>1, <3>2 DEF Reported
  <2> QED
    BY <2>2, <2>5, <2>6
<1> QED
  BY <1>1, <1>2, <1>3, PTL DEF Spec
=============================================================================
