------------------------ MODULE ExecutionScope_proofs ------------------------
(***************************************************************************)
(* Every task permit is accounted for (PermitsAccounted), and the types,   *)
(* for every set of programs: any number of scopes, threads and items.     *)
(*                                                                         *)
(* PermitsAccounted is not inductive: a spawn that hands its permit to the *)
(* thread it starts would count it twice if the thread were running        *)
(* already, or if another spawn started the same one.  So the invariant    *)
(* also says that a spawn at Builder::spawn has a thread of its own that   *)
(* waits to be started (Starts), that such a spawn is on top of its stack, *)
(* because only cancel and close call anything (Stacks), and that a thread *)
(* with calls runs or closes (Stacks).  Rooms counts the insertions that   *)
(* are promised, which gives the bounds of the type invariant.             *)
(*                                                                         *)
(* A step of cancel or close changes the lists of a scope and the stack of *)
(* its thread: StackKeeps and its four forms show once that this disturbs  *)
(* no count.  The steps of register, child and spawn move the counts, and  *)
(* StepAround says by how much: by the difference of what the stack of the *)
(* thread reserves before and after (Weight).                              *)
(***************************************************************************)
EXTENDS ExecutionScope, Integers, SequenceTheorems, FiniteSetTheorems, TLAPS
LOCAL INSTANCE SequencesExt

(* The types of the records, when there are n scopes and m items.          *)
ScopeRec(n, m) ==
    [parent : 1..n, opener : 1..n, guarded : BOOLEAN, owned : BOOLEAN,
     cancelled : BOOLEAN, closed : BOOLEAN, drained : BOOLEAN,
     children : Seq(1..n), tasks : SUBSET (1..n),
     resource : Seq(1..m), finalizer : Seq(1..m)]
CallRec(n, m) ==
    [scope : 1..n, pc : Pcs \ {"asking"}, todo : Seq(1..n)]
      \cup [scope : 1..n, pc : {"asking"}, todo : Seq(1..m)]
ThreadRec(n, m) == [mode : Modes, home : 1..n, calls : Seq(CallRec(n, m))]
ItemRec(n, kinds) ==
    [kind : kinds, scope : 1..n, by : 1..n,
     status : {"held", "closed", "released"}, asked : Nat, calm : BOOLEAN]

Shapes(n, m) ==
    /\ scope \in Seq(ScopeRec(n, m))
    /\ thread \in Seq(ThreadRec(n, m))
    /\ item \in Seq(ItemRec(n, size.kinds))
    /\ stalled \subseteq 1..n
Typed ==
    /\ size \in Sizes
    /\ Len(scope) \in Nat \ {0} /\ Len(item) \in Nat /\ Len(thread) = Len(scope)
    /\ permits \in Int
    /\ Shapes(Len(scope), Len(item))

(* A call that is not on top of its stack waits for the one it made.       *)
Resting == {"descend", "children", "closing"}
Rested(calls) == \A i \in 1..Len(calls) - 1 : calls[i].pc \in Resting
Stacks ==
    \A t \in Scopes :
        /\ Rested(Calls(t))
        /\ thread[t].mode \notin {"body", "closing"} => Calls(t) = <<>>

(* A spawn is about to start, or has started, one thread of its own.       *)
Starts ==
    /\ \A t \in Scopes :
         At(t, "spawn start") \/ At(t, "spawn record") =>
            Len(Todo(t)) = 1 /\ Todo(t)[1] \in Scopes \ {Root}
    /\ \A t \in Scopes :
         At(t, "spawn start") => thread[Todo(t)[1]].mode = "starting"
    /\ \A t, u \in Scopes :
         /\ At(t, "spawn start") /\ At(u, "spawn start")
         /\ Todo(t)[1] = Todo(u)[1]
         => t = u

(* Every call that will insert something has its place.                    *)
Inserting == {"insert", "spawn child", "spawn insert"}
Rooms ==
    /\ Len(item) + Pending(AddPcs) <= size.items
    /\ Len(scope) + Pending(Inserting) <= size.scopes

(* A permit is held by a spawn, then by the thread it has started.         *)
Permitted == {"spawn child", "spawn insert", "spawn start"}
Live == {t \in Scopes \ {Root} : thread[t].mode \in {"body", "closing"}}
Permits ==
    /\ permits = Pending(Permitted) + Cardinality(Live)
    /\ permits <= size.tasks

(* What thread t reserves: its top call is one of pcs, or it is not.       *)
OnTop(t, pcs) == Calls(t) # <<>> /\ Last(Calls(t)).pc \in pcs
Weight(calls, pcs) == IF calls # <<>> /\ Last(calls).pc \in pcs THEN 1 ELSE 0
One(pc, pcs) == IF pc \in pcs THEN 1 ELSE 0
IndInv == Typed /\ Stacks /\ Starts /\ Rooms /\ Permits
-----------------------------------------------------------------------------
(* Sequences: the ends of a stack, and a list from which one is removed.   *)
LEMMA PrefixOfSeq ==
  ASSUME NEW S, NEW s \in Seq(S), NEW k \in Nat, k <= Len(s)
  PROVE  /\ SubSeq(s, 1, k) \in Seq(S) /\ Len(SubSeq(s, 1, k)) = k
         /\ \A i \in 1..k : SubSeq(s, 1, k)[i] = s[i]
<1>1. Len(s) \in Nat /\ \A i \in 1..k : s[i] \in S
  BY LenProperties
<1>2. SubSeq(s, 1, k) \in Seq(S)
  BY <1>1, SubSeqProperties
<1>3. Len(SubSeq(s, 1, k)) = IF 1 <= k THEN k - 1 + 1 ELSE 0
  BY <1>1, SubSeqProperties
<1>4. \A i \in 1..k - 1 + 1 : SubSeq(s, 1, k)[i] = s[1 + i - 1]
  BY <1>1, SubSeqProperties
<1>5. \A i \in 1..k : i \in 1..k - 1 + 1 /\ 1 + i - 1 = i
  OBVIOUS
<1> QED
  BY <1>2, <1>3, <1>4, <1>5

(* A stack without its top, and the top.                                   *)
LEMMA FrontOfSeq ==
  ASSUME NEW S, NEW s \in Seq(S), s # <<>>
  PROVE  /\ Len(s) \in Nat \ {0} /\ Last(s) = s[Len(s)] /\ Last(s) \in S
         /\ Front(s) \in Seq(S) /\ Len(Front(s)) = Len(s) - 1
         /\ \A i \in 1..Len(s) - 1 : Front(s)[i] = s[i]
<1>1. Len(s) \in Nat \ {0}
  BY EmptySeq
<1>2. Last(s) = s[Len(s)] /\ Last(s) \in S
  BY <1>1 DEF Last
<1> DEFINE k == Len(s) - 1
<1>3. k \in Nat /\ k <= Len(s) /\ Front(s) = SubSeq(s, 1, k)
  BY <1>1 DEF Front
<1> HIDE DEF k
<1>4. Front(s) \in Seq(S) /\ Len(Front(s)) = k
      /\ \A i \in 1..k : Front(s)[i] = s[i]
  BY <1>3, PrefixOfSeq
<1> QED
  BY <1>1, <1>2, <1>4 DEF k

(* A stack with one call more.                                             *)
LEMMA AppendToSeq ==
  ASSUME NEW S, NEW s \in Seq(S), NEW e \in S
  PROVE  /\ Append(s, e) \in Seq(S) /\ Append(s, e) # <<>>
         /\ Len(Append(s, e)) = Len(s) + 1 /\ Last(Append(s, e)) = e
         /\ \A i \in 1..Len(s) : Append(s, e)[i] = s[i]
         /\ Append(s, e)[Len(s) + 1] = e
<1>1. /\ Append(s, e) \in Seq(S) /\ Append(s, e) # <<>>
      /\ Len(Append(s, e)) = Len(s) + 1
      /\ \A i \in 1..Len(s) : Append(s, e)[i] = s[i]
      /\ Append(s, e)[Len(s) + 1] = e
  BY AppendProperties
<1> QED
  BY <1>1 DEF Last

(* A snapshot read newest first holds what the list held.                  *)
LEMMA ReverseOfSeq ==
  ASSUME NEW S, NEW s \in Seq(S)
  PROVE  Reverse(s) \in Seq(S)
<1>1. Len(s) \in Nat /\ \A i \in 1..Len(s) : (Len(s) - i) + 1 \in 1..Len(s)
  BY LenProperties
<1>2. Reverse(s) \in [1..Len(s) -> S]
  BY <1>1 DEF Reverse
<1> QED
  BY <1>1, <1>2

(* A list of children from which one is removed lists children.            *)
LEMMA WithoutOfSeq ==
  ASSUME NEW S, NEW s \in Seq(S), NEW e
  PROVE  Without(s, e) \in Seq(S)
<1>1. CASE \E i \in 1..Len(s) : s[i] = e
  <2> DEFINE k == CHOOSE i \in 1..Len(s) : s[i] = e
  <2>1. k \in 1..Len(s) /\ Len(s) \in Nat
    BY <1>1, LenProperties
  <2>2. Without(s, e) = RemoveAt(s, k)
    BY <1>1 DEF Without
  <2> HIDE DEF k
  <2>3. SubSeq(s, 1, k - 1) \in Seq(S) /\ SubSeq(s, k + 1, Len(s)) \in Seq(S)
    BY <2>1, SubSeqProperties
  <2>4. RemoveAt(s, k) = SubSeq(s, 1, k - 1) \o SubSeq(s, k + 1, Len(s))
    BY DEF RemoveAt
  <2> QED
    BY <2>2, <2>3, <2>4
<1>2. CASE ~ \E i \in 1..Len(s) : s[i] = e
  BY <1>2 DEF Without
<1> QED
  BY <1>1, <1>2

(* What a loop visits next, and what it visits later.                      *)
LEMMA TailOfSeq ==
  ASSUME NEW S, NEW s \in Seq(S), s # <<>>
  PROVE  Head(s) \in S /\ Tail(s) \in Seq(S)
BY HeadTailProperties

(* More scopes or items: the old numbers stay numbers.                     *)
LEMMA SeqGrows ==
  ASSUME NEW m \in Int, NEW n \in Int, m <= n
  PROVE  1..m \subseteq 1..n /\ Seq(1..m) \subseteq Seq(1..n)
<1>1. 1..m \subseteq 1..n
  OBVIOUS
<1> QED
  BY <1>1, SeqMonotonic
-----------------------------------------------------------------------------
(* What a stack is after a return, a jump of its top call, and a call.     *)
LEMMA ReturnRests ==
  ASSUME NEW S, NEW c \in Seq(S), c # <<>>, Rested(c)
  PROVE  /\ Front(c) \in Seq(S) /\ Rested(Front(c))
         /\ Front(c) # <<>> => Last(Front(c)).pc \in Resting
<1>1. /\ Len(c) \in Nat \ {0} /\ Front(c) \in Seq(S) /\ Len(Front(c)) = Len(c) - 1
      /\ \A i \in 1..Len(c) - 1 : Front(c)[i] = c[i]
  BY FrontOfSeq
<1>2. \A i \in 1..Len(c) - 1 : Front(c)[i].pc \in Resting
  BY <1>1 DEF Rested
<1>3. Rested(Front(c))
  BY <1>1, <1>2 DEF Rested
<1>4. ASSUME Front(c) # <<>> PROVE Last(Front(c)).pc \in Resting
  <2>1. Len(Front(c)) \in Nat \ {0} /\ Last(Front(c)) = Front(c)[Len(Front(c))]
    BY <1>1, <1>4, FrontOfSeq
  <2> QED
    BY <1>1, <1>2, <2>1
<1> QED
  BY <1>1, <1>3, <1>4

(* goto: the top call moves on, the calls below rest.                      *)
LEMMA JumpRests ==
  ASSUME NEW S, NEW c \in Seq(S), c # <<>>, Rested(c), NEW f \in S
  PROVE  LET d == Append(Front(c), f)
         IN  d \in Seq(S) /\ Rested(d) /\ d # <<>> /\ Last(d) = f /\ Len(d) = Len(c)
<1> DEFINE d == Append(Front(c), f)
<1>1. /\ Len(c) \in Nat \ {0} /\ Front(c) \in Seq(S) /\ Len(Front(c)) = Len(c) - 1
      /\ \A i \in 1..Len(c) - 1 : Front(c)[i] = c[i]
  BY FrontOfSeq
<1>2. /\ d \in Seq(S) /\ d # <<>> /\ Len(d) = Len(Front(c)) + 1 /\ Last(d) = f
      /\ \A i \in 1..Len(Front(c)) : d[i] = Front(c)[i]
  BY <1>1, AppendToSeq
<1> HIDE DEF d
<1>3. Len(d) = Len(c) /\ \A i \in 1..Len(c) - 1 : d[i] = c[i]
  BY <1>1, <1>2
<1>4. Rested(d)
  BY <1>3 DEF Rested
<1> QED
  BY <1>2, <1>3, <1>4 DEF d

(* A call made from the top call, which then rests itself.                 *)
LEMMA CallRests ==
  ASSUME NEW S, NEW c \in Seq(S), c # <<>>, Rested(c), NEW f \in S, NEW g \in S,
         f.pc \in Resting
  PROVE  LET d == Append(Append(Front(c), f), g)
         IN  d \in Seq(S) /\ Rested(d) /\ d # <<>> /\ Last(d) = g
<1> DEFINE b == Append(Front(c), f)
           d == Append(b, g)
<1>1. b \in Seq(S) /\ Rested(b) /\ b # <<>> /\ Last(b) = f
  BY JumpRests
<1> HIDE DEF b
<1>2. /\ d \in Seq(S) /\ d # <<>> /\ Len(d) = Len(b) + 1 /\ Last(d) = g
      /\ \A i \in 1..Len(b) : d[i] = b[i]
  BY <1>1, AppendToSeq
<1>3. Len(b) \in Nat \ {0} /\ b[Len(b)] = f
  BY <1>1, FrontOfSeq
<1> HIDE DEF d
<1>4. \A i \in 1..Len(d) - 1 : i = Len(b) \/ i \in 1..Len(b) - 1
  BY <1>2, <1>3
<1>5. \A i \in 1..Len(b) - 1 : b[i].pc \in Resting
  BY <1>1 DEF Rested
<1>6. ASSUME NEW i \in 1..Len(d) - 1 PROVE d[i].pc \in Resting
  <2>1. i \in 1..Len(b) /\ d[i] = b[i]
    BY <1>2, <1>3
  <2>2. CASE i = Len(b)
    BY <1>3, <2>1, <2>2
  <2>3. CASE i \in 1..Len(b) - 1
    BY <1>5, <2>1, <2>3
  <2> QED
    BY <1>4, <2>2, <2>3
<1>7. Rested(d)
  BY <1>6 DEF Rested
<1> QED
  BY <1>2, <1>7 DEF b, d

(* A body makes its one call.                                              *)
LEMMA FirstCallRests ==
  ASSUME NEW S, NEW f \in S
  PROVE  LET d == Append(<<>>, f)
         IN  d \in Seq(S) /\ Rested(d) /\ d # <<>> /\ Last(d) = f
<1>1. <<>> \in Seq(S) /\ Len(<<>>) = 0
  BY EmptySeq
<1>2. ASSUME NEW e \in Seq(S), Len(e) = 0
      PROVE  LET d == Append(e, f)
             IN  d \in Seq(S) /\ Rested(d) /\ d # <<>> /\ Last(d) = f
  <2> DEFINE d == Append(e, f)
  <2>1. d \in Seq(S) /\ d # <<>> /\ Len(d) = Len(e) + 1 /\ Last(d) = f
    BY AppendToSeq, Zenon
  <2> HIDE DEF d
  <2>2. Rested(d)
    BY <1>2, <2>1 DEF Rested
  <2> QED
    BY <2>1, <2>2 DEF d
<1> QED
  BY <1>1, <1>2

-----------------------------------------------------------------------------
(* The types, and what they say of one scope, thread, call or item.        *)
LEMMA TypesGrow ==
  ASSUME NEW n \in Nat, NEW m \in Nat, NEW n2 \in Nat, NEW m2 \in Nat,
         n <= n2, m <= m2
  PROVE  /\ Seq(ScopeRec(n, m)) \subseteq Seq(ScopeRec(n2, m2))
         /\ Seq(CallRec(n, m)) \subseteq Seq(CallRec(n2, m2))
         /\ Seq(ThreadRec(n, m)) \subseteq Seq(ThreadRec(n2, m2))
         /\ \A kinds : Seq(ItemRec(n, kinds)) \subseteq Seq(ItemRec(n2, kinds))
<1>1. /\ 1..n \subseteq 1..n2 /\ Seq(1..n) \subseteq Seq(1..n2)
      /\ 1..m \subseteq 1..m2 /\ Seq(1..m) \subseteq Seq(1..m2)
  BY SeqGrows
<1>2. ScopeRec(n, m) \subseteq ScopeRec(n2, m2)
  BY <1>1, SMT DEF ScopeRec
<1>3. CallRec(n, m) \subseteq CallRec(n2, m2)
  BY <1>1 DEF CallRec
<1>4. Seq(CallRec(n, m)) \subseteq Seq(CallRec(n2, m2))
  BY <1>3, SeqMonotonic
<1>5. ThreadRec(n, m) \subseteq ThreadRec(n2, m2)
  BY <1>1, <1>4 DEF ThreadRec
<1>6. \A kinds : ItemRec(n, kinds) \subseteq ItemRec(n2, kinds)
  BY <1>1 DEF ItemRec
<1> QED
  BY <1>2, <1>4, <1>5, <1>6, SeqMonotonic

(* What was typed stays typed when a scope is added.                       *)
LEMMA ShapesGrow ==
  ASSUME NEW n \in Nat, NEW m \in Nat, NEW n2 \in Nat, NEW m2 \in Nat,
         n <= n2, m <= m2, Shapes(n, m)
  PROVE  Shapes(n2, m2)
BY TypesGrow, SeqGrows DEF Shapes

(* What Typed says of the lengths.                                         *)
LEMMA TypedShapes ==
  ASSUME Typed
  PROVE  Len(scope) \in Nat \ {0} /\ Len(item) \in Nat /\ Len(thread) = Len(scope)
         /\ Shapes(Len(scope), Len(item)) /\ Scopes = 1..Len(scope)
BY DEF Typed, Scopes

(* One ExecutionScopeInner.                                                *)
LEMMA ScopeTyped ==
  ASSUME Typed, NEW s \in Scopes
  PROVE  scope[s] \in ScopeRec(Len(scope), Len(item))
BY DEF Typed, Shapes, Scopes

(* One thread: its mode, its home and its calls.                           *)
LEMMA ThreadTyped ==
  ASSUME Typed, NEW t \in Scopes
  PROVE  /\ thread[t] \in ThreadRec(Len(scope), Len(item))
         /\ thread[t].mode \in Modes /\ thread[t].home \in Scopes
         /\ Calls(t) \in Seq(CallRec(Len(scope), Len(item)))
<1>1. thread[t] \in ThreadRec(Len(scope), Len(item))
  BY DEF Typed, Shapes, Scopes
<1> QED
  BY <1>1 DEF ThreadRec, Scopes, Calls

(* The call on top: its scope, and what it still has to visit.             *)
LEMMA TopTyped ==
  ASSUME Typed, NEW t \in Scopes, Calls(t) # <<>>
  PROVE  /\ Last(Calls(t)) \in CallRec(Len(scope), Len(item))
         /\ Here(t) \in Scopes /\ Last(Calls(t)).pc \in Pcs
         /\ At(t, "asking") => Todo(t) \in Seq(Items)
         /\ ~At(t, "asking") => Todo(t) \in Seq(Scopes)
<1>1. Last(Calls(t)) \in CallRec(Len(scope), Len(item))
  BY ThreadTyped, FrontOfSeq
<1> QED
  BY <1>1 DEF CallRec, Scopes, Items, Here, Todo, At, Pcs, CancelPcs

(* A call that goes on with a list to visit.                               *)
LEMMA FrameTyped ==
  ASSUME NEW n, NEW m, NEW s \in 1..n, NEW pc \in Pcs, NEW todo,
         todo \in Seq(IF pc = "asking" THEN 1..m ELSE 1..n)
  PROVE  /\ Frame(s, pc, todo) \in CallRec(n, m)
         /\ Frame(s, pc, todo).pc = pc /\ Frame(s, pc, todo).todo = todo
BY DEF Frame, CallRec

(* A call that starts.                                                     *)
LEMMA EntryTyped ==
  ASSUME NEW n, NEW m, NEW s \in 1..n, NEW pc \in Pcs
  PROVE  /\ Frame(s, pc, <<>>) \in CallRec(n, m)
         /\ Frame(s, pc, <<>>).pc = pc /\ Frame(s, pc, <<>>).todo = <<>>
<1>1. <<>> \in Seq(1..m) /\ <<>> \in Seq(1..n)
  BY EmptySeq
<1> QED
  BY <1>1 DEF Frame, CallRec

(* The call of a spawn that has made its scope.                            *)
LEMMA StartFrameTyped ==
  ASSUME NEW n \in Nat, NEW m, NEW s \in 1..n
  PROVE  /\ Frame(s, "spawn start", <<n + 1>>) \in CallRec(n + 1, m)
         /\ Frame(s, "spawn start", <<n + 1>>).pc = "spawn start"
         /\ Frame(s, "spawn start", <<n + 1>>).todo = <<n + 1>>
<1> DEFINE k == n + 1
<1>1. s \in 1..k /\ k \in 1..k
  OBVIOUS
<1> HIDE DEF k
<1>2. <<k>> \in Seq(1..k)
  BY <1>1
<1>3. Frame(s, "spawn start", <<k>>) \in CallRec(k, m)
  BY <1>1, <1>2 DEF Frame, CallRec, Pcs, SpawnPcs
<1> QED
  BY <1>3 DEF k, Frame
-----------------------------------------------------------------------------
(* How a step of thread t moves the counts.                                *)
LEMMA PendingStep ==
  ASSUME Typed, NEW t \in Scopes, NEW pcs,
         Len(scope') \in Nat, Len(scope) <= Len(scope'),
         \A u \in Scopes \ {t} : Calls(u)' = Calls(u),
         \A u \in Scopes' \ Scopes : Calls(u)' = <<>>
  PROVE  /\ Pending(pcs) \in Nat /\ Pending(pcs)' \in Nat
         /\ Pending(pcs)' = Pending(pcs) - Weight(Calls(t), pcs) + Weight(Calls(t)', pcs)
<1> DEFINE A == {u \in Scopes : OnTop(u, pcs)}
           B == {u \in Scopes' : OnTop(u, pcs)'}
<1>1. Len(scope) \in Nat
  BY DEF Typed
<1>2. IsFiniteSet(Scopes) /\ IsFiniteSet(Scopes')
  BY <1>1, FS_Interval DEF Scopes
<1>3. IsFiniteSet(A) /\ IsFiniteSet(B)
  <2>1. A \subseteq Scopes /\ B \subseteq Scopes'
    OBVIOUS
  <2> QED
    BY <1>2, <2>1, FS_Subset
<1>4. Pending(pcs) = Cardinality(A) /\ Pending(pcs)' = Cardinality(B)
  BY DEF Pending, OnTop
<1>5. Cardinality(A) \in Nat /\ Cardinality(B) \in Nat
  BY <1>3, FS_CardinalityType
<1>6. Scopes \subseteq Scopes' /\ t \in Scopes'
  BY <1>1 DEF Scopes
<1>7. (t \in A <=> OnTop(t, pcs)) /\ (t \in B <=> OnTop(t, pcs)')
  BY <1>6 DEF OnTop
<1>8. A \ {t} = B \ {t}
  BY <1>6 DEF OnTop
<1> HIDE DEF A, B
<1>9. Cardinality(A \ {t}) = Cardinality(A) - Weight(Calls(t), pcs)
  <2>1. Cardinality(A \ {t}) = IF t \in A THEN Cardinality(A) - 1 ELSE Cardinality(A)
    BY <1>3, FS_RemoveElement
  <2> QED
    BY <1>5, <1>7, <2>1 DEF Weight, OnTop
<1>10. Cardinality(B \ {t}) = Cardinality(B) - Weight(Calls(t)', pcs)
  <2>1. Cardinality(B \ {t}) = IF t \in B THEN Cardinality(B) - 1 ELSE Cardinality(B)
    BY <1>3, FS_RemoveElement
  <2> QED
    BY <1>5, <1>7, <2>1 DEF Weight, OnTop
<1>11. Weight(Calls(t), pcs) \in Nat /\ Weight(Calls(t)', pcs) \in Nat
  BY DEF Weight, OnTop
<1>12. Cardinality(B) = Cardinality(A) - Weight(Calls(t), pcs) + Weight(Calls(t)', pcs)
  <2>1. Cardinality(A) - Weight(Calls(t), pcs) = Cardinality(B) - Weight(Calls(t)', pcs)
    BY <1>8, <1>9, <1>10
  <2> QED
    BY <1>5, <1>11, <2>1
<1> QED
  BY <1>4, <1>5, <1>12

(* Finitely many threads hold a permit.                                    *)
LEMMA LiveFinite ==
  ASSUME Typed
  PROVE  IsFiniteSet(Live) /\ Cardinality(Live) \in Nat
<1>1. IsFiniteSet(Scopes)
  BY FS_Interval DEF Scopes, Typed
<1>2. Live \subseteq Scopes
  BY DEF Live
<1> QED
  BY <1>1, <1>2, FS_Subset, FS_CardinalityType

(* Thread t changes its stack and nothing else of the threads.             *)
LEMMA StackChanged ==
  ASSUME Typed, NEW t \in Scopes, NEW calls \in Seq(CallRec(Len(scope), Len(item))),
         SetCalls(t, calls)
  PROVE  /\ thread' \in Seq(ThreadRec(Len(scope), Len(item)))
         /\ Len(thread') = Len(thread)
         /\ \A u \in Scopes : /\ thread'[u].mode = thread[u].mode
                              /\ thread'[u].calls = IF u = t THEN calls ELSE thread[u].calls
<1>1. /\ thread \in Seq(ThreadRec(Len(scope), Len(item)))
      /\ t \in 1..Len(thread) /\ Scopes = 1..Len(thread)
  BY DEF Typed, Shapes, Scopes
<1>2. thread[t] \in ThreadRec(Len(scope), Len(item))
  BY ThreadTyped
<1> DEFINE th == [mode |-> thread[t].mode, home |-> thread[t].home, calls |-> calls]
<1>3. th \in ThreadRec(Len(scope), Len(item)) /\ th.mode = thread[t].mode /\ th.calls = calls
  BY <1>2 DEF ThreadRec
<1>4. [thread[t] EXCEPT !.calls = calls] = th
  BY <1>2 DEF ThreadRec
<1>5. thread' = [thread EXCEPT ![t] = th]
  BY <1>4 DEF SetCalls
<1> HIDE DEF th
<1>6. /\ thread' \in Seq(ThreadRec(Len(scope), Len(item))) /\ Len(thread') = Len(thread)
      /\ \A u \in 1..Len(thread) : thread'[u] = IF u = t THEN th ELSE thread[u]
  BY <1>1, <1>3, <1>5, ExceptSeq
<1> QED
  BY <1>1, <1>3, <1>6

(* The calls that have reserved something, or know a thread.               *)
Working == AddPcs \cup Inserting \cup Permitted \cup {"spawn record"}

(* Nobody starts or ends and nothing is inserted: the rest of the          *)
(* invariant holds as long as the stack stays orderly.                     *)
LEMMA StepInside ==
  ASSUME IndInv, Typed', NEW t \in Scopes, NEW calls, UNCHANGED <<size, permits>>,
         Len(scope') = Len(scope), Len(item') = Len(item),
         \A u \in Scopes : /\ thread'[u].mode = thread[u].mode
                           /\ thread'[u].calls = IF u = t THEN calls ELSE thread[u].calls,
         ~OnTop(t, AddPcs \cup Inserting \cup Permitted),
         Rested(calls),
         calls # <<>> => thread[t].mode \in {"body", "closing"}
                         /\ Last(calls).pc \notin Working
  PROVE  IndInv'
<1>1. Scopes' = Scopes
  BY DEF Scopes
<1>2. \A u \in Scopes : Calls(u)' = IF u = t THEN calls ELSE Calls(u)
  BY DEF Calls
<1>3. Stacks'
  BY <1>1, <1>2 DEF IndInv, Stacks
<1>4. ~OnTop(t, Working)'
  BY <1>2 DEF OnTop
<1>5. \A u \in Scopes : \A pc : At(u, pc)' /\ pc \in Working => u # t /\ At(u, pc) /\ Todo(u)' = Todo(u)
  BY <1>2 DEF At, Todo
<1>6. Starts'
  <2>1. "spawn start" \in Working /\ "spawn record" \in Working
    BY DEF Working, Permitted
  <2>2. Root' = Root
    BY DEF Root
  <2>3. Starts
    BY DEF IndInv
  <2>4. ASSUME NEW u \in Scopes, At(u, "spawn start")' \/ At(u, "spawn record")'
        PROVE  /\ Todo(u)' = Todo(u) /\ Len(Todo(u)) = 1 /\ Todo(u)[1] \in Scopes \ {Root}
               /\ At(u, "spawn start")' => At(u, "spawn start")
    BY <1>5, <2>1, <2>3, <2>4 DEF Starts
  <2>5. ASSUME NEW u \in Scopes, At(u, "spawn start")'
        PROVE  thread'[Todo(u)[1]].mode = "starting"
    BY <2>3, <2>4, <2>5 DEF Starts
  <2>6. ASSUME NEW u \in Scopes, NEW v \in Scopes, At(u, "spawn start")',
               At(v, "spawn start")', Todo(u)'[1] = Todo(v)'[1]
        PROVE  u = v
    BY <2>3, <2>4, <2>6 DEF Starts
  <2>7. Scopes' = Scopes
    BY <1>1
  <2>8. \A u \in Scopes : At(u, "spawn start")' \/ At(u, "spawn record")' =>
            Len(Todo(u)') = 1 /\ Todo(u)'[1] \in Scopes \ {Root}
    BY <2>4
  <2> QED
    BY ONLY <2>2, <2>5, <2>6, <2>7, <2>8, <2>4 DEF Starts
<1>7. \A pcs \in {AddPcs, Inserting, Permitted} : Pending(pcs)' = Pending(pcs)
  <2> TAKE pcs \in {AddPcs, Inserting, Permitted}
  <2>1. Pending(pcs) \in Nat
        /\ Pending(pcs)' = Pending(pcs) - Weight(Calls(t), pcs) + Weight(Calls(t)', pcs)
    BY <1>1, <1>2, PendingStep DEF IndInv, Typed
  <2>2. ~OnTop(t, pcs) /\ ~OnTop(t, pcs)'
    BY <1>4 DEF OnTop, Working
  <2> QED
    BY <2>1, <2>2 DEF Weight, OnTop
<1>8. Live' = Live
  BY <1>1 DEF Live, Root
<1> QED
  BY <1>3, <1>6, <1>7, <1>8 DEF IndInv, Rooms, Permits
-----------------------------------------------------------------------------
(* The steps that end no call of register, child or spawn and start none.  *)
DataKept ==
    /\ UNCHANGED <<size, permits>>
    /\ scope' \in Seq(ScopeRec(Len(scope), Len(item))) /\ Len(scope') = Len(scope)
    /\ item' \in Seq(ItemRec(Len(scope), size.kinds)) /\ Len(item') = Len(item)
    /\ stalled' \subseteq Scopes

(* A step of the stack alone.                                              *)
LEMMA DataUnchanged ==
  ASSUME Typed, UNCHANGED <<size, permits, scope, item, stalled>>
  PROVE  DataKept
BY DEF Typed, Shapes, DataKept, Scopes

(* One thread changes its stack, in a call that inserts nothing.           *)
LEMMA StackKeeps ==
  ASSUME IndInv, DataKept, NEW t \in Scopes,
         NEW calls \in Seq(CallRec(Len(scope), Len(item))), SetCalls(t, calls),
         ~OnTop(t, AddPcs \cup Inserting \cup Permitted),
         Rested(calls),
         calls # <<>> => thread[t].mode \in {"body", "closing"}
                         /\ Last(calls).pc \notin Working
  PROVE  IndInv'
<1>0. Typed
  BY DEF IndInv
<1>1. /\ thread' \in Seq(ThreadRec(Len(scope), Len(item))) /\ Len(thread') = Len(thread)
      /\ \A u \in Scopes : /\ thread'[u].mode = thread[u].mode
                           /\ thread'[u].calls = IF u = t THEN calls ELSE thread[u].calls
  BY <1>0, StackChanged
<1>2. Typed'
  BY <1>0, <1>1 DEF Typed, Shapes, DataKept, Scopes
<1> QED
  BY <1>1, <1>2, StepInside DEF DataKept

(* A thread with a call under way runs or closes.                          *)
LEMMA BusyMode ==
  ASSUME IndInv, NEW t \in Scopes, Calls(t) # <<>>
  PROVE  /\ thread[t].mode \in {"body", "closing"} /\ Rested(Calls(t))
         /\ Calls(t) \in Seq(CallRec(Len(scope), Len(item)))
BY ThreadTyped DEF IndInv, Stacks

(* Such a call returns,                                                    *)
LEMMA ReturnKeeps ==
  ASSUME IndInv, DataKept, NEW t \in Scopes, Calls(t) # <<>>,
         ~OnTop(t, AddPcs \cup Inserting \cup Permitted), Return(t)
  PROVE  IndInv'
<1>1. /\ Front(Calls(t)) \in Seq(CallRec(Len(scope), Len(item))) /\ Rested(Front(Calls(t)))
      /\ Front(Calls(t)) # <<>> => Last(Front(Calls(t))).pc \in Resting
  BY BusyMode, ReturnRests
<1>2. Resting \cap Working = {}
  BY DEF Resting, Working, AddPcs, Inserting, Permitted
<1>3. SetCalls(t, Front(Calls(t)))
  BY DEF Return
<1> QED
  BY <1>1, <1>2, <1>3, BusyMode, StackKeeps

(* goes on to its next part,                                               *)
LEMMA GotoKeeps ==
  ASSUME IndInv, DataKept, NEW t \in Scopes, Calls(t) # <<>>,
         ~OnTop(t, AddPcs \cup Inserting \cup Permitted),
         NEW pc \in Pcs \ Working, NEW todo,
         todo \in Seq(IF pc = "asking" THEN Items ELSE Scopes),
         Goto(t, pc, todo)
  PROVE  IndInv'
<1> DEFINE f == Frame(Here(t), pc, todo)
           c == Append(Front(Calls(t)), f)
<1>1. f \in CallRec(Len(scope), Len(item)) /\ f.pc = pc
  BY TopTyped, FrameTyped DEF IndInv, Scopes, Items
<1>2. SetCalls(t, c)
  BY DEF Goto
<1> HIDE DEF f
<1>3. c \in Seq(CallRec(Len(scope), Len(item))) /\ Rested(c) /\ c # <<>> /\ Last(c) = f
  <2>1. Rested(Calls(t)) /\ Calls(t) \in Seq(CallRec(Len(scope), Len(item)))
    BY BusyMode
  <2> QED
    BY <1>1, <2>1, JumpRests
<1> HIDE DEF c
<1> QED
  BY <1>1, <1>2, <1>3, BusyMode, StackKeeps

(* calls cancel or close on another scope,                                 *)
LEMMA CallFromKeeps ==
  ASSUME IndInv, DataKept, NEW t \in Scopes, Calls(t) # <<>>,
         ~OnTop(t, AddPcs \cup Inserting \cup Permitted),
         NEW pc \in Resting, NEW todo \in Seq(Scopes),
         NEW s \in Scopes, NEW entry \in {"cancel", "close"},
         CallFrom(t, pc, todo, s, entry)
  PROVE  IndInv'
<1> DEFINE f == Frame(Here(t), pc, todo)
           g == Frame(s, entry, <<>>)
           c == Append(Append(Front(Calls(t)), f), g)
<1>1. /\ pc \in Pcs \ {"asking"}
      /\ entry \in Pcs \ {"asking"} /\ entry \notin Working
  BY DEF Resting, Pcs, CancelPcs, ClosePcs, Working, AddPcs, Inserting, Permitted
<1>3. f \in CallRec(Len(scope), Len(item)) /\ f.pc = pc
  BY <1>1, TopTyped, FrameTyped DEF IndInv, Scopes
<1>4. g \in CallRec(Len(scope), Len(item)) /\ g.pc = entry
  BY <1>1, EntryTyped DEF Scopes
<1>5. SetCalls(t, c)
  BY DEF CallFrom
<1> HIDE DEF f, g
<1>6. c \in Seq(CallRec(Len(scope), Len(item))) /\ Rested(c) /\ c # <<>> /\ Last(c) = g
  BY <1>3, <1>4, BusyMode, CallRests
<1> HIDE DEF c
<1> QED
  BY <1>1, <1>4, <1>5, <1>6, BusyMode, StackKeeps

(* or is the first call of a running body.                                 *)
LEMMA CallKeeps ==
  ASSUME IndInv, DataKept, NEW t \in Scopes, Running(t),
         NEW s \in Scopes, NEW entry \in {"cancel", "close"},
         Call(t, s, entry)
  PROVE  IndInv'
<1> DEFINE f == Frame(s, entry, <<>>)
           c == Append(<<>>, f)
<1>1. entry \in Pcs \ {"asking"} /\ entry \notin Working
  BY DEF Pcs, CancelPcs, ClosePcs, Working, AddPcs, Inserting, Permitted
<1>3. f \in CallRec(Len(scope), Len(item)) /\ f.pc = entry
  BY <1>1, EntryTyped DEF Scopes
<1>4. SetCalls(t, c) /\ Calls(t) = <<>> /\ thread[t].mode = "body"
  BY DEF Call, Running
<1> HIDE DEF f
<1>5. c \in Seq(CallRec(Len(scope), Len(item))) /\ Rested(c) /\ c # <<>> /\ Last(c) = f
  BY <1>3, FirstCallRests
<1>6. ~OnTop(t, AddPcs \cup Inserting \cup Permitted)
  BY <1>4 DEF OnTop
<1> HIDE DEF c
<1> QED
  BY <1>1, <1>3, <1>4, <1>5, <1>6, StackKeeps

(* One scope changes.                                                      *)
LEMMA ScopeChanged ==
  ASSUME Typed, NEW s \in Scopes, NEW r \in ScopeRec(Len(scope), Len(item)),
         scope' = [scope EXCEPT ![s] = r]
  PROVE  scope' \in Seq(ScopeRec(Len(scope), Len(item))) /\ Len(scope') = Len(scope)
BY ExceptSeq DEF Typed, Shapes, Scopes

(* One scope changes and the counts do not.                                *)
LEMMA ScopeKept ==
  ASSUME Typed, NEW s \in Scopes, NEW r \in ScopeRec(Len(scope), Len(item)),
         scope' = [scope EXCEPT ![s] = r],
         UNCHANGED <<size, permits, item, stalled>>
  PROVE  DataKept
BY ScopeChanged DEF Typed, Shapes, DataKept, Scopes

(* One item changes and the counts do not.                                 *)
LEMMA ItemKept ==
  ASSUME Typed, NEW i \in Items, NEW r \in ItemRec(Len(scope), size.kinds),
         item' = [item EXCEPT ![i] = r],
         scope' \in Seq(ScopeRec(Len(scope), Len(item))), Len(scope') = Len(scope),
         UNCHANGED <<size, permits, stalled>>
  PROVE  DataKept
BY ExceptSeq DEF Typed, Shapes, DataKept, Scopes, Items

(* One registered item.                                                    *)
LEMMA ItemTyped ==
  ASSUME Typed, NEW i \in Items
  PROVE  item[i] \in ItemRec(Len(scope), size.kinds)
BY DEF Typed, Shapes, Items
-----------------------------------------------------------------------------
(* The fields a step sets.                                                 *)
LEMMA FieldsTyped ==
  ASSUME NEW n, NEW m, NEW r \in ScopeRec(n, m)
  PROVE  /\ \A b \in BOOLEAN : /\ [r EXCEPT !.guarded = b] \in ScopeRec(n, m)
                               /\ [r EXCEPT !.owned = b] \in ScopeRec(n, m)
                               /\ [r EXCEPT !.cancelled = b] \in ScopeRec(n, m)
                               /\ [r EXCEPT !.closed = b] \in ScopeRec(n, m)
                               /\ [r EXCEPT !.drained = b] \in ScopeRec(n, m)
         /\ \A l \in Seq(1..n) : [r EXCEPT !.children = l] \in ScopeRec(n, m)
         /\ \A ts \in SUBSET (1..n) : [r EXCEPT !.tasks = ts] \in ScopeRec(n, m)
         /\ \A l \in Seq(1..m) : /\ [r EXCEPT !.resource = l] \in ScopeRec(n, m)
                                 /\ [r EXCEPT !.finalizer = l] \in ScopeRec(n, m)
BY DEF ScopeRec

(* The lists and sets a scope holds.                                       *)
LEMMA ListsTyped ==
  ASSUME Typed, NEW s \in Scopes
  PROVE  /\ scope[s].parent \in Scopes
         /\ scope[s].children \in Seq(Scopes) /\ scope[s].tasks \subseteq Scopes
         /\ scope[s].resource \in Seq(Items) /\ scope[s].finalizer \in Seq(Items)
BY ScopeTyped DEF ScopeRec, Scopes, Items

(* A thread in another part of a call holds no reservation.                *)
LEMMA Elsewhere ==
  ASSUME NEW t, NEW pc, At(t, pc), pc \notin AddPcs \cup Inserting \cup Permitted
  PROVE  Calls(t) # <<>> /\ ~OnTop(t, AddPcs \cup Inserting \cup Permitted)
BY DEF At, OnTop

(* A drain that releases an item and stays where it is.                    *)
LEMMA ThreadsKeep ==
  ASSUME IndInv, DataKept, NEW t \in Scopes, ~OnTop(t, Working), UNCHANGED thread
  PROVE  IndInv'
<1>1. Typed'
  BY DEF IndInv, Typed, Shapes, DataKept, Scopes
<1>2. Rested(Calls(t)) /\ (Calls(t) # <<>> => thread[t].mode \in {"body", "closing"}
                                                /\ Last(Calls(t)).pc \notin Working)
  BY DEF IndInv, Stacks, OnTop
<1>3. ~OnTop(t, AddPcs \cup Inserting \cup Permitted)
  BY DEF OnTop, Working
<1>4. \A u \in Scopes : /\ thread'[u].mode = thread[u].mode
                        /\ thread'[u].calls = IF u = t THEN Calls(t) ELSE thread[u].calls
  BY DEF Calls
<1> HIDE DEF Calls
<1> QED
  BY <1>1, <1>2, <1>3, <1>4, StepInside DEF DataKept

(* No step of cancel or close inserts, and none holds a permit.            *)
LEMMA PcsListed ==
  /\ CancelPcs \cup ClosePcs \subseteq Pcs \ Working
  /\ CancelPcs \cup ClosePcs \cup {"spawn record"} \subseteq
       Pcs \ (AddPcs \cup Inserting \cup Permitted)
BY DEF Pcs, CancelPcs, ClosePcs, SpawnPcs, Working, AddPcs, Inserting, Permitted

-----------------------------------------------------------------------------
(* Cancellation.                                                           *)
LEMMA BeginCancelKeeps ==
  ASSUME IndInv, UNCHANGED size, NEW t \in Scopes, NEW s \in Scopes, BeginCancel(t, s)
  PROVE  IndInv'
<1>1. DataKept
  BY DataUnchanged DEF BeginCancel, IndInv
<1> QED
  BY <1>1, CallKeeps DEF BeginCancel

(* cancel: the swap of `cancelled` (scope.rs:86-104).                      *)
LEMMA CancelOnceKeeps ==
  ASSUME IndInv, UNCHANGED size, NEW t \in Scopes, CancelOnce(t)
  PROVE  IndInv'
<1>1. At(t, "cancel") /\ Calls(t) # <<>> /\ ~OnTop(t, AddPcs \cup Inserting \cup Permitted)
      /\ Here(t) \in Scopes /\ Typed
  BY Elsewhere, PcsListed, TopTyped DEF CancelOnce, CancelPcs, IndInv
<1>2. CASE Return(t) /\ UNCHANGED scope
  <2>1. DataKept
    BY <1>1, <1>2, DataUnchanged DEF CancelOnce
  <2> QED
    BY <1>1, <1>2, <2>1, ReturnKeeps
<1>3. CASE /\ scope' = [scope EXCEPT ![Here(t)].cancelled = TRUE]
           /\ Goto(t, "ask", <<>>)
  <2>1. [scope[Here(t)] EXCEPT !.cancelled = TRUE] \in ScopeRec(Len(scope), Len(item))
    BY <1>1, ScopeTyped, FieldsTyped
  <2>2. DataKept
    BY <1>1, <1>3, <2>1, ScopeKept DEF CancelOnce
  <2>3. "ask" \in Pcs \ Working /\ <<>> \in Seq(IF "ask" = "asking" THEN Items ELSE Scopes)
    BY PcsListed, EmptySeq DEF CancelPcs
  <2> QED
    BY <1>1, <1>3, <2>2, <2>3, GotoKeeps
<1> QED
  BY <1>2, <1>3 DEF CancelOnce

(* The token of a scope alone (concurrency.rs:600).                        *)
LEMMA CancelTokenKeeps ==
  ASSUME IndInv, UNCHANGED size, NEW s \in Scopes, CancelToken(s)
  PROVE  IndInv'
<1>1. Typed /\ scope[s] \in ScopeRec(Len(scope), Len(item))
  BY ScopeTyped DEF IndInv
<1>2. [scope[s] EXCEPT !.cancelled = TRUE] \in ScopeRec(Len(scope), Len(item))
  BY <1>1, FieldsTyped
<1>3. DataKept /\ thread' = thread
  BY <1>1, <1>2, ScopeKept DEF CancelToken
<1>4. Typed'
  BY <1>1, <1>3 DEF Typed, Shapes, DataKept, Scopes
<1>5. /\ Len(scope') = Len(scope) /\ Len(item') = Len(item)
      /\ size' = size /\ permits' = permits
  BY <1>3 DEF DataKept
<1>6. Scopes' = Scopes /\ \A pcs : Pending(pcs)' = Pending(pcs)
  BY <1>3, <1>5 DEF Scopes, Pending, Calls
<1>7. Stacks' /\ Starts'
  BY <1>3, <1>6 DEF IndInv, Stacks, Starts, At, Todo, Calls, Root
<1>8. Rooms' /\ Permits'
  BY <1>3, <1>5, <1>6 DEF IndInv, Rooms, Permits, Live, Root
<1> QED
  BY <1>4, <1>7, <1>8 DEF IndInv

(* request_cancel copies the registry (scope.rs:327-354).                  *)
LEMMA AskSnapshotKeeps ==
  ASSUME IndInv, UNCHANGED size, NEW t \in Scopes, AskSnapshot(t)
  PROVE  IndInv'
<1>1. Calls(t) # <<>> /\ ~OnTop(t, AddPcs \cup Inserting \cup Permitted)
      /\ Here(t) \in Scopes /\ Typed
  BY Elsewhere, PcsListed, TopTyped DEF AskSnapshot, CancelPcs, IndInv
<1>2. DataKept
  BY <1>1, DataUnchanged DEF AskSnapshot
<1>3. Reverse(scope[Here(t)].resource) \in Seq(Items)
  BY <1>1, ListsTyped, ReverseOfSeq
<1>4. "asking" \in Pcs \ Working
  BY PcsListed DEF CancelPcs
<1> QED
  BY <1>1, <1>2, <1>3, <1>4, GotoKeeps DEF AskSnapshot

(* request_cancel calls one of the copies.                                 *)
LEMMA AskOneKeeps ==
  ASSUME IndInv, UNCHANGED size, NEW t \in Scopes, AskOne(t)
  PROVE  IndInv'
<1>1. Calls(t) # <<>> /\ ~OnTop(t, AddPcs \cup Inserting \cup Permitted)
      /\ Here(t) \in Scopes /\ Typed
  BY Elsewhere, PcsListed, TopTyped DEF AskOne, CancelPcs, IndInv
<1>2. Head(Todo(t)) \in Items /\ Tail(Todo(t)) \in Seq(Items)
  BY <1>1, TopTyped, TailOfSeq DEF AskOne
<1> DEFINE i == Head(Todo(t))
           r == [item[i] EXCEPT !.asked = @ + 1]
<1>3. r \in ItemRec(Len(scope), size.kinds)
  <2>1. item[i] \in ItemRec(Len(scope), size.kinds)
    BY <1>1, <1>2, ItemTyped
  <2> DEFINE old == item[i]
  <2>2. old \in ItemRec(Len(scope), size.kinds) /\ r = [old EXCEPT !.asked = old.asked + 1]
    BY <2>1
  <2> HIDE DEF old, r
  <2>3. old.asked + 1 \in Nat
    BY <2>2 DEF ItemRec
  <2> QED
    BY <2>2, <2>3 DEF ItemRec
<1>4. item' = [item EXCEPT ![i] = r]
  BY DEF AskOne
<1>5. DataKept
  <2>1. scope' \in Seq(ScopeRec(Len(scope), Len(item))) /\ Len(scope') = Len(scope)
    BY <1>1 DEF AskOne, Typed, Shapes
  <2> HIDE DEF r
  <2> QED
    BY <1>1, <1>2, <1>3, <1>4, <2>1, ItemKept DEF AskOne
<1>6. "asking" \in Pcs \ Working
  BY PcsListed DEF CancelPcs
<1> QED
  BY <1>1, <1>2, <1>5, <1>6, GotoKeeps DEF AskOne

(* cancel copies the children.                                             *)
LEMMA CancelSnapshotKeeps ==
  ASSUME IndInv, UNCHANGED size, NEW t \in Scopes, CancelSnapshot(t)
  PROVE  IndInv'
<1>1. Calls(t) # <<>> /\ ~OnTop(t, AddPcs \cup Inserting \cup Permitted)
      /\ Here(t) \in Scopes /\ Typed
  BY Elsewhere, PcsListed, TopTyped DEF CancelSnapshot, CancelPcs, IndInv
<1>2. DataKept
  BY <1>1, DataUnchanged DEF CancelSnapshot
<1>3. scope[Here(t)].children \in Seq(IF "descend" = "asking" THEN Items ELSE Scopes)
  BY <1>1, ListsTyped
<1>4. "descend" \in Pcs \ Working
  BY PcsListed DEF CancelPcs
<1> QED
  BY <1>1, <1>2, <1>3, <1>4, GotoKeeps DEF CancelSnapshot

(* cancel goes on with one child, or returns.                              *)
LEMMA CancelChildKeeps ==
  ASSUME IndInv, UNCHANGED size, NEW t \in Scopes, CancelChild(t)
  PROVE  IndInv'
<1>1. Calls(t) # <<>> /\ ~OnTop(t, AddPcs \cup Inserting \cup Permitted) /\ Typed
  BY Elsewhere, PcsListed DEF CancelChild, CancelPcs, IndInv
<1>2. DataKept
  BY <1>1, DataUnchanged DEF CancelChild
<1>3. CASE Return(t)
  BY <1>1, <1>2, <1>3, ReturnKeeps
<1>4. CASE Todo(t) # <<>> /\ CallFrom(t, "descend", Tail(Todo(t)), Head(Todo(t)), "cancel")
  <2>1. ~At(t, "asking")
    BY DEF CancelChild, At
  <2>2. Head(Todo(t)) \in Scopes /\ Tail(Todo(t)) \in Seq(Scopes)
    BY <1>1, <1>4, <2>1, TopTyped, TailOfSeq
  <2>3. "descend" \in Resting
    BY DEF Resting
  <2> QED
    BY <1>1, <1>2, <1>4, <2>2, <2>3, CallFromKeeps
<1> QED
  BY <1>3, <1>4 DEF CancelChild
-----------------------------------------------------------------------------
(* Closing.                                                                *)
LEMMA UsableAreScopes ==
  ASSUME Typed, NEW t \in Scopes
  PROVE  Usable(t) \cup {t} \subseteq Scopes
BY ThreadTyped DEF Usable, Opened

(* A guard is consumed or dropped.                                         *)
LEMMA CloseGuardKeeps ==
  ASSUME IndInv, UNCHANGED size, NEW t \in Scopes, NEW s \in Scopes, CloseGuard(t, s)
  PROVE  IndInv'
<1>1. [scope[s] EXCEPT !.guarded = FALSE] \in ScopeRec(Len(scope), Len(item))
  BY ScopeTyped, FieldsTyped DEF IndInv
<1>2. scope' = [scope EXCEPT ![s] = [scope[s] EXCEPT !.guarded = FALSE]]
  BY DEF CloseGuard
<1>3. UNCHANGED permits
  BY DEF CloseGuard
<1>4. DataKept
  BY <1>1, <1>2, ScopeKept DEF CloseGuard, IndInv
<1> QED
  BY <1>4, CallKeeps DEF CloseGuard

(* close: the swap of `closed` (scope.rs:997-1008).                        *)
LEMMA CloseSwapKeeps ==
  ASSUME IndInv, UNCHANGED size, NEW t \in Scopes, CloseSwap(t)
  PROVE  IndInv'
<1>1. Calls(t) # <<>> /\ ~OnTop(t, AddPcs \cup Inserting \cup Permitted)
      /\ Here(t) \in Scopes /\ Typed
  BY Elsewhere, PcsListed, TopTyped DEF CloseSwap, ClosePcs, IndInv
<1>2. CASE Return(t) /\ UNCHANGED scope
  <2>1. DataKept
    BY <1>1, <1>2, DataUnchanged DEF CloseSwap
  <2> QED
    BY <1>1, <1>2, <2>1, ReturnKeeps
<1>3. CASE /\ scope' = [scope EXCEPT ![Here(t)].closed = TRUE]
           /\ CallFrom(t, "children", <<>>, Here(t), "cancel")
  <2>1. [scope[Here(t)] EXCEPT !.closed = TRUE] \in ScopeRec(Len(scope), Len(item))
    BY <1>1, ScopeTyped, FieldsTyped
  <2>2. DataKept
    BY <1>1, <1>3, <2>1, ScopeKept DEF CloseSwap
  <2>3. "children" \in Resting /\ <<>> \in Seq(Scopes)
    BY EmptySeq DEF Resting
  <2> QED
    BY <1>1, <1>3, <2>2, <2>3, CallFromKeeps
<1> QED
  BY <1>2, <1>3 DEF CloseSwap

(* close copies the children,                                              *)
LEMMA CloseSnapshotKeeps ==
  ASSUME IndInv, UNCHANGED size, NEW t \in Scopes, CloseSnapshot(t)
  PROVE  IndInv'
<1>1. Calls(t) # <<>> /\ ~OnTop(t, AddPcs \cup Inserting \cup Permitted)
      /\ Here(t) \in Scopes /\ Typed
  BY Elsewhere, PcsListed, TopTyped DEF CloseSnapshot, ClosePcs, IndInv
<1>2. DataKept
  BY <1>1, DataUnchanged DEF CloseSnapshot
<1>3. Reverse(scope[Here(t)].children) \in Seq(IF "closing" = "asking" THEN Items ELSE Scopes)
  BY <1>1, ListsTyped, ReverseOfSeq
<1>4. "closing" \in Pcs \ Working
  BY PcsListed DEF ClosePcs
<1> QED
  BY <1>1, <1>2, <1>3, <1>4, GotoKeeps DEF CloseSnapshot

(* closes one of them, or forgets them all,                                *)
LEMMA CloseChildKeeps ==
  ASSUME IndInv, UNCHANGED size, NEW t \in Scopes, CloseChild(t)
  PROVE  IndInv'
<1>1. Calls(t) # <<>> /\ ~OnTop(t, AddPcs \cup Inserting \cup Permitted)
      /\ Here(t) \in Scopes /\ Typed
  BY Elsewhere, PcsListed, TopTyped DEF CloseChild, ClosePcs, IndInv
<1>2. CASE /\ scope' = [scope EXCEPT ![Here(t)].children = <<>>]
           /\ Goto(t, "quiesce", <<>>)
  <2>1. <<>> \in Seq(1..Len(scope))
    BY EmptySeq
  <2>2. [scope[Here(t)] EXCEPT !.children = <<>>] \in ScopeRec(Len(scope), Len(item))
    BY <1>1, <2>1, ScopeTyped, FieldsTyped
  <2>3. DataKept
    BY <1>1, <1>2, <2>2, ScopeKept DEF CloseChild
  <2>4. "quiesce" \in Pcs \ Working /\ <<>> \in Seq(IF "quiesce" = "asking" THEN Items ELSE Scopes)
    BY PcsListed, EmptySeq DEF ClosePcs
  <2> QED
    BY <1>1, <1>2, <2>3, <2>4, GotoKeeps
<1>3. CASE /\ Todo(t) # <<>> /\ UNCHANGED scope
           /\ CallFrom(t, "closing", Tail(Todo(t)), Head(Todo(t)), "close")
  <2>1. ~At(t, "asking")
    BY DEF CloseChild, At
  <2>2. Head(Todo(t)) \in Scopes /\ Tail(Todo(t)) \in Seq(Scopes)
    BY <1>1, <1>3, <2>1, TopTyped, TailOfSeq
  <2>3. "closing" \in Resting
    BY DEF Resting
  <2>4. DataKept
    BY <1>1, <1>3, DataUnchanged DEF CloseChild
  <2> QED
    BY <1>1, <1>3, <2>2, <2>3, <2>4, CallFromKeeps
<1> QED
  BY <1>2, <1>3 DEF CloseChild

(* and takes the records of its tasks.                                     *)
LEMMA QuiesceKeeps ==
  ASSUME IndInv, UNCHANGED size, NEW t \in Scopes, Quiesce(t)
  PROVE  IndInv'
<1>1. Calls(t) # <<>> /\ ~OnTop(t, AddPcs \cup Inserting \cup Permitted)
      /\ Here(t) \in Scopes /\ Typed
  BY Elsewhere, PcsListed, TopTyped DEF Quiesce, ClosePcs, IndInv
<1>2. [scope[Here(t)] EXCEPT !.tasks = {}] \in ScopeRec(Len(scope), Len(item))
  BY <1>1, ScopeTyped, FieldsTyped
<1>3. scope' \in Seq(ScopeRec(Len(scope), Len(item))) /\ Len(scope') = Len(scope)
  BY <1>1, <1>2, ScopeChanged DEF Quiesce
<1>4. stalled' \subseteq Scopes
  BY <1>1, ListsTyped DEF Quiesce, Unfinished, Typed, Shapes, Scopes
<1>5. DataKept
  BY <1>1, <1>3, <1>4 DEF Quiesce, DataKept, Typed, Shapes
<1>6. "resource" \in Pcs \ Working /\ <<>> \in Seq(IF "resource" = "asking" THEN Items ELSE Scopes)
  BY PcsListed, EmptySeq DEF ClosePcs
<1> QED
  BY <1>1, <1>5, <1>6, GotoKeeps DEF Quiesce

(* One item is released.                                                   *)
LEMMA ReleasedTyped ==
  ASSUME Typed, NEW i \in Items, item' = Released(i)
  PROVE  item' \in Seq(ItemRec(Len(scope), size.kinds)) /\ Len(item') = Len(item)
<1> DEFINE r == [item[i] EXCEPT !.status = "released"]
<1>1. r \in ItemRec(Len(scope), size.kinds)
  BY ItemTyped DEF ItemRec
<1>2. item' = item \/ item' = [item EXCEPT ![i] = r]
  BY DEF Released
<1>3. item \in Seq(ItemRec(Len(scope), size.kinds)) /\ i \in 1..Len(item)
  BY DEF Typed, Shapes, Items
<1> HIDE DEF r
<1> QED
  BY <1>1, <1>2, <1>3, ExceptSeq

(* A drain takes the last item of its list, or finds the list empty.       *)
LEMMA DrainKeeps ==
  ASSUME IndInv, UNCHANGED <<size, permits, stalled>>, NEW t \in Scopes,
         NEW pc \in {"resource", "finalizer"}, At(t, pc),
         NEW list \in Seq(Items), list # <<>>,
         NEW r \in ScopeRec(Len(scope), Len(item)),
         scope' = [scope EXCEPT ![Here(t)] = r],
         item' = Released(Last(list)), UNCHANGED thread
  PROVE  IndInv'
<1>1. Typed /\ Here(t) \in Scopes /\ ~OnTop(t, Working)
  <2>1. pc \notin Working
    BY PcsListed DEF ClosePcs
  <2> QED
    BY <2>1, TopTyped DEF At, OnTop, IndInv
<1>2. Last(list) \in Items
  BY FrontOfSeq
<1>3. item' \in Seq(ItemRec(Len(scope), size.kinds)) /\ Len(item') = Len(item)
  BY <1>1, <1>2, ReleasedTyped
<1>4. scope' \in Seq(ScopeRec(Len(scope), Len(item))) /\ Len(scope') = Len(scope)
  BY <1>1, ScopeChanged
<1>5. DataKept
  BY <1>1, <1>3, <1>4 DEF DataKept, Typed, Shapes, Scopes
<1> QED
  BY <1>1, <1>5, ThreadsKeep

(* ResourceRegistry::close, one resource.                                  *)
LEMMA DrainResourceKeeps ==
  ASSUME IndInv, UNCHANGED size, NEW t \in Scopes, DrainResource(t)
  PROVE  IndInv'
<1> DEFINE list == scope[Here(t)].resource
<1>1. Calls(t) # <<>> /\ ~OnTop(t, AddPcs \cup Inserting \cup Permitted)
      /\ Here(t) \in Scopes /\ Typed
  BY Elsewhere, PcsListed, TopTyped DEF DrainResource, ClosePcs, IndInv
<1>2. list \in Seq(Items)
  BY <1>1, ListsTyped
<1>3. CASE Goto(t, "finalizer", <<>>) /\ UNCHANGED <<scope, item>>
  <2>1. DataKept
    BY <1>1, <1>3, DataUnchanged DEF DrainResource
  <2>2. "finalizer" \in Pcs \ Working /\ <<>> \in Seq(IF "finalizer" = "asking" THEN Items ELSE Scopes)
    BY PcsListed, EmptySeq DEF ClosePcs
  <2> QED
    BY <1>1, <1>3, <2>1, <2>2, GotoKeeps
<1>4. CASE /\ list # <<>>
           /\ scope' = [scope EXCEPT ![Here(t)].resource = Front(list)]
           /\ item' = Released(Last(list)) /\ UNCHANGED thread
  <2>1. Front(list) \in Seq(1..Len(item))
    BY <1>2, <1>4, FrontOfSeq DEF Items
  <2>2. [scope[Here(t)] EXCEPT !.resource = Front(list)] \in ScopeRec(Len(scope), Len(item))
    BY <1>1, <2>1, ScopeTyped, FieldsTyped
  <2>3. scope' = [scope EXCEPT ![Here(t)] = [scope[Here(t)] EXCEPT !.resource = Front(list)]]
    BY <1>4
  <2>4. At(t, "resource") /\ UNCHANGED <<permits, stalled>>
    BY DEF DrainResource
  <2> HIDE DEF list
  <2> QED
    BY <1>2, <1>4, <2>2, <2>3, <2>4, DrainKeeps
<1> QED
  BY <1>3, <1>4 DEF DrainResource

(* The finalizer loop, one finalizer.                                      *)
LEMMA DrainFinalizerKeeps ==
  ASSUME IndInv, UNCHANGED size, NEW t \in Scopes, DrainFinalizer(t)
  PROVE  IndInv'
<1> DEFINE list == scope[Here(t)].finalizer
<1>1. Calls(t) # <<>> /\ ~OnTop(t, AddPcs \cup Inserting \cup Permitted)
      /\ Here(t) \in Scopes /\ Typed
  BY Elsewhere, PcsListed, TopTyped DEF DrainFinalizer, ClosePcs, IndInv
<1>2. list \in Seq(Items)
  BY <1>1, ListsTyped
<1>3. CASE /\ scope' = [scope EXCEPT ![Here(t)].drained = TRUE]
           /\ Goto(t, "detach", <<>>) /\ UNCHANGED item
  <2>1. [scope[Here(t)] EXCEPT !.drained = TRUE] \in ScopeRec(Len(scope), Len(item))
    BY <1>1, ScopeTyped, FieldsTyped
  <2>2. DataKept
    BY <1>1, <1>3, <2>1, ScopeKept DEF DrainFinalizer
  <2>3. "detach" \in Pcs \ Working /\ <<>> \in Seq(IF "detach" = "asking" THEN Items ELSE Scopes)
    BY PcsListed, EmptySeq DEF ClosePcs
  <2> QED
    BY <1>1, <1>3, <2>2, <2>3, GotoKeeps
<1>4. CASE /\ list # <<>>
           /\ scope' = [scope EXCEPT ![Here(t)].finalizer = Front(list)]
           /\ item' = Released(Last(list)) /\ UNCHANGED thread
  <2>1. Front(list) \in Seq(1..Len(item))
    BY <1>2, <1>4, FrontOfSeq DEF Items
  <2>2. [scope[Here(t)] EXCEPT !.finalizer = Front(list)] \in ScopeRec(Len(scope), Len(item))
    BY <1>1, <2>1, ScopeTyped, FieldsTyped
  <2>3. scope' = [scope EXCEPT ![Here(t)] = [scope[Here(t)] EXCEPT !.finalizer = Front(list)]]
    BY <1>4
  <2>4. At(t, "finalizer") /\ UNCHANGED <<permits, stalled>>
    BY DEF DrainFinalizer
  <2> HIDE DEF list
  <2> QED
    BY <1>2, <1>4, <2>2, <2>3, <2>4, DrainKeeps
<1> QED
  BY <1>3, <1>4 DEF DrainFinalizer

(* close removes its scope from its parent.                                *)
LEMMA DetachKeeps ==
  ASSUME IndInv, UNCHANGED size, NEW t \in Scopes, Detach(t)
  PROVE  IndInv'
<1> DEFINE up == scope[Here(t)].parent
           l == Without(scope[up].children, Here(t))
<1>1. Calls(t) # <<>> /\ ~OnTop(t, AddPcs \cup Inserting \cup Permitted)
      /\ Here(t) \in Scopes /\ Typed
  BY Elsewhere, PcsListed, TopTyped DEF Detach, ClosePcs, IndInv
<1>2. up \in Scopes
  BY <1>1, ListsTyped
<1>3. l \in Seq(1..Len(scope))
  BY <1>1, <1>2, ListsTyped, WithoutOfSeq DEF Scopes
<1>4. scope' = [scope EXCEPT ![up] = [scope[up] EXCEPT !.children = l]]
  BY DEF Detach
<1> HIDE DEF l, up
<1>5. [scope[up] EXCEPT !.children = l] \in ScopeRec(Len(scope), Len(item))
  BY <1>1, <1>2, <1>3, ScopeTyped, FieldsTyped
<1>6. DataKept
  BY <1>1, <1>2, <1>4, <1>5, ScopeKept DEF Detach
<1> QED
  BY <1>1, <1>6, ReturnKeeps DEF Detach

(* The program closes a handle itself.                                     *)
LEMMA UserCloseKeeps ==
  ASSUME IndInv, UNCHANGED size, NEW t \in Scopes, NEW i \in Items, UserClose(t, i)
  PROVE  IndInv'
<1> DEFINE r == [item[i] EXCEPT !.status = "closed"]
<1>1. Typed /\ r \in ItemRec(Len(scope), size.kinds)
  BY ItemTyped DEF ItemRec, IndInv
<1>2. item' = [item EXCEPT ![i] = r]
  BY DEF UserClose
<1> HIDE DEF r
<1>3. scope' \in Seq(ScopeRec(Len(scope), Len(item))) /\ Len(scope') = Len(scope)
  BY <1>1 DEF UserClose, Typed, Shapes
<1>4. DataKept
  BY <1>1, <1>2, <1>3, ItemKept DEF UserClose
<1>5. ~OnTop(t, Working)
  BY DEF UserClose, Running, OnTop
<1> QED
  BY <1>4, <1>5, ThreadsKeep DEF UserClose
-----------------------------------------------------------------------------
(* The steps that begin or end a call of register, child or spawn.         *)
StackStep(t, calls) ==
    /\ Len(scope') \in {Len(scope), Len(scope) + 1}
    /\ \A u \in Scopes : /\ thread'[u].mode = thread[u].mode
                         /\ thread'[u].calls = IF u = t THEN calls ELSE thread[u].calls
    /\ \A u \in Scopes' \ Scopes : /\ thread'[u].mode \in {"none", "starting"}
                                   /\ thread'[u].calls = <<>>

(* A step adds at most one scope.                                          *)
LEMMA ScopesGrow ==
  ASSUME Typed, Len(scope') \in {Len(scope), Len(scope) + 1}
  PROVE  /\ Len(scope) \in Nat \ {0} /\ Scopes \subseteq Scopes' /\ Scopes = 1..Len(scope)
         /\ Root' = Root
<1>1. Len(scope) \in Nat \ {0}
  BY DEF Typed
<1>2. Len(scope') \in Nat /\ Len(scope) <= Len(scope')
  BY <1>1
<1>3. 1..Len(scope) \subseteq 1..Len(scope')
  BY <1>1, <1>2
<1> QED
  BY <1>1, <1>3 DEF Scopes, Root

(* A thread changes its stack: the other threads and the counts.           *)
LEMMA StepAround ==
  ASSUME IndInv, Typed', NEW t \in Scopes, NEW calls,
         StackStep(t, calls),
         Rested(calls), calls # <<>> => thread[t].mode \in {"body", "closing"}
  PROVE  /\ Stacks' /\ Live' = Live
         /\ \A pcs : /\ Pending(pcs) \in Nat /\ Pending(pcs)' \in Nat
                     /\ Pending(pcs)' = Pending(pcs) - Weight(Calls(t), pcs)
                          + Weight(calls, pcs)
<1>1. Len(scope) \in Nat \ {0} /\ Scopes \subseteq Scopes' /\ Scopes = 1..Len(scope)
  BY ScopesGrow DEF IndInv, StackStep
<1>2. /\ \A u \in Scopes : Calls(u)' = IF u = t THEN calls ELSE Calls(u)
      /\ \A u \in Scopes' \ Scopes : Calls(u)' = <<>>
  BY DEF Calls, StackStep
<1>3. Stacks'
  <2>1. Rested(<<>>)
    BY DEF Rested
  <2>2. \A u \in Scopes' : Rested(Calls(u)')
    BY <1>2, <2>1 DEF IndInv, Stacks
  <2>3. \A u \in Scopes' : thread'[u].mode \notin {"body", "closing"} => Calls(u)' = <<>>
    BY <1>2 DEF IndInv, Stacks, StackStep
  <2> QED
    BY <2>2, <2>3 DEF Stacks
<1>4. Live' = Live
  <2>1. Root' = Root
    BY DEF Root
  <2>2. \A u \in Scopes' \ Scopes : thread'[u].mode \notin {"body", "closing"}
    BY DEF StackStep
  <2> QED
    BY <1>1, <2>1, <2>2 DEF Live, StackStep
<1>5. ASSUME NEW pcs
      PROVE  /\ Pending(pcs) \in Nat /\ Pending(pcs)' \in Nat
             /\ Pending(pcs)' = Pending(pcs) - Weight(Calls(t), pcs)
                  + Weight(calls, pcs)
  <2>1. Len(scope') \in Nat /\ Len(scope) <= Len(scope')
    BY <1>1 DEF StackStep
  <2>2. /\ Pending(pcs) \in Nat /\ Pending(pcs)' \in Nat
        /\ Pending(pcs)' = Pending(pcs) - Weight(Calls(t), pcs) + Weight(Calls(t)', pcs)
    BY <1>2, <2>1, PendingStep DEF IndInv
  <2>3. Calls(t)' = calls
    BY <1>2
  <2> QED
    BY <2>2, <2>3
<1> QED
  BY <1>3, <1>4, <1>5

(* A thread changes its stack and is starting nobody.                      *)
LEMMA StartsKept ==
  ASSUME IndInv, Typed', NEW t \in Scopes, NEW calls,
         StackStep(t, calls),
         calls # <<>> => Last(calls).pc \notin {"spawn start", "spawn record"}
  PROVE  Starts'
<1>1. /\ Len(scope) \in Nat \ {0} /\ Scopes \subseteq Scopes' /\ Scopes = 1..Len(scope)
      /\ Root' = Root
  BY ScopesGrow DEF IndInv, StackStep
<1>2. /\ \A u \in Scopes : Calls(u)' = IF u = t THEN calls ELSE Calls(u)
      /\ \A u \in Scopes' \ Scopes : Calls(u)' = <<>>
  BY DEF Calls, StackStep
<1>3. ASSUME NEW u \in Scopes', NEW pc \in {"spawn start", "spawn record"}, At(u, pc)'
      PROVE  u \in Scopes /\ At(u, pc) /\ Todo(u)' = Todo(u)
  BY <1>2, <1>3 DEF At, Todo
<1>4. Starts
  BY DEF IndInv
<1>5. ASSUME NEW u \in Scopes', At(u, "spawn start")' \/ At(u, "spawn record")'
      PROVE  Len(Todo(u)') = 1 /\ Todo(u)'[1] \in Scopes' \ {Root}
  BY <1>1, <1>3, <1>4, <1>5 DEF Starts
<1>6. ASSUME NEW u \in Scopes', At(u, "spawn start")'
      PROVE  thread'[Todo(u)'[1]].mode = "starting"
  <2>1. u \in Scopes /\ At(u, "spawn start") /\ Todo(u)' = Todo(u)
    BY <1>3, <1>6
  <2>2. Todo(u)[1] \in Scopes /\ thread[Todo(u)[1]].mode = "starting"
    BY <1>4, <2>1 DEF Starts
  <2> QED
    BY <1>1, <2>1, <2>2 DEF StackStep
<1>7. ASSUME NEW u \in Scopes', NEW v \in Scopes', At(u, "spawn start")',
             At(v, "spawn start")', Todo(u)'[1] = Todo(v)'[1]
      PROVE  u = v
  BY <1>3, <1>4, <1>7 DEF Starts
<1> QED
  BY <1>1, <1>5, <1>6, <1>7 DEF Starts

(* A running thread makes a first call.                                    *)
EntryPcs == AddPcs \cup {"insert", "spawn child"}

(* register, child and spawn start nobody with their first step.           *)
LEMMA EntryPcsListed ==
  EntryPcs \subseteq Pcs /\ EntryPcs \cap {"spawn start", "spawn record"} = {}
BY DEF EntryPcs, Pcs, AddPcs, ChildPcs, SpawnPcs

(* A running body calls one of them.                                       *)
LEMMA BeginKeeps ==
  ASSUME IndInv, NEW t \in Scopes, Running(t), NEW s \in Scopes, NEW pc \in EntryPcs,
         Call(t, s, pc), UNCHANGED <<size, scope, item, stalled>>, permits' \in Int
  PROVE  /\ Typed' /\ Stacks' /\ Starts' /\ Live' = Live
         /\ \A pcs : /\ Pending(pcs) \in Nat
                     /\ Pending(pcs)' = Pending(pcs) + One(pc, pcs)
<1> DEFINE f == Frame(s, pc, <<>>)
           c == Append(<<>>, f)
<1>1. f \in CallRec(Len(scope), Len(item)) /\ f.pc = pc
  BY EntryPcsListed, EntryTyped DEF Scopes
<1>2. SetCalls(t, c) /\ Calls(t) = <<>> /\ thread[t].mode = "body"
  BY DEF Call, Running
<1> HIDE DEF f
<1>3. c \in Seq(CallRec(Len(scope), Len(item))) /\ Rested(c) /\ c # <<>> /\ Last(c) = f
  BY <1>1, FirstCallRests
<1> HIDE DEF c
<1>4. /\ thread' \in Seq(ThreadRec(Len(scope), Len(item))) /\ Len(thread') = Len(thread)
      /\ \A u \in Scopes : /\ thread'[u].mode = thread[u].mode
                           /\ thread'[u].calls = IF u = t THEN c ELSE thread[u].calls
  BY <1>2, <1>3, StackChanged DEF IndInv
<1>5. Typed'
  BY <1>4 DEF IndInv, Typed, Shapes
<1>6. StackStep(t, c)
  BY <1>4 DEF StackStep, Scopes
<1>7. Starts'
  BY <1>1, <1>3, <1>5, <1>6, EntryPcsListed, StartsKept
<1>8. /\ Stacks' /\ Live' = Live
      /\ \A pcs : /\ Pending(pcs) \in Nat
                  /\ Pending(pcs)' = Pending(pcs) - Weight(Calls(t), pcs)
                          + Weight(c, pcs)
  BY <1>2, <1>3, <1>5, <1>6, StepAround
<1>9. \A pcs : Weight(Calls(t), pcs) = 0 /\ Weight(c, pcs) = One(pc, pcs) /\ One(pc, pcs) \in Nat
  BY <1>1, <1>2, <1>3 DEF Weight, One
<1>10. \A pcs : Pending(pcs)' = Pending(pcs) + One(pc, pcs)
  BY <1>8, <1>9
<1> QED
  BY <1>5, <1>7, <1>8, <1>10

(* The numbers compared are numbers.                                       *)
LEMMA RoomsTyped ==
  ASSUME IndInv
  PROVE  /\ Len(item) \in Nat /\ Len(scope) \in Nat \ {0} /\ permits \in Int
         /\ size.items \in Nat /\ size.scopes \in Nat /\ size.tasks \in Nat
BY SizesAssumption DEF IndInv, Typed

(* The steps of spawn before its thread: with its permit, then also        *)
(* checked for closure.                                                    *)
SpawnEntry == {"spawn child"}
SpawnSteps == {"spawn child", "spawn insert"}

(* Which call reserves what: register an item, child a scope, spawn a      *)
(* scope and, until its thread runs, a permit.                             *)
LEMMA PcsCounted ==
  /\ \A pc \in AddPcs : One(pc, AddPcs) = 1 /\ One(pc, Inserting) = 0 /\ One(pc, Permitted) = 0
  /\ \A pc \in ChildPcs : One(pc, AddPcs) = 0 /\ One(pc, Inserting) = 1 /\ One(pc, Permitted) = 0
  /\ \A pc \in SpawnSteps :
       One(pc, AddPcs) = 0 /\ One(pc, Inserting) = 1 /\ One(pc, Permitted) = 1
  /\ \A pc \in SpawnEntry :
       One(pc, AddPcs) = 0 /\ One(pc, Inserting) = 1 /\ One(pc, Permitted) = 1
  /\ /\ One("spawn start", AddPcs) = 0 /\ One("spawn start", Inserting) = 0
     /\ One("spawn start", Permitted) = 1
  /\ \A pcs \in {AddPcs, Inserting, Permitted} : One("spawn record", pcs) = 0
BY DEF AddPcs, ChildPcs, SpawnEntry, SpawnSteps, Inserting, Permitted, One

(* register and defer see the scope open.                                  *)
LEMMA BeginAddKeeps ==
  ASSUME IndInv, UNCHANGED size, NEW t \in Scopes, NEW kind, BeginAdd(t, kind)
  PROVE  IndInv'
<1>1. PICK pc \in AddPcs : Call(t, thread[t].home, pc)
  BY DEF BeginAdd, AddPcs
<1>2. thread[t].home \in Scopes /\ pc \in EntryPcs
  BY ThreadTyped DEF IndInv, EntryPcs
<1>3. /\ Running(t) /\ UNCHANGED <<size, scope, item, stalled, permits>>
      /\ Len(item) + Pending(AddPcs) < size.items
  BY DEF BeginAdd, RoomForItem
<1>4. /\ Typed' /\ Stacks' /\ Starts' /\ Live' = Live
      /\ \A pcs : /\ Pending(pcs) \in Nat
                  /\ Pending(pcs)' = Pending(pcs) + One(pc, pcs)
  BY <1>1, <1>2, <1>3, RoomsTyped, BeginKeeps
<1>5. /\ Pending(AddPcs) \in Nat /\ Pending(AddPcs)' = Pending(AddPcs) + 1
      /\ Pending(Inserting)' = Pending(Inserting) /\ Pending(Permitted)' = Pending(Permitted)
  <2>1. One(pc, AddPcs) = 1 /\ One(pc, Inserting) = 0 /\ One(pc, Permitted) = 0
    BY PcsCounted
  <2> QED
    BY <1>4, <2>1
<1>6. Rooms'
  BY <1>3, <1>5, RoomsTyped DEF IndInv, Rooms
<1>7. Permits'
  BY <1>3, <1>4, <1>5 DEF IndInv, Permits
<1> QED
  BY <1>4, <1>6, <1>7 DEF IndInv

(* child sees the scope open.                                              *)
LEMMA BeginChildKeeps ==
  ASSUME IndInv, UNCHANGED size, NEW t \in Scopes, NEW s \in Scopes, BeginChild(t, s)
  PROVE  IndInv'
<1>1. PICK pc \in ChildPcs : Call(t, s, pc)
  BY DEF BeginChild, ChildPcs
<1>2. pc \in EntryPcs /\ One(pc, AddPcs) = 0 /\ One(pc, Inserting) = 1 /\ One(pc, Permitted) = 0
  BY PcsCounted DEF EntryPcs, ChildPcs
<1>3. /\ Running(t) /\ UNCHANGED <<size, scope, item, stalled, permits>>
      /\ Len(scope) + Pending(Inserting) < size.scopes
  BY DEF BeginChild, RoomForScope, Inserting
<1>4. /\ Typed' /\ Stacks' /\ Starts' /\ Live' = Live
      /\ \A pcs : /\ Pending(pcs) \in Nat
                  /\ Pending(pcs)' = Pending(pcs) + One(pc, pcs)
  BY <1>1, <1>2, <1>3, RoomsTyped, BeginKeeps
<1>5. /\ Pending(Inserting) \in Nat /\ Pending(Inserting)' = Pending(Inserting) + 1
      /\ Pending(AddPcs)' = Pending(AddPcs) /\ Pending(Permitted)' = Pending(Permitted)
  BY <1>2, <1>4
<1>6. Rooms'
  BY <1>3, <1>5, RoomsTyped DEF IndInv, Rooms
<1>7. Permits'
  BY <1>3, <1>4, <1>5 DEF IndInv, Permits
<1> QED
  BY <1>4, <1>6, <1>7 DEF IndInv

(* spawn sees the scope open and takes a permit, if one is left.           *)
LEMMA BeginSpawnKeeps ==
  ASSUME IndInv, UNCHANGED size, NEW t \in Scopes, NEW s \in Scopes, BeginSpawn(t, s)
  PROVE  IndInv'
<1>1. PICK pc \in SpawnEntry : Call(t, s, pc)
  BY DEF BeginSpawn, SpawnEntry
<1>2. pc \in EntryPcs /\ One(pc, AddPcs) = 0 /\ One(pc, Inserting) = 1 /\ One(pc, Permitted) = 1
  BY PcsCounted DEF EntryPcs, SpawnEntry
<1>3. /\ Running(t) /\ UNCHANGED <<size, scope, item, stalled>>
      /\ Len(scope) + Pending(Inserting) < size.scopes
      /\ permits < size.tasks /\ permits' = permits + 1 /\ permits' \in Int
  <2>1. Running(t) /\ permits' = permits + 1 /\ permits < size.tasks /\ RoomForScope
        /\ UNCHANGED <<scope, item, stalled>>
    BY DEF BeginSpawn
  <2>2. Len(scope) + Pending(Inserting) < size.scopes
    BY <2>1 DEF RoomForScope, Inserting
  <2>3. permits' \in Int
    BY <2>1, RoomsTyped
  <2> QED
    BY <2>1, <2>2, <2>3
<1>4. /\ Typed' /\ Stacks' /\ Starts' /\ Live' = Live
      /\ \A pcs : /\ Pending(pcs) \in Nat
                  /\ Pending(pcs)' = Pending(pcs) + One(pc, pcs)
  BY <1>1, <1>2, <1>3, RoomsTyped, BeginKeeps
<1>5. /\ Pending(Inserting) \in Nat /\ Pending(Inserting)' = Pending(Inserting) + 1
      /\ Pending(AddPcs)' = Pending(AddPcs)
      /\ Pending(Permitted) \in Nat /\ Pending(Permitted)' = Pending(Permitted) + 1
  BY <1>2, <1>4
<1>6. Rooms'
  BY <1>3, <1>5, RoomsTyped DEF IndInv, Rooms
<1>7. Permits'
  <2>1. Permits /\ Typed /\ permits \in Int /\ size.tasks \in Nat
    BY RoomsTyped DEF IndInv
  <2>2. Cardinality(Live) \in Nat
    BY <2>1, LiveFinite
  <2>3. permits < size.tasks /\ permits' = permits + 1 /\ size' = size
    BY <1>3
  <2> QED
    BY ONLY <1>4, <1>5, <2>1, <2>2, <2>3 DEF Permits
<1> QED
  BY <1>4, <1>6, <1>7 DEF IndInv

-----------------------------------------------------------------------------
(* A call that ends, or goes on.                                           *)
LEMMA ReturnAround ==
  ASSUME IndInv, Typed', NEW t \in Scopes, Calls(t) # <<>>,
         StackStep(t, Front(Calls(t)))
  PROVE  /\ Stacks' /\ Starts' /\ Live' = Live
         /\ \A pcs \in {AddPcs, Inserting, Permitted} :
              /\ Pending(pcs) \in Nat
              /\ Pending(pcs)' = Pending(pcs) - Weight(Calls(t), pcs)
<1> DEFINE c == Front(Calls(t))
<1>1. Rested(c) /\ (c # <<>> => Last(c).pc \in Resting)
  BY BusyMode, ReturnRests
<1> HIDE DEF c
<1>2. StackStep(t, c)
  BY DEF c
<1>3. \A pc \in Resting : pc \notin Working
  BY DEF Resting, Working, AddPcs, Inserting, Permitted
<1>4. c # <<>> => Last(c).pc \notin {"spawn start", "spawn record"}
  BY <1>1, <1>3 DEF Working, Permitted
<1>5. \A pcs \in {AddPcs, Inserting, Permitted} : Weight(c, pcs) = 0
  BY <1>1, <1>3 DEF Weight, Working
<1>6. Starts'
  BY <1>2, <1>4, StartsKept
<1>7. /\ Stacks' /\ Live' = Live
      /\ \A pcs : /\ Pending(pcs) \in Nat /\ Pending(pcs)' \in Nat
                  /\ Pending(pcs)' = Pending(pcs) - Weight(Calls(t), pcs)
                          + Weight(c, pcs)
  BY <1>1, <1>2, BusyMode, StepAround
<1>8. ASSUME NEW pcs \in {AddPcs, Inserting, Permitted}
      PROVE  /\ Pending(pcs) \in Nat
             /\ Pending(pcs)' = Pending(pcs) - Weight(Calls(t), pcs)
  <2>1. Weight(Calls(t), pcs) \in Nat
    BY DEF Weight
  <2>2. /\ Pending(pcs) \in Nat /\ Weight(c, pcs) = 0
        /\ Pending(pcs)' = Pending(pcs) - Weight(Calls(t), pcs) + Weight(c, pcs)
    BY <1>5, <1>7
  <2> HIDE DEF c
  <2> QED
    BY <2>1, <2>2
<1> QED
  BY <1>6, <1>7, <1>8

(* What the call on top of a stack reserves.                               *)
LEMMA WeightAt ==
  ASSUME NEW t, NEW pc, At(t, pc), NEW pcs
  PROVE  Calls(t) # <<>> /\ Weight(Calls(t), pcs) = One(pc, pcs)
BY DEF At, Weight, One

(* register and defer insert (scope.rs:314-325).                           *)
LEMMA PushKeeps ==
  ASSUME IndInv, UNCHANGED size, NEW t \in Scopes, NEW kind \in size.kinds, Push(t, kind)
  PROVE  IndInv'
<1> DEFINE n == Len(scope)
           m == Len(item)
           h == Here(t)
           it == [kind |-> kind, scope |-> h, by |-> t, status |-> "held",
                  asked |-> 0, calm |-> ~IsCancelled(h)]
<1>1. PICK pc \in AddPcs : At(t, pc)
  BY DEF Push, AddPcs
<1>2. Calls(t) # <<>> /\ h \in Scopes /\ Typed
  BY <1>1, TopTyped DEF At, IndInv
<1>3. /\ n \in Nat \ {0} /\ m \in Nat /\ m + 1 \in Nat /\ Shapes(n, m + 1)
      /\ Scopes = 1..n /\ Len(thread) = n
  BY <1>2, TypedShapes, ShapesGrow
<1>4. item' \in Seq(ItemRec(n, size.kinds)) /\ Len(item') = m + 1
  <2>1. it \in ItemRec(n, size.kinds)
    BY <1>2, <1>3 DEF ItemRec, IsCancelled
  <2>2. item' = Append(item, it)
    BY DEF Push
  <2>3. item \in Seq(ItemRec(n, size.kinds))
    BY <1>3 DEF Shapes
  <2> HIDE DEF it
  <2> QED
    BY <2>1, <2>2, <2>3, AppendProperties
<1>5. scope' \in Seq(ScopeRec(n, m + 1)) /\ Len(scope') = n
  <2>1. scope \in Seq(ScopeRec(n, m + 1)) /\ scope[h] \in ScopeRec(n, m + 1)
    BY <1>2, <1>3 DEF Shapes
  <2>2. scope[h].resource \in Seq(1..m + 1) /\ scope[h].finalizer \in Seq(1..m + 1)
    BY <2>1 DEF ScopeRec
  <2>3. m + 1 \in 1..m + 1
    BY <1>3
  <2> DEFINE l1 == Append(scope[h].resource, m + 1)
             l2 == Append(scope[h].finalizer, m + 1)
             r1 == [scope[h] EXCEPT !.resource = l1]
             r2 == [scope[h] EXCEPT !.finalizer = l2]
  <2>4. l1 \in Seq(1..m + 1) /\ l2 \in Seq(1..m + 1)
    BY <2>2, <2>3, AppendProperties
  <2>5. scope' = [scope EXCEPT ![h] = r1] \/ scope' = [scope EXCEPT ![h] = r2]
    BY DEF Push
  <2> HIDE DEF l1, l2
  <2>6. r1 \in ScopeRec(n, m + 1) /\ r2 \in ScopeRec(n, m + 1)
    BY <2>1, <2>4, FieldsTyped
  <2> HIDE DEF r1, r2
  <2> QED
    BY <1>2, <1>3, <2>1, <2>5, <2>6, ExceptSeq
<1>6. /\ thread' \in Seq(ThreadRec(n, m)) /\ Len(thread') = n
      /\ \A u \in Scopes : /\ thread'[u].mode = thread[u].mode
                           /\ thread'[u].calls = IF u = t THEN Front(Calls(t)) ELSE thread[u].calls
  <2>1. Front(Calls(t)) \in Seq(CallRec(n, m))
    BY <1>2, BusyMode, FrontOfSeq
  <2>2. SetCalls(t, Front(Calls(t)))
    BY DEF Push, Return
  <2> QED
    BY <1>2, <1>3, <2>1, <2>2, StackChanged
<1>7. Typed'
  <2>1. thread' \in Seq(ThreadRec(n, m + 1))
    BY <1>3, <1>6, TypesGrow
  <2>2. UNCHANGED <<permits, stalled>>
    BY DEF Push
  <2>3. Shapes(Len(scope), Len(item))'
    BY <1>3, <1>4, <1>5, <2>1, <2>2 DEF Shapes
  <2> QED
    BY <1>2, <1>3, <1>4, <1>5, <1>6, <2>2, <2>3 DEF Typed
<1>8. StackStep(t, Front(Calls(t)))
  BY <1>5, <1>6 DEF StackStep, Scopes
<1>9. /\ Stacks' /\ Starts' /\ Live' = Live
      /\ \A pcs \in {AddPcs, Inserting, Permitted} :
           /\ Pending(pcs) \in Nat
           /\ Pending(pcs)' = Pending(pcs) - Weight(Calls(t), pcs)
  BY <1>2, <1>7, <1>8, ReturnAround
<1>10. /\ Weight(Calls(t), AddPcs) = 1 /\ Weight(Calls(t), Inserting) = 0
       /\ Weight(Calls(t), Permitted) = 0
  <2>1. \A pcs : Weight(Calls(t), pcs) = One(pc, pcs)
    BY <1>1, WeightAt
  <2> QED
    BY <2>1, PcsCounted
<1>11. /\ Pending(AddPcs) \in Nat /\ Pending(AddPcs)' = Pending(AddPcs) - 1
       /\ Pending(Inserting)' = Pending(Inserting) /\ Pending(Permitted)' = Pending(Permitted)
  BY <1>9, <1>10
<1>12. Rooms'
  BY <1>3, <1>4, <1>5, <1>11 DEF IndInv, Rooms
<1>13. Permits'
  BY <1>9, <1>11 DEF IndInv, Permits, Push
<1> QED
  BY <1>7, <1>9, <1>12, <1>13 DEF IndInv
-----------------------------------------------------------------------------
(* A scope and its thread are added.                                       *)
LEMMA NewScopeTyped ==
  ASSUME NEW n \in Nat, NEW m \in Nat, NEW up \in 1..n, NEW opener \in 1..n, NEW owned \in BOOLEAN
  PROVE  NewScope(up, opener, owned) \in ScopeRec(n, m)
<1>1. <<>> \in Seq(1..n) /\ <<>> \in Seq(1..m)
  BY EmptySeq
<1> QED
  BY <1>1 DEF NewScope, ScopeRec

(* AddScope keeps the types.                                               *)
LEMMA AddScopeTyped ==
  ASSUME Typed, NEW up \in Scopes, NEW opener \in 1..Len(scope) + 1, NEW owned \in BOOLEAN,
         AddScope(up, opener, owned)
  PROVE  /\ scope' \in Seq(ScopeRec(Len(scope) + 1, Len(item)))
         /\ Len(scope') = Len(scope) + 1
<1> DEFINE n == Len(scope)
           m == Len(item)
           R == ScopeRec(n + 1, m)
           l == Append(scope[up].children, n + 1)
           r == [scope[up] EXCEPT !.children = l]
           s2 == [scope EXCEPT ![up] = r]
           new == NewScope(up, opener, owned)
<1>1. /\ n \in Nat \ {0} /\ m \in Nat /\ n + 1 \in Nat /\ Shapes(n + 1, m)
      /\ Scopes = 1..n /\ n + 1 \in 1..n + 1 /\ up \in 1..n /\ up \in 1..n + 1
  BY TypedShapes, ShapesGrow
<1>2. scope \in Seq(R) /\ scope[up] \in R
  BY <1>1 DEF Shapes
<1>3. scope[up].children \in Seq(1..n + 1)
  BY <1>2 DEF ScopeRec
<1>4. l \in Seq(1..n + 1)
  BY <1>1, <1>3, AppendProperties
<1> HIDE DEF l
<1>5. r \in R
  BY <1>2, <1>4, FieldsTyped
<1> HIDE DEF r
<1>6. s2 \in Seq(R) /\ Len(s2) = n
  BY <1>1, <1>2, <1>5, ExceptSeq
<1>7. new \in R
  BY <1>1, NewScopeTyped
<1>8. scope' = Append(s2, new)
  BY DEF AddScope, l, r
<1> HIDE DEF s2, new, R
<1>9. scope' \in Seq(R) /\ Len(scope') = Len(s2) + 1
  BY <1>6, <1>7, <1>8, AppendProperties
<1> QED
  BY <1>6, <1>9 DEF R

(* A thread whose calls are replaced.                                      *)
LEMMA CallsOfThread ==
  ASSUME NEW n, NEW m, NEW th \in ThreadRec(n, m), NEW calls
  PROVE  [th EXCEPT !.calls = calls] = [mode |-> th.mode, home |-> th.home, calls |-> calls]
BY DEF ThreadRec

(* A thread whose mode is replaced.                                        *)
LEMMA ModeOfThread ==
  ASSUME NEW n, NEW m, NEW th \in ThreadRec(n, m), NEW mode
  PROVE  [th EXCEPT !.mode = mode] = [mode |-> mode, home |-> th.home, calls |-> th.calls]
BY DEF ThreadRec

(* The scope that was added has the next number.                           *)
LEMMA NewestScope ==
  ASSUME Typed, Len(scope') = Len(scope) + 1
  PROVE  \A u \in Scopes' \ Scopes : u = Len(scope) + 1
<1>1. Len(scope) \in Nat
  BY DEF Typed
<1>2. \A u \in (1..Len(scope) + 1) \ (1..Len(scope)) : u = Len(scope) + 1
  BY <1>1
<1> QED
  BY <1>2 DEF Scopes

(* A thread that has called nothing.                                       *)
Fresh(th) == th.calls = <<>> /\ th.mode \in {"none", "starting"}

(* A scope that is added brings a thread without calls.                    *)
LEMMA ThreadAdded ==
  ASSUME Typed, NEW t \in Scopes, NEW calls \in Seq(CallRec(Len(scope) + 1, Len(item))),
         NEW th \in ThreadRec(Len(scope) + 1, Len(item)),
         thread' = Append([thread EXCEPT ![t].calls = calls], th),
         Len(scope') = Len(scope) + 1, Fresh(th)
  PROVE  /\ thread' \in Seq(ThreadRec(Len(scope) + 1, Len(item)))
         /\ Len(thread') = Len(scope) + 1
         /\ thread'[Len(scope) + 1] = th
         /\ StackStep(t, calls)
<1> DEFINE n == Len(scope)
           m == Len(item)
           R == ThreadRec(n + 1, m)
           r == [mode |-> thread[t].mode, home |-> thread[t].home, calls |-> calls]
           t2 == [thread EXCEPT ![t] = r]
<1>1. /\ n \in Nat \ {0} /\ m \in Nat /\ n + 1 \in Nat /\ Shapes(n + 1, m)
      /\ Scopes = 1..n /\ Len(thread) = n
  BY TypedShapes, ShapesGrow
<1>2. thread \in Seq(R) /\ thread[t] \in R
  BY <1>1 DEF Shapes
<1>3. r \in R /\ r.mode = thread[t].mode /\ r.calls = calls
  BY <1>2 DEF ThreadRec
<1>4. thread' = Append(t2, th)
  <2>1. [thread[t] EXCEPT !.calls = calls] = r
    BY <1>2, CallsOfThread
  <2> QED
    BY <2>1
<1> HIDE DEF r
<1>5. t2 \in Seq(R) /\ Len(t2) = n
      /\ \A u \in 1..n : t2[u] = IF u = t THEN r ELSE thread[u]
  BY <1>1, <1>2, <1>3, ExceptSeq
<1> HIDE DEF t2, R
<1>6. /\ thread' \in Seq(R) /\ Len(thread') = n + 1
      /\ \A u \in 1..n : thread'[u] = t2[u]
      /\ thread'[n + 1] = th
  <2>1. th \in R
    BY DEF R
  <2>2. /\ Append(t2, th) \in Seq(R) /\ Len(Append(t2, th)) = Len(t2) + 1
        /\ \A u \in 1..Len(t2) : Append(t2, th)[u] = t2[u]
        /\ Append(t2, th)[Len(t2) + 1] = th
    BY <1>5, <2>1, AppendToSeq
  <2>3. Len(t2) = n
    BY <1>5
  <2> QED
    BY <1>4, <2>2, <2>3
<1>7. \A u \in Scopes : /\ thread'[u].mode = thread[u].mode
                        /\ thread'[u].calls = IF u = t THEN calls ELSE thread[u].calls
  BY <1>1, <1>3, <1>5, <1>6
<1>8. \A u \in Scopes' \ Scopes : u = n + 1
  BY NewestScope
<1>9. StackStep(t, calls)
  BY <1>6, <1>7, <1>8 DEF StackStep, Fresh
<1> QED
  BY <1>6, <1>9 DEF R

(* child inserts the new scope.                                            *)
LEMMA InsertChildKeeps ==
  ASSUME IndInv, UNCHANGED size, NEW t \in Scopes, InsertChild(t)
  PROVE  IndInv'
<1> DEFINE n == Len(scope)
           m == Len(item)
           c == Front(Calls(t))
<1>1. PICK pc \in ChildPcs : At(t, pc)
  BY DEF InsertChild, ChildPcs
<1>2. Calls(t) # <<>> /\ Here(t) \in Scopes /\ Typed
  BY <1>1, TopTyped DEF At, IndInv
<1>3. /\ n \in Nat \ {0} /\ m \in Nat /\ n + 1 \in Nat /\ Shapes(n + 1, m)
      /\ Scopes = 1..n /\ Len(thread) = n /\ t \in 1..n + 1 /\ 1 \in 1..n + 1
  BY <1>2, TypedShapes, ShapesGrow
<1>4. scope' \in Seq(ScopeRec(n + 1, m)) /\ Len(scope') = n + 1
  <2>1. scope[Here(t)].closed \in BOOLEAN
    BY <1>2, ScopeTyped DEF ScopeRec
  <2> QED
    BY <1>2, <1>3, <2>1, AddScopeTyped DEF InsertChild
<1>5. c \in Seq(CallRec(n + 1, m))
  <2>1. c \in Seq(CallRec(n, m))
    BY <1>2, BusyMode, FrontOfSeq
  <2> QED
    BY <1>3, <2>1, TypesGrow
<1>6. /\ NoThread \in ThreadRec(n + 1, m)
      /\ Fresh(NoThread)
  <2>1. <<>> \in Seq(CallRec(n + 1, m))
    BY EmptySeq
  <2> QED
    BY <1>3, <2>1 DEF NoThread, ThreadRec, Modes, Root, Fresh
<1>7. thread' = Append([thread EXCEPT ![t].calls = c], NoThread)
  BY DEF InsertChild, Calls
<1> HIDE DEF c
<1>8. /\ thread' \in Seq(ThreadRec(n + 1, m)) /\ Len(thread') = n + 1 /\ StackStep(t, c)
  BY <1>2, <1>4, <1>5, <1>6, <1>7, ThreadAdded
<1>9. UNCHANGED <<item, permits, stalled>>
  BY DEF InsertChild
<1>10. Typed'
  <2>1. Shapes(Len(scope), Len(item))'
    BY <1>3, <1>4, <1>8, <1>9 DEF Shapes
  <2> QED
    BY <1>2, <1>3, <1>4, <1>8, <1>9, <2>1 DEF Typed
<1>11. /\ Stacks' /\ Starts' /\ Live' = Live
       /\ \A pcs \in {AddPcs, Inserting, Permitted} :
            /\ Pending(pcs) \in Nat
            /\ Pending(pcs)' = Pending(pcs) - Weight(Calls(t), pcs)
  BY <1>2, <1>8, <1>10, ReturnAround DEF c
<1>12. /\ Weight(Calls(t), AddPcs) = 0 /\ Weight(Calls(t), Inserting) = 1
       /\ Weight(Calls(t), Permitted) = 0
  <2>1. \A pcs : Weight(Calls(t), pcs) = One(pc, pcs)
    BY <1>1, WeightAt
  <2> QED
    BY <2>1, PcsCounted
<1>13. /\ Pending(Inserting) \in Nat /\ Pending(Inserting)' = Pending(Inserting) - 1
       /\ Pending(AddPcs)' = Pending(AddPcs) /\ Pending(Permitted)' = Pending(Permitted)
  BY <1>11, <1>12
<1>14. Rooms'
  BY <1>3, <1>4, <1>9, <1>13 DEF IndInv, Rooms
<1>15. Permits'
  BY <1>9, <1>11, <1>13 DEF IndInv, Permits
<1> QED
  BY <1>10, <1>11, <1>14, <1>15 DEF IndInv

-----------------------------------------------------------------------------
(* spawn.                                                                  *)
StartPcs == {"spawn start", "spawn record"}

(* A spawn moves on to its next part.                                      *)
LEMMA GotoAround ==
  ASSUME IndInv, Typed', NEW t \in Scopes, Calls(t) # <<>>,
         NEW S, Calls(t) \in Seq(S), NEW f \in S,
         StackStep(t, Append(Front(Calls(t)), f))
  PROVE  /\ Stacks' /\ Live' = Live
         /\ \A pcs : /\ Pending(pcs) \in Nat /\ Pending(pcs)' \in Nat
                     /\ Pending(pcs)' = Pending(pcs) - Weight(Calls(t), pcs) + One(f.pc, pcs)
         /\ f.pc \notin StartPcs => Starts'
<1> DEFINE c == Append(Front(Calls(t)), f)
<1>1. Rested(c) /\ c # <<>> /\ Last(c) = f
  <2>1. Rested(Calls(t))
    BY BusyMode
  <2> QED
    BY <2>1, JumpRests
<1>2. StackStep(t, c)
  OBVIOUS
<1> HIDE DEF c
<1>3. /\ Stacks' /\ Live' = Live
      /\ \A pcs : /\ Pending(pcs) \in Nat /\ Pending(pcs)' \in Nat
                  /\ Pending(pcs)' = Pending(pcs) - Weight(Calls(t), pcs) + Weight(c, pcs)
  BY <1>1, <1>2, BusyMode, StepAround
<1>4. \A pcs : Weight(c, pcs) = One(f.pc, pcs)
  BY <1>1 DEF Weight, One
<1>5. ASSUME f.pc \notin StartPcs PROVE Starts'
  BY <1>1, <1>2, <1>5, StartsKept DEF StartPcs
<1> QED
  BY <1>3, <1>4, <1>5

(* spawn's own child: refused when the scope was closed meanwhile, and     *)
(* then the permit is given back.                                          *)
LEMMA SpawnChildKeeps ==
  ASSUME IndInv, UNCHANGED size, NEW t \in Scopes, SpawnChild(t)
  PROVE  IndInv'
<1>1. PICK pc \in SpawnEntry : At(t, pc)
  BY DEF SpawnChild, SpawnEntry
<1>2. Calls(t) # <<>> /\ Here(t) \in Scopes /\ Typed
  BY <1>1, TopTyped DEF At, IndInv
<1>3. UNCHANGED <<scope, item, stalled>> /\ permits \in Int
  BY RoomsTyped DEF SpawnChild
<1>4. /\ Weight(Calls(t), AddPcs) = 0 /\ Weight(Calls(t), Inserting) = 1
      /\ Weight(Calls(t), Permitted) = 1
  <2>1. \A pcs : Weight(Calls(t), pcs) = One(pc, pcs)
    BY <1>1, WeightAt
  <2> QED
    BY <2>1, PcsCounted
<1>5. CASE permits' = permits - 1 /\ Return(t)
  <2> DEFINE c == Front(Calls(t))
  <2>1. c \in Seq(CallRec(Len(scope), Len(item))) /\ SetCalls(t, c)
    BY <1>2, <1>5, BusyMode, FrontOfSeq DEF Return
  <2> HIDE DEF c
  <2>2. /\ thread' \in Seq(ThreadRec(Len(scope), Len(item))) /\ Len(thread') = Len(thread)
        /\ \A u \in Scopes : /\ thread'[u].mode = thread[u].mode
                             /\ thread'[u].calls = IF u = t THEN c ELSE thread[u].calls
    BY <1>2, <2>1, StackChanged
  <2>3. Typed'
    BY <1>2, <1>3, <1>5, <2>2 DEF Typed, Shapes
  <2>4. StackStep(t, c)
    BY <1>3, <2>2 DEF StackStep, Scopes
  <2>5. /\ Stacks' /\ Starts' /\ Live' = Live
        /\ \A pcs \in {AddPcs, Inserting, Permitted} :
             /\ Pending(pcs) \in Nat
             /\ Pending(pcs)' = Pending(pcs) - Weight(Calls(t), pcs)
    BY <1>2, <2>3, <2>4, ReturnAround DEF c
  <2>6. /\ Pending(Inserting) \in Nat /\ Pending(Inserting)' = Pending(Inserting) - 1
        /\ Pending(Permitted) \in Nat /\ Pending(Permitted)' = Pending(Permitted) - 1
        /\ Pending(AddPcs)' = Pending(AddPcs)
    BY <1>4, <2>5
  <2>7. Rooms'
    BY <1>3, <2>6, RoomsTyped DEF IndInv, Rooms
  <2>8. Permits'
    <3>1. Permits /\ permits \in Int /\ size.tasks \in Nat
      BY RoomsTyped DEF IndInv
    <3>2. Cardinality(Live) \in Nat
      BY <1>2, LiveFinite
    <3>3. permits' = permits - 1 /\ size' = size
      BY <1>5
    <3> QED
      BY ONLY <2>5, <2>6, <3>1, <3>2, <3>3 DEF Permits
  <2> QED
    BY <2>3, <2>5, <2>7, <2>8 DEF IndInv
<1>6. CASE Goto(t, "spawn insert", <<>>) /\ UNCHANGED permits
  <2> DEFINE f == Frame(Here(t), "spawn insert", <<>>)
             c == Append(Front(Calls(t)), f)
  <2>1. f \in CallRec(Len(scope), Len(item)) /\ f.pc = "spawn insert"
    BY <1>2, EntryTyped DEF Scopes, Pcs, SpawnPcs
  <2>2. SetCalls(t, c)
    BY <1>6 DEF Goto
  <2> HIDE DEF f
  <2>3. c \in Seq(CallRec(Len(scope), Len(item)))
    <3>1. Rested(Calls(t)) /\ Calls(t) \in Seq(CallRec(Len(scope), Len(item)))
      BY <1>2, BusyMode
    <3> QED
      BY <1>2, <2>1, <3>1, JumpRests
  <2> HIDE DEF c
  <2>4. /\ thread' \in Seq(ThreadRec(Len(scope), Len(item))) /\ Len(thread') = Len(thread)
        /\ \A u \in Scopes : /\ thread'[u].mode = thread[u].mode
                             /\ thread'[u].calls = IF u = t THEN c ELSE thread[u].calls
    BY <1>2, <2>2, <2>3, StackChanged
  <2>5. Typed'
    BY <1>2, <1>3, <1>6, <2>4 DEF Typed, Shapes
  <2>6. StackStep(t, c)
    BY <1>3, <2>4 DEF StackStep, Scopes
  <2>7. /\ Stacks' /\ Live' = Live
        /\ \A pcs : /\ Pending(pcs) \in Nat /\ Pending(pcs)' \in Nat
                    /\ Pending(pcs)' = Pending(pcs) - Weight(Calls(t), pcs) + One(f.pc, pcs)
        /\ f.pc \notin StartPcs => Starts'
    BY <1>2, <2>1, <2>5, <2>6, BusyMode, GotoAround DEF c
  <2>8. Starts'
    BY <2>1, <2>7 DEF StartPcs
  <2>9. One(f.pc, AddPcs) = 0 /\ One(f.pc, Inserting) = 1 /\ One(f.pc, Permitted) = 1
    BY <2>1, PcsCounted DEF SpawnSteps
  <2>10. /\ Pending(Inserting)' = Pending(Inserting) /\ Pending(Permitted)' = Pending(Permitted)
         /\ Pending(AddPcs)' = Pending(AddPcs)
    BY <1>4, <2>7, <2>9
  <2>11. Rooms' /\ Permits'
    BY <1>3, <1>6, <2>7, <2>10 DEF IndInv, Rooms, Permits
  <2> QED
    BY <2>5, <2>7, <2>8, <2>11 DEF IndInv
<1> QED
  BY <1>5, <1>6 DEF SpawnChild

(* The scope of the task is inserted; its thread is still to be started.   *)
LEMMA SpawnInsertKeeps ==
  ASSUME IndInv, UNCHANGED size, NEW t \in Scopes, SpawnInsert(t)
  PROVE  IndInv'
<1> DEFINE n == Len(scope)
           m == Len(item)
           h == Here(t)
           f == Frame(h, "spawn start", <<n + 1>>)
           c == Append(Front(Calls(t)), f)
           th == NewThread(h)
<1>1. PICK pc \in SpawnSteps : At(t, pc)
  BY DEF SpawnInsert, SpawnSteps
<1>2. Calls(t) # <<>> /\ h \in Scopes /\ Typed
  BY <1>1, TopTyped DEF At, IndInv
<1>3. /\ n \in Nat \ {0} /\ m \in Nat /\ n + 1 \in Nat /\ Shapes(n + 1, m)
      /\ Scopes = 1..n /\ Len(thread) = n /\ t \in 1..n + 1 /\ n + 1 \in 1..n + 1
      /\ h \in 1..n + 1
  BY <1>2, TypedShapes, ShapesGrow
<1>4. scope' \in Seq(ScopeRec(n + 1, m)) /\ Len(scope') = n + 1
  BY <1>2, <1>3, AddScopeTyped DEF SpawnInsert
<1>5. f \in CallRec(n + 1, m) /\ f.pc = "spawn start" /\ f.todo = <<n + 1>>
  BY <1>2, <1>3, StartFrameTyped
<1>6. Calls(t) \in Seq(CallRec(n + 1, m))
  <2>1. Calls(t) \in Seq(CallRec(n, m))
    BY <1>2, BusyMode
  <2> QED
    BY <1>3, <2>1, TypesGrow
<1>7. /\ th \in ThreadRec(n + 1, m) /\ Fresh(th) /\ th.mode = "starting"
  <2>1. <<>> \in Seq(CallRec(n + 1, m))
    BY EmptySeq
  <2> QED
    BY <1>3, <2>1 DEF NewThread, ThreadRec, Modes, Fresh
<1>8. thread' = Append([thread EXCEPT ![t].calls = c], th)
  BY DEF SpawnInsert, Calls
<1> HIDE DEF f
<1>9. /\ c \in Seq(CallRec(n + 1, m)) /\ c # <<>> /\ Last(c) = f
  <2>1. Rested(Calls(t)) /\ Calls(t) # <<>>
    BY <1>2, BusyMode
  <2> DEFINE calls == Calls(t)
             S == CallRec(n + 1, m)
  <2>2. calls \in Seq(S) /\ calls # <<>> /\ Rested(calls) /\ f \in S /\ c = Append(Front(calls), f)
    BY <1>5, <1>6, <2>1
  <2> HIDE DEF calls, S, c
  <2>3. c \in Seq(S) /\ c # <<>> /\ Last(c) = f
    BY ONLY <2>2, JumpRests
  <2> QED
    BY <2>3 DEF S
<1> HIDE DEF c, th
<1>10. /\ thread' \in Seq(ThreadRec(n + 1, m)) /\ Len(thread') = n + 1
       /\ thread'[n + 1] = th /\ StackStep(t, c)
  BY <1>2, <1>4, <1>7, <1>8, <1>9, ThreadAdded
<1>11. UNCHANGED <<item, permits, stalled>>
  BY DEF SpawnInsert
<1>12. Typed'
  <2>1. Shapes(Len(scope), Len(item))'
    BY <1>3, <1>4, <1>10, <1>11 DEF Shapes
  <2> QED
    BY <1>2, <1>3, <1>4, <1>10, <1>11, <2>1 DEF Typed
<1>13. /\ Stacks' /\ Live' = Live
       /\ \A pcs : /\ Pending(pcs) \in Nat /\ Pending(pcs)' \in Nat
                   /\ Pending(pcs)' = Pending(pcs) - Weight(Calls(t), pcs) + One(f.pc, pcs)
  BY <1>2, <1>5, <1>6, <1>10, <1>12, GotoAround DEF c
<1>14. Starts'
  <2>1. /\ \A u \in Scopes : Calls(u)' = IF u = t THEN c ELSE Calls(u)
        /\ \A u \in Scopes' \ Scopes : Calls(u)' = <<>>
    BY <1>10 DEF Calls, StackStep
  <2>2. Scopes' = 1..n + 1 /\ Scopes \subseteq Scopes' /\ n + 1 \in Scopes' /\ n + 1 \notin Scopes
        /\ n + 1 # 1 /\ Root' = Root /\ Root = 1
    BY <1>3, <1>4 DEF Scopes, Root
  <2>3. ASSUME NEW u \in Scopes', NEW q \in StartPcs, At(u, q)', u # t
        PROVE  u \in Scopes /\ At(u, q) /\ Todo(u)' = Todo(u)
    BY <2>1, <2>3 DEF At, Todo
  <2>4. At(t, "spawn start")' /\ ~At(t, "spawn record")' /\ Todo(t)' = <<n + 1>>
    BY <1>5, <1>9, <2>1 DEF At, Todo
  <2>5. Starts
    BY DEF IndInv
  <2>10. /\ Len(Todo(t)') = 1 /\ Todo(t)'[1] = n + 1 /\ n + 1 \in Scopes' \ {Root}
        /\ thread'[n + 1].mode = "starting" /\ n + 1 \notin Scopes
    <3>1. Len(<<n + 1>>) = 1 /\ <<n + 1>>[1] = n + 1
      OBVIOUS
    <3> QED
      BY <1>7, <1>10, <2>2, <2>4, <3>1
  <2>6. ASSUME NEW u \in Scopes', At(u, "spawn start")' \/ At(u, "spawn record")'
        PROVE  Len(Todo(u)') = 1 /\ Todo(u)'[1] \in Scopes' \ {Root}
    <3>1. CASE u = t
      BY <2>10, <3>1
    <3>2. CASE u # t
      BY <2>2, <2>3, <2>5, <2>6, <3>2 DEF Starts, StartPcs
    <3> QED
      BY <3>1, <3>2
  <2>7. ASSUME NEW u \in Scopes', At(u, "spawn start")', u # t
        PROVE  /\ u \in Scopes /\ At(u, "spawn start") /\ Todo(u)' = Todo(u)
               /\ Todo(u)[1] \in Scopes /\ thread[Todo(u)[1]].mode = "starting"
    BY <2>3, <2>5, <2>7 DEF Starts, StartPcs
  <2>8. ASSUME NEW u \in Scopes', At(u, "spawn start")'
        PROVE  thread'[Todo(u)'[1]].mode = "starting"
    <3>1. CASE u = t
      BY <2>10, <3>1
    <3>2. CASE u # t
      <4>1. Todo(u)[1] \in Scopes /\ thread[Todo(u)[1]].mode = "starting" /\ Todo(u)' = Todo(u)
        BY <2>7, <2>8, <3>2
      <4>2. \A w \in Scopes : thread'[w].mode = thread[w].mode
        BY <1>10 DEF StackStep
      <4> QED
        BY <4>1, <4>2
    <3> QED
      BY <3>1, <3>2
  <2>9. ASSUME NEW u \in Scopes', NEW v \in Scopes', At(u, "spawn start")',
               At(v, "spawn start")', Todo(u)'[1] = Todo(v)'[1]
        PROVE  u = v
    <3>1. CASE u = t \/ v = t
      BY <2>10, <2>7, <2>9, <3>1
    <3>2. CASE u # t /\ v # t
      BY <2>5, <2>7, <2>9, <3>2 DEF Starts
    <3> QED
      BY <3>1, <3>2
  <2> QED
    BY <2>2, <2>6, <2>8, <2>9 DEF Starts
<1>15. /\ Weight(Calls(t), AddPcs) = 0 /\ Weight(Calls(t), Inserting) = 1
       /\ Weight(Calls(t), Permitted) = 1
  <2>1. \A pcs : Weight(Calls(t), pcs) = One(pc, pcs)
    BY <1>1, WeightAt
  <2> QED
    BY <2>1, PcsCounted
<1>16. One(f.pc, AddPcs) = 0 /\ One(f.pc, Inserting) = 0 /\ One(f.pc, Permitted) = 1
  BY <1>5, PcsCounted
<1>17. /\ Pending(Inserting) \in Nat /\ Pending(Inserting)' = Pending(Inserting) - 1
       /\ Pending(AddPcs)' = Pending(AddPcs) /\ Pending(Permitted)' = Pending(Permitted)
  <2> DEFINE pcOf == f.pc
  <2>1. /\ \A pcs : /\ Pending(pcs) \in Nat
                    /\ Pending(pcs)' = Pending(pcs) - Weight(Calls(t), pcs) + One(pcOf, pcs)
        /\ One(pcOf, AddPcs) = 0 /\ One(pcOf, Inserting) = 0 /\ One(pcOf, Permitted) = 1
    BY <1>13, <1>16
  <2> HIDE DEF pcOf
  <2> QED
    BY <1>15, <2>1
<1>18. Rooms'
  BY <1>3, <1>4, <1>11, <1>17 DEF IndInv, Rooms
<1>19. Permits'
  BY <1>11, <1>13, <1>17 DEF IndInv, Permits
<1> QED
  BY <1>12, <1>13, <1>14, <1>18, <1>19 DEF IndInv

(* The record of the task is inserted.                                     *)
LEMMA SpawnRecordKeeps ==
  ASSUME IndInv, UNCHANGED size, NEW t \in Scopes, SpawnRecord(t)
  PROVE  IndInv'
<1> DEFINE h == Here(t)
           c == Head(Todo(t))
<1>1. Calls(t) # <<>> /\ ~OnTop(t, AddPcs \cup Inserting \cup Permitted)
      /\ h \in Scopes /\ Typed /\ ~At(t, "asking")
  BY Elsewhere, PcsListed, TopTyped DEF SpawnRecord, IndInv, At
<1>2. Todo(t) \in Seq(Scopes) /\ Todo(t) # <<>>
  <2>1. Len(Todo(t)) = 1
    BY DEF SpawnRecord, IndInv, Starts
  <2>2. Len(<<>>) # 1
    BY EmptySeq
  <2> QED
    BY <1>1, <2>1, <2>2, TopTyped
<1>3. c \in Scopes /\ ToSet(Todo(t)) \subseteq Scopes
  BY <1>2, TailOfSeq DEF ToSet
<1> DEFINE ts == scope[h].tasks \cup ToSet(Todo(t))
           r == [scope[h] EXCEPT !.tasks = ts]
           s2 == [scope EXCEPT ![h] = r]
           r2 == [s2[c] EXCEPT !.owned = ~scope[h].closed]
<1>4. ts \in SUBSET (1..Len(scope)) /\ (~scope[h].closed) \in BOOLEAN
  BY <1>1, <1>3, ScopeTyped, ListsTyped DEF Scopes, ScopeRec
<1>5. scope' = [s2 EXCEPT ![c] = r2]
  BY DEF SpawnRecord
<1> HIDE DEF ts, c, h
<1>6. r \in ScopeRec(Len(scope), Len(item))
  BY <1>1, <1>4, ScopeTyped, FieldsTyped
<1> HIDE DEF r
<1>7. scope \in Seq(ScopeRec(Len(scope), Len(item))) /\ Scopes = 1..Len(scope)
  BY <1>1 DEF Typed, Shapes, Scopes
<1>8. s2 \in Seq(ScopeRec(Len(scope), Len(item))) /\ Len(s2) = Len(scope)
  BY <1>1, <1>6, <1>7, ExceptSeq
<1> HIDE DEF s2
<1>9. s2[c] \in ScopeRec(Len(scope), Len(item))
  BY <1>3, <1>7, <1>8
<1>10. r2 \in ScopeRec(Len(scope), Len(item))
  BY <1>4, <1>9, FieldsTyped
<1> HIDE DEF r2
<1>11. scope' \in Seq(ScopeRec(Len(scope), Len(item))) /\ Len(scope') = Len(scope)
  BY <1>3, <1>5, <1>7, <1>8, <1>10, ExceptSeq
<1>12. DataKept
  BY <1>1, <1>11 DEF SpawnRecord, DataKept, Typed, Shapes, Scopes
<1> QED
  BY <1>1, <1>12, ReturnKeeps DEF SpawnRecord
-----------------------------------------------------------------------------
(* The thread a spawn hands over starts, or cannot be started.             *)
Begun == {"body", "failed"}
StartStep(t, c, calls, mode) ==
    /\ Len(scope') = Len(scope)
    /\ \A u \in Scopes : /\ thread'[u].mode = IF u = c THEN mode ELSE thread[u].mode
                         /\ thread'[u].calls = IF u = t THEN calls ELSE thread[u].calls

(* Its spawn is over: the calls left do not start c again.                 *)
StartOver(calls, c) ==
    /\ Rested(calls)
    /\ calls # <<>> => /\ Last(calls).pc # "spawn start"
                       /\ Last(calls).pc = "spawn record" => Last(calls).todo = <<c>>

(* A thread is started or fails to start: the counts.                      *)
LEMMA StartCounts ==
  ASSUME Typed, NEW t \in Scopes, NEW c, NEW calls, NEW mode, StartStep(t, c, calls, mode),
         NEW pcs
  PROVE  /\ Pending(pcs) \in Nat /\ Pending(pcs)' \in Nat
         /\ Pending(pcs)' = Pending(pcs) - Weight(Calls(t), pcs) + Weight(calls, pcs)
<1>1. Len(scope) \in Nat /\ Len(scope') = Len(scope)
  BY DEF StartStep, Typed
<1>2. Len(scope') \in Nat /\ Len(scope) <= Len(scope') /\ Scopes' = Scopes
  BY <1>1 DEF Scopes
<1>3. \A u \in Scopes : Calls(u)' = IF u = t THEN calls ELSE Calls(u)
  BY DEF Calls, StartStep
<1>4. /\ Pending(pcs) \in Nat /\ Pending(pcs)' \in Nat
      /\ Pending(pcs)' = Pending(pcs) - Weight(Calls(t), pcs) + Weight(Calls(t)', pcs)
  <2>1. /\ \A u \in Scopes \ {t} : Calls(u)' = Calls(u)
        /\ \A u \in Scopes' \ Scopes : Calls(u)' = <<>>
    BY <1>2, <1>3
  <2> QED
    BY <1>2, <2>1, PendingStep
<1> QED
  BY <1>3, <1>4

(* No other spawn is starting the same thread.                             *)
LEMMA StartAround ==
  ASSUME IndInv, Typed', NEW t \in Scopes, At(t, "spawn start"),
         NEW c \in Scopes, c = Todo(t)[1], NEW mode \in Begun, NEW calls,
         StartStep(t, c, calls, mode), StartOver(calls, c)
  PROVE  Stacks' /\ Starts' /\ c # Root /\ c \notin Live
<1>1. Starts /\ Stacks
  BY DEF IndInv
<1>2. /\ c # Root /\ thread[c].mode = "starting" /\ Calls(t) # <<>> /\ Calls(c) = <<>>
      /\ c # t /\ thread[t].mode \in {"body", "closing"}
  <2>1. c # Root /\ thread[c].mode = "starting" /\ Calls(t) # <<>>
    BY <1>1 DEF Starts, At
  <2>2. thread[t].mode \in {"body", "closing"} /\ Calls(c) = <<>>
    BY <1>1, <2>1 DEF Stacks
  <2> QED
    BY <2>1, <2>2
<1>3. c \notin Live
  BY <1>2 DEF Live
<1>4. Scopes' = Scopes /\ Root' = Root
  BY DEF StartStep, Scopes, Root
<1>5. \A u \in Scopes : Calls(u)' = IF u = t THEN calls ELSE Calls(u)
  BY DEF Calls, StartStep
<1>6. Stacks'
  <2>1. ASSUME NEW u \in Scopes PROVE Rested(Calls(u)')
    BY <1>1, <1>5 DEF Stacks, StartOver
  <2>2. ASSUME NEW u \in Scopes, thread'[u].mode \notin {"body", "closing"}
        PROVE  Calls(u)' = <<>>
    <3>1. u # t
      BY <1>2, <2>2 DEF StartStep
    <3>2. CASE u = c
      BY <1>2, <1>5, <3>1, <3>2
    <3>3. CASE u # c
      <4>1. thread[u].mode \notin {"body", "closing"}
        BY <2>2, <3>3 DEF StartStep
      <4> QED
        BY <1>1, <1>5, <3>1, <4>1 DEF Stacks
    <3> QED
      BY <3>2, <3>3
  <2> QED
    BY <1>4, <2>1, <2>2 DEF Stacks
<1>7. Starts'
  <2>1. Len(<<c>>) = 1 /\ <<c>>[1] = c
    OBVIOUS
  <2>2. ASSUME NEW u \in Scopes, At(u, "spawn start")'
        PROVE  /\ u # t /\ At(u, "spawn start") /\ Todo(u)' = Todo(u)
               /\ Todo(u)[1] \in Scopes \ {c}
    <3>1. u # t
      BY <1>5, <2>2 DEF At, StartOver
    <3>2. At(u, "spawn start") /\ Todo(u)' = Todo(u)
      BY <1>5, <2>2, <3>1 DEF At, Todo
    <3> QED
      BY <1>1, <3>1, <3>2 DEF Starts
  <2>3. ASSUME NEW u \in Scopes, At(u, "spawn start")' \/ At(u, "spawn record")'
        PROVE  Len(Todo(u)') = 1 /\ Todo(u)'[1] \in Scopes \ {Root}
    <3>1. CASE u = t
      <4>1. calls # <<>> /\ Last(calls).pc \in {"spawn start", "spawn record"}
            /\ Todo(u)' = Last(calls).todo
        BY <1>5, <2>3, <3>1 DEF At, Todo
      <4>2. Todo(u)' = <<c>>
        BY <4>1 DEF StartOver
      <4> QED
        BY <1>2, <2>1, <4>2
    <3>2. CASE u # t
      <4>1. (At(u, "spawn start") \/ At(u, "spawn record")) /\ Todo(u)' = Todo(u)
        BY <1>5, <2>3, <3>2 DEF At, Todo
      <4> QED
        BY <1>1, <4>1 DEF Starts
    <3> QED
      BY <3>1, <3>2
  <2>4. ASSUME NEW u \in Scopes, At(u, "spawn start")'
        PROVE  thread'[Todo(u)'[1]].mode = "starting"
    <3> DEFINE d == Todo(u)[1]
    <3>1. d \in Scopes /\ d # c /\ thread[d].mode = "starting" /\ Todo(u)'[1] = d
      BY <1>1, <2>2, <2>4 DEF Starts
    <3> HIDE DEF d
    <3>2. thread'[d].mode = thread[d].mode
      BY <3>1 DEF StartStep
    <3> QED
      BY <3>1, <3>2
  <2>5. ASSUME NEW u \in Scopes, NEW v \in Scopes, At(u, "spawn start")',
               At(v, "spawn start")', Todo(u)'[1] = Todo(v)'[1]
        PROVE  u = v
    BY <1>1, <2>2, <2>5 DEF Starts
  <2> QED
    BY <1>4, <2>3, <2>4, <2>5 DEF Starts
<1> QED
  BY <1>2, <1>3, <1>6, <1>7

(* The threads' types after such a step.                                   *)
Handover(t, c, calls, mode) ==
    thread' = [thread EXCEPT ![t].calls = calls, ![c].mode = mode]

(* The threads after such a step.                                          *)
LEMMA StartTyped ==
  ASSUME Typed, NEW t \in Scopes, NEW c \in Scopes, c # t,
         NEW calls \in Seq(CallRec(Len(scope), Len(item))), NEW mode \in Modes,
         Handover(t, c, calls, mode), Len(scope') = Len(scope)
  PROVE  /\ thread' \in Seq(ThreadRec(Len(scope), Len(item))) /\ Len(thread') = Len(thread)
         /\ StartStep(t, c, calls, mode)
<1> DEFINE R == ThreadRec(Len(scope), Len(item))
           r == [mode |-> thread[t].mode, home |-> thread[t].home, calls |-> calls]
           q == [mode |-> mode, home |-> thread[c].home, calls |-> thread[c].calls]
           t2 == [thread EXCEPT ![t] = r]
<1>1. thread \in Seq(R) /\ Scopes = 1..Len(thread) /\ thread[t] \in R /\ thread[c] \in R
  BY ThreadTyped DEF Typed, Shapes, Scopes
<1>2. r \in R /\ r.mode = thread[t].mode /\ r.calls = calls
  BY <1>1 DEF ThreadRec
<1>3. q \in R /\ q.mode = mode /\ q.calls = thread[c].calls
  BY <1>1 DEF ThreadRec
<1>4. [thread[t] EXCEPT !.calls = calls] = r
  BY <1>1, CallsOfThread
<1>5. [thread[c] EXCEPT !.mode = mode] = q
  BY <1>1, ModeOfThread
<1>6. thread' = [t2 EXCEPT ![c] = q]
  <2>1. t2[c] = thread[c]
    BY <1>1
  <2>2. t2 = [thread EXCEPT ![t].calls = calls]
    BY <1>4
  <2>3. thread' = [t2 EXCEPT ![c].mode = mode]
    BY <2>2 DEF Handover
  <2> QED
    BY <1>5, <2>1, <2>3
<1> HIDE DEF r, q, R
<1>7. t2 \in Seq(R) /\ Len(t2) = Len(thread)
      /\ \A u \in Scopes : t2[u] = IF u = t THEN r ELSE thread[u]
  BY <1>1, <1>2, ExceptSeq
<1> HIDE DEF t2
<1>8. /\ thread' \in Seq(R) /\ Len(thread') = Len(thread)
      /\ \A u \in Scopes : thread'[u] = IF u = c THEN q ELSE t2[u]
  <2>1. c \in 1..Len(t2) /\ Scopes = 1..Len(t2)
    BY <1>1, <1>7
  <2> DEFINE t3 == [t2 EXCEPT ![c] = q]
  <2>2. /\ t3 \in Seq(R) /\ Len(t3) = Len(t2)
        /\ \A u \in 1..Len(t2) : t3[u] = IF u = c THEN q ELSE t2[u]
    BY <1>3, <1>7, <2>1, ExceptSeq
  <2> HIDE DEF t3
  <2>3. thread' = t3
    BY <1>6 DEF t3
  <2> QED
    BY <1>7, <2>1, <2>2, <2>3
<1>9. StartStep(t, c, calls, mode)
  <2>1. ASSUME NEW u \in Scopes
        PROVE  thread'[u] = IF u = c THEN q ELSE IF u = t THEN r ELSE thread[u]
    BY <1>7, <1>8
  <2>2. thread'[c] = q /\ thread'[t] = r
    BY <2>1
  <2>3. ASSUME NEW u \in Scopes
        PROVE  /\ thread'[u].mode = IF u = c THEN mode ELSE thread[u].mode
               /\ thread'[u].calls = IF u = t THEN calls ELSE thread[u].calls
    <3>1. CASE u = c
      BY <1>3, <2>2, <3>1
    <3>2. CASE u = t
      BY <1>2, <2>2, <3>2
    <3>3. CASE u # c /\ u # t
      <4>1. thread'[u] = thread[u]
        BY <2>1, <3>3
      <4> QED
        BY <3>3, <4>1
    <3> QED
      BY <3>1, <3>2, <3>3
  <2> QED
    BY <2>3 DEF StartStep
<1> QED
  BY <1>8, <1>9 DEF R

(* A list of one.                                                          *)
LEMMA OneElement ==
  ASSUME NEW S, NEW e \in S
  PROVE  <<e>> \in Seq(S)
OBVIOUS

(* Either way the spawn is over: the counts, and the rest of the invariant *)
(* but for the types and the permits.                                      *)
LEMMA StartCounted ==
  ASSUME IndInv, Typed', NEW t \in Scopes, At(t, "spawn start"),
         NEW c \in Scopes, c = Todo(t)[1], NEW mode \in Begun, NEW calls,
         StartStep(t, c, calls, mode), StartOver(calls, c),
         \A pcs \in {AddPcs, Inserting, Permitted} : Weight(calls, pcs) = 0,
         UNCHANGED <<size, item>>
  PROVE  /\ Stacks' /\ Starts' /\ Rooms' /\ c # Root /\ c \notin Live
         /\ Pending(Permitted) \in Nat /\ Pending(Permitted)' = Pending(Permitted) - 1
<1>1. Stacks' /\ Starts' /\ c # Root /\ c \notin Live
  BY StartAround
<1>0. \A pcs \in {AddPcs, Inserting, Permitted} :
        /\ Pending(pcs) \in Nat /\ Pending(pcs)' \in Nat
        /\ Pending(pcs)' = Pending(pcs) - Weight(Calls(t), pcs) + Weight(calls, pcs)
  <2>1. Typed /\ StartStep(t, c, calls, mode)
    BY DEF IndInv
  <2> TAKE pcs \in {AddPcs, Inserting, Permitted}
  <2> QED
    BY ONLY <2>1, t \in Scopes, StartCounts
<1>2. /\ Weight(Calls(t), AddPcs) = 0 /\ Weight(Calls(t), Inserting) = 0
      /\ Weight(Calls(t), Permitted) = 1
  <2>1. \A pcs : Weight(Calls(t), pcs) = One("spawn start", pcs)
    BY WeightAt
  <2> QED
    BY <2>1, PcsCounted
<1>3. /\ Pending(Permitted) \in Nat /\ Pending(Permitted)' = Pending(Permitted) - 1
      /\ Pending(AddPcs)' = Pending(AddPcs) /\ Pending(Inserting)' = Pending(Inserting)
  BY ONLY <1>0, <1>2, \A pcs \in {AddPcs, Inserting, Permitted} : Weight(calls, pcs) = 0
<1>4. Len(scope') = Len(scope)
  BY DEF StartStep
<1>5. Rooms'
  BY <1>3, <1>4 DEF IndInv, Rooms
<1> QED
  BY <1>1, <1>3, <1>5

(* Builder::spawn is about to be called.                                   *)
StartPc == "spawn start"

(* What is known of a spawn at Builder::spawn.                             *)
LEMMA StartingThread ==
  ASSUME IndInv, NEW t \in Scopes, At(t, StartPc)
  PROVE  /\ Calls(t) # <<>> /\ Here(t) \in Scopes /\ Typed /\ Scopes = 1..Len(scope)
         /\ Todo(t)[1] \in Scopes /\ Todo(t)[1] # t /\ Head(Todo(t)) = Todo(t)[1]
         /\ Calls(t) \in Seq(CallRec(Len(scope), Len(item))) /\ Rested(Calls(t))
<1>1. Calls(t) # <<>> /\ At(t, "spawn start")
  BY DEF At, StartPc
<1>2. Here(t) \in Scopes /\ Typed /\ Scopes = 1..Len(scope)
  BY <1>1, TopTyped DEF IndInv, Scopes
<1>3. Len(Todo(t)) = 1 /\ Todo(t)[1] \in Scopes /\ thread[Todo(t)[1]].mode = "starting"
  BY <1>1 DEF IndInv, Starts
<1>4. /\ thread[t].mode \in {"body", "closing"}
      /\ Calls(t) \in Seq(CallRec(Len(scope), Len(item))) /\ Rested(Calls(t))
  BY <1>1, BusyMode
<1>5. Todo(t)[1] # t
  BY <1>3, <1>4
<1>6. Head(Todo(t)) = Todo(t)[1]
  OBVIOUS
<1> QED
  BY <1>1, <1>2, <1>3, <1>4, <1>5, <1>6

(* The thread starts, and the spawn goes on to record its task.            *)
StartedMode == "body"
Recording(t, c) == Frame(Here(t), "spawn record", <<c>>)

(* The thread starts: it holds the permit that the spawn held.             *)
LEMMA SpawnStarted ==
  ASSUME IndInv, UNCHANGED <<size, scope, item, permits, stalled>>, NEW t \in Scopes,
         At(t, StartPc), NEW c, c = Todo(t)[1],
         thread' = [thread EXCEPT ![t].calls = Append(Front(Calls(t)), Recording(t, c)),
                                  ![c].mode = StartedMode]
  PROVE  IndInv'
<1> DEFINE f == Recording(t, c)
           calls == Append(Front(Calls(t)), f)
<1>1. /\ Calls(t) # <<>> /\ Here(t) \in Scopes /\ Typed /\ Scopes = 1..Len(scope)
      /\ c \in Scopes /\ c # t
      /\ Calls(t) \in Seq(CallRec(Len(scope), Len(item))) /\ Rested(Calls(t))
  BY StartingThread
<1>2. f \in CallRec(Len(scope), Len(item)) /\ f.pc = "spawn record" /\ f.todo = <<c>>
  <2>1. <<c>> \in Seq(1..Len(scope))
    BY <1>1, OneElement
  <2> QED
    BY <1>1, <2>1 DEF Recording, Frame, CallRec, Pcs, SpawnPcs
<1>3. Handover(t, c, calls, StartedMode)
  BY DEF Handover
<1> HIDE DEF f
<1>4. /\ calls \in Seq(CallRec(Len(scope), Len(item))) /\ Rested(calls)
      /\ calls # <<>> /\ Last(calls) = f
  BY <1>1, <1>2, JumpRests
<1> HIDE DEF calls
<1>5. StartedMode \in Modes /\ StartedMode \in Begun
  BY DEF Modes, Begun, StartedMode
<1>6. Len(scope') = Len(scope)
  OBVIOUS
<1>7. /\ thread' \in Seq(ThreadRec(Len(scope), Len(item))) /\ Len(thread') = Len(thread)
      /\ StartStep(t, c, calls, StartedMode)
  BY <1>1, <1>3, <1>4, <1>5, <1>6, StartTyped
<1>8. Typed'
  BY <1>1, <1>7 DEF Typed, Shapes
<1>9. StartOver(calls, c)
  BY <1>2, <1>4 DEF StartOver
<1>10. \A pcs \in {AddPcs, Inserting, Permitted} : Weight(calls, pcs) = 0
  BY <1>2, <1>4, PcsCounted DEF Weight, One
<1>11. /\ Stacks' /\ Starts' /\ Rooms' /\ c # Root /\ c \notin Live
       /\ Pending(Permitted) \in Nat /\ Pending(Permitted)' = Pending(Permitted) - 1
  BY <1>1, <1>5, <1>7, <1>8, <1>9, <1>10, StartCounted DEF StartPc
<1>12. Live' = Live \cup {c}
  <2>1. Scopes' = Scopes /\ Root' = Root
    BY DEF Scopes, Root
  <2>2. ASSUME NEW u \in Scopes
        PROVE  thread'[u].mode = IF u = c THEN "body" ELSE thread[u].mode
    BY <1>7 DEF StartStep, StartedMode
  <2>3. ASSUME NEW u \in Scopes \ {Root} PROVE u \in Live' <=> u \in (Live \cup {c})
    BY <1>11, <2>1, <2>2, <2>3 DEF Live
  <2>4. Live' \subseteq Scopes \ {Root} /\ Live \subseteq Scopes \ {Root} /\ c \in Scopes \ {Root}
    BY <1>1, <1>11, <2>1 DEF Live
  <2> QED
    BY <2>3, <2>4
<1>13. Cardinality(Live') = Cardinality(Live) + 1 /\ Cardinality(Live) \in Nat
  <2>1. IsFiniteSet(Live) /\ Cardinality(Live) \in Nat
    BY <1>1, LiveFinite
  <2>2. Cardinality(Live \cup {c}) = Cardinality(Live) + 1
    BY <1>11, <2>1, FS_AddElement
  <2> QED
    BY <1>12, <2>1, <2>2
<1>14. Permits'
  <2>1. permits' = permits /\ size' = size /\ Permits
    BY DEF IndInv
  <2> QED
    BY ONLY <1>11, <1>13, <2>1 DEF Permits
<1> QED
  BY <1>8, <1>11, <1>14 DEF IndInv

(* It cannot be started: the child leaves its parent and the permit goes.  *)
LEMMA UnlinkTyped ==
  ASSUME Typed, NEW h \in Scopes, NEW c \in Scopes,
         scope' = [scope EXCEPT ![h].children = Without(@, c), ![c].guarded = FALSE]
  PROVE  scope' \in Seq(ScopeRec(Len(scope), Len(item))) /\ Len(scope') = Len(scope)
<1> DEFINE l == Without(scope[h].children, c)
           r == [scope[h] EXCEPT !.children = l]
           s2 == [scope EXCEPT ![h] = r]
           r2 == [s2[c] EXCEPT !.guarded = FALSE]
<1>1. Scopes = 1..Len(scope) /\ scope \in Seq(ScopeRec(Len(scope), Len(item)))
  BY DEF Typed, Shapes, Scopes
<1>2. l \in Seq(1..Len(scope))
  BY <1>1, ListsTyped, WithoutOfSeq
<1>3. scope' = [s2 EXCEPT ![c] = r2]
  OBVIOUS
<1> HIDE DEF l
<1>4. r \in ScopeRec(Len(scope), Len(item))
  BY <1>2, ScopeTyped, FieldsTyped
<1> HIDE DEF r
<1>5. s2 \in Seq(ScopeRec(Len(scope), Len(item))) /\ Len(s2) = Len(scope)
  BY <1>1, <1>4, ExceptSeq
<1> HIDE DEF s2
<1>6. s2[c] \in ScopeRec(Len(scope), Len(item))
  BY <1>1, <1>5
<1>7. r2 \in ScopeRec(Len(scope), Len(item))
  BY <1>6, FieldsTyped
<1> HIDE DEF r2
<1> DEFINE s3 == [s2 EXCEPT ![c] = r2]
<1>8. s3 \in Seq(ScopeRec(Len(scope), Len(item))) /\ Len(s3) = Len(scope)
  BY <1>1, <1>5, <1>7, ExceptSeq
<1> QED
  BY <1>3, <1>8

FailedMode == "failed"

(* It cannot be started: the child leaves its parent, and the permit goes  *)
(* with the closure.                                                       *)
LEMMA SpawnFailed ==
  ASSUME IndInv, UNCHANGED <<size, item, stalled>>, permits' = permits - 1, NEW t \in Scopes,
         At(t, StartPc), NEW c, c = Todo(t)[1],
         thread' = [thread EXCEPT ![t].calls = Front(Calls(t)), ![c].mode = FailedMode],
         scope' = [scope EXCEPT ![Here(t)].children = Without(@, c), ![c].guarded = FALSE]
  PROVE  IndInv'
<1> DEFINE calls == Front(Calls(t))
<1>1. /\ Calls(t) # <<>> /\ Here(t) \in Scopes /\ Typed /\ Scopes = 1..Len(scope)
      /\ c \in Scopes /\ c # t
      /\ Calls(t) \in Seq(CallRec(Len(scope), Len(item))) /\ Rested(Calls(t))
  BY StartingThread
<1>2. scope' \in Seq(ScopeRec(Len(scope), Len(item))) /\ Len(scope') = Len(scope)
  BY <1>1, UnlinkTyped
<1>3. /\ calls \in Seq(CallRec(Len(scope), Len(item))) /\ Rested(calls)
      /\ calls # <<>> => Last(calls).pc \in Resting
  BY <1>1, ReturnRests
<1>4. Handover(t, c, calls, FailedMode)
  BY DEF Handover
<1> HIDE DEF calls
<1>5. FailedMode \in Modes /\ FailedMode \in Begun
  BY DEF Modes, Begun, FailedMode
<1>6. /\ thread' \in Seq(ThreadRec(Len(scope), Len(item))) /\ Len(thread') = Len(thread)
      /\ StartStep(t, c, calls, FailedMode)
  BY <1>1, <1>2, <1>3, <1>4, <1>5, StartTyped
<1>7. permits \in Int /\ permits' \in Int /\ size.tasks \in Nat
  BY RoomsTyped
<1>8. Typed'
  BY <1>1, <1>2, <1>6, <1>7 DEF Typed, Shapes
<1>9. StartOver(calls, c)
  BY <1>3 DEF StartOver, Resting
<1>10. \A pcs \in {AddPcs, Inserting, Permitted} : Weight(calls, pcs) = 0
  BY <1>3 DEF Weight, Resting, AddPcs, Inserting, Permitted
<1>11. /\ Stacks' /\ Starts' /\ Rooms' /\ c # Root /\ c \notin Live
       /\ Pending(Permitted) \in Nat /\ Pending(Permitted)' = Pending(Permitted) - 1
  BY <1>1, <1>5, <1>6, <1>8, <1>9, <1>10, StartCounted DEF StartPc
<1>12. Live' = Live
  <2>1. Scopes' = Scopes /\ Root' = Root
    BY <1>2 DEF Scopes, Root
  <2>2. ASSUME NEW u \in Scopes
        PROVE  thread'[u].mode = IF u = c THEN "failed" ELSE thread[u].mode
    BY <1>6 DEF StartStep, FailedMode
  <2>3. ASSUME NEW u \in Scopes \ {Root} PROVE u \in Live' <=> u \in Live
    <3>1. CASE u = c
      <4>1. thread'[u].mode = "failed"
        BY <2>2, <2>3, <3>1
      <4>2. u \notin Live'
        BY <4>1 DEF Live
      <4> QED
        BY <1>11, <3>1, <4>2
    <3>2. CASE u # c
      <4>1. thread'[u].mode = thread[u].mode
        BY <2>2, <2>3, <3>2
      <4> QED
        BY <2>1, <2>3, <4>1 DEF Live
    <3> QED
      BY <3>1, <3>2
  <2>4. Live' \subseteq Scopes \ {Root} /\ Live \subseteq Scopes \ {Root} /\ c \in Scopes \ {Root}
    BY <1>1, <1>11, <2>1 DEF Live
  <2> QED
    BY <2>3, <2>4
<1>13. Permits'
  <2>1. permits' = permits - 1 /\ size' = size /\ Permits
    BY DEF IndInv
  <2>2. Cardinality(Live) \in Nat
    BY <1>1, LiveFinite
  <2> QED
    BY ONLY <1>7, <1>11, <1>12, <2>1, <2>2 DEF Permits
<1> QED
  BY <1>8, <1>11, <1>13 DEF IndInv

(* Builder::spawn (scope.rs:899-932).                                      *)
LEMMA SpawnStartKeeps ==
  ASSUME IndInv, UNCHANGED size, NEW t \in Scopes, SpawnStart(t)
  PROVE  IndInv'
<1> DEFINE c == Head(Todo(t))
<1>1. At(t, StartPc)
  BY DEF SpawnStart, StartPc
<1>2. c = Todo(t)[1]
  BY <1>1, StartingThread
<1>3. \/ /\ thread' = [thread EXCEPT ![t].calls = Append(Front(Calls(t)), Recording(t, c)),
                                     ![c].mode = StartedMode]
         /\ UNCHANGED <<size, scope, item, permits, stalled>>
      \/ /\ thread' = [thread EXCEPT ![t].calls = Front(Calls(t)), ![c].mode = FailedMode]
         /\ scope' = [scope EXCEPT ![Here(t)].children = Without(@, c), ![c].guarded = FALSE]
         /\ permits' = permits - 1
         /\ UNCHANGED <<size, item, stalled>>
  BY DEF SpawnStart, Recording, StartedMode, FailedMode
<1> HIDE DEF c
<1> QED
  BY <1>1, <1>2, <1>3, SpawnStarted, SpawnFailed
-----------------------------------------------------------------------------
(* A thread with no call under way goes on to the next part of its life.   *)
OwnStep(t, calls, mode) ==
    /\ Len(scope') = Len(scope) /\ Len(item') = Len(item) /\ size' = size
    /\ \A u \in Scopes : /\ thread'[u].mode = IF u = t THEN mode ELSE thread[u].mode
                         /\ thread'[u].calls = IF u = t THEN calls ELSE thread[u].calls
OwnCalls(calls, mode) ==
    /\ Rested(calls)
    /\ calls # <<>> => mode \in {"body", "closing"} /\ Last(calls).pc \notin Working

(* The threads after such a step.                                          *)
LEMMA OwnChanged ==
  ASSUME Typed, NEW t \in Scopes, NEW mode \in Modes,
         NEW calls \in Seq(CallRec(Len(scope), Len(item))),
         NEW r, r = [mode |-> mode, home |-> thread[t].home, calls |-> calls],
         thread' = [thread EXCEPT ![t] = r],
         Len(scope') = Len(scope), Len(item') = Len(item), size' = size
  PROVE  /\ thread' \in Seq(ThreadRec(Len(scope), Len(item))) /\ Len(thread') = Len(thread)
         /\ OwnStep(t, calls, mode)
<1>1. /\ thread \in Seq(ThreadRec(Len(scope), Len(item))) /\ Scopes = 1..Len(thread)
      /\ thread[t] \in ThreadRec(Len(scope), Len(item))
  BY ThreadTyped DEF Typed, Shapes, Scopes
<1>2. r \in ThreadRec(Len(scope), Len(item)) /\ r.mode = mode /\ r.calls = calls
  BY <1>1 DEF ThreadRec
<1>3. /\ thread' \in Seq(ThreadRec(Len(scope), Len(item))) /\ Len(thread') = Len(thread)
      /\ \A u \in 1..Len(thread) : thread'[u] = IF u = t THEN r ELSE thread[u]
  BY <1>1, <1>2, ExceptSeq
<1>4. ASSUME NEW u \in Scopes
      PROVE  /\ thread'[u].mode = IF u = t THEN mode ELSE thread[u].mode
             /\ thread'[u].calls = IF u = t THEN calls ELSE thread[u].calls
  BY <1>1, <1>2, <1>3
<1> QED
  BY <1>3, <1>4 DEF OwnStep

(* It reserves nothing before or after.                                    *)
LEMMA OwnCounts ==
  ASSUME Typed, NEW t \in Scopes, NEW calls, NEW mode, OwnStep(t, calls, mode), NEW pcs,
         ~OnTop(t, pcs), Weight(calls, pcs) = 0
  PROVE  Pending(pcs) \in Nat /\ Pending(pcs)' = Pending(pcs)
<1>1. Len(scope) \in Nat /\ Len(scope') = Len(scope)
  BY DEF OwnStep, Typed
<1>2. Len(scope') \in Nat /\ Len(scope) <= Len(scope') /\ Scopes' = Scopes
  BY <1>1 DEF Scopes
<1>3. \A u \in Scopes : Calls(u)' = IF u = t THEN calls ELSE Calls(u)
  BY DEF Calls, OwnStep
<1>4. /\ Pending(pcs) \in Nat /\ Pending(pcs)' \in Nat
      /\ Pending(pcs)' = Pending(pcs) - Weight(Calls(t), pcs) + Weight(Calls(t)', pcs)
  <2>1. /\ \A u \in Scopes \ {t} : Calls(u)' = Calls(u)
        /\ \A u \in Scopes' \ Scopes : Calls(u)' = <<>>
    BY <1>2, <1>3
  <2> QED
    BY <1>2, <2>1, PendingStep
<1>5. Weight(Calls(t), pcs) = 0 /\ Calls(t)' = calls
  BY <1>3 DEF OnTop, Weight
<1> QED
  BY <1>4, <1>5

(* Nobody was starting it, and nobody is now.                              *)
LEMMA OwnAround ==
  ASSUME IndInv, Typed', NEW t \in Scopes, Calls(t) = <<>>, thread[t].mode # "starting",
         NEW calls, NEW mode, OwnStep(t, calls, mode), OwnCalls(calls, mode)
  PROVE  /\ Stacks' /\ Starts' /\ Rooms'
         /\ Pending(Permitted) \in Nat /\ Pending(Permitted)' = Pending(Permitted)
<1>1. Scopes' = Scopes /\ Root' = Root
  BY DEF OwnStep, Scopes, Root
<1>2. \A u \in Scopes : Calls(u)' = IF u = t THEN calls ELSE Calls(u)
  BY DEF Calls, OwnStep
<1>3. Stacks /\ Starts /\ Typed
  BY DEF IndInv
<1>4. Stacks'
  <2>1. ASSUME NEW u \in Scopes
        PROVE  Rested(Calls(u)') /\ (thread'[u].mode \notin {"body", "closing"} => Calls(u)' = <<>>)
    <3>1. CASE u = t
      BY <1>2, <3>1 DEF OwnStep, OwnCalls
    <3>2. CASE u # t
      BY <1>2, <1>3, <3>2 DEF OwnStep, Stacks
    <3> QED
      BY <3>1, <3>2
  <2> QED
    BY <1>1, <2>1 DEF Stacks
<1>5. Starts'
  <2>1. ASSUME NEW u \in Scopes, At(u, "spawn start")' \/ At(u, "spawn record")'
        PROVE  /\ u # t /\ Todo(u)' = Todo(u) /\ Len(Todo(u)) = 1
               /\ Todo(u)[1] \in Scopes \ {Root}
               /\ At(u, "spawn start")' => At(u, "spawn start")
    <3>1. u # t
      BY <1>2, <2>1 DEF At, OwnCalls, Working, Permitted
    <3>2. /\ Todo(u)' = Todo(u)
          /\ At(u, "spawn start")' => At(u, "spawn start")
          /\ At(u, "spawn record")' => At(u, "spawn record")
      BY <1>2, <3>1 DEF At, Todo
    <3> QED
      BY <1>3, <2>1, <3>1, <3>2 DEF Starts
  <2>2. ASSUME NEW u \in Scopes, At(u, "spawn start")'
        PROVE  thread'[Todo(u)[1]].mode = "starting"
    <3>1. Todo(u)[1] \in Scopes /\ thread[Todo(u)[1]].mode = "starting"
      BY <1>3, <2>1, <2>2 DEF Starts
    <3> QED
      BY <3>1 DEF OwnStep
  <2>3. ASSUME NEW u \in Scopes, NEW v \in Scopes, At(u, "spawn start")',
               At(v, "spawn start")', Todo(u)'[1] = Todo(v)'[1]
        PROVE  u = v
    BY <1>3, <2>1, <2>3 DEF Starts
  <2> QED
    BY <1>1, <2>1, <2>2, <2>3 DEF Starts
<1>6. \A pcs \in {AddPcs, Inserting, Permitted} :
        Pending(pcs) \in Nat /\ Pending(pcs)' = Pending(pcs)
  <2> TAKE pcs \in {AddPcs, Inserting, Permitted}
  <2>1. ~OnTop(t, pcs)
    BY DEF OnTop
  <2>2. Weight(calls, pcs) = 0
    BY DEF OwnCalls, Weight, Working
  <2> QED
    BY <1>3, <2>1, <2>2, OwnCounts
<1>7. Rooms'
  BY <1>6 DEF IndInv, Rooms, OwnStep
<1> QED
  BY <1>4, <1>5, <1>6, <1>7

(* A body ends: the thread closes its own scope, and keeps its permit.     *)
LEMMA EndBodyKeeps ==
  ASSUME IndInv, UNCHANGED size, NEW t \in Scopes, EndBody(t)
  PROVE  IndInv'
<1> DEFINE f == Frame(t, "close", <<>>)
           calls == Append(<<>>, f)
           mode == "closing"
           r == [mode |-> mode, home |-> thread[t].home, calls |-> calls]
           s == [scope[t] EXCEPT !.guarded = FALSE]
<1>1. /\ Calls(t) = <<>> /\ thread[t].mode = "body" /\ Typed /\ UNCHANGED <<item, permits, stalled>>
  BY DEF EndBody, Running, IndInv
<1>2. f \in CallRec(Len(scope), Len(item)) /\ f.pc = "close"
  BY EntryTyped DEF Scopes, Pcs, ClosePcs
<1>3. thread' = [thread EXCEPT ![t] = r]
  <2>1. <<f>> = calls
    BY DEF f
  <2>2. [[thread[t] EXCEPT !.mode = mode] EXCEPT !.calls = calls] = r
    <3> DEFINE th == [thread[t] EXCEPT !.mode = mode]
    <3>1. th = [mode |-> mode, home |-> thread[t].home, calls |-> thread[t].calls]
      BY <1>1, ThreadTyped, ModeOfThread
    <3> HIDE DEF th
    <3>2. [th EXCEPT !.calls = calls] = r
      BY <3>1
    <3> QED
      BY <3>2 DEF th
  <2>3. thread \in Seq(ThreadRec(Len(scope), Len(item))) /\ t \in 1..Len(thread)
    BY <1>1 DEF Typed, Shapes, Scopes
  <2> QED
    BY <2>1, <2>2, <2>3 DEF EndBody
<1>4. scope' = [scope EXCEPT ![t] = s]
  BY DEF EndBody
<1>5. s \in ScopeRec(Len(scope), Len(item))
  BY <1>1, ScopeTyped, FieldsTyped
<1> HIDE DEF f, s
<1>6. scope' \in Seq(ScopeRec(Len(scope), Len(item))) /\ Len(scope') = Len(scope)
  BY <1>1, <1>4, <1>5, ScopeChanged
<1>7. /\ calls \in Seq(CallRec(Len(scope), Len(item))) /\ Rested(calls)
      /\ calls # <<>> /\ Last(calls) = f
  BY <1>2, FirstCallRests
<1>8. mode \in Modes
  BY DEF Modes
<1> HIDE DEF calls, mode
<1>9. r = [mode |-> mode, home |-> thread[t].home, calls |-> calls]
  OBVIOUS
<1> HIDE DEF r
<1>10. /\ thread' \in Seq(ThreadRec(Len(scope), Len(item))) /\ Len(thread') = Len(thread)
       /\ OwnStep(t, calls, mode)
  BY <1>1, <1>3, <1>6, <1>7, <1>8, <1>9, OwnChanged
<1>11. Typed'
  BY <1>1, <1>6, <1>10 DEF Typed, Shapes
<1>12. OwnCalls(calls, mode)
  BY <1>2, <1>7 DEF OwnCalls, mode, Working, AddPcs, Inserting, Permitted
<1>13. /\ Stacks' /\ Starts' /\ Rooms'
       /\ Pending(Permitted) \in Nat /\ Pending(Permitted)' = Pending(Permitted)
  <2>1. thread[t].mode # "starting"
    BY <1>1
  <2> QED
    BY <1>1, <1>10, <1>11, <1>12, <2>1, OwnAround
<1>14. Live' = Live
  <2>1. Scopes' = Scopes /\ Root' = Root
    BY <1>6 DEF Scopes, Root
  <2>2. ASSUME NEW u \in Scopes
        PROVE  thread'[u].mode \in {"body", "closing"} <=> thread[u].mode \in {"body", "closing"}
    BY <1>1, <1>10 DEF OwnStep, mode
  <2> QED
    BY <2>1, <2>2 DEF Live
<1>15. Permits'
  BY <1>1, <1>13, <1>14 DEF IndInv, Permits
<1> QED
  BY <1>11, <1>13, <1>15 DEF IndInv

(* A thread past its close: it gives its permit back, then it is done.     *)
GoesOn(t, mode) == thread' = [thread EXCEPT ![t].mode = mode]

(* Such a step with no call made.                                          *)
LEMMA ModeStep ==
  ASSUME IndInv, NEW t \in Scopes, Calls(t) = <<>>, thread[t].mode # "starting",
         NEW mode \in Modes, GoesOn(t, mode),
         UNCHANGED <<size, scope, item, stalled>>, permits' \in Int
  PROVE  /\ Typed' /\ Stacks' /\ Starts' /\ Rooms'
         /\ Pending(Permitted) \in Nat /\ Pending(Permitted)' = Pending(Permitted)
         /\ \A u \in Scopes : thread'[u].mode = IF u = t THEN mode ELSE thread[u].mode
<1> DEFINE r == [mode |-> mode, home |-> thread[t].home, calls |-> thread[t].calls]
           calls == Calls(t)
<1>1. Typed /\ thread[t] \in ThreadRec(Len(scope), Len(item))
  BY ThreadTyped DEF IndInv
<1>2. calls \in Seq(CallRec(Len(scope), Len(item))) /\ calls = <<>>
  BY <1>1, ThreadTyped
<1>3. [thread[t] EXCEPT !.mode = mode] = r
  BY <1>1, ModeOfThread
<1>4. thread' = [thread EXCEPT ![t] = r]
  BY <1>3 DEF GoesOn
<1>5. r = [mode |-> mode, home |-> thread[t].home, calls |-> calls]
  BY DEF Calls
<1>6. Len(scope') = Len(scope) /\ Len(item') = Len(item) /\ size' = size
  OBVIOUS
<1> HIDE DEF r, calls
<1>7. /\ thread' \in Seq(ThreadRec(Len(scope), Len(item))) /\ Len(thread') = Len(thread)
      /\ OwnStep(t, calls, mode)
  BY <1>1, <1>2, <1>4, <1>5, <1>6, OwnChanged
<1>8. Typed'
  BY <1>1, <1>7 DEF Typed, Shapes
<1>9. OwnCalls(calls, mode)
  <2>1. Len(<<>>) = 0
    BY EmptySeq
  <2> QED
    BY <1>2, <2>1 DEF OwnCalls, Rested
<1>10. /\ Stacks' /\ Starts' /\ Rooms'
       /\ Pending(Permitted) \in Nat /\ Pending(Permitted)' = Pending(Permitted)
  BY <1>7, <1>8, <1>9, OwnAround
<1> QED
  BY <1>7, <1>8, <1>10 DEF OwnStep

(* The thread of a task gives its permit back, once.                       *)
LEMMA DropPermitKeeps ==
  ASSUME IndInv, UNCHANGED size, NEW t \in Scopes, DropPermit(t)
  PROVE  IndInv'
<1> DEFINE mode == "finishing"
<1>1. /\ t \in Live /\ Calls(t) = <<>> /\ thread[t].mode # "starting" /\ mode \in Modes
      /\ GoesOn(t, mode) /\ permits' = permits - 1
      /\ UNCHANGED <<size, scope, item, stalled>>
  BY DEF DropPermit, Live, Modes, GoesOn
<1>2. permits \in Int /\ permits' \in Int /\ size.tasks \in Nat
  BY <1>1, RoomsTyped
<1> HIDE DEF mode
<1>3. /\ Typed' /\ Stacks' /\ Starts' /\ Rooms'
      /\ Pending(Permitted) \in Nat /\ Pending(Permitted)' = Pending(Permitted)
      /\ \A u \in Scopes : thread'[u].mode = IF u = t THEN mode ELSE thread[u].mode
  BY <1>1, <1>2, ModeStep
<1>4. Live' = Live \ {t}
  <2>1. Scopes' = Scopes /\ Root' = Root
    BY <1>1 DEF Scopes, Root
  <2>2. ASSUME NEW u \in Scopes, u # t PROVE thread'[u].mode = thread[u].mode
    BY <1>3, <2>2
  <2>3. thread'[t].mode \notin {"body", "closing"}
    BY <1>3 DEF mode
  <2> QED
    BY <2>1, <2>2, <2>3 DEF Live
<1>5. Cardinality(Live') = Cardinality(Live) - 1 /\ Cardinality(Live) \in Nat
  <2>1. Typed
    BY DEF IndInv
  <2> QED
    BY <1>1, <1>4, <2>1, LiveFinite, FS_RemoveElement
<1>6. Permits'
  <2>1. Permits /\ permits' = permits - 1 /\ size' = size
    BY <1>1 DEF IndInv
  <2> QED
    BY ONLY <1>2, <1>3, <1>5, <2>1 DEF Permits
<1> QED
  BY <1>3, <1>6 DEF IndInv

(* The task is marked finished: it has no permit any more.                 *)
LEMMA MarkFinishedKeeps ==
  ASSUME IndInv, UNCHANGED size, NEW t \in Scopes, MarkFinished(t)
  PROVE  IndInv'
<1> DEFINE mode == "done"
<1>1. /\ t \notin Live /\ Calls(t) = <<>> /\ thread[t].mode # "starting" /\ mode \in Modes
      /\ GoesOn(t, mode)
      /\ UNCHANGED <<size, permits, scope, item, stalled>>
  BY DEF MarkFinished, Live, Modes, IndInv, Stacks, GoesOn
<1>2. permits \in Int
  BY RoomsTyped
<1> HIDE DEF mode
<1>3. /\ Typed' /\ Stacks' /\ Starts' /\ Rooms'
      /\ Pending(Permitted) \in Nat /\ Pending(Permitted)' = Pending(Permitted)
      /\ \A u \in Scopes : thread'[u].mode = IF u = t THEN mode ELSE thread[u].mode
  BY <1>1, <1>2, ModeStep
<1>4. Live' = Live
  <2>1. Scopes' = Scopes /\ Root' = Root
    BY <1>1 DEF Scopes, Root
  <2>2. ASSUME NEW u \in Scopes, u # t PROVE thread'[u].mode = thread[u].mode
    BY <1>3, <2>2
  <2>3. thread'[t].mode \notin {"body", "closing"}
    BY <1>3 DEF mode
  <2> QED
    BY <1>1, <2>1, <2>2, <2>3 DEF Live
<1>5. Permits'
  BY <1>1, <1>3, <1>4 DEF IndInv, Permits
<1> QED
  BY <1>3, <1>5 DEF IndInv
-----------------------------------------------------------------------------
(* The root scope alone.                                                   *)
LEMMA InitIndInv == Init => IndInv
<1> SUFFICES ASSUME Init PROVE IndInv
  OBVIOUS
<1> DEFINE root == NewScope(Root, Root, TRUE)
           first == [mode |-> "body", home |-> Root, calls |-> <<>>]
<1>1. /\ size \in Sizes /\ scope = <<root>> /\ thread = <<first>> /\ item = <<>>
      /\ permits = 0 /\ stalled = {}
  BY DEF Init
<1>2. root \in ScopeRec(1, 0)
  <2>1. Root \in 1..1 /\ 1 \in Nat /\ 0 \in Nat /\ TRUE \in BOOLEAN
    BY DEF Root
  <2> QED
    BY <2>1, NewScopeTyped
<1>3. first \in ThreadRec(1, 0) /\ first.calls = <<>>
  <2>1. <<>> \in Seq(CallRec(1, 0))
    BY EmptySeq
  <2> QED
    BY <2>1 DEF ThreadRec, Modes, Root
<1> HIDE DEF root, first
<1>4. Len(scope) = 1 /\ Len(thread) = 1 /\ Len(item) = 0 /\ thread[1].calls = <<>>
  BY <1>1, <1>3
<1>5. Scopes = {1}
  BY <1>4 DEF Scopes
<1>6. Typed
  <2>1. scope \in Seq(ScopeRec(1, 0)) /\ thread \in Seq(ThreadRec(1, 0))
    BY <1>1, <1>2, <1>3, OneElement
  <2>2. item \in Seq(ItemRec(1, size.kinds)) /\ stalled \subseteq 1..1
    BY <1>1, EmptySeq
  <2>3. Shapes(1, 0)
    BY <2>1, <2>2 DEF Shapes
  <2> QED
    BY <1>1, <1>4, <2>3 DEF Typed
<1>7. \A u \in Scopes : Calls(u) = <<>>
  BY <1>4, <1>5 DEF Calls
<1>8. Stacks
  <2>1. Rested(<<>>)
    BY EmptySeq DEF Rested
  <2> QED
    BY <1>7, <2>1 DEF Stacks
<1>9. Starts
  BY <1>7 DEF Starts, At
<1>10. \A pcs : Pending(pcs) = 0
  BY <1>7, FS_EmptySet DEF Pending
<1>11. Rooms
  <2>1. size.items \in Nat /\ size.scopes \in Nat \ {0}
    BY <1>1, SizesAssumption
  <2> QED
    BY <1>4, <1>10, <2>1 DEF Rooms
<1>12. Permits
  <2>1. Live = {}
    BY <1>5 DEF Live, Root
  <2>2. size.tasks \in Nat /\ Cardinality({}) = 0
    BY <1>1, SizesAssumption, FS_EmptySet
  <2> QED
    BY <1>1, <1>10, <2>1, <2>2 DEF Permits
<1> QED
  BY <1>6, <1>8, <1>9, <1>11, <1>12 DEF IndInv

(* Stuttering.                                                             *)
LEMMA UnchangedKeeps == IndInv /\ UNCHANGED vars => IndInv'
<1> SUFFICES ASSUME IndInv, UNCHANGED vars PROVE IndInv'
  OBVIOUS
<1>1. /\ size' = size /\ scope' = scope /\ thread' = thread /\ item' = item
      /\ permits' = permits /\ stalled' = stalled
  BY DEF vars
<1>2. Scopes' = Scopes /\ \A pcs : Pending(pcs)' = Pending(pcs)
  BY <1>1 DEF Scopes, Pending, Calls
<1>3. Typed'
  BY <1>1 DEF IndInv, Typed, Shapes
<1>4. Stacks'
  BY <1>1, <1>2 DEF IndInv, Stacks, Calls
<1>5. Starts'
  BY <1>1, <1>2 DEF IndInv, Starts, At, Todo, Calls, Root
<1>6. Rooms' /\ Permits'
  BY <1>1, <1>2 DEF IndInv, Rooms, Permits, Live, Root
<1> QED
  BY <1>3, <1>4, <1>5, <1>6 DEF IndInv

(* One step per action.                                                    *)
LEMMA NextKeeps == IndInv /\ Next => IndInv'
<1> SUFFICES ASSUME IndInv, Next PROVE IndInv'
  OBVIOUS
<1>1. PICK t \in Scopes : UNCHANGED size /\ (Body(t) \/ Step(t) \/ CancelToken(t))
  BY DEF Next, Turn
<1>2. CASE Body(t)
  <2>1. Usable(t) \cup {t} \subseteq Scopes
    BY UsableAreScopes DEF IndInv
  <2>2. CASE \E kind \in size.kinds : BeginAdd(t, kind)
    BY <1>1, <2>2, BeginAddKeeps
  <2>3. ASSUME NEW s \in Usable(t) \cup {t}, BeginChild(t, s) PROVE IndInv'
    BY <1>1, <2>1, <2>3, BeginChildKeeps
  <2>4. ASSUME NEW s \in Usable(t) \cup {t}, BeginSpawn(t, s) PROVE IndInv'
    BY <1>1, <2>1, <2>4, BeginSpawnKeeps
  <2>5. ASSUME NEW s \in Usable(t) \cup {t}, BeginCancel(t, s) PROVE IndInv'
    BY <1>1, <2>1, <2>5, BeginCancelKeeps
  <2>6. ASSUME NEW s \in Usable(t) \cup {t}, CloseGuard(t, s) PROVE IndInv'
    BY <1>1, <2>1, <2>6, CloseGuardKeeps
  <2>7. CASE \E i \in Items : UserClose(t, i)
    BY <1>1, <2>7, UserCloseKeeps
  <2>8. CASE EndBody(t)
    BY <1>1, <2>8, EndBodyKeeps
  <2> QED
    BY <1>2, <2>2, <2>3, <2>4, <2>5, <2>6, <2>7, <2>8 DEF Body
<1>3. CASE Adding(t)
  <2>1. CASE \E kind \in size.kinds : Push(t, kind)
    BY <1>1, <2>1, PushKeeps
  <2>2. CASE InsertChild(t)
    BY <1>1, <2>2, InsertChildKeeps
  <2>3. CASE SpawnChild(t)
    BY <1>1, <2>3, SpawnChildKeeps
  <2>4. CASE SpawnInsert(t)
    BY <1>1, <2>4, SpawnInsertKeeps
  <2>5. CASE SpawnStart(t)
    BY <1>1, <2>5, SpawnStartKeeps
  <2>6. CASE SpawnRecord(t)
    BY <1>1, <2>6, SpawnRecordKeeps
  <2> QED
    BY <1>3, <2>1, <2>2, <2>3, <2>4, <2>5, <2>6 DEF Adding
<1>4. CASE Cancelling(t)
  <2>1. CASE CancelOnce(t)
    BY <1>1, <2>1, CancelOnceKeeps
  <2>2. CASE AskSnapshot(t)
    BY <1>1, <2>2, AskSnapshotKeeps
  <2>3. CASE AskOne(t)
    BY <1>1, <2>3, AskOneKeeps
  <2>4. CASE CancelSnapshot(t)
    BY <1>1, <2>4, CancelSnapshotKeeps
  <2>5. CASE CancelChild(t)
    BY <1>1, <2>5, CancelChildKeeps
  <2> QED
    BY <1>4, <2>1, <2>2, <2>3, <2>4, <2>5 DEF Cancelling
<1>5. CASE Closing(t)
  <2>1. CASE CloseSwap(t)
    BY <1>1, <2>1, CloseSwapKeeps
  <2>2. CASE CloseSnapshot(t)
    BY <1>1, <2>2, CloseSnapshotKeeps
  <2>3. CASE CloseChild(t)
    BY <1>1, <2>3, CloseChildKeeps
  <2>4. CASE Quiesce(t)
    BY <1>1, <2>4, QuiesceKeeps
  <2>5. CASE DrainResource(t)
    BY <1>1, <2>5, DrainResourceKeeps
  <2>6. CASE DrainFinalizer(t)
    BY <1>1, <2>6, DrainFinalizerKeeps
  <2>7. CASE Detach(t)
    BY <1>1, <2>7, DetachKeeps
  <2> QED
    BY <1>5, <2>1, <2>2, <2>3, <2>4, <2>5, <2>6, <2>7 DEF Closing
<1>6. CASE DropPermit(t)
  BY <1>1, <1>6, DropPermitKeeps
<1>7. CASE MarkFinished(t)
  BY <1>1, <1>7, MarkFinishedKeeps
<1>8. CASE CancelToken(t)
  BY <1>1, <1>8, CancelTokenKeeps
<1> QED
  BY <1>1, <1>2, <1>3, <1>4, <1>5, <1>6, <1>7, <1>8 DEF Step

(* No scope is ever taken out of the numbering.                            *)
LEMMA TurnGrows ==
  ASSUME IndInv, IndInv', NEW t \in Scopes, Body(t) \/ Step(t)
  PROVE  Scopes \subseteq Scopes'
<1>1. /\ Typed /\ DOMAIN scope = Scopes /\ DOMAIN scope' = Scopes'
      /\ Len(scope) \in Nat /\ Len(scope') \in Nat
  BY DEF IndInv, Typed, Shapes, Scopes
<1>2. ASSUME Len(scope') = Len(scope) + 1 PROVE Scopes \subseteq Scopes'
  BY <1>1, <1>2 DEF Scopes
<1>3. CASE Body(t)
  <2>1. CASE \E kind \in size.kinds : BeginAdd(t, kind)
    BY <1>1, <2>1 DEF BeginAdd
  <2>2. CASE \E s \in Usable(t) \cup {t} : BeginChild(t, s) \/ BeginSpawn(t, s)
    BY <1>1, <2>2 DEF BeginChild, BeginSpawn
  <2>3. CASE \E s \in Usable(t) \cup {t} : BeginCancel(t, s)
    BY <1>1, <2>3 DEF BeginCancel
  <2>4. CASE \E s \in Usable(t) \cup {t} : CloseGuard(t, s)
    BY <1>1, <2>4 DEF CloseGuard
  <2>5. CASE \E i \in Items : UserClose(t, i)
    BY <1>1, <2>5 DEF UserClose
  <2>6. CASE EndBody(t)
    BY <1>1, <2>6 DEF EndBody
  <2> QED
    BY <1>3, <2>1, <2>2, <2>3, <2>4, <2>5, <2>6 DEF Body
<1>4. CASE Adding(t)
  <2>1. Calls(t) # <<>> => Here(t) \in Scopes
    BY <1>1, TopTyped
  <2>2. ASSUME NEW o \in 1..Len(scope) + 1, NEW b \in BOOLEAN, Calls(t) # <<>>,
               AddScope(Here(t), o, b)
        PROVE  Scopes \subseteq Scopes'
    BY <1>1, <1>2, <2>1, <2>2, AddScopeTyped
  <2>3. CASE \E kind \in size.kinds : Push(t, kind)
    BY <1>1, <2>3 DEF Push
  <2>4. CASE InsertChild(t)
    <3>1. Calls(t) # <<>> /\ AddScope(Here(t), t, ~scope[Here(t)].closed)
      BY <2>4 DEF InsertChild, At
    <3>2. t \in 1..Len(scope) + 1
      BY <1>1 DEF Scopes
    <3> QED
      BY <2>2, <3>1, <3>2
  <2>5. CASE SpawnInsert(t)
    <3>1. Calls(t) # <<>> /\ AddScope(Here(t), Len(scope) + 1, FALSE)
      BY <2>5 DEF SpawnInsert, At
    <3>2. Len(scope) + 1 \in 1..Len(scope) + 1
      BY <1>1
    <3> QED
      BY <2>2, <3>1, <3>2
  <2>6. CASE SpawnChild(t)
    BY <1>1, <2>6 DEF SpawnChild
  <2>7. CASE SpawnStart(t)
    BY <1>1, <2>7 DEF SpawnStart
  <2>8. CASE SpawnRecord(t)
    BY <1>1, <2>8 DEF SpawnRecord
  <2> QED
    BY <1>4, <2>3, <2>4, <2>5, <2>6, <2>7, <2>8 DEF Adding
<1>5. CASE Cancelling(t)
  BY <1>1, <1>5 DEF Cancelling, CancelOnce, AskSnapshot, AskOne, CancelSnapshot, CancelChild
<1>6. CASE Closing(t)
  <2>1. CASE CloseSwap(t) \/ CloseSnapshot(t) \/ CloseChild(t)
    BY <1>1, <2>1 DEF CloseSwap, CloseSnapshot, CloseChild
  <2>2. CASE Quiesce(t) \/ Detach(t)
    BY <1>1, <2>2 DEF Quiesce, Detach
  <2>3. CASE DrainResource(t) \/ DrainFinalizer(t)
    BY <1>1, <2>3 DEF DrainResource, DrainFinalizer
  <2> QED
    BY <1>6, <2>1, <2>2, <2>3 DEF Closing
<1>7. CASE DropPermit(t) \/ MarkFinished(t)
  BY <1>1, <1>7 DEF DropPermit, MarkFinished
<1> QED
  BY <1>3, <1>4, <1>5, <1>6, <1>7 DEF Step

(* The scopes whose token alone was cancelled exist.                       *)
Silenced == silent \subseteq Scopes
LEMMA SilencedKeeps == IndInv /\ IndInv' /\ Silenced /\ [Next]_vars => Silenced'
<1> SUFFICES ASSUME IndInv, IndInv', Silenced, [Next]_vars PROVE Silenced'
  OBVIOUS
<1>1. CASE UNCHANGED vars
  BY <1>1 DEF vars, Silenced, Scopes
<1>2. ASSUME NEW t \in Scopes, Turn(t) PROVE Silenced'
  <2>1. Scopes \subseteq Scopes' /\ silent' = silent
    BY <1>2, TurnGrows DEF Turn
  <2> QED
    BY <2>1 DEF Silenced
<1>3. ASSUME NEW s \in Scopes, CancelToken(s) PROVE Silenced'
  <2>1. Len(scope') = Len(scope) /\ silent' = silent \cup {s}
    BY <1>3 DEF CancelToken, IndInv, Typed, Shapes
  <2> QED
    BY <2>1 DEF Silenced, Scopes
<1> QED
  BY <1>1, <1>2, <1>3 DEF Next

(* The inductive invariant, in every execution of every program.           *)
THEOREM Invariance == Spec => [](IndInv /\ Silenced)
<1>1. IndInv /\ [Next]_vars => IndInv'
  BY NextKeeps, UnchangedKeeps
<1>2. Init => Silenced
  BY DEF Init, Silenced
<1> QED
  BY <1>1, <1>2, SilencedKeeps, InitIndInv, PTL DEF Spec

(* Pending(Permitted) counts the spawns that have started no thread, Live  *)
(* the threads that hold a permit.                                         *)
LEMMA IndInvPermits == IndInv => PermitsAccounted
<1> SUFFICES ASSUME IndInv PROVE PermitsAccounted
  OBVIOUS
<1>1. Pending(Permitted) = Cardinality({t \in Scopes : Spawning(t)})
  <2>1. \A t \in Scopes : Spawning(t) <=> Calls(t) # <<>> /\ Last(Calls(t)).pc \in Permitted
    BY DEF Spawning, At, Permitted
  <2>2. {t \in Scopes : Spawning(t)} = {t \in Scopes : Calls(t) # <<>> /\ Last(Calls(t)).pc \in Permitted}
    BY <2>1
  <2> QED
    BY <2>2 DEF Pending
<1> QED
  BY <1>1 DEF IndInv, Permits, Live, PermitsAccounted

(* TaskPermit::acquire and its Drop are matched on every path of spawn,    *)
(* close, stall and a failed start: at every moment live_tasks is the      *)
(* number of spawns that have a permit and no thread yet plus the number   *)
(* of threads that have not dropped theirs, for every program and every    *)
(* number of scopes, tasks and items.                                      *)
THEOREM PermitsAreAccounted == Spec => []PermitsAccounted
  BY Invariance, IndInvPermits, PTL

(* The types, and the bounds that no call is held up by.                   *)
LEMMA IndInvTypes == IndInv /\ Silenced => TypeOK
<1> SUFFICES ASSUME IndInv, Silenced PROVE TypeOK
  OBVIOUS
<1>1. Typed /\ /\ Len(item) \in Nat /\ Len(scope) \in Nat \ {0} /\ permits \in Int
      /\ size.items \in Nat /\ size.scopes \in Nat /\ size.tasks \in Nat
  BY RoomsTyped DEF IndInv
<1>2. /\ Len(scope) \in 1..size.scopes /\ Len(item) \in 0..size.items /\ permits \in 0..size.tasks
  <2>1. \A pcs : Pending(pcs) \in Nat
    <3> TAKE pcs
    <3>1. IsFiniteSet(Scopes)
      BY FS_Interval DEF Scopes
    <3>2. {u \in Scopes : Calls(u) # <<>> /\ Last(Calls(u)).pc \in pcs} \subseteq Scopes
      OBVIOUS
    <3> QED
      BY <3>1, <3>2, FS_Subset, FS_CardinalityType DEF Pending
  <2>2. Cardinality(Live) \in Nat
    BY <1>1, LiveFinite
  <2>3. Rooms /\ Permits
    BY DEF IndInv
  <2>4. Pending(AddPcs) \in Nat /\ Pending(Inserting) \in Nat /\ Pending(Permitted) \in Nat
    BY <2>1
  <2>5. /\ Len(item) + Pending(AddPcs) <= size.items
        /\ Len(scope) + Pending(Inserting) <= size.scopes
        /\ permits = Pending(Permitted) + Cardinality(Live) /\ permits <= size.tasks
    BY <2>3 DEF Rooms, Permits
  <2>6. Len(item) \in Nat /\ Len(scope) \in Nat \ {0} /\ permits \in Int
        /\ size.items \in Nat /\ size.scopes \in Nat /\ size.tasks \in Nat
    BY <1>1
  <2> DEFINE i == Len(item)  s == Len(scope)
             pa == Pending(AddPcs)  pi == Pending(Inserting)  pp == Pending(Permitted)
             live == Cardinality(Live)  mi == size.items  ms == size.scopes  mt == size.tasks
  <2>7. /\ i \in Nat /\ pa \in Nat /\ mi \in Nat /\ i + pa <= mi
        /\ s \in Nat \ {0} /\ pi \in Nat /\ ms \in Nat /\ s + pi <= ms
        /\ permits = pp + live /\ pp \in Nat /\ live \in Nat /\ mt \in Nat /\ permits <= mt
    BY ONLY <2>2, <2>4, <2>5, <2>6
  <2> HIDE DEF i, s, pa, pi, pp, live, mi, ms, mt
  <2>8. s \in 1..ms
    BY ONLY <2>7
  <2>9. i \in 0..mi
    BY ONLY <2>7
  <2>10. permits \in 0..mt
    BY ONLY <2>7
  <2> QED
    BY <2>8, <2>9, <2>10 DEF i, s, mi, ms, mt
<1>3. /\ Len(thread) = Len(scope) /\ stalled \subseteq Scopes /\ silent \subseteq Scopes
  BY <1>1 DEF Typed, Shapes, Scopes, Silenced
<1>4. ASSUME NEW s \in Scopes
      PROVE  /\ scope[s].parent \in Scopes /\ scope[s].opener \in Scopes
             /\ \A flag \in {"guarded", "owned", "cancelled", "closed", "drained"} :
                  scope[s][flag] \in BOOLEAN
             /\ ToSet(scope[s].children) \subseteq Scopes
             /\ scope[s].tasks \subseteq Scopes
             /\ ToSet(scope[s].resource \o scope[s].finalizer) \subseteq Items
  <2>1. scope[s] \in ScopeRec(Len(scope), Len(item))
    BY <1>1, ScopeTyped
  <2>2. \A flag \in {"guarded", "owned", "cancelled", "closed", "drained"} :
          scope[s][flag] \in BOOLEAN
    BY <2>1 DEF ScopeRec
  <2>3. scope[s].opener \in Scopes
    BY <2>1 DEF ScopeRec, Scopes
  <2>4. /\ scope[s].parent \in Scopes
        /\ scope[s].children \in Seq(Scopes) /\ scope[s].tasks \subseteq Scopes
        /\ scope[s].resource \in Seq(Items) /\ scope[s].finalizer \in Seq(Items)
    BY <1>1, ListsTyped
  <2>5. /\ \A l \in Seq(Scopes) : ToSet(l) \subseteq Scopes
        /\ \A l \in Seq(Items) : ToSet(l) \subseteq Items
    BY DEF ToSet
  <2>6. scope[s].resource \o scope[s].finalizer \in Seq(Items)
    BY <2>4
  <2> QED
    BY <2>2, <2>3, <2>4, <2>5, <2>6
<1>5. ASSUME NEW t \in Scopes
      PROVE  /\ thread[t].mode \in Modes /\ thread[t].home \in Scopes
             /\ \A i \in 1..Len(Calls(t)) :
                  Calls(t)[i].scope \in Scopes /\ Calls(t)[i].pc \in Pcs
  <2>1. /\ thread[t].mode \in Modes /\ thread[t].home \in Scopes
        /\ Calls(t) \in Seq(CallRec(Len(scope), Len(item)))
    BY <1>1, ThreadTyped
  <2>2. \A i \in 1..Len(Calls(t)) : Calls(t)[i] \in CallRec(Len(scope), Len(item))
    BY <2>1
  <2>3. \A f \in CallRec(Len(scope), Len(item)) : f.scope \in Scopes /\ f.pc \in Pcs
    BY DEF CallRec, Scopes, Pcs, CancelPcs
  <2> QED
    BY <2>1, <2>2, <2>3
<1>6. ASSUME NEW i \in Items
      PROVE  /\ item[i].kind \in size.kinds
             /\ item[i].scope \in Scopes /\ item[i].by \in Scopes
             /\ item[i].status \in {"held", "closed", "released"}
             /\ item[i].asked \in Nat /\ item[i].calm \in BOOLEAN
  BY <1>1, ItemTyped DEF ItemRec, Scopes
<1> QED
  BY <1>2, <1>3, <1>4, <1>5, <1>6 DEF TypeOK

(* Every scope, thread and item has its type, every number stored in a     *)
(* list is that of a scope or item that exists, live_tasks stays within    *)
(* max_live_tasks, and every call that reserved room finds it.             *)
THEOREM ScopesTyped == Spec => []TypeOK
  BY Invariance, IndInvTypes, PTL
=============================================================================
