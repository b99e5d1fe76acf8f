------------------------- MODULE ExecutionScope_order -------------------------
(***************************************************************************)
(* In which order scopes end, and how far a cancel goes (ExecutionScope),  *)
(* for every set of programs: ScopesSound, ReleaseInsideOut, CancelSound.  *)
(*                                                                         *)
(* The first two follow from the protocol of the closes.  A scope that was *)
(* closed and is not drained yet is being drained by the thread that       *)
(* closed it; that is its opener, or somebody whose close of the parent is *)
(* still at this child (DrainedOrDeferred).  So once the parent releases   *)
(* and the opener is done, the scope is drained, and the opener is done if *)
(* it is waited for by the same owner.  Structured is this, by induction   *)
(* over the order in which scopes are made, along which Owners is defined. *)
(*                                                                         *)
(* CancelSound needs an invariant of its own, Cancellation: who asks for a *)
(* scope, what is left in the copies it made, and that a child with calm   *)
(* items below stays known to its parent until it is cancelled.  Its proof *)
(* goes as that of Protocol: CancelGoes says what a step does to a cancel, *)
(* every part of Cancellation survives a step that Goes and CancelGoes,    *)
(* and every action is such a step.                                        *)
(***************************************************************************)
EXTENDS ExecutionScope_protocol
LOCAL INSTANCE SequencesExt
WF == INSTANCE WellFoundedInduction


-----------------------------------------------------------------------------
(* Owners: the function it is made of, and what it is at every scope.      *)

(* Every set of numbers that has members has a least one: scopes are       *)
(* numbered in the order of their creation.                                *)
LEMMA LeastNumber ==
  ASSUME NEW T, T \subseteq Nat, T # {}
  PROVE  \E n \in T : \A m \in T : n <= m
<1> DEFINE R == {p \in Nat \X Nat : p[1] < p[2]}
<1>1. WF!OpToRel(<, Nat) = R
  BY Zenon DEF WF!OpToRel
<1>2. WF!IsWellFoundedOn(R, Nat)
  BY <1>1, WF!NatLessThanWellFounded
<1>3. \A m, n \in Nat : <<m, n>> \in R <=> m < n
  OBVIOUS
<1> HIDE DEF R
<1>4. PICK n \in T : \A m \in T : ~(<<m, n>> \in R)
  BY <1>2, WF!WFMin
<1>5. ASSUME NEW m \in T PROVE n <= m
  <2>1. m \in Nat /\ n \in Nat
    OBVIOUS
  <2>2. ~(m < n)
    BY <1>3, <1>4, <2>1
  <2> QED
    BY <2>1, <2>2
<1> QED
  BY <1>5

(* What holds of a scope when it holds of all that were made before it,    *)
(* holds of every scope.                                                   *)
LEMMA ByCreation ==
  ASSUME NEW T,
         \A n \in Scopes : (\A m \in Scopes : m < n => m \in T) => n \in T
  PROVE  Scopes \subseteq T
<1> SUFFICES ASSUME Scopes \ T # {} PROVE FALSE
  OBVIOUS
<1>1. Scopes \ T \subseteq Nat
  BY DEF Scopes
<1>2. PICK n \in Scopes \ T : \A m \in Scopes \ T : n <= m
  BY <1>1, LeastNumber
<1>3. \A m \in Scopes : m < n => m \in T
  <2> TAKE m \in Scopes
  <2>1. m \in Nat /\ n \in Nat
    BY <1>2 DEF Scopes
  <2> QED
    BY <1>2, <2>1
<1> QED
  BY <1>2, <1>3

(* The owners of scope n when f gives those of the scopes before it.       *)
OwnersFrom(f, n) ==
    LET above == {scope[n].parent} \cup f[scope[n].parent]
    IN IF n = Root \/ ~scope[n].owned THEN {}
       ELSE IF scope[n].opener \in {n, Root} THEN above
       ELSE above \cap f[scope[n].opener]
OwnersFunction == CHOOSE f : f = [n \in Scopes |-> OwnersFrom(f, n)]

(* A scope is made after its parent and after the scope of its opener, so  *)
(* the recursion of Owners ends.                                           *)
LEMMA MadeAfter ==
  ASSUME IndInv, Tree, NEW n \in Scopes
  PROVE  /\ n \in Nat \ {0} /\ scope[n].parent \in Scopes /\ scope[n].opener \in Scopes
         /\ n # Root => scope[n].parent < n
         /\ scope[n].opener # n => scope[n].opener < n
<1>1. n \in Nat \ {0} /\ scope[n].parent \in Scopes /\ scope[n].opener \in Scopes
  BY TreeOf DEF Scopes
<1>2. n # Root => scope[n].parent < n
  BY DEF Tree
<1>3. scope[n].opener # n => scope[n].opener < n
  BY DEF Tree
<1> QED
  BY <1>1, <1>2, <1>3

(* Only the scopes made before matter to the owners of a scope.            *)
LEMMA OwnersFromBefore ==
  ASSUME IndInv, Tree, NEW n \in Scopes, NEW f, NEW h,
         \A m \in Scopes : m < n => f[m] = h[m]
  PROVE  OwnersFrom(f, n) = OwnersFrom(h, n)
<1>1. CASE n = Root \/ ~scope[n].owned
  BY <1>1 DEF OwnersFrom
<1>2. CASE n # Root /\ scope[n].owned
  <2>1. f[scope[n].parent] = h[scope[n].parent]
    BY <1>2, MadeAfter
  <2>2. scope[n].opener \notin {n, Root} => f[scope[n].opener] = h[scope[n].opener]
    BY MadeAfter
  <2> QED
    BY <2>1, <2>2 DEF OwnersFrom
<1> QED
  BY <1>1, <1>2

(* The function that Owners is made of exists: it is built scope by scope. *)
LEMMA OwnersExist ==
  ASSUME IndInv, Tree
  PROVE  \E f : f = [n \in Scopes |-> OwnersFrom(f, n)]
<1> DEFINE Upto(m) == {n \in Scopes : n <= m}
           Good(f, m) == f = [n \in Upto(m) |-> OwnersFrom(f, n)]
           T == {m \in Scopes : \E f : Good(f, m)}
<1>0. Len(scope) \in Nat \ {0} /\ Scopes = 1..Len(scope)
  BY DEF IndInv, Typed, Scopes
<1>1. ASSUME NEW m \in Scopes, \A k \in Scopes : k < m => k \in T
      PROVE  m \in T
  <2>1. \E f : \A n \in Scopes : n < m => f[n] = OwnersFrom(f, n)
    <3>1. CASE m = 1
      <4>1. \A n \in Scopes : ~(n < m)
        BY <1>0, <3>1
      <4> QED
        BY <4>1
    <3>2. CASE m # 1
      <4>1. m - 1 \in Scopes /\ m - 1 < m /\ m \in Nat
        BY <1>0, <3>2
      <4>2. PICK f : Good(f, m - 1)
        BY <1>1, <4>1
      <4>3. \A n \in Scopes : n < m => n \in Upto(m - 1)
        BY <1>0, <4>1
      <4>4. \A n \in Upto(m - 1) : f[n] = OwnersFrom(f, n)
        BY <4>2
      <4> QED
        BY <4>3, <4>4
    <3> QED
      BY <3>1, <3>2
  <2>2. PICK f : \A n \in Scopes : n < m => f[n] = OwnersFrom(f, n)
    BY <2>1
  <2> DEFINE h == [n \in Upto(m) |-> OwnersFrom(f, n)]
  <2>3. \A n \in Scopes : n < m => h[n] = f[n]
    <3> TAKE n \in Scopes
    <3>1. n < m => n \in Upto(m)
      BY <1>0
    <3> QED
      BY <2>2, <3>1
  <2>4. \A n \in Upto(m) : OwnersFrom(f, n) = OwnersFrom(h, n)
    <3> SUFFICES ASSUME NEW n \in Upto(m) PROVE OwnersFrom(f, n) = OwnersFrom(h, n)
      OBVIOUS
    <3> HIDE DEF h
    <3>1. n \in Scopes /\ n <= m
      OBVIOUS
    <3>2. \A k \in Scopes : k < n => f[k] = h[k]
      <4> TAKE k \in Scopes
      <4>1. k < n => k < m
        BY <1>0, <3>1
      <4> QED
        BY <2>3, <4>1
    <3> QED
      BY <3>1, <3>2, OwnersFromBefore
  <2>5. Good(h, m)
    BY <2>4
  <2> QED
    BY <2>5
<1> HIDE DEF T
<1>2. Scopes \subseteq T
  BY <1>1, ByCreation
<1>3. Len(scope) \in Scopes /\ Upto(Len(scope)) = Scopes
  BY <1>0
<1>4. \E f : Good(f, Len(scope))
  BY <1>2, <1>3 DEF T
<1> QED
  BY <1>3, <1>4

(* The owners of every scope (the definition of Owners, unfolded).         *)
LEMMA OwnersAre ==
  ASSUME IndInv, Tree, NEW n \in Scopes
  PROVE  /\ n = Root \/ ~scope[n].owned => Owners(n) = {}
         /\ n # Root /\ scope[n].owned /\ scope[n].opener \in {n, Root} =>
              Owners(n) = {scope[n].parent} \cup Owners(scope[n].parent)
         /\ n # Root /\ scope[n].owned /\ scope[n].opener \notin {n, Root} =>
              Owners(n) = ({scope[n].parent} \cup Owners(scope[n].parent))
                            \cap Owners(scope[n].opener)
<1>1. OwnersFunction = [m \in Scopes |-> OwnersFrom(OwnersFunction, m)]
  BY OwnersExist DEF OwnersFunction
<1>2. \A m : Owners(m) = OwnersFunction[m]
  BY DEF Owners, OwnersFunction, OwnersFrom
<1>3. Owners(n) = OwnersFrom(OwnersFunction, n)
  BY <1>1, <1>2
<1>4. /\ OwnersFunction[scope[n].parent] = Owners(scope[n].parent)
      /\ OwnersFunction[scope[n].opener] = Owners(scope[n].opener)
  BY <1>2
<1> QED
  BY <1>3, <1>4 DEF OwnersFrom

-----------------------------------------------------------------------------
(* A closed scope whose opener calls nothing has been drained, or it is    *)
(* closed by somebody who closes its parent, which releases nothing yet.   *)
LEMMA DrainedOrDeferred ==
  ASSUME IndInv, Protocol, NEW n \in Scopes, scope[n].closed,
         Calls(scope[n].opener) = <<>>
  PROVE  scope[n].drained \/ (n # Root /\ ~Releasing(scope[n].parent))
<1> SUFFICES ASSUME ~scope[n].drained
             PROVE  n # Root /\ ~Releasing(scope[n].parent)
  OBVIOUS
<1>1. FrameAt(n, Past)
  BY DEF Protocol, Closers
<1>a. PICK v \in Scopes : \E k \in 1..Len(Calls(v)) :
        Calls(v)[k].scope = n /\ Calls(v)[k].pc \in Past
  BY <1>1 DEF FrameAt
<1>2. PICK k \in 1..Len(Calls(v)) :
        Calls(v)[k].scope = n /\ Calls(v)[k].pc \in Past
  BY <1>a
<1>3. Depth(v) \in Nat /\ Depth(v) = Len(Calls(v)) /\ Calls(v) # <<>>
  <2>1. Len(Calls(v)) \in Nat /\ (Calls(v) = <<>> <=> Depth(v) = 0)
    BY DepthTyped DEF IndInv
  <2>2. k \in Nat /\ 1 <= k /\ k <= Len(Calls(v))
    BY <1>2, <2>1
  <2> QED
    BY <2>1, <2>2 DEF Depth
<1>4. Calls(v)[k].pc \in ClosePcs /\ Calls(v)[k].pc \notin CancelPcs
  BY <1>2 DEF Past, ClosePcs, CancelPcs
<1>5. k # 1
  <2> SUFFICES ASSUME k = 1 PROVE FALSE
    OBVIOUS
  <2>1. Bottom(v, Calls(v)[1])
    BY <1>3 DEF Protocol, Bottoms
  <2>2. scope[n].opener = v
    BY <1>2, <1>4, <2>1 DEF Bottom
  <2> QED
    BY <1>3, <2>2
<1>6. PICK l : l = k - 1
  OBVIOUS
<1>7. l \in 1..Len(Calls(v)) - 1 /\ k = l + 1 /\ l \in 1..Len(Calls(v)) /\ l # k
  BY <1>2, <1>3, <1>5, <1>6
<1>8. Calls(v)[l].pc \in Resting
  BY <1>7 DEF IndInv, Stacks, Rested
<1>9. Follows(Calls(v)[l], Calls(v)[l + 1])
  BY <1>7 DEF Protocol, Chains
<1>10. Follows(Calls(v)[l], Calls(v)[k])
  BY <1>7, <1>9
<1>11. Calls(v)[l].pc = "closing" /\ Under(n, Calls(v)[l].scope)
  BY <1>2, <1>4, <1>8, <1>10 DEF Follows, Resting
<1>12. n # Root /\ Calls(v)[l].scope = scope[n].parent
  BY <1>11 DEF Under
<1>13. Calls(v)[l].pc \in Past /\ Calls(v)[l].pc # "detach"
  BY <1>11 DEF Past
<1>14. ~scope[scope[n].parent].drained
  BY <1>7, <1>12, <1>13 DEF Protocol, Closers
<1>15. ASSUME NEW pc, pc \in Past, pc # "closing", Locked(scope[n].parent, pc) PROVE FALSE
  <2>a. PICK u \in Scopes : \E i \in 1..Len(Calls(u)) :
          Calls(u)[i].scope = scope[n].parent /\ Calls(u)[i].pc = pc
    BY <1>15 DEF Locked
  <2>1. PICK i \in 1..Len(Calls(u)) :
          Calls(u)[i].scope = scope[n].parent /\ Calls(u)[i].pc = pc
    BY <2>a
  <2>2. Calls(u)[i].pc \in Past /\ Calls(u)[i].scope = Calls(v)[l].scope
    BY <1>12, <1>15, <2>1
  <2>3. u = v /\ i = l
    BY <1>7, <1>13, <2>1, <2>2 DEF Protocol, OneCloser
  <2> QED
    BY <1>11, <1>15, <2>1, <2>3
<1>16. \A pc \in {"resource", "finalizer"} : pc \in Past /\ pc # "closing"
  BY DEF Past
<1>17. ~Locked(scope[n].parent, "resource") /\ ~Locked(scope[n].parent, "finalizer")
  BY <1>15, <1>16
<1> QED
  BY <1>12, <1>14, <1>17 DEF Releasing

(* A finished thread has closed its own scope, and with it every guard it  *)
(* held.                                                                   *)
LEMMA FinishedCloses ==
  ASSUME IndInv, Protocol, NEW u \in Scopes, thread[u].mode = "done"
  PROVE  /\ Calls(u) = <<>> /\ scope[u].closed /\ scope[u].opener = u
         /\ \A n \in Scopes : scope[n].opener = u /\ thread[n].mode = "none" =>
              scope[n].closed
<1>1. Calls(u) = <<>>
  BY DEF IndInv, Stacks
<1>2. scope[u].opener = u
  BY DEF Protocol, Tree
<1>3. \A n \in Scopes : ~Swapping(n, u)
  BY <1>1 DEF Swapping
<1>4. ~scope[u].guarded /\ thread[u].mode # "failed"
  BY DEF Protocol, Guards
<1>5. scope[u].closed
  BY <1>2, <1>3, <1>4 DEF Protocol, Guards
<1>6. ASSUME NEW n \in Scopes, scope[n].opener = u, thread[n].mode = "none"
      PROVE  scope[n].closed
  <2>1. ~scope[n].guarded /\ thread[n].mode # "failed"
    BY <1>6 DEF Protocol, Guards
  <2> QED
    BY <1>3, <1>6, <2>1 DEF Protocol, Guards
<1> QED
  BY <1>1, <1>2, <1>5, <1>6

(* Nobody forks the evaluator of a thread that never started: a scope that *)
(* has children, or items, has not failed to start.                        *)
LEMMA ParentsStarted ==
  ASSUME IndInv, Tree, NEW n \in Scopes
  PROVE  n # Root => thread[scope[n].parent].mode # "failed"
BY DEF Tree, Ran

(* Everything at d is quiet once one of its owners releases.               *)
QuietFor(d) == \A s \in Owners(d) : Releasing(s) => Quiet(d)

(* A parent with an owner that releases is drained, thus releasing.        *)
LEMMA ParentReleases ==
  ASSUME IndInv, Protocol, NEW n \in Scopes, n # Root, QuietFor(scope[n].parent),
         NEW s \in {scope[n].parent} \cup Owners(scope[n].parent), Releasing(s)
  PROVE  Releasing(scope[n].parent)
<1>1. CASE s = scope[n].parent
  BY <1>1
<1>2. CASE s \in Owners(scope[n].parent)
  <2>1. Quiet(scope[n].parent)
    BY <1>2 DEF QuietFor
  <2>2. thread[scope[n].parent].mode # "failed"
    BY ParentsStarted DEF Protocol
  <2> QED
    BY <2>1, <2>2 DEF Quiet, Releasing
<1> QED
  BY <1>1, <1>2

(* A task waited for by a parent that releases has finished.               *)
LEMMA TaskQuiet ==
  ASSUME IndInv, Protocol, stalled = {}, NEW n \in Scopes, n # Root, scope[n].owned,
         thread[n].mode # "none", Releasing(scope[n].parent)
  PROVE  Quiet(n)
<1>1. thread[n].mode = "done"
  BY DEF Protocol, TasksKept
<1>2. Calls(n) = <<>> /\ scope[n].closed /\ scope[n].opener = n
  BY <1>1, FinishedCloses
<1>3. Calls(scope[n].opener) = <<>>
  BY <1>2
<1>4. scope[n].drained
  BY <1>2, <1>3, DrainedOrDeferred
<1> QED
  BY <1>1, <1>4 DEF Quiet

(* Nor can a child scope of such a task still be open.                     *)
LEMMA ChildQuiet ==
  ASSUME IndInv, Protocol, NEW n \in Scopes, n # Root, thread[n].mode = "none",
         Quiet(scope[n].opener), Releasing(scope[n].parent)
  PROVE  Quiet(n)
<1>1. scope[n].opener \in Scopes
  BY TreeOf DEF Protocol
<1>2. thread[scope[n].opener].mode = "done"
  <2>1. thread[scope[n].opener].mode \in Ran
    BY DEF Protocol, Tree
  <2> QED
    BY <2>1 DEF Quiet, Ran
<1>3. Calls(scope[n].opener) = <<>> /\ scope[n].closed
  BY <1>1, <1>2, FinishedCloses
<1>4. scope[n].drained
  BY <1>3, DrainedOrDeferred
<1> QED
  BY <1>4 DEF Quiet

(* Structured concurrency, scope by scope.                                 *)
LEMMA EachQuiet ==
  ASSUME IndInv, Protocol, stalled = {}, NEW n \in Scopes,
         \A m \in Scopes : m < n => QuietFor(m)
  PROVE  QuietFor(n)
<1> SUFFICES ASSUME NEW s \in Owners(n), Releasing(s) PROVE Quiet(n)
  BY DEF QuietFor
<1>1. Tree /\ IndInv
  BY DEF Protocol
<1>2. n # Root /\ scope[n].owned
  BY <1>1, OwnersAre
<1>3. /\ scope[n].parent \in Scopes /\ scope[n].parent < n
      /\ scope[n].opener \in Scopes /\ (scope[n].opener # n => scope[n].opener < n)
  BY <1>1, <1>2, MadeAfter
<1>4. s \in {scope[n].parent} \cup Owners(scope[n].parent)
  BY <1>1, <1>2, OwnersAre
<1>5. QuietFor(scope[n].parent)
  BY <1>3
<1>6. Releasing(scope[n].parent)
  BY <1>2, <1>4, <1>5, ParentReleases
<1>7. CASE thread[n].mode # "none"
  BY <1>2, <1>6, <1>7, TaskQuiet
<1>8. CASE thread[n].mode = "none" /\ scope[n].opener = Root
  <2>1. scope[n].drained
    BY <1>2, <1>6, <1>8 DEF Protocol, MainKept, ChildOnly
  <2> QED
    BY <1>8, <2>1 DEF Quiet
<1>9. CASE thread[n].mode = "none" /\ scope[n].opener # Root
  <2>1. scope[n].opener # n
    BY <1>1, <1>9, <1>3 DEF Tree, Scopes
  <2>2. s \in Owners(scope[n].opener)
    BY <1>1, <1>2, <1>9, <2>1, OwnersAre
  <2>3. QuietFor(scope[n].opener)
    BY <1>3, <2>1
  <2>4. Quiet(scope[n].opener)
    BY <2>2, <2>3 DEF QuietFor
  <2> QED
    BY <1>2, <1>6, <1>9, <2>4, ChildQuiet
<1> QED
  BY <1>7, <1>8, <1>9

(* Structured concurrency: a scope that releases finds all it owns quiet   *)
(* (the order of close: children, tasks, then the drains).                 *)
LEMMA StructuredHolds == IndInv /\ Protocol => Structured
<1> SUFFICES ASSUME IndInv, Protocol, stalled = {} PROVE \A n \in Scopes : QuietFor(n)
  BY DEF Structured, QuietFor
<1> DEFINE T == {n \in Scopes : QuietFor(n)}
<1>1. \A n \in Scopes : (\A m \in Scopes : m < n => m \in T) => n \in T
  BY EachQuiet
<1> HIDE DEF T
<1>2. Scopes \subseteq T
  BY <1>1, ByCreation
<1> QED
  BY <1>2 DEF T

-----------------------------------------------------------------------------
(* Where an item is: in a list of the scope its thread was forked with,    *)
(* which is that thread's parent.                                          *)
LEMMA ItemAt ==
  ASSUME IndInv, Protocol, NEW i \in Items
  PROVE  /\ item[i].by \in Scopes /\ item[i].scope \in Scopes
         /\ item[i].scope = scope[item[i].by].parent
         /\ item[i].kind \in AllKinds
         /\ item[i].status = "held" =>
              IF item[i].kind = "resource" THEN In(i, scope[item[i].scope].resource)
              ELSE In(i, scope[item[i].scope].finalizer)
<1>1. item[i] \in ItemRec(Len(scope), size.kinds)
  BY ItemTyped, TypedShapes DEF IndInv
<1>2. size.kinds \subseteq AllKinds
  BY SizesAssumption DEF IndInv, Typed
<1>3. item[i].by \in Scopes /\ item[i].scope \in Scopes /\ item[i].kind \in AllKinds
  BY <1>1, <1>2 DEF ItemRec, Scopes
<1>4. thread[item[i].by].mode \in Ran /\ thread[item[i].by].home = item[i].scope
  BY DEF Protocol, Listed
<1>5. thread[item[i].by].mode # "none"
  BY <1>4 DEF Ran
<1>6. thread[item[i].by].home = scope[item[i].by].parent
  BY <1>3, <1>5 DEF Protocol, Tree
<1>7. item[i].status = "held" => In(i, ListOf(i))
  BY DEF Protocol, Listed
<1> QED
  BY <1>3, <1>4, <1>6, <1>7 DEF ListOf

(* A scope that owns a task owns the task's parent, or is that parent.     *)
LEMMA OwnersOfTask ==
  ASSUME IndInv, Protocol, NEW u \in Scopes, NEW s \in Owners(u)
  PROVE  /\ u # Root /\ scope[u].owned
         /\ s = scope[u].parent \/ s \in Owners(scope[u].parent)
BY OwnersAre DEF Protocol

(* What a task registered, once an owner of the task releases: the scope   *)
(* it is in has been drained, and no longer lists it, unless that scope is *)
(* the one that releases.                                                  *)
LEMMA ItemGone ==
  ASSUME IndInv, Protocol, stalled = {}, NEW i \in Items,
         Minded(i), scope[item[i].scope].drained
  PROVE  item[i].status # "held"
<1>1. ~In(i, scope[item[i].scope].resource) /\ ~In(i, scope[item[i].scope].finalizer)
  BY DEF Protocol, Emptied
<1> QED
  BY <1>1, ItemAt

(* A scope below an owner that releases is drained; for a scope that has   *)
(* items this leaves no other case.                                        *)
LEMMA DrainedBelow ==
  ASSUME IndInv, Protocol, stalled = {}, NEW i \in Items,
         NEW s \in Owners(item[i].scope), Releasing(s)
  PROVE  scope[item[i].scope].drained
<1>1. Structured
  BY StructuredHolds
<1>2. Quiet(item[i].scope)
  BY <1>1, ItemAt DEF Structured
<1>3. thread[item[i].scope].mode # "failed"
  <2>1. item[i].by \in Scopes /\ item[i].scope = scope[item[i].by].parent
    BY ItemAt
  <2>2. item[i].by = Root => thread[item[i].scope].mode # "failed"
    BY <2>1 DEF Protocol, Tree, Ran
  <2>3. item[i].by # Root => thread[item[i].scope].mode # "failed"
    BY <2>1, ParentsStarted DEF Protocol
  <2> QED
    BY <2>2, <2>3
<1> QED
  BY <1>2, <1>3 DEF Quiet

(* Nothing is lost (close, register, defer and the drains): the root scope *)
(* is drained when its thread is done, and with it all that it owns.       *)
LEMMA RootDrained ==
  ASSUME IndInv, Protocol, thread[Root].mode = "done"
  PROVE  scope[Root].drained /\ Releasing(Root)
<1>1. Root \in Scopes
  BY DEF IndInv, Typed, Scopes, Root
<1>2. Calls(Root) = <<>> /\ scope[Root].closed /\ scope[Root].opener = Root
  BY <1>1, FinishedCloses
<1>3. Calls(scope[Root].opener) = <<>>
  BY <1>2
<1>4. scope[Root].drained
  BY <1>1, <1>2, <1>3, DrainedOrDeferred
<1> QED
  BY <1>4 DEF Releasing

(* Whatever was registered by a task of the root scope is released when    *)
(* the root scope has been closed, and all permits are back.               *)
LEMMA NothingIsLost == IndInv /\ Protocol => NothingLost
<1> SUFFICES ASSUME IndInv, Protocol, thread[Root].mode = "done", stalled = {}
             PROVE  /\ \A i \in Items : Owned(item[i].by) => item[i].status # "held"
                    /\ (\A d \in Scopes : Owned(d)) => permits = 0
  BY DEF NothingLost
<1>1. scope[Root].drained /\ Releasing(Root)
  BY RootDrained
<1>2. ASSUME NEW i \in Items, Owned(item[i].by) PROVE item[i].status # "held"
  <2>1. item[i].by \in Scopes /\ item[i].scope = scope[item[i].by].parent
    BY ItemAt
  <2>2. CASE item[i].by = Root
    <3>1. item[i].scope = Root
      BY <2>1, <2>2 DEF Protocol, Tree
    <3>2. scope[item[i].scope].drained
      BY <1>1, <3>1
    <3>3. Minded(i)
      BY <2>2 DEF Minded
    <3> QED
      BY <3>2, <3>3, ItemGone
  <2>3. CASE Root \in Owners(item[i].by)
    <3>1. scope[item[i].by].owned
          /\ (Root = item[i].scope \/ Root \in Owners(item[i].scope))
      BY <2>1, <2>3, OwnersOfTask
    <3>2. Minded(i)
      BY <3>1 DEF Minded
    <3>3. scope[item[i].scope].drained
      <4>1. CASE Root = item[i].scope
        BY <1>1, <4>1
      <4>2. CASE Root \in Owners(item[i].scope)
        BY <1>1, <4>2, DrainedBelow
      <4> QED
        BY <3>1, <4>1, <4>2
    <3> QED
      BY <3>2, <3>3, ItemGone
  <2> QED
    BY <1>2, <2>2, <2>3 DEF Owned
<1>3. ASSUME \A d \in Scopes : Owned(d) PROVE permits = 0
  <2>1. Structured
    BY StructuredHolds
  <2>2. \A d \in Scopes : thread[d].mode \notin {"body", "closing"}
    <3> SUFFICES ASSUME NEW d \in Scopes PROVE thread[d].mode \notin {"body", "closing"}
      OBVIOUS
    <3>1. CASE d = Root
      BY <3>1
    <3>2. CASE Root \in Owners(d)
      <4>1. Quiet(d)
        BY <1>1, <2>1, <3>2 DEF Structured
      <4> QED
        BY <4>1 DEF Quiet
    <3> QED
      BY <1>3, <3>1, <3>2 DEF Owned
  <2>3. \A d \in Scopes : Calls(d) = <<>>
    BY <2>2 DEF IndInv, Stacks
  <2>4. {d \in Scopes : Calls(d) # <<>> /\ Last(Calls(d)).pc \in Permitted} = {}
    BY <2>3
  <2>5. Pending(Permitted) = Cardinality({})
    BY <2>4 DEF Pending
  <2>6. Live = {}
    BY <2>2 DEF Live
  <2>7. Cardinality({}) = 0
    BY FS_EmptySet
  <2> QED
    BY <2>5, <2>6, <2>7 DEF IndInv, Permits
<1> QED
  BY <1>2, <1>3

(* The three together.                                                     *)
LEMMA ScopesSoundHere == IndInv /\ Silenced /\ Protocol => ScopesSound
BY IndInvTypes, StructuredHolds, NothingIsLost DEF ScopesSound

-----------------------------------------------------------------------------
(* Releases, from the inside out.                                          *)

(* The only item a step releases, and where its list stood.                *)
ReleasesLast(t, kind, list) ==
    /\ t \in Scopes /\ At(t, kind) /\ list # <<>>
    /\ \A i \in Items : item'[i].status = "released" /\ item[i].status = "held" =>
         i = Last(list)

(* What a task of an owner of s still holds is not below s.                *)
LEMMA NoneBelow ==
  ASSUME IndInv, Protocol, stalled = {}, NEW s \in Scopes, Releasing(s),
         NEW j \in Items, item[j].status = "held", Minded(j)
  PROVE  s \notin Owners(item[j].scope)
BY DrainedBelow, ItemGone

(* The last of a list is the newest.                                       *)
LEMMA LastIsNewest ==
  ASSUME NEW list \in Seq(Items), list # <<>>, Rising(list), NEW j \in Items, In(j, list)
  PROVE  ~(j > Last(list)) /\ In(Last(list), list)
<1>1. Len(list) \in Nat \ {0} /\ Last(list) = list[Len(list)]
  BY FrontOfSeq
<1>2. PICK a \in 1..Len(list) : list[a] = j
  BY DEF In
<1>3. Len(list) \in 1..Len(list)
  BY <1>1
<1>4. CASE a = Len(list)
  BY <1>1, <1>2, <1>3, <1>4 DEF In, Items
<1>5. CASE a # Len(list)
  <2>1. a < Len(list)
    BY <1>1, <1>2, <1>5
  <2>2. list[a] < list[Len(list)]
    BY <1>2, <1>3, <2>1 DEF Rising
  <2>3. list[Len(list)] \in Nat /\ j \in Nat
    BY <1>3 DEF Items
  <2> QED
    BY <1>1, <1>2, <1>3, <2>2, <2>3 DEF In
<1> QED
  BY <1>4, <1>5

-----------------------------------------------------------------------------
(* A step that releases nothing.                                           *)
NoRelease == \A i \in Items : item[i].status = "held" => item'[i].status # "released"

(* Neither registering nor a cancellation nor a user's close releases      *)
(* anything, nor do the other parts of a close.                            *)
LEMMA BodyReleasesNothing ==
  ASSUME IndInv, NEW t \in Scopes, Body(t)
  PROVE  NoRelease
<1>1. CASE \E i \in Items : UserClose(t, i)
  <2>1. PICK i \in Items : UserClose(t, i)
    BY <1>1
  <2>2. item' = [item EXCEPT ![i].status = "closed"]
    BY <2>1 DEF UserClose
  <2>3. ASSUME NEW k \in Items PROVE item[k].status = "held" => item'[k].status # "released"
    <3>1. item[k] \in ItemRec(Len(scope), size.kinds) /\ item \in Seq(ItemRec(Len(scope), size.kinds))
      BY ItemTyped, TypedShapes DEF IndInv, Shapes
    <3>2. k \in DOMAIN item
      BY <3>1 DEF Items
    <3>3. CASE k = i
      <4>1. item'[k].status = "closed"
        BY <2>2, <3>1, <3>2, <3>3 DEF ItemRec
      <4> QED
        BY <4>1
    <3>4. CASE k # i
      <4>1. item'[k] = item[k]
        BY <2>2, <3>2, <3>4
      <4> QED
        BY <4>1
    <3> QED
      BY <3>3, <3>4
  <2> QED
    BY <2>3 DEF NoRelease
<1>2. CASE UNCHANGED item
  BY <1>2 DEF NoRelease
<1>3. \A kind : BeginAdd(t, kind) => UNCHANGED item
  BY DEF BeginAdd
<1>4. \A s : BeginChild(t, s) \/ BeginSpawn(t, s) => UNCHANGED item
  BY DEF BeginChild, BeginSpawn
<1>5. \A s : BeginCancel(t, s) \/ CloseGuard(t, s) => UNCHANGED item
  BY DEF BeginCancel, CloseGuard
<1>6. EndBody(t) => UNCHANGED item
  BY DEF EndBody
<1> QED
  BY <1>1, <1>2, <1>3, <1>4, <1>5, <1>6 DEF Body

(* register and defer add an item.                                         *)
LEMMA PushReleasesNothing ==
  ASSUME IndInv, NEW t \in Scopes, NEW kind, Push(t, kind)
  PROVE  NoRelease
<1>1. PICK e : item' = Append(item, e)
  BY DEF Push
<1>2. item \in Seq(ItemRec(Len(scope), size.kinds))
  BY TypedShapes DEF IndInv, Shapes
<1>3. \A k \in Items : item'[k] = item[k]
  <2>1. \A s : \A S : s \in Seq(S) => \A k \in 1..Len(s) : Append(s, e)[k] = s[k]
    OBVIOUS
  <2> QED
    BY <1>1, <1>2, <2>1 DEF Items
<1> QED
  BY <1>3 DEF NoRelease

(* request_cancel counts only.                                             *)
LEMMA AskReleasesNothing ==
  ASSUME IndInv, NEW t \in Scopes, AskOne(t)
  PROVE  NoRelease
<1>1. PICK i : item' = [item EXCEPT ![i].asked = @ + 1]
  BY DEF AskOne
<1>2. ASSUME NEW k \in Items PROVE item'[k].status = item[k].status
  <2>1. item[k] \in ItemRec(Len(scope), size.kinds) /\ item \in Seq(ItemRec(Len(scope), size.kinds))
    BY ItemTyped, TypedShapes DEF IndInv, Shapes
  <2>2. k \in DOMAIN item
    BY <2>1 DEF Items
  <2> QED
    BY <1>1, <2>1, <2>2 DEF ItemRec
<1> QED
  BY <1>2 DEF NoRelease

(* Items are released by the two drains alone.                             *)
LEMMA OnlyDrainsRelease ==
  ASSUME IndInv, NEW t \in Scopes, Body(t) \/ Step(t),
         ~DrainResource(t), ~DrainFinalizer(t)
  PROVE  NoRelease
<1>1. CASE UNCHANGED item
  BY <1>1 DEF NoRelease
<1>2. CASE Body(t)
  BY <1>2, BodyReleasesNothing
<1>3. CASE Adding(t)
  <2>1. InsertChild(t) \/ SpawnChild(t) \/ SpawnInsert(t) => UNCHANGED item
    BY DEF InsertChild, SpawnChild, SpawnInsert
  <2>2. SpawnStart(t) \/ SpawnRecord(t) => UNCHANGED item
    BY DEF SpawnStart, SpawnRecord
  <2> QED
    BY <1>1, <1>3, <2>1, <2>2, PushReleasesNothing DEF Adding
<1>4. CASE Cancelling(t)
  <2>1. CancelOnce(t) \/ AskSnapshot(t) \/ CancelSnapshot(t) \/ CancelChild(t) => UNCHANGED item
    BY DEF CancelOnce, AskSnapshot, CancelSnapshot, CancelChild
  <2> QED
    BY <1>1, <1>4, <2>1, AskReleasesNothing DEF Cancelling
<1>5. CASE Closing(t)
  <2>1. CloseSwap(t) \/ CloseSnapshot(t) \/ CloseChild(t) => UNCHANGED item
    BY DEF CloseSwap, CloseSnapshot, CloseChild
  <2>2. Quiesce(t) \/ Detach(t) => UNCHANGED item
    BY DEF Quiesce, Detach
  <2> QED
    BY <1>1, <1>5, <2>1, <2>2 DEF Closing
<1>6. CASE DropPermit(t) \/ MarkFinished(t)
  BY <1>1, <1>6 DEF DropPermit, MarkFinished
<1> QED
  BY <1>2, <1>3, <1>4, <1>5, <1>6 DEF Step

(* A drain that releases i: the last of its list, while t is at it.        *)
LEMMA ReleasedLast ==
  ASSUME IndInv, NEW list \in Seq(Items), list # <<>>, item' = Released(Last(list)),
         NEW i \in Items
  PROVE  /\ item[i].status = "held" /\ item'[i].status = "released" => i = Last(list)
         /\ item'[i].status = "held" => item[i].status = "held" /\ i # Last(list)
<1>1. /\ item[i] \in ItemRec(Len(scope), size.kinds)
      /\ item \in Seq(ItemRec(Len(scope), size.kinds))
  BY ItemTyped, TypedShapes DEF IndInv, Shapes
<1>2. i \in DOMAIN item
  BY <1>1 DEF Items
<1>3. CASE item[Last(list)].status # "held"
  <2>1. item' = item
    BY <1>3 DEF Released
  <2> QED
    BY <1>3, <2>1
<1>4. CASE item[Last(list)].status = "held"
  <2>1. item' = [item EXCEPT ![Last(list)].status = "released"]
    BY <1>4 DEF Released
  <2>2. i # Last(list) => item'[i] = item[i]
    BY <1>2, <2>1
  <2>3. i = Last(list) => item'[i].status = "released"
    BY <1>1, <1>2, <2>1 DEF ItemRec
  <2> QED
    BY <2>2, <2>3
<1> QED
  BY <1>3, <1>4

(* What ReleaseInsideOut says when i is released.                          *)
FromInside(i) ==
    \A j \in Items :
      /\ item'[j].status = "held"
      /\ item[j].by = Root \/ item[i].scope \in Owners(item[j].by)
      => ~ Later(i, j) /\ item[i].scope \notin Owners(item[j].scope)

(* Whatever an owner waits for is minded.                                  *)
LEMMA OwnedIsMinded ==
  ASSUME IndInv, Protocol, NEW j \in Items, NEW s,
         item[j].by = Root \/ s \in Owners(item[j].by)
  PROVE  Minded(j)
<1>1. item[j].by \in Scopes
  BY ItemAt
<1> QED
  BY <1>1, OwnersOfTask DEF Minded

(* The last of a list is in it.                                            *)
LEMMA LastIsIn ==
  ASSUME NEW list \in Seq(Items), list # <<>>
  PROVE  In(Last(list), list)
<1>1. Len(list) \in Nat \ {0} /\ Last(list) = list[Len(list)]
  BY FrontOfSeq
<1> QED
  BY <1>1 DEF In

(* ResourceRegistry::close releases the newest resource of its scope.      *)
LEMMA ResourceFromInside ==
  ASSUME IndInv, Protocol, stalled = {}, NEW t \in Scopes, DrainResource(t),
         NEW i \in Items, item[i].status = "held", item'[i].status = "released"
  PROVE  FromInside(i)
<1>1. PICK s : s = Here(t)
  OBVIOUS
<1>2. PICK list : list = scope[s].resource
  OBVIOUS
<1>3. PICK pc : pc = "resource"
  OBVIOUS
<1>4. At(t, pc) /\ (list = <<>> => UNCHANGED item) /\ (list # <<>> => item' = Released(Last(list)))
  BY <1>1, <1>2, <1>3 DEF DrainResource
<1>5. list # <<>> /\ item' = Released(Last(list))
  BY <1>4
<1>6. s \in Scopes /\ Locked(s, pc)
  <2>1. /\ Calls(t) # <<>> /\ Last(Calls(t)).pc = pc
        /\ Last(Calls(t)) = Calls(t)[Depth(t)] /\ Depth(t) \in 1..Len(Calls(t))
    BY <1>4, DepthTyped, FrontOfSeq, ThreadTyped DEF At, IndInv, Depth
  <2>2. Calls(t)[Depth(t)].scope = s /\ Calls(t)[Depth(t)].pc = pc
    BY <1>1, <2>1 DEF Here
  <2>3. s \in Scopes
    BY <2>1, <2>2, CallTyped DEF IndInv
  <2> QED
    BY <2>1, <2>2, <2>3 DEF Locked
<1>7. Releasing(s)
  BY <1>3, <1>6 DEF Releasing
<1>8. list \in Seq(Items) /\ Rising(list)
  <2>1. scope[s] \in ScopeRec(Len(scope), Len(item))
    BY <1>6, ScopeTyped, TypedShapes DEF IndInv
  <2> QED
    BY <1>2, <1>6, <2>1 DEF ScopeRec, Items, Protocol, Lists
<1>9. i = Last(list)
  BY <1>5, <1>8, ReleasedLast
<1>10. item[i].scope = s /\ item[i].kind = "resource"
  <2>1. In(i, list)
    BY <1>5, <1>8, <1>9, LastIsIn
  <2>2. PICK a \in 1..Len(list) : list[a] = i
    BY <2>1 DEF In
  <2> QED
    BY <1>2, <1>6, <2>2 DEF Protocol, Lists
<1> SUFFICES ASSUME NEW j \in Items, item'[j].status = "held",
                    item[j].by = Root \/ item[i].scope \in Owners(item[j].by)
             PROVE  ~ Later(i, j) /\ item[i].scope \notin Owners(item[j].scope)
  BY DEF FromInside
<1>11. item[j].status = "held" /\ j # i
  BY <1>5, <1>8, <1>9, ReleasedLast
<1>12. Minded(j)
  BY OwnedIsMinded
<1>13. s \notin Owners(item[j].scope)
  BY <1>6, <1>7, <1>11, <1>12, NoneBelow
<1>14. ASSUME Later(i, j) PROVE FALSE
  <2>1. item[j].scope = s /\ item[j].kind # "finalizer" /\ (item[j].kind = "resource" => j > i)
    BY <1>10, <1>14 DEF Later
  <2>2. item[j].kind = "resource"
    BY <2>1, ItemAt DEF AllKinds
  <2>3. In(j, list)
    BY <1>2, <1>11, <2>1, <2>2, ItemAt
  <2>4. ~(j > i)
    BY <1>5, <1>8, <1>9, <2>3, LastIsNewest
  <2> QED
    BY <2>1, <2>2, <2>4
<1> QED
  BY <1>10, <1>13, <1>14

(* The finalizer loop comes after the resources, newest first.             *)
LEMMA FinalizerFromInside ==
  ASSUME IndInv, Protocol, stalled = {}, NEW t \in Scopes, DrainFinalizer(t),
         NEW i \in Items, item[i].status = "held", item'[i].status = "released"
  PROVE  FromInside(i)
<1>1. PICK s : s = Here(t)
  OBVIOUS
<1>2. PICK list : list = scope[s].finalizer
  OBVIOUS
<1>3. PICK pc : pc = "finalizer"
  OBVIOUS
<1>4. At(t, pc) /\ (list = <<>> => UNCHANGED item) /\ (list # <<>> => item' = Released(Last(list)))
  BY <1>1, <1>2, <1>3 DEF DrainFinalizer
<1>5. list # <<>> /\ item' = Released(Last(list))
  BY <1>4
<1>6. s \in Scopes /\ Locked(s, pc)
  <2>1. /\ Calls(t) # <<>> /\ Last(Calls(t)).pc = pc
        /\ Last(Calls(t)) = Calls(t)[Depth(t)] /\ Depth(t) \in 1..Len(Calls(t))
    BY <1>4, DepthTyped, FrontOfSeq, ThreadTyped DEF At, IndInv, Depth
  <2>2. Calls(t)[Depth(t)].scope = s /\ Calls(t)[Depth(t)].pc = pc
    BY <1>1, <2>1 DEF Here
  <2>3. s \in Scopes
    BY <2>1, <2>2, CallTyped DEF IndInv
  <2> QED
    BY <2>1, <2>2, <2>3 DEF Locked
<1>7. Releasing(s) /\ FrameAt(s, {"finalizer"})
  BY <1>3, <1>6 DEF Releasing, Locked, FrameAt
<1>8. list \in Seq(Items) /\ Rising(list)
  <2>1. scope[s] \in ScopeRec(Len(scope), Len(item))
    BY <1>6, ScopeTyped, TypedShapes DEF IndInv
  <2> QED
    BY <1>2, <1>6, <2>1 DEF ScopeRec, Items, Protocol, Lists
<1>9. i = Last(list)
  BY <1>5, <1>8, ReleasedLast
<1>10. item[i].scope = s /\ item[i].kind # "resource"
  <2>1. In(i, list)
    BY <1>5, <1>8, <1>9, LastIsIn
  <2>2. PICK a \in 1..Len(list) : list[a] = i
    BY <2>1 DEF In
  <2> QED
    BY <1>2, <1>6, <2>2 DEF Protocol, Lists
<1> SUFFICES ASSUME NEW j \in Items, item'[j].status = "held",
                    item[j].by = Root \/ item[i].scope \in Owners(item[j].by)
             PROVE  ~ Later(i, j) /\ item[i].scope \notin Owners(item[j].scope)
  BY DEF FromInside
<1>11. item[j].status = "held" /\ j # i
  BY <1>5, <1>8, <1>9, ReleasedLast
<1>12. Minded(j)
  BY OwnedIsMinded
<1>13. s \notin Owners(item[j].scope)
  BY <1>6, <1>7, <1>11, <1>12, NoneBelow
<1>14. ASSUME Later(i, j) PROVE FALSE
  <2>1. item[j].scope = s /\ (item[j].kind = item[i].kind => j > i)
    BY <1>10, <1>14 DEF Later
  <2>2. CASE item[j].kind = "resource"
    <3>1. In(j, scope[s].resource)
      BY <1>11, <2>1, <2>2, ItemAt
    <3> QED
      BY <1>7, <1>12, <2>1, <3>1 DEF Protocol, Emptied
  <2>3. CASE item[j].kind # "resource"
    <3>1. item[j].kind = item[i].kind
      BY <1>10, <2>3, ItemAt DEF AllKinds
    <3>2. In(j, list)
      BY <1>2, <1>11, <2>1, <2>3, ItemAt
    <3>3. ~(j > i)
      BY <1>5, <1>8, <1>9, <3>2, LastIsNewest
    <3> QED
      BY <2>1, <3>1, <3>3
  <2> QED
    BY <2>2, <2>3
<1> QED
  BY <1>10, <1>13, <1>14

(* Every step releases from the inside out.                                *)
LEMMA InsideOut ==
  ASSUME IndInv, Protocol, [Next]_vars, stalled' = {},
         NEW i \in Items, item[i].status = "held", item'[i].status = "released"
  PROVE  FromInside(i)
<1>1. ~UNCHANGED item
  OBVIOUS
<1>2. PICK t \in Scopes : Body(t) \/ Step(t)
  <2>1. PICK t \in Scopes : Turn(t) \/ CancelToken(t)
    BY <1>1 DEF Next, vars
  <2> QED
    BY <1>1, <2>1 DEF Turn, CancelToken
<1>3. DrainResource(t) \/ DrainFinalizer(t)
  BY <1>2, OnlyDrainsRelease DEF NoRelease
<1>4. stalled = {}
  BY <1>3 DEF DrainResource, DrainFinalizer
<1> QED
  BY <1>3, <1>4, ResourceFromInside, FinalizerFromInside

-----------------------------------------------------------------------------
(* Closing a scope stops its tasks, drains what they registered and gives  *)
(* back their permits (close, register, spawn and the drains), in every    *)
(* execution of every program: the tree is well formed, a scope releases   *)
(* what its tasks own only when they are quiet, and none of it is lost.    *)
THEOREM ScopesAreSound == Spec => []ScopesSound
BY Invariance, ProtocolHolds, ScopesSoundHere, PTL

(* A release goes from the inside out: in a scope the newest item first    *)
(* and resources before finalizers, and nothing is released while a scope  *)
(* below, or a task that is waited for, still holds something.             *)
THEOREM ReleasesInsideOut == Spec => ReleaseInsideOut
<1> DEFINE A == stalled' = {} =>
                  \A i \in Items :
                    item[i].status = "held" /\ item'[i].status = "released" => FromInside(i)
<1>1. IndInv /\ Protocol /\ [Next]_vars => [A]_vars
  BY InsideOut
<1>2. ReleaseInsideOut <=> [][A]_vars
  BY DEF ReleaseInsideOut, FromInside
<1> HIDE DEF A
<1> QED
  BY <1>1, <1>2, ProtocolHolds, PTL DEF Spec

-----------------------------------------------------------------------------
(* Above: the scopes above scope n when f gives those of the ones before.  *)
AboveFrom(f, n) ==
    IF n = Root THEN {Root} ELSE {n} \cup f[scope[n].parent]
AboveFunction == CHOOSE f : f = [n \in Scopes |-> AboveFrom(f, n)]

(* Only the scopes made before matter to what is above a scope.            *)
LEMMA AboveFromBefore ==
  ASSUME IndInv, Tree, NEW n \in Scopes, NEW f, NEW h,
         \A m \in Scopes : m < n => f[m] = h[m]
  PROVE  AboveFrom(f, n) = AboveFrom(h, n)
BY MadeAfter DEF AboveFrom

(* The function that Above is made of exists, as that of Owners does.      *)
LEMMA AboveExists ==
  ASSUME IndInv, Tree
  PROVE  \E f : f = [n \in Scopes |-> AboveFrom(f, n)]
<1> DEFINE Upto(m) == {n \in Scopes : n <= m}
           Good(f, m) == f = [n \in Upto(m) |-> AboveFrom(f, n)]
           T == {m \in Scopes : \E f : Good(f, m)}
<1>0. Len(scope) \in Nat \ {0} /\ Scopes = 1..Len(scope)
  BY DEF IndInv, Typed, Scopes
<1>1. ASSUME NEW m \in Scopes, \A k \in Scopes : k < m => k \in T
      PROVE  m \in T
  <2>1. \E f : \A n \in Scopes : n < m => f[n] = AboveFrom(f, n)
    <3>1. CASE m = 1
      <4>1. \A n \in Scopes : ~(n < m)
        BY <1>0, <3>1
      <4> QED
        BY <4>1
    <3>2. CASE m # 1
      <4>1. m - 1 \in Scopes /\ m - 1 < m /\ m \in Nat
        BY <1>0, <3>2
      <4>2. PICK f : Good(f, m - 1)
        BY <1>1, <4>1
      <4>3. \A n \in Scopes : n < m => n \in Upto(m - 1)
        BY <1>0, <4>1
      <4>4. \A n \in Upto(m - 1) : f[n] = AboveFrom(f, n)
        BY <4>2
      <4> QED
        BY <4>3, <4>4
    <3> QED
      BY <3>1, <3>2
  <2>2. PICK f : \A n \in Scopes : n < m => f[n] = AboveFrom(f, n)
    BY <2>1
  <2> DEFINE h == [n \in Upto(m) |-> AboveFrom(f, n)]
  <2>3. \A n \in Scopes : n < m => h[n] = f[n]
    <3> TAKE n \in Scopes
    <3>1. n < m => n \in Upto(m)
      BY <1>0
    <3> QED
      BY <2>2, <3>1
  <2>4. \A n \in Upto(m) : AboveFrom(f, n) = AboveFrom(h, n)
    <3> SUFFICES ASSUME NEW n \in Upto(m) PROVE AboveFrom(f, n) = AboveFrom(h, n)
      OBVIOUS
    <3> HIDE DEF h
    <3>1. n \in Scopes /\ n <= m
      OBVIOUS
    <3>2. \A k \in Scopes : k < n => f[k] = h[k]
      <4> TAKE k \in Scopes
      <4>1. k < n => k < m
        BY <1>0, <3>1
      <4> QED
        BY <2>3, <4>1
    <3> QED
      BY <3>1, <3>2, AboveFromBefore
  <2>5. Good(h, m)
    BY <2>4
  <2> QED
    BY <2>5
<1> HIDE DEF T
<1>2. Scopes \subseteq T
  BY <1>1, ByCreation
<1>3. Len(scope) \in Scopes /\ Upto(Len(scope)) = Scopes
  BY <1>0
<1>4. \E f : Good(f, Len(scope))
  BY <1>2, <1>3 DEF T
<1> QED
  BY <1>3, <1>4

(* What is above every scope (the definition of Above, unfolded).          *)
Chain(n) == IF n = Root THEN {Root} ELSE {n} \cup Above(scope[n].parent)
Chained == \A n \in Scopes : Above(n) = Chain(n)

(* What is above a scope: the scope, and what is above its parent.         *)
LEMMA AboveIs == IndInv /\ Tree => Chained
<1> SUFFICES ASSUME IndInv, Tree, NEW n \in Scopes PROVE Above(n) = Chain(n)
  BY DEF Chained
<1>1. AboveFunction = [m \in Scopes |-> AboveFrom(AboveFunction, m)]
  BY AboveExists DEF AboveFunction
<1>2. \A m : Above(m) = AboveFunction[m]
  BY DEF Above, AboveFunction, AboveFrom
<1>3. Above(n) = AboveFrom(AboveFunction, n)
  BY <1>1, <1>2
<1>4. AboveFunction[scope[n].parent] = Above(scope[n].parent)
  BY <1>2
<1> QED
  BY <1>3, <1>4 DEF AboveFrom, Chain

(* ... and after a step.                                                   *)
LEMMA AboveIsThen ==
  ASSUME IndInv', Tree'
  PROVE  \A n \in Scopes' : Above(n)' = Chain(n)'
<1>1. Chained'
  BY AboveIs, PTL
<1> QED
  BY <1>1 DEF Chained

(* The scopes above a scope: itself, its parent, the parents of all, and   *)
(* no scope that was made for a task if it is none itself.                 *)
Childlike(n) == n = Root \/ thread[n].mode = "none"
Line(n) ==
    /\ Above(n) \subseteq Scopes /\ n \in Above(n)
    /\ n # Root => scope[n].parent \in Above(n)
    /\ \A m \in Above(n) : m # Root => scope[m].parent \in Above(n)
    /\ Childlike(n) => \A m \in Above(n) : Childlike(m)

(* What is above a scope goes up to the root, parent by parent, and above  *)
(* a child scope are child scopes only: a task's own scope is made in one  *)
(* and has nothing below.                                                  *)
LEMMA Lines ==
  ASSUME IndInv, Tree, NEW s \in Scopes
  PROVE  Line(s)
<1> DEFINE T == {n \in Scopes : Line(n)}
<1>1. ASSUME NEW n \in Scopes, \A m \in Scopes : m < n => m \in T
      PROVE  n \in T
  <2>1. Above(n) = Chain(n)
    BY AboveIs DEF Chained
  <2>2. CASE n = Root
    BY <2>1, <2>2 DEF Line, Chain, Childlike
  <2>3. CASE n # Root
    <3> DEFINE p == scope[n].parent
    <3>1. p \in Scopes /\ p < n
      BY <2>3, MadeAfter
    <3>2. Line(p)
      BY <1>1, <3>1
    <3>3. Above(n) = {n} \cup Above(p)
      BY <2>1, <2>3 DEF Chain
    <3>4. Childlike(n) => Childlike(p)
      BY <2>3 DEF Tree, Childlike
    <3> HIDE DEF p
    <3>5. scope[n].parent = p
      BY DEF p
    <3> QED
      BY <2>3, <3>1, <3>2, <3>3, <3>4, <3>5 DEF Line
  <2> QED
    BY <2>2, <2>3
<1>2. Scopes \subseteq T
  <2> HIDE DEF T
  <2> QED
    BY <1>1, ByCreation
<1> QED
  BY <1>2

(* The scopes above a scope never change.                                  *)
LEMMA AboveKept ==
  ASSUME IndInv, Tree, IndInv', Tree', Grows, NEW s \in Scopes
  PROVE  Above(s)' = Above(s)
<1> DEFINE T == {n \in Scopes : Above(n)' = Above(n)}
<1>1. ASSUME NEW n \in Scopes, \A m \in Scopes : m < n => m \in T
      PROVE  n \in T
  <2>1. n \in Scopes' /\ scope'[n].parent = scope[n].parent
    BY DEF Grows, Scopes, IndInv, Typed
  <2>2. Above(n) = Chain(n) /\ Above(n)' = Chain(n)'
    BY <2>1, AboveIs, AboveIsThen DEF Chained
  <2>3. CASE n = Root
    BY <2>2, <2>3 DEF Chain
  <2>4. CASE n # Root
    <3>1. scope[n].parent \in T
      BY <1>1, <2>4, MadeAfter
    <3>2. \A m \in T : Above(m)' = Above(m)
      OBVIOUS
    <3>3. PICK p : p = scope[n].parent
      OBVIOUS
    <3>4. p = (scope[n].parent)' /\ Above(p)' = Above(p)
      BY <2>1, <3>1, <3>2, <3>3
    <3>5. Above(n)' = {n} \cup Above(p)'
      BY <2>2, <2>4, <3>4 DEF Chain
    <3> QED
      BY <2>2, <2>4, <3>3, <3>4, <3>5 DEF Chain
  <2> QED
    BY <2>3, <2>4
<1>2. Scopes \subseteq T
  <2> HIDE DEF T
  <2> QED
    BY <1>1, ByCreation
<1> QED
  BY <1>2

-----------------------------------------------------------------------------
(* What a step does to a cancellation.  A cancel marks its scope, asks the *)
(* resources of its copy one by one and then descends into the children of *)
(* its copy, the call staying where it is on the stack (Turned).           *)
AsksFor(t, i) == At(t, "asking") /\ Todo(t) # <<>> /\ Head(Todo(t)) = i
Turned(t, pc, todo) ==
    /\ Depth(t) \in 1..Len(Calls(t)')
    /\ Calls(t)'[Depth(t)] = Frame(Here(t), pc, todo)
Turns(t) ==
    /\ At(t, "cancel") =>
         IF scope[Here(t)].cancelled THEN Len(Calls(t)') < Depth(t)
         ELSE Turned(t, "ask", <<>>)
    /\ At(t, "ask") => Turned(t, "asking", Reverse(scope[Here(t)].resource))
    /\ At(t, "asking") =>
         IF Todo(t) # <<>> THEN Turned(t, "asking", Tail(Todo(t)))
         ELSE Turned(t, "descend", scope[Here(t)].children)
    /\ At(t, "descend") =>
         IF Todo(t) = <<>> THEN Len(Calls(t)') < Depth(t)
         ELSE /\ Turned(t, "descend", Tail(Todo(t)))
              /\ Depth(t) + 1 \in 1..Len(Calls(t)')
              /\ Calls(t)'[Depth(t) + 1] = Frame(Head(Todo(t)), "cancel", <<>>)
FlagsStand ==
    /\ \A s \in Scopes : scope'[s].cancelled = scope[s].cancelled
    /\ \A n \in Scopes' \ Scopes : ~scope'[n].cancelled
ItemsStand ==
    /\ \A i \in Items : item'[i].calm = item[i].calm /\ item'[i].asked = item[i].asked
    /\ \A i \in Items' \ Items :
         /\ item'[i].asked = 0
         /\ item'[i].calm => \A a \in Above(item'[i].scope) : ~scope'[a].cancelled
Marks(t) ==
    /\ At(t, "cancel") => /\ scope'[Here(t)].cancelled /\ Scopes' = Scopes
                          /\ \A s \in Scopes \ {Here(t)} :
                               scope'[s].cancelled = scope[s].cancelled
    /\ ~At(t, "cancel") => FlagsStand
    /\ At(t, "asking") /\ Todo(t) # <<>> =>
         /\ Items' = Items
         /\ \A i \in Items : item'[i].calm = item[i].calm
         /\ \A i \in Items : AsksFor(t, i) => item'[i].asked = item[i].asked + 1
         /\ \A i \in Items : ~AsksFor(t, i) => item'[i].asked = item[i].asked
    /\ ~(At(t, "asking") /\ Todo(t) # <<>>) => ItemsStand
CancelGoes(t) == Turns(t) /\ Marks(t)

(* A step of anything else leaves a cancellation as it is.                 *)
LEMMA Elsewise ==
  ASSUME NEW t, ~OnTop(t, CancelPcs), FlagsStand, ItemsStand
  PROVE  CancelGoes(t)
<1>1. /\ ~At(t, "cancel") /\ ~At(t, "ask") /\ ~At(t, "asking") /\ ~At(t, "descend")
  BY DEF OnTop, At, CancelPcs
<1> QED
  BY <1>1 DEF CancelGoes, Turns, Marks

(* A change of another field leaves the flags of cancel alone.             *)
LEMMA FlagsStay ==
  ASSUME IndInv, NEW s, NEW x, x # "cancelled", Only(s, x)
  PROVE  FlagsStand /\ Scopes' = Scopes
BY DEF FlagsStand, Only, Fields, Scopes

(* So does a step that changes no scope.                                   *)
LEMMA FlagsSame ==
  ASSUME UNCHANGED scope
  PROVE  FlagsStand /\ Scopes' = Scopes
BY DEF FlagsStand, Scopes

(* A step that changes no item asks none.                                  *)
LEMMA ItemsSame ==
  ASSUME UNCHANGED item
  PROVE  ItemsStand /\ Items' = Items
BY DEF ItemsStand, Items

(* A change of the status of an item.                                      *)
LEMMA ItemSet ==
  ASSUME IndInv, NEW i \in Items, NEW v, item' = [item EXCEPT ![i].status = v]
  PROVE  ItemsStand /\ Items' = Items
<1>1. item \in Seq(ItemRec(Len(scope), size.kinds)) /\ Items = 1..Len(item)
  BY DEF IndInv, Typed, Shapes, Items
<1>2. item[i] \in ItemRec(Len(scope), size.kinds)
  BY ItemTyped DEF IndInv
<1> DEFINE r == [item[i] EXCEPT !.status = v]
<1>3. r.calm = item[i].calm /\ r.asked = item[i].asked
  BY <1>2 DEF ItemRec
<1> HIDE DEF r
<1>4. Len(item') = Len(item) /\ \A a \in Items : item'[a] = IF a = i THEN r ELSE item[a]
  BY <1>1 DEF r
<1>5. Items' = Items
  BY <1>4 DEF Items
<1> QED
  BY <1>3, <1>4, <1>5 DEF ItemsStand

(* A drain releases an item and asks none.                                 *)
LEMMA ReleasedStands ==
  ASSUME IndInv, NEW i \in Items, item' = Released(i)
  PROVE  ItemsStand /\ Items' = Items
<1>1. CASE item[i].status = "held"
  <2>1. PICK v : v = "released"
    OBVIOUS
  <2>2. item' = [item EXCEPT ![i].status = v]
    BY <1>1, <2>1 DEF Released
  <2> QED
    BY <2>2, ItemSet
<1>2. CASE item[i].status # "held"
  BY <1>2, ItemsSame DEF Released
<1> QED
  BY <1>1, <1>2

(* The calls of a running body are none.                                   *)
LEMMA NotCancelling ==
  ASSUME NEW t, \/ Calls(t) = <<>>
                \/ \E pc : At(t, pc) /\ pc \notin CancelPcs
  PROVE  ~OnTop(t, CancelPcs)
BY DEF OnTop, At

(* The places of a cancel are its own.                                     *)
LEMMA PcsApart ==
  CancelPcs \cap (AddPcs \cup ChildPcs \cup SpawnPcs \cup ClosePcs) = {}
BY DEF CancelPcs, AddPcs, ChildPcs, SpawnPcs, ClosePcs

(* No register, defer, child or spawn begins inside a cancel or close.     *)
LEMMA EntryPcsApart == EntryPcs \cap (CancelPcs \cup ClosePcs) = {}
BY DEF CancelPcs, AddPcs, EntryPcs, ClosePcs

(* What bodies do.                                                         *)
LEMMA BodyCancels ==
  ASSUME IndInv, NEW t \in Scopes, Body(t)
  PROVE  CancelGoes(t)
<1>1. Calls(t) = <<>>
  BY DEF Body, BeginAdd, BeginChild, BeginSpawn, BeginCancel, CloseGuard, UserClose,
         EndBody, Running
<1>2. ~OnTop(t, CancelPcs)
  BY <1>1, NotCancelling
<1>3. ASSUME UNCHANGED <<scope, item>> PROVE CancelGoes(t)
  BY <1>2, <1>3, FlagsSame, ItemsSame, Elsewise
<1>4. ASSUME NEW s \in Scopes, scope' = [scope EXCEPT ![s].guarded = FALSE],
             UNCHANGED item
      PROVE  CancelGoes(t)
  <2>1. PICK x : x = "guarded"
    OBVIOUS
  <2>2. Only(s, x) /\ x # "cancelled"
    BY <1>4, <2>1, FieldsSet
  <2> QED
    BY <1>2, <1>4, <2>2, FlagsStay, ItemsSame, Elsewise
<1>5. CASE \E kind \in size.kinds : BeginAdd(t, kind)
  BY <1>3, <1>5 DEF BeginAdd
<1>6. CASE \E s \in Usable(t) \cup {t} :
              BeginChild(t, s) \/ BeginSpawn(t, s) \/ BeginCancel(t, s)
  BY <1>3, <1>6 DEF BeginChild, BeginSpawn, BeginCancel
<1>7. ASSUME NEW s \in Usable(t) \cup {t}, CloseGuard(t, s) PROVE CancelGoes(t)
  <2>1. s \in Scopes /\ scope' = [scope EXCEPT ![s].guarded = FALSE] /\ UNCHANGED item
    BY <1>7 DEF CloseGuard, Opened
  <2> QED
    BY <1>4, <2>1
<1>8. ASSUME NEW i \in Items, UserClose(t, i) PROVE CancelGoes(t)
  <2>1. UNCHANGED scope /\ item' = [item EXCEPT ![i].status = "closed"]
    BY <1>8 DEF UserClose
  <2>2. PICK v : v = "closed"
    OBVIOUS
  <2>3. item' = [item EXCEPT ![i].status = v]
    BY <2>1, <2>2
  <2> QED
    BY <1>2, <2>1, <2>3, ItemSet, FlagsSame, Elsewise
<1>9. CASE EndBody(t)
  BY <1>4, <1>9 DEF EndBody
<1> QED
  BY <1>5, <1>6, <1>7, <1>8, <1>9 DEF Body

(* A scope that is added is not cancelled.                                 *)
LEMMA AddedCalm ==
  ASSUME IndInv, NEW h \in Scopes, NEW opener, NEW owned, AddScope(h, opener, owned)
  PROVE  FlagsStand
<1>1. PICK n : n = Len(scope) + 1
  OBVIOUS
<1>2. /\ Scopes' = Scopes \cup {n}
      /\ \A s \in Scopes : \A y \in Fields :
           s # h \/ y # "children" => scope'[s][y] = scope[s][y]
      /\ scope'[n] = NewScope(h, opener, owned)
  BY <1>1, ScopeAdded
<1>3. \A s \in Scopes : scope'[s].cancelled = scope[s].cancelled
  BY <1>2 DEF Fields
<1>4. ~scope'[n].cancelled
  BY <1>2 DEF NewScope
<1> QED
  BY <1>2, <1>3, <1>4 DEF FlagsStand

(* Two fields set at once.                                                 *)
LEMMA TwoStand ==
  ASSUME IndInv, NEW s \in Scopes, NEW c \in Scopes, s # c,
         NEW x \in Fields, NEW y \in Fields, NEW v, NEW w, TwoSet(s, c, x, y, v, w),
         x # "cancelled", y # "cancelled"
  PROVE  FlagsStand
<1>1. /\ Len(scope') = Len(scope)
      /\ \A n \in Scopes : \A z \in Fields :
              (n # s \/ z # x) /\ (n # c \/ z # y) => scope'[n][z] = scope[n][z]
  BY TwoFieldsSet
<1>2. Scopes' = Scopes
  BY <1>1 DEF Scopes
<1>3. \A n \in Scopes : scope'[n]["cancelled"] = scope[n]["cancelled"]
  BY <1>1 DEF Fields
<1> QED
  BY <1>2, <1>3 DEF FlagsStand

(* A registration; what is registered is calm if nothing above it was      *)
(* cancelled.                                                              *)
LEMMA PushCancels ==
  ASSUME IndInv, Tree, NEW t \in Scopes, NEW kind, Push(t, kind)
  PROVE  CancelGoes(t)
<1>1. PICK h, n, x, l, r :
         /\ h = Here(t) /\ n = Len(item) + 1
         /\ x = (IF kind = "resource" THEN "resource" ELSE "finalizer")
         /\ l = scope[h][x] /\ r = NewItem(t, kind)
  OBVIOUS
<1>2. /\ Calls(t) # <<>> /\ Last(Calls(t)).pc \in AddPcs /\ h \in Scopes
      /\ item' = Append(item, r)
  BY <1>1, TopTyped DEF Push, At, IndInv, AddPcs, NewItem
<1>3. scope' = [scope EXCEPT ![h] = [scope[h] EXCEPT ![x] = Append(l, n)]]
  BY <1>1 DEF Push
<1>4. x \in Fields /\ x # "cancelled"
  BY <1>1 DEF Fields
<1>5. Only(h, x)
  BY <1>2, <1>3, <1>4, FieldSet DEF IndInv
<1>6. FlagsStand /\ Scopes' = Scopes
  BY <1>4, <1>5, FlagsStay
<1>7. r.asked = 0 /\ r.scope = h /\ (r.calm => ~IsCancelled(h))
  BY <1>1 DEF NewItem
<1>8. /\ Items = 1..Len(item) /\ \A i \in Items : item'[i] = item[i]
      /\ item'[n] = r /\ \A i \in Items' : i \in Items \/ i = n
  <2> DEFINE R == ItemRec(Len(scope), size.kinds) \cup {r}
  <2>1. item \in Seq(R) /\ r \in R
    <3>1. item \in Seq(ItemRec(Len(scope), size.kinds))
      BY DEF IndInv, Typed, Shapes
    <3> QED
      BY <3>1, SeqMonotonic
  <2> HIDE DEF R
  <2>2. /\ Len(item') = Len(item) + 1 /\ \A i \in 1..Len(item) : item'[i] = item[i]
        /\ item'[Len(item) + 1] = r /\ Len(item) \in Nat
    BY <1>2, <2>1, AppendToSeq, LenProperties
  <2> QED
    BY <1>1, <2>2 DEF Items
<1>9. ASSUME r.calm, NEW a \in Above(h), Above(h) \subseteq Scopes
      PROVE  ~scope'[a].cancelled
  BY <1>6, <1>7, <1>9 DEF IsCancelled, FlagsStand
<1>10. Above(h) \subseteq Scopes
  BY <1>2, Lines DEF Line
<1>11. ItemsStand
  BY <1>7, <1>8, <1>9, <1>10 DEF ItemsStand
<1>12. ~OnTop(t, CancelPcs)
  BY <1>2, PcsApart DEF OnTop
<1> QED
  BY <1>6, <1>11, <1>12, Elsewise

(* What the calls do that make scopes and tasks.                           *)
LEMMA AddingCancels ==
  ASSUME IndInv, Tree, Todos, NEW t \in Scopes, Adding(t)
  PROVE  CancelGoes(t)
<1>1. CASE \E kind \in size.kinds : Push(t, kind)
  BY <1>1, PushCancels
<1>2. CASE InsertChild(t) \/ SpawnInsert(t)
  <2>1. UNCHANGED item /\ Calls(t) # <<>>
    BY <1>2 DEF InsertChild, SpawnInsert, At
  <2>2. ~OnTop(t, CancelPcs)
    BY <1>2 DEF InsertChild, SpawnInsert, At, OnTop, CancelPcs
  <2>3. Here(t) \in Scopes
    BY <2>1, TopTyped DEF IndInv
  <2>4. \E opener, owned : AddScope(Here(t), opener, owned)
    BY <1>2 DEF InsertChild, SpawnInsert
  <2>5. FlagsStand
    BY <2>3, <2>4, AddedCalm
  <2> QED
    BY <2>1, <2>2, <2>5, ItemsSame, Elsewise
<1>3. CASE SpawnChild(t)
  <2>1. UNCHANGED <<scope, item>> /\ ~OnTop(t, CancelPcs)
    BY <1>3 DEF SpawnChild, At, OnTop, CancelPcs
  <2> QED
    BY <2>1, FlagsSame, ItemsSame, Elsewise
<1>4. CASE SpawnStart(t)
  <2>1. At(t, StartPc)
    BY <1>4 DEF SpawnStart, StartPc
  <2>2. PICK h, c, x, y, v, w, s2 :
          /\ h = Here(t) /\ c = Todo(t)[1] /\ x = "children" /\ y = "guarded"
          /\ v = Without(scope[h].children, c) /\ w = FALSE
          /\ s2 = [scope EXCEPT ![h] = [scope[h] EXCEPT ![x] = v]]
    OBVIOUS
  <2>3. h \in Scopes /\ c \in Scopes /\ Head(Todo(t)) = c /\ h # c
    BY <2>1, <2>2, StartingScope
  <2>4. ~OnTop(t, CancelPcs) /\ UNCHANGED item
    BY <1>4 DEF SpawnStart, At, OnTop, CancelPcs
  <2>5. UNCHANGED scope \/ Unlinks(h, c)
    BY <1>4, <2>2, <2>3 DEF SpawnStart, Unlinks
  <2>6. FlagsStand
    <3>1. CASE UNCHANGED scope
      BY <3>1, FlagsSame
    <3>2. CASE Unlinks(h, c)
      <4>1. TwoSet(h, c, x, y, v, w)
        <5>1. scope' = [s2 EXCEPT ![c] = [s2[c] EXCEPT ![y] = w]]
          BY <2>2, <3>2 DEF Unlinks
        <5>2. s2 = [scope EXCEPT ![h] = [scope[h] EXCEPT ![x] = v]]
          BY <2>2
        <5> QED
          BY <5>1, <5>2 DEF TwoSet
      <4>2. x \in Fields /\ y \in Fields /\ x # "cancelled" /\ y # "cancelled"
        BY <2>2 DEF Fields
      <4> QED
        BY <2>3, <4>1, <4>2, TwoStand
    <3> QED
      BY <2>5, <3>1, <3>2
  <2> QED
    BY <2>4, <2>6, ItemsSame, Elsewise
<1>5. CASE SpawnRecord(t)
  <2>1. /\ Calls(t) # <<>> /\ Here(t) \in Scopes /\ UNCHANGED item
        /\ At(t, "spawn record")
    BY <1>5, TopTyped DEF SpawnRecord, At, IndInv
  <2>2. PICK h, c, x, y, v, w, s2 :
          /\ h = Here(t) /\ c = Todo(t)[1] /\ x = "tasks" /\ y = "owned"
          /\ v = scope[h].tasks \cup ToSet(Todo(t)) /\ w = ~scope[h].closed
          /\ s2 = [scope EXCEPT ![h] = [scope[h] EXCEPT ![x] = v]]
    OBVIOUS
  <2>3. c \in Scopes \ {Root} /\ Head(Todo(t)) = c
    <3>1. Len(Todo(t)) = 1 /\ Todo(t)[1] \in Scopes \ {Root}
      BY <2>1, Zenon DEF IndInv, Starts
    <3>2. Head(Todo(t)) = Todo(t)[1]
      OBVIOUS
    <3> QED
      BY <2>2, <3>1, <3>2
  <2>4. h # c
    <3>1. Depth(t) \in 1..Len(Calls(t)) /\ Last(Calls(t)) = Calls(t)[Depth(t)]
      BY <2>1, DepthTyped DEF IndInv, Depth, Last
    <3>2. Visits(Last(Calls(t)))
      BY <3>1 DEF Todos
    <3>3. Under(c, h)
      BY <2>1, <2>2, <3>2 DEF Visits, Here, Todo, At
    <3>4. h < c /\ c \in Nat /\ h \in Nat
      <4>1. h < c /\ c \in Scopes /\ h \in Scopes
        BY <2>1, <2>2, <2>3, <3>3, UnderLess
      <4> QED
        BY <4>1 DEF Scopes
    <3> QED
      BY <3>4
  <2>5. scope' = [s2 EXCEPT ![c] = [s2[c] EXCEPT ![y] = w]]
    <3>1. scope' = [scope EXCEPT ![Here(t)].tasks = @ \cup ToSet(Todo(t)),
                                 ![Head(Todo(t))].owned = ~scope[Here(t)].closed]
      BY <1>5 DEF SpawnRecord
    <3> QED
      BY <2>2, <2>3, <3>1
  <2>6. TwoSet(h, c, x, y, v, w)
    <3>1. s2 = [scope EXCEPT ![h] = [scope[h] EXCEPT ![x] = v]]
      BY <2>2
    <3> QED
      BY <2>5, <3>1 DEF TwoSet
  <2>7. x \in Fields /\ y \in Fields /\ x # "cancelled" /\ y # "cancelled" /\ h \in Scopes
    BY <2>1, <2>2 DEF Fields
  <2>8. FlagsStand
    BY <2>3, <2>4, <2>6, <2>7, TwoStand
  <2>9. ~OnTop(t, CancelPcs)
    BY <2>1 DEF At, OnTop, CancelPcs
  <2> QED
    BY <2>1, <2>8, <2>9, ItemsSame, Elsewise
<1> QED
  BY <1>1, <1>2, <1>3, <1>4, <1>5 DEF Adding

(* The close of a scope, apart from the cancel it calls.                   *)
LEMMA ClosingCancels ==
  ASSUME IndInv, NEW t \in Scopes, Closing(t)
  PROVE  CancelGoes(t)
<1>1. Calls(t) # <<>> /\ Here(t) \in Scopes /\ ~OnTop(t, CancelPcs)
  <2>1. Calls(t) # <<>> /\ ~OnTop(t, CancelPcs)
    BY DEF Closing, CloseSwap, CloseSnapshot, CloseChild, Quiesce, DrainResource,
           DrainFinalizer, Detach, At, OnTop, CancelPcs
  <2> QED
    BY <2>1, TopTyped DEF IndInv
<1>2. ASSUME FlagsStand, ItemsStand PROVE CancelGoes(t)
  BY <1>1, <1>2, Elsewise
<1>3. ASSUME UNCHANGED scope PROVE FlagsStand
  BY <1>3, FlagsSame
<1>4. ASSUME UNCHANGED item PROVE ItemsStand
  BY <1>4, ItemsSame
<1>5. ASSUME NEW s \in Scopes, NEW x \in Fields, x # "cancelled", NEW v,
             scope' = [scope EXCEPT ![s] = [scope[s] EXCEPT ![x] = v]]
      PROVE  FlagsStand
  BY <1>5, FieldSet, FlagsStay DEF IndInv
<1>6. PICK s, closed, children, tasks, resource, finalizer, drained :
         /\ s = Here(t) /\ closed = "closed" /\ children = "children" /\ tasks = "tasks"
         /\ resource = "resource" /\ finalizer = "finalizer" /\ drained = "drained"
  OBVIOUS
<1>7. /\ s \in Scopes
      /\ \A x \in {closed, children, tasks, resource, finalizer, drained} :
           x \in Fields /\ x # "cancelled"
  BY <1>1, <1>6 DEF Fields
<1> DEFINE Sets(r, x) == \E v : scope' = [scope EXCEPT ![r] = [scope[r] EXCEPT ![x] = v]]
<1>8. ASSUME NEW r \in Scopes, NEW x \in Fields, x # "cancelled", Sets(r, x)
      PROVE  FlagsStand
  BY <1>5, <1>8
<1>9. CASE CloseSwap(t)
  <2>1. UNCHANGED item /\ (UNCHANGED scope \/ Sets(s, closed))
    BY <1>6, <1>9 DEF CloseSwap
  <2> HIDE DEF Sets
  <2> QED
    BY <1>2, <1>3, <1>4, <1>7, <1>8, <2>1
<1>10. CASE CloseSnapshot(t)
  BY <1>2, <1>3, <1>4, <1>10 DEF CloseSnapshot
<1>11. CASE CloseChild(t)
  <2>1. UNCHANGED item /\ (UNCHANGED scope \/ Sets(s, children))
    BY <1>6, <1>11 DEF CloseChild
  <2> HIDE DEF Sets
  <2> QED
    BY <1>2, <1>3, <1>4, <1>7, <1>8, <2>1
<1>12. CASE Quiesce(t)
  <2>1. UNCHANGED item /\ Sets(s, tasks)
    BY <1>6, <1>12 DEF Quiesce
  <2> HIDE DEF Sets
  <2> QED
    BY <1>2, <1>3, <1>4, <1>7, <1>8, <2>1
<1>13. CASE DrainResource(t)
  <2>1. CASE scope[s].resource = <<>>
    BY <1>2, <1>3, <1>4, <1>6, <1>13, <2>1 DEF DrainResource
  <2>2. CASE scope[s].resource # <<>>
    <3>1. Sets(s, resource) /\ item' = Released(Last(scope[s].resource))
      BY <1>6, <1>13, <2>2 DEF DrainResource
    <3> HIDE DEF Sets
    <3>2. scope[s].resource \in Seq(Items)
      BY <1>7, ListsTyped DEF IndInv
    <3>3. Last(scope[s].resource) \in Items
      BY <2>2, <3>2, FrontOfSeq
    <3> QED
      BY <1>2, <1>7, <1>8, <3>1, <3>3, ReleasedStands
  <2> QED
    BY <2>1, <2>2
<1>14. CASE DrainFinalizer(t)
  <2>1. CASE scope[s].finalizer = <<>>
    <3>1. UNCHANGED item /\ Sets(s, drained)
      BY <1>6, <1>14, <2>1 DEF DrainFinalizer
    <3> HIDE DEF Sets
    <3> QED
      BY <1>2, <1>4, <1>7, <1>8, <3>1
  <2>2. CASE scope[s].finalizer # <<>>
    <3>1. Sets(s, finalizer) /\ item' = Released(Last(scope[s].finalizer))
      BY <1>6, <1>14, <2>2 DEF DrainFinalizer
    <3> HIDE DEF Sets
    <3>2. scope[s].finalizer \in Seq(Items)
      BY <1>7, ListsTyped DEF IndInv
    <3>3. Last(scope[s].finalizer) \in Items
      BY <2>2, <3>2, FrontOfSeq
    <3> QED
      BY <1>2, <1>7, <1>8, <3>1, <3>3, ReleasedStands
  <2> QED
    BY <2>1, <2>2
<1>15. CASE Detach(t)
  <2>1. UNCHANGED item /\ Sets(scope[s].parent, children)
    BY <1>6, <1>15 DEF Detach
  <2> HIDE DEF Sets
  <2>2. scope[s].parent \in Scopes
    BY <1>7, ListsTyped DEF IndInv
  <2> QED
    BY <1>2, <1>4, <1>7, <1>8, <2>1, <2>2
<1> QED
  BY <1>9, <1>10, <1>11, <1>12, <1>13, <1>14, <1>15 DEF Closing

(* Goto, as a turn of the top call.                                        *)
LEMMA GotoTurns ==
  ASSUME IndInv, NEW t \in Scopes, Calls(t) # <<>>, NEW pc, NEW todo, Goto(t, pc, todo)
  PROVE  Turned(t, pc, todo)
<1>1. PICK f, j : f = Frame(Here(t), pc, todo) /\ j = Depth(t) - 1
  OBVIOUS
<1>2. Moves(t, j, j + 1, f, f) /\ j \in Nat /\ Depth(t) = j + 1
  BY <1>1, GotoMoves
<1> QED
  BY <1>1, <1>2 DEF Moves, Turned

(* A call that returns leaves the stack.                                   *)
LEMMA ReturnTurns ==
  ASSUME IndInv, NEW t \in Scopes, Calls(t) # <<>>, Return(t)
  PROVE  Len(Calls(t)') < Depth(t)
<1>1. PICK f, j : f = 0 /\ j = Depth(t) - 1
  OBVIOUS
<1>2. Moves(t, j, j, f, f) /\ j \in Nat /\ Depth(t) = j + 1
  BY <1>1, ReturnMoves
<1> QED
  BY <1>2 DEF Moves

(* A cancel: the five steps of the call.                                   *)
LEMMA CancelOnceCancels ==
  ASSUME IndInv, NEW t \in Scopes, CancelOnce(t)
  PROVE  CancelGoes(t)
<1>1. /\ Calls(t) # <<>> /\ Here(t) \in Scopes /\ UNCHANGED item
      /\ At(t, "cancel") /\ ~At(t, "ask") /\ ~At(t, "asking") /\ ~At(t, "descend")
  BY TopTyped DEF CancelOnce, At, IndInv
<1>2. PICK pc, l, s, x, v : /\ pc = "ask" /\ l = <<>> /\ s = Here(t)
                            /\ x = "cancelled" /\ v = TRUE
  OBVIOUS
<1>3. CASE scope[s].cancelled
  <2>1. Return(t) /\ UNCHANGED scope
    BY <1>2, <1>3 DEF CancelOnce
  <2>2. Len(Calls(t)') < Depth(t)
    BY <1>1, <2>1, ReturnTurns
  <2>3. FlagsStand /\ Scopes' = Scopes
    BY <2>1, FlagsSame
  <2>4. Marks(t)
    BY <1>1, <1>2, <1>3, <2>1, <2>3, ItemsSame DEF Marks, FlagsStand
  <2> QED
    BY <1>1, <1>2, <1>3, <2>2, <2>4 DEF CancelGoes, Turns
<1>4. CASE ~scope[s].cancelled
  <2>1. Goto(t, pc, l) /\ scope' = [scope EXCEPT ![s] = [scope[s] EXCEPT ![x] = v]]
    BY <1>2, <1>4 DEF CancelOnce
  <2>2. Turned(t, pc, l)
    BY <1>1, <2>1, GotoTurns
  <2>3. x \in Fields /\ s \in Scopes
    BY <1>1, <1>2 DEF Fields
  <2>4. Only(s, x) /\ scope'[s][x] = v
    BY <2>1, <2>3, FieldSet DEF IndInv
  <2>5. scope'[s].cancelled /\ Scopes' = Scopes
    BY <1>2, <2>4 DEF Only, Scopes
  <2>6. \A n \in Scopes \ {s} : scope'[n].cancelled = scope[n].cancelled
    BY <2>4 DEF Only, Fields
  <2>7. Marks(t)
    BY <1>1, <1>2, <2>5, <2>6, ItemsSame DEF Marks
  <2> QED
    BY <1>1, <1>2, <1>4, <2>2, <2>7 DEF CancelGoes, Turns
<1> QED
  BY <1>3, <1>4

(* The cancel that copies the registry (request_cancel).                   *)
LEMMA AskSnapshotCancels ==
  ASSUME IndInv, NEW t \in Scopes, AskSnapshot(t)
  PROVE  CancelGoes(t)
<1>1. PICK pc, l : pc = "asking" /\ l = Reverse(scope[Here(t)].resource)
  OBVIOUS
<1>2. /\ Calls(t) # <<>> /\ Goto(t, pc, l) /\ UNCHANGED <<scope, item>>
      /\ ~At(t, "cancel") /\ At(t, "ask") /\ ~At(t, "asking") /\ ~At(t, "descend")
  BY <1>1 DEF AskSnapshot, At
<1>3. Turned(t, pc, l)
  BY <1>2, GotoTurns
<1> QED
  BY <1>1, <1>2, <1>3, FlagsSame, ItemsSame DEF CancelGoes, Turns, Marks

(* The cancel that has asked all and copies the children.                  *)
LEMMA CancelSnapshotCancels ==
  ASSUME IndInv, NEW t \in Scopes, CancelSnapshot(t)
  PROVE  CancelGoes(t)
<1>1. PICK pc, l : pc = "descend" /\ l = scope[Here(t)].children
  OBVIOUS
<1>2. /\ Calls(t) # <<>> /\ Goto(t, pc, l) /\ UNCHANGED <<scope, item>> /\ Todo(t) = <<>>
      /\ ~At(t, "cancel") /\ ~At(t, "ask") /\ At(t, "asking") /\ ~At(t, "descend")
  BY <1>1 DEF CancelSnapshot, At
<1>3. Turned(t, pc, l)
  BY <1>2, GotoTurns
<1> QED
  BY <1>1, <1>2, <1>3, FlagsSame, ItemsSame DEF CancelGoes, Turns, Marks

(* The cancel that asks the next resource of its copy.                     *)
LEMMA AskOneCancels ==
  ASSUME IndInv, NEW t \in Scopes, AskOne(t)
  PROVE  CancelGoes(t)
<1>1. PICK pc, l, i : pc = "asking" /\ l = Tail(Todo(t)) /\ i = Head(Todo(t))
  OBVIOUS
<1>2. /\ Calls(t) # <<>> /\ Goto(t, pc, l) /\ UNCHANGED scope /\ Todo(t) # <<>>
      /\ item' = [item EXCEPT ![i].asked = @ + 1]
      /\ ~At(t, "cancel") /\ ~At(t, "ask") /\ At(t, "asking") /\ ~At(t, "descend")
  BY <1>1 DEF AskOne, At
<1>3. Turned(t, pc, l)
  BY <1>2, GotoTurns
<1>4. i \in Items
  BY <1>1, <1>2, TopTyped, TailOfSeq DEF IndInv
<1>5. /\ Items' = Items /\ item'[i].asked = item[i].asked + 1
      /\ \A a \in Items : item'[a].calm = item[a].calm
      /\ \A a \in Items \ {i} : item'[a].asked = item[a].asked
  <2>1. item \in Seq(ItemRec(Len(scope), size.kinds)) /\ Items = 1..Len(item)
    BY DEF IndInv, Typed, Shapes, Items
  <2>2. item[i] \in ItemRec(Len(scope), size.kinds)
    BY <1>4, ItemTyped DEF IndInv
  <2> DEFINE r == [item[i] EXCEPT !.asked = @ + 1]
  <2>3. r.calm = item[i].calm /\ r.asked = item[i].asked + 1
    BY <2>2 DEF ItemRec
  <2> HIDE DEF r
  <2>4. Len(item') = Len(item) /\ \A a \in Items : item'[a] = IF a = i THEN r ELSE item[a]
    BY <1>2, <2>1 DEF r
  <2>5. Items' = Items
    BY <2>4 DEF Items
  <2> QED
    BY <1>4, <2>3, <2>4, <2>5
<1>6. \A a : AsksFor(t, a) <=> a = i
  BY <1>1, <1>2 DEF AsksFor
<1>7. Marks(t)
  BY <1>2, <1>5, <1>6, FlagsSame DEF Marks
<1>8. Turns(t)
  BY <1>1, <1>2, <1>3 DEF Turns
<1> QED
  BY <1>7, <1>8 DEF CancelGoes

(* The cancel that goes into the next child of its copy, or returns.       *)
LEMMA CancelChildCancels ==
  ASSUME IndInv, NEW t \in Scopes, CancelChild(t)
  PROVE  CancelGoes(t)
<1>1. /\ Calls(t) # <<>> /\ UNCHANGED <<scope, item>>
      /\ ~At(t, "cancel") /\ ~At(t, "ask") /\ ~At(t, "asking") /\ At(t, "descend")
  BY DEF CancelChild, At
<1>2. Marks(t)
  BY <1>1, FlagsSame, ItemsSame DEF Marks
<1>3. CASE Todo(t) = <<>>
  <2>1. Return(t)
    BY <1>3 DEF CancelChild
  <2>2. Len(Calls(t)') < Depth(t)
    BY <1>1, <2>1, ReturnTurns
  <2> QED
    BY <1>1, <1>2, <1>3, <2>2 DEF CancelGoes, Turns
<1>4. CASE Todo(t) # <<>>
  <2>1. PICK pc, l, s, entry, j, f, g :
          /\ pc = "descend" /\ l = Tail(Todo(t)) /\ s = Head(Todo(t)) /\ entry = "cancel"
          /\ j = Depth(t) - 1 /\ f = Frame(Here(t), pc, l) /\ g = Frame(s, entry, <<>>)
    OBVIOUS
  <2>2. CallFrom(t, pc, l, s, entry)
    BY <1>4, <2>1 DEF CancelChild
  <2>3. j = Depth(t) - 1 /\ f = Frame(Here(t), pc, l) /\ g = Frame(s, entry, <<>>)
    BY <2>1
  <2>4. Moves(t, j, j + 2, f, g) /\ j \in Nat /\ Depth(t) = j + 1
    BY <1>1, <2>2, <2>3, CallFromMoves
  <2>5. /\ Turned(t, pc, l) /\ Depth(t) + 1 \in 1..Len(Calls(t)')
        /\ Calls(t)'[Depth(t) + 1] = g
    BY <2>3, <2>4 DEF Moves, Turned
  <2>6. Turns(t)
    BY <1>1, <1>4, <2>1, <2>5 DEF Turns
  <2> QED
    BY <1>2, <2>6 DEF CancelGoes
<1> QED
  BY <1>3, <1>4

(* One step per kind of step.                                              *)
LEMMA TurnCancels ==
  ASSUME IndInv, Protocol, NEW t \in Scopes, Body(t) \/ Step(t)
  PROVE  CancelGoes(t)
<1>0. Tree /\ Todos
  BY DEF Protocol
<1>1. CASE Body(t)
  BY <1>1, BodyCancels
<1>2. CASE Adding(t)
  BY <1>0, <1>2, AddingCancels
<1>3. CASE Cancelling(t)
  BY <1>3, CancelOnceCancels, AskSnapshotCancels, AskOneCancels, CancelSnapshotCancels,
     CancelChildCancels DEF Cancelling
<1>4. CASE Closing(t)
  BY <1>4, ClosingCancels
<1>5. CASE DropPermit(t) \/ MarkFinished(t)
  <2>1. Calls(t) = <<>> /\ UNCHANGED <<scope, item>>
    BY <1>5 DEF DropPermit, MarkFinished, IndInv, Stacks
  <2>2. ~OnTop(t, CancelPcs)
    BY <2>1, NotCancelling
  <2> QED
    BY <2>1, <2>2, FlagsSame, ItemsSame, Elsewise
<1> QED
  BY <1>1, <1>2, <1>3, <1>4, <1>5 DEF Step

-----------------------------------------------------------------------------
(* What is invariant of the cancels.  One call asks for a scope, which is  *)
(* cancelled by then; the top call of a close has cancelled its scope; the *)
(* items of a copy are distinct and were not asked yet.                    *)
Asks == {"ask", "asking", "descend"}
OneAsker ==
    \A u, v \in Scopes : \A k \in 1..Len(Calls(u)) : \A l \in 1..Len(Calls(v)) :
        /\ Calls(u)[k].pc \in Asks /\ Calls(v)[l].pc \in Asks
        /\ Calls(u)[k].scope = Calls(v)[l].scope
        => u = v /\ k = l
Askers ==
    \A u \in Scopes : \A k \in 1..Len(Calls(u)) :
        Calls(u)[k].pc \in Asks => scope[Calls(u)[k].scope].cancelled
Passed(u, k) ==
    /\ Calls(u)[k].pc \in Past
    /\ Calls(u)[k].pc = "children" => k = Len(Calls(u))
ClosersCancel ==
    \A u \in Scopes : \A k \in 1..Len(Calls(u)) :
        Passed(u, k) => scope[Calls(u)[k].scope].cancelled
Copied(f) ==
    /\ \A a \in 1..Len(f.todo) :
         item[f.todo[a]].asked = 0 /\ item[f.todo[a]].scope = f.scope
    /\ \A a, b \in 1..Len(f.todo) : f.todo[a] = f.todo[b] => a = b
Copies ==
    \A u \in Scopes : \A k \in 1..Len(Calls(u)) :
        Calls(u)[k].pc = "asking" => Copied(Calls(u)[k])

(* Until a scope is cancelled and its copy made, nothing of it was asked.  *)
Asked ==
    \A i \in Items :
        /\ item[i].asked <= 1
        /\ ~scope[item[i].scope].cancelled \/ FrameAt(item[i].scope, {"ask"}) =>
             item[i].asked = 0
ClosedCancels ==
    \A s \in Scopes : scope[s].closed => scope[s].cancelled \/ FrameAt(s, {"cancel"})

(* A child with calm items below, or whose parent is not cancelled, is     *)
(* still known to its parent.                                              *)
CalmBelow(n) ==
    \E i \in Items : \E s \in Scopes :
        item[i].calm /\ item[i].scope = s /\ n \in Above(s)
Attended ==
    \A n \in Scopes :
        ChildOnly(n) /\ (CalmBelow(n) \/ ~scope[scope[n].parent].cancelled) => Tracked(n)

(* So the cancel of its parent reaches it, and its own cancel the items.   *)
Descending(n, p) ==
    \E u \in Scopes : \E k \in 1..Len(Calls(u)) :
        Calls(u)[k].scope = p /\ Calls(u)[k].pc = "descend" /\ In(n, Calls(u)[k].todo)
Reaching ==
    \A n \in Scopes :
        /\ ChildOnly(n) /\ CalmBelow(n)
        /\ scope[scope[n].parent].cancelled /\ scope[n].parent \notin silent
        =>
            \/ scope[n].cancelled \/ FrameAt(n, {"cancel"})
            \/ FrameAt(scope[n].parent, {"ask", "asking"})
            \/ Descending(n, scope[n].parent)
AskingFor(i) ==
    \E u \in Scopes : \E k \in 1..Len(Calls(u)) :
        Calls(u)[k].pc = "asking" /\ In(i, Calls(u)[k].todo)
Reached ==
    \A i \in Items :
        /\ item[i].calm /\ item[i].kind = "resource" /\ item[i].status = "held"
        /\ scope[item[i].scope].cancelled /\ item[i].scope \notin silent
        /\ item[i].asked = 0
        => FrameAt(item[i].scope, {"ask"}) \/ AskingFor(i)

Cancellation ==
    /\ OneAsker /\ Askers /\ ClosersCancel /\ Copies /\ Asked
    /\ ClosedCancels /\ Attended /\ Reaching /\ Reached

-----------------------------------------------------------------------------
(* Where a call that asks stands after a step of t.                        *)
Held(t, u, k) ==
    /\ u \in Scopes /\ k \in 1..Len(Calls(u)) /\ Calls(u)'[k] = Calls(u)[k]
    /\ u # t \/ k # Depth(t)
Onwards(t, pc, todo) ==
    \/ At(t, "cancel") /\ ~scope[Here(t)].cancelled /\ pc = "ask" /\ todo = <<>>
    \/ At(t, "ask") /\ pc = "asking" /\ todo = Reverse(scope[Here(t)].resource)
    \/ At(t, "asking") /\ Todo(t) # <<>> /\ pc = "asking" /\ todo = Tail(Todo(t))
    \/ At(t, "asking") /\ Todo(t) = <<>> /\ pc = "descend" /\ todo = scope[Here(t)].children
    \/ At(t, "descend") /\ Todo(t) # <<>> /\ pc = "descend" /\ todo = Tail(Todo(t))
TopCall(t, k) ==
    /\ t \in Scopes /\ k = Depth(t) /\ k \in 1..Len(Calls(t)) /\ Calls(t) # <<>>
    /\ Last(Calls(t)) = Calls(t)[k] /\ Here(t) = Calls(t)[k].scope
    /\ Todo(t) = Calls(t)[k].todo /\ Here(t) \in Scopes

(* The top call of a stack that has calls.                                 *)
LEMMA OnTopCall ==
  ASSUME IndInv, NEW t \in Scopes, Calls(t) # <<>>
  PROVE  TopCall(t, Depth(t))
<1>1. Depth(t) \in 1..Len(Calls(t)) /\ Last(Calls(t)) = Calls(t)[Depth(t)]
  BY DepthTyped DEF IndInv, Depth, Last
<1>2. Here(t) \in Scopes
  BY TopTyped DEF IndInv
<1> QED
  BY <1>1, <1>2 DEF TopCall, Here, Todo

(* A call that asks after a step did so before, or it is the top call of   *)
(* the thread that stepped, one place on.                                  *)
LEMMA AsksAfter ==
  ASSUME IndInv, NEW t, NEW j, NEW e, NEW f, NEW g, Goes(t, j, e, f, g), CancelGoes(t),
         NEW u \in Scopes', NEW k \in 1..Len(Calls(u)'), Calls(u)'[k].pc \in Asks
  PROVE  \/ Held(t, u, k)
         \/ /\ u = t /\ TopCall(t, k) /\ Calls(t)'[k].scope = Here(t)
            /\ Onwards(t, Calls(t)'[k].pc, Calls(t)'[k].todo)
<1>1. ASSUME u = t, k = Depth(t), Depth(t) # 0, Top(t).pc \in CancelPcs
      PROVE  /\ TopCall(t, k) /\ Calls(t)'[k].scope = Here(t)
             /\ Onwards(t, Calls(t)'[k].pc, Calls(t)'[k].todo)
  <2>1. t \in Scopes
    BY DEF Goes
  <2>2. TopCall(t, k)
    BY <1>1, <2>1, OnTopCall, DepthTyped DEF IndInv
  <2>3. Last(Calls(t)).pc \in CancelPcs /\ Calls(t) # <<>>
    BY <1>1, <2>2 DEF TopCall, Top
  <2>4. At(t, "cancel") \/ At(t, "ask") \/ At(t, "asking") \/ At(t, "descend")
    BY <2>3 DEF At, CancelPcs
  <2>5. ~(Len(Calls(t)') < Depth(t))
    <3>1. k \in 1..Len(Calls(t)')
      BY <1>1
    <3> QED
      BY <1>1, <3>1
  <2>6. ASSUME NEW pc, NEW todo, Turned(t, pc, todo)
        PROVE  /\ Calls(t)'[k].scope = Here(t) /\ Calls(t)'[k].pc = pc
               /\ Calls(t)'[k].todo = todo
    BY <1>1, <2>6 DEF Turned, Frame
  <2>7. Turns(t)
    BY DEF CancelGoes
  <2>8. CASE At(t, "cancel")
    <3>1. ~scope[Here(t)].cancelled /\ Turned(t, "ask", <<>>)
      BY <2>5, <2>7, <2>8 DEF Turns
    <3>2. /\ Calls(t)'[k].scope = Here(t) /\ Calls(t)'[k].pc = "ask"
          /\ Calls(t)'[k].todo = <<>>
      BY <2>6, <3>1
    <3> QED
      BY <2>2, <2>8, <3>1, <3>2 DEF Onwards
  <2>9. CASE At(t, "ask")
    <3> DEFINE l == Reverse(scope[Here(t)].resource)
    <3>1. Turned(t, "asking", l)
      BY <2>7, <2>9 DEF Turns
    <3> HIDE DEF l
    <3>2. /\ Calls(t)'[k].scope = Here(t) /\ Calls(t)'[k].pc = "asking"
          /\ Calls(t)'[k].todo = l
      BY <2>6, <3>1
    <3> QED
      BY <2>2, <2>9, <3>2 DEF Onwards, l
  <2>10. CASE At(t, "asking") /\ Todo(t) # <<>>
    <3> DEFINE l == Tail(Todo(t))
    <3>1. Turned(t, "asking", l)
      BY <2>7, <2>10 DEF Turns
    <3> HIDE DEF l
    <3>2. /\ Calls(t)'[k].scope = Here(t) /\ Calls(t)'[k].pc = "asking"
          /\ Calls(t)'[k].todo = l
      BY <2>6, <3>1
    <3> QED
      BY <2>2, <2>10, <3>2 DEF Onwards, l
  <2>11. CASE At(t, "asking") /\ Todo(t) = <<>>
    <3> DEFINE l == scope[Here(t)].children
    <3>1. Turned(t, "descend", l)
      BY <2>7, <2>11 DEF Turns
    <3> HIDE DEF l
    <3>2. /\ Calls(t)'[k].scope = Here(t) /\ Calls(t)'[k].pc = "descend"
          /\ Calls(t)'[k].todo = l
      BY <2>6, <3>1
    <3> QED
      BY <2>2, <2>11, <3>2 DEF Onwards, l
  <2>12. CASE At(t, "descend")
    <3> DEFINE l == Tail(Todo(t))
    <3>1. Turned(t, "descend", l) /\ Todo(t) # <<>>
      BY <2>5, <2>7, <2>12 DEF Turns
    <3> HIDE DEF l
    <3>2. /\ Calls(t)'[k].scope = Here(t) /\ Calls(t)'[k].pc = "descend"
          /\ Calls(t)'[k].todo = l
      BY <2>6, <3>1
    <3> QED
      BY <2>2, <2>12, <3>1, <3>2 DEF Onwards, l
  <2> QED
    BY <2>4, <2>8, <2>9, <2>10, <2>11, <2>12
<1>2. u \in Scopes /\ k \in Nat \ {0}
  BY FramesAfter
<1>3. CASE IsOld(u, k) /\ (u # t \/ k <= j)
  <2>1. CASE u # t \/ k # Depth(t)
    BY <1>3, <2>1 DEF IsOld, Held
  <2>2. CASE u = t /\ k = Depth(t)
    <3>1. Depth(t) # 0 /\ Top(t) = Calls(t)'[k]
      BY <1>2, <1>3, <2>2 DEF IsOld, Top
    <3>2. Top(t).pc \in CancelPcs
      BY <3>1, <2>2 DEF Asks, CancelPcs
    <3> QED
      BY <1>1, <2>2, <3>1, <3>2
  <2> QED
    BY <2>1, <2>2
<1>4. CASE IsF(t, j, e, f, u, k)
  <2>1. f.pc \in Asks /\ u = t /\ k = j + 1
    BY <1>4 DEF IsF
  <2>2. ~Enters(t, f)
    <3>1. EntryPcs \subseteq AddPcs \cup ChildPcs \cup SpawnPcs
      BY DEF EntryPcs, ChildPcs, SpawnPcs
    <3>2. f.pc \in CancelPcs /\ f.pc \notin {"cancel", "close"}
      BY <2>1 DEF Asks, CancelPcs
    <3> QED
      BY <3>1, <3>2, PcsApart DEF Enters
  <2>3. Depth(t) = j + 1 /\ Proceeds(t, e, j, f, g)
    BY <1>4, <2>2, WentOn
  <2>4. Top(t).pc \in CancelPcs
    <3>1. f.pc \in CancelPcs /\ f.pc \notin ClosePcs /\ f.pc \notin SpawnPcs
      BY <2>1, PcsApart DEF Asks, CancelPcs
    <3> QED
      BY <2>3, <3>1 DEF Proceeds
  <2>5. k = Depth(t) /\ Depth(t) # 0
    BY <1>2, <2>1, <2>3
  <2> QED
    BY <1>1, <2>1, <2>4, <2>5
<1>5. CASE IsG(t, j, e, f, g, u, k)
  <2>1. g.pc \in Asks /\ e = j + 2
    BY <1>5 DEF IsG
  <2> QED
    BY <2>1, Called DEF Asks
<1> QED
  BY <1>3, <1>4, <1>5, FramesAfter

(* Where a call was before the step.                                       *)
LEMMA CallsBefore ==
  ASSUME IndInv, NEW t, NEW j, NEW e, NEW f, NEW g, Goes(t, j, e, f, g),
         NEW u \in Scopes, NEW k \in 1..Len(Calls(u))
  PROVE  \/ /\ u \in Scopes' /\ k \in 1..Len(Calls(u)')
            /\ Calls(u)'[k] = Calls(u)[k]
         \/ u = t /\ TopCall(t, k)
<1>1. CASE u = t /\ k = j + 1 /\ Depth(t) = j + 1
  <2>1. t \in Scopes /\ Calls(t) # <<>>
    BY <1>1, DepthTyped DEF IndInv
  <2>2. TopCall(t, Depth(t))
    BY <2>1, OnTopCall
  <2> QED
    BY <1>1, <2>2
<1> QED
  BY <1>1, FramesBefore

(* A cancelled scope stays so; the step of a cancel on it makes it so.     *)
LEMMA StillCancelled ==
  ASSUME NEW t, CancelGoes(t), NEW s \in Scopes
  PROVE  /\ scope[s].cancelled => scope'[s].cancelled
         /\ At(t, "cancel") /\ Here(t) = s => scope'[s].cancelled
         /\ scope'[s].cancelled /\ ~scope[s].cancelled => At(t, "cancel") /\ Here(t) = s
<1>1. Marks(t)
  BY DEF CancelGoes
<1>2. CASE At(t, "cancel")
  <2>1. CASE s = Here(t)
    BY <1>1, <1>2, <2>1 DEF Marks
  <2>2. CASE s # Here(t)
    <3>1. scope'[s].cancelled = scope[s].cancelled
      BY <1>1, <1>2, <2>2 DEF Marks
    <3> QED
      BY <2>2, <3>1
  <2> QED
    BY <2>1, <2>2
<1>3. CASE ~At(t, "cancel")
  <2>1. scope'[s].cancelled = scope[s].cancelled
    BY <1>1, <1>3 DEF Marks, FlagsStand
  <2> QED
    BY <1>3, <2>1
<1> QED
  BY <1>2, <1>3

(* A call that went on asked already, or it is the first to cancel.        *)
LEMMA OnwardsFrom ==
  ASSUME NEW t, NEW k, TopCall(t, k), NEW pc, NEW todo, Onwards(t, pc, todo)
  PROVE  \/ At(t, "cancel") /\ ~scope[Here(t)].cancelled
         \/ t \in Scopes /\ k \in 1..Len(Calls(t)) /\ Calls(t)[k].pc \in Asks
            /\ Calls(t)[k].scope = Here(t)
BY DEF TopCall, Onwards, At, Asks

(* A cancel has set the flag of its scope before it asks.                  *)
LEMMA AskersKept ==
  ASSUME IndInv, Askers, NEW t, NEW j, NEW e, NEW f, NEW g, Goes(t, j, e, f, g),
         CancelGoes(t)
  PROVE  Askers'
<1> SUFFICES ASSUME NEW u \in Scopes', NEW k \in 1..Len(Calls(u)'),
                    Calls(u)'[k].pc \in Asks
             PROVE  scope'[Calls(u)'[k].scope].cancelled
  BY DEF Askers
<1>1. CASE Held(t, u, k)
  <2>1. /\ u \in Scopes /\ k \in 1..Len(Calls(u)) /\ Calls(u)[k].pc \in Asks
        /\ Calls(u)[k].scope = Calls(u)'[k].scope
    BY <1>1 DEF Held
  <2>2. scope[Calls(u)[k].scope].cancelled /\ Calls(u)[k].scope \in Scopes
    BY <2>1, CallTyped DEF Askers, IndInv
  <2> QED
    BY <2>1, <2>2, StillCancelled
<1>2. CASE /\ u = t /\ TopCall(t, k) /\ Calls(t)'[k].scope = Here(t)
           /\ Onwards(t, Calls(t)'[k].pc, Calls(t)'[k].todo)
  <2>1. \/ At(t, "cancel")
        \/ t \in Scopes /\ k \in 1..Len(Calls(t)) /\ Calls(t)[k].pc \in Asks
            /\ Calls(t)[k].scope = Here(t)
    BY <1>2, OnwardsFrom
  <2>2. At(t, "cancel") \/ scope[Here(t)].cancelled
    BY <2>1 DEF Askers
  <2>3. Here(t) \in Scopes
    BY <1>2 DEF TopCall
  <2> QED
    BY <1>2, <2>2, <2>3, StillCancelled
<1> QED
  BY <1>1, <1>2, AsksAfter

(* Two calls that ask for the same scope are one.                          *)
LEMMA NoneElseAsks ==
  ASSUME Askers, OneAsker, NEW t, NEW k, TopCall(t, k), NEW pc, NEW todo, Onwards(t, pc, todo),
         NEW v, NEW l, Held(t, v, l), Calls(v)[l].pc \in Asks, Calls(v)[l].scope = Here(t)
  PROVE  FALSE
<1>1. v \in Scopes /\ l \in 1..Len(Calls(v)) /\ (v # t \/ l # Depth(t))
  BY DEF Held
<1>2. scope[Here(t)].cancelled
  BY <1>1 DEF Askers
<1>3. t \in Scopes /\ k \in 1..Len(Calls(t)) /\ Calls(t)[k].pc \in Asks
            /\ Calls(t)[k].scope = Here(t)
  BY <1>2, OnwardsFrom
<1>4. v = t /\ l = k
  BY <1>1, <1>3 DEF OneAsker
<1> QED
  BY <1>1, <1>4 DEF TopCall

(* Only the first to cancel a scope goes on, so one call asks for it.      *)
LEMMA OneAskerKept ==
  ASSUME IndInv, Askers, OneAsker, NEW t, NEW j, NEW e, NEW f, NEW g, Goes(t, j, e, f, g),
         CancelGoes(t)
  PROVE  OneAsker'
<1> SUFFICES ASSUME NEW u \in Scopes', NEW v \in Scopes',
                    NEW k \in 1..Len(Calls(u)'), NEW l \in 1..Len(Calls(v)'),
                    Calls(u)'[k].pc \in Asks, Calls(v)'[l].pc \in Asks,
                    Calls(u)'[k].scope = Calls(v)'[l].scope
             PROVE  u = v /\ k = l
  BY DEF OneAsker
<1> DEFINE New(w, m) == /\ w = t /\ TopCall(t, m) /\ Calls(t)'[m].scope = Here(t)
                        /\ Onwards(t, Calls(t)'[m].pc, Calls(t)'[m].todo)
<1>1. Held(t, u, k) \/ New(u, k)
  BY AsksAfter
<1>2. Held(t, v, l) \/ New(v, l)
  BY AsksAfter
<1>3. CASE Held(t, u, k) /\ Held(t, v, l)
  BY <1>3 DEF Held, OneAsker
<1>4. CASE New(u, k) /\ New(v, l)
  BY <1>4 DEF TopCall
<1>5. CASE New(u, k) /\ Held(t, v, l)
  <2>1. Calls(v)[l].pc \in Asks /\ Calls(v)[l].scope = Here(t)
    BY <1>5 DEF Held
  <2> QED
    BY <1>5, <2>1, NoneElseAsks
<1>6. CASE Held(t, u, k) /\ New(v, l)
  <2>1. Calls(u)[k].pc \in Asks /\ Calls(u)[k].scope = Here(t)
    BY <1>6 DEF Held
  <2> QED
    BY <1>6, <2>1, NoneElseAsks
<1> QED
  BY <1>1, <1>2, <1>3, <1>4, <1>5, <1>6

(* The close of a scope goes on past its children only when its cancel has *)
(* returned, which has set the flag or found it set.                       *)
LEMMA ClosersCancelKept ==
  ASSUME IndInv, Chains, Askers, ClosersCancel,
         NEW t, NEW j, NEW e, NEW f, NEW g, Goes(t, j, e, f, g), CancelGoes(t)
  PROVE  ClosersCancel'
<1> SUFFICES ASSUME NEW u \in Scopes', NEW k \in 1..Len(Calls(u)'), Passed(u, k)'
             PROVE  scope'[Calls(u)'[k].scope].cancelled
  BY DEF ClosersCancel
<1>1. Calls(u)'[k].pc \in Past /\ (Calls(u)'[k].pc = "children" => k = Len(Calls(u)'))
  BY DEF Passed
<1>2. /\ u \in Scopes /\ Calls(u)'[k].scope \in Scopes
      /\ \/ /\ k \in 1..Len(Calls(u)) /\ Calls(u)[k].pc \in Past
            /\ Calls(u)[k].scope = Calls(u)'[k].scope
         \/ /\ u = t /\ k = j + 1 /\ Calls(u)'[k].pc = "children"
            /\ ~scope[Calls(u)'[k].scope].closed
  BY <1>1, PastAfter
<1>3. CASE /\ u = t /\ k = j + 1 /\ Calls(u)'[k].pc = "children"
           /\ ~scope[Calls(u)'[k].scope].closed
  <2>1. Len(Calls(t)') = j + 1 /\ j \in Nat
    BY <1>1, <1>3 DEF Goes, Moves
  <2>2. \/ IsOld(u, k) /\ (u # t \/ k <= j)
        \/ IsF(t, j, e, f, u, k) \/ IsG(t, j, e, f, g, u, k)
    BY FramesAfter
  <2>3. IsF(t, j, e, f, u, k)
    BY <1>3, <2>1, <2>2 DEF IsG
  <2>4. f.pc = "children" /\ e = j + 1
    BY <1>3, <2>1, <2>3 DEF IsF, Goes, Moves
  <2>5. ~Enters(t, f)
    <3>1. f.pc \in ClosePcs /\ f.pc \notin {"cancel", "close"}
      BY <2>4 DEF ClosePcs
    <3>3. f.pc \notin EntryPcs
      BY <3>1, EntryPcsApart
    <3> QED
      BY <3>1, <3>3 DEF Enters
  <2>6. Proceeds(t, e, j, f, g)
    BY <2>3, <2>5, WentOn
  <2>7. f.pc \notin CancelPcs /\ f.pc \notin SpawnPcs
    BY <2>4 DEF CancelPcs, SpawnPcs
  <2>8. ClosesOn(Top(t), e, j, f, g)
    BY <2>6, <2>7 DEF Proceeds
  <2>9. e = j + 2
    BY <2>4, <2>8 DEF ClosesOn
  <2> QED
    BY <2>1, <2>4, <2>9
<1>4. CASE /\ k \in 1..Len(Calls(u)) /\ Calls(u)[k].pc \in Past
           /\ Calls(u)[k].scope = Calls(u)'[k].scope
  <2>1. CASE Passed(u, k)
    <3>1. scope[Calls(u)[k].scope].cancelled
      BY <1>2, <1>4, <2>1 DEF ClosersCancel
    <3> QED
      BY <1>2, <1>4, <3>1, StillCancelled
  <2>2. CASE ~Passed(u, k)
    <3>1. Calls(u)[k].pc = "children" /\ k # Len(Calls(u))
      BY <1>4, <2>2 DEF Passed
    <3>2. Len(Calls(u)) \in Nat /\ Depth(u) = Len(Calls(u)) /\ k \in Nat /\ k < Depth(u)
      <4>1. Len(Calls(u)) \in Nat /\ Depth(u) = Len(Calls(u))
        BY <1>2, DepthTyped DEF IndInv, Depth
      <4> QED
        BY <1>4, <3>1, <4>1
    <3>3. Calls(u)'[k] = Calls(u)[k]
      <4>1. ~(u = t /\ TopCall(t, k))
        BY <3>2 DEF TopCall
      <4> QED
        BY <1>2, <1>4, <4>1, CallsBefore
    <3>4. k = Len(Calls(u)')
      BY <1>1, <3>1, <3>3
    <3>5. u = t
      <4>1. u # t => Calls(u)' = Calls(u)
        BY <1>2 DEF Goes, Moves
      <4> QED
        BY <3>1, <3>4, <4>1
    <3>6. Depth(t) = k + 1 /\ Len(Calls(t)') < Depth(t)
      <4>1. /\ j \in Nat /\ Depth(t) <= j + 1 /\ Len(Calls(t)') = e
            /\ e \in {j, j + 1, j + 2} /\ (e > j => Depth(t) = j + 1 \/ (Depth(t) = 0 /\ e = 1))
        BY DEF Goes, Moves
      <4>2. k = e /\ k < Depth(t) /\ Depth(t) \in Nat
        BY <3>2, <3>4, <3>5, <4>1
      <4> QED
        BY <4>1, <4>2
    <3>7. TopCall(t, k + 1)
      <4>1. Calls(t) # <<>> /\ t \in Scopes
        BY <1>2, <3>2, <3>5, <3>6, DepthTyped DEF IndInv
      <4> QED
        BY <3>6, <4>1, OnTopCall
    <3>8. Follows(Calls(t)[k], Calls(t)[k + 1])
      <4>1. k \in 1..Len(Calls(t)) - 1
        BY <1>4, <3>2, <3>5
      <4> QED
        BY <1>2, <3>5, <4>1 DEF Chains
    <3>9. Last(Calls(t)).pc \in CancelPcs /\ Here(t) = Calls(t)[k].scope /\ Calls(t) # <<>>
      BY <3>1, <3>5, <3>7, <3>8 DEF Follows, TopCall
    <3>10. scope[Here(t)].cancelled
      <4>1. At(t, "cancel") \/ At(t, "ask") \/ At(t, "asking") \/ At(t, "descend")
        BY <3>9 DEF At, CancelPcs
      <4>2. Turns(t)
        BY DEF CancelGoes
      <4>3. CASE At(t, "cancel")
        <5>1. ASSUME Turned(t, "ask", <<>>) PROVE FALSE
          <6>1. Depth(t) \in 1..Len(Calls(t)')
            BY <5>1 DEF Turned
          <6> QED
            BY <3>6, <6>1
        <5> QED
          BY <4>2, <4>3, <5>1 DEF Turns
      <4>4. CASE ~At(t, "cancel")
        <5>1. Calls(t)[k + 1].pc \in Asks /\ Calls(t)[k + 1].scope = Here(t)
              /\ k + 1 \in 1..Len(Calls(t)) /\ t \in Scopes
          BY <3>7, <4>1, <4>4 DEF TopCall, At, Asks
        <5> QED
          BY <5>1 DEF Askers
      <4> QED
        BY <4>3, <4>4
    <3> QED
      BY <1>2, <1>4, <3>5, <3>9, <3>10, StillCancelled
  <2> QED
    BY <2>1, <2>2
<1> QED
  BY <1>2, <1>3, <1>4

(* What a step does to the items: the one asked for is counted, and no     *)
(* other; a new one was not asked, and is calm when nothing above is       *)
(* cancelled.                                                              *)
LEMMA ItemsAfter ==
  ASSUME IndInv, NEW t, NEW j, NEW e, NEW f, NEW g, Goes(t, j, e, f, g), CancelGoes(t)
  PROVE  /\ Items \subseteq Items'
         /\ \A i \in Items : /\ item'[i].scope = item[i].scope
                             /\ item'[i].kind = item[i].kind
                             /\ item'[i].calm = item[i].calm
                             /\ item'[i].status = "held" => item[i].status = "held"
                             /\ ~AsksFor(t, i) => item'[i].asked = item[i].asked
                             /\ AsksFor(t, i) => item'[i].asked = item[i].asked + 1
         /\ \A i \in Items' \ Items :
              /\ item'[i].asked = 0
              /\ item'[i].calm => \A a \in Above(item'[i].scope) : ~scope'[a].cancelled
<1>1. Marks(t)
  BY DEF CancelGoes
<1>2. Items \subseteq Items'
  <2>1. Len(item) \in Nat
    BY DEF IndInv, Typed
  <2> QED
    BY <2>1 DEF Goes, ItemsGo, Items
<1>3. \A i \in Items : /\ item'[i].scope = item[i].scope /\ item'[i].kind = item[i].kind
                       /\ item'[i].status = "held" => item[i].status = "held"
  BY DEF Goes, ItemsGo
<1>4. CASE At(t, "asking") /\ Todo(t) # <<>>
  <2>1. Items' = Items /\ \A i \in Items : item'[i].calm = item[i].calm
    BY <1>1, <1>4 DEF Marks
  <2>2. \A i \in Items : AsksFor(t, i) => item'[i].asked = item[i].asked + 1
    BY <1>1, <1>4 DEF Marks
  <2>3. \A i \in Items : ~AsksFor(t, i) => item'[i].asked = item[i].asked
    BY <1>1, <1>4 DEF Marks
  <2> QED
    BY <1>2, <1>3, <2>1, <2>2, <2>3
<1>5. CASE ~(At(t, "asking") /\ Todo(t) # <<>>)
  <2>1. ItemsStand
    BY <1>1, <1>5 DEF Marks
  <2>2. \A i \in Items : ~AsksFor(t, i)
    BY <1>5 DEF AsksFor
  <2>3. \A i \in Items : item'[i].calm = item[i].calm /\ item'[i].asked = item[i].asked
    BY <2>1 DEF ItemsStand
  <2>4. \A i \in Items' \ Items :
              /\ item'[i].asked = 0
              /\ item'[i].calm => \A a \in Above(item'[i].scope) : ~scope'[a].cancelled
    BY <2>1 DEF ItemsStand
  <2> QED
    BY <1>2, <1>3, <2>2, <2>3, <2>4
<1> QED
  BY <1>4, <1>5

(* A call at one of these places stays, unless it is the one that moves.   *)
LEMMA FrameStays ==
  ASSUME IndInv, NEW t, NEW j, NEW e, NEW f, NEW g, Goes(t, j, e, f, g),
         NEW s, NEW pcs, FrameAt(s, pcs)
  PROVE  \/ FrameAt(s, pcs)'
         \/ Here(t) = s /\ \E pc \in pcs : At(t, pc) /\ TopCall(t, Depth(t))
<1>1. PICK u \in Scopes : \E k \in 1..Len(Calls(u)) :
             Calls(u)[k].scope = s /\ Calls(u)[k].pc \in pcs
  BY DEF FrameAt
<1>2. PICK k \in 1..Len(Calls(u)) : Calls(u)[k].scope = s /\ Calls(u)[k].pc \in pcs
  BY <1>1
<1>3. CASE u \in Scopes' /\ k \in 1..Len(Calls(u)') /\ Calls(u)'[k] = Calls(u)[k]
  BY <1>2, <1>3 DEF FrameAt
<1>4. CASE u = t /\ TopCall(t, k)
  BY <1>2, <1>4 DEF TopCall, At
<1> QED
  BY <1>3, <1>4, CallsBefore

(* The item asked for is in the copy of the top call, of the same scope.   *)
LEMMA AskedOfTop ==
  ASSUME IndInv, Copies, NEW t \in Scopes, NEW i, AsksFor(t, i)
  PROVE  /\ TopCall(t, Depth(t)) /\ Calls(t)[Depth(t)].pc = "asking"
         /\ Here(t) = Calls(t)[Depth(t)].scope
         /\ i \in Items /\ item[i].asked = 0 /\ item[i].scope = Here(t)
<1>1. Calls(t) # <<>> /\ At(t, "asking") /\ Todo(t) # <<>> /\ Head(Todo(t)) = i
  BY DEF AsksFor, At
<1>2. TopCall(t, Depth(t))
  BY <1>1, OnTopCall
<1>3. PICK k : k = Depth(t)
  OBVIOUS
<1>4. /\ k \in 1..Len(Calls(t)) /\ Calls(t)[k].pc = "asking"
      /\ Here(t) = Calls(t)[k].scope /\ Todo(t) = Calls(t)[k].todo
  BY <1>1, <1>2, <1>3 DEF TopCall, At
<1>5. Todo(t) \in Seq(Items)
  BY <1>4, CallTyped DEF IndInv
<1>6. 1 \in 1..Len(Todo(t)) /\ Todo(t)[1] = i /\ i \in Items
  BY <1>1, <1>5
<1>7. Copied(Calls(t)[k])
  BY <1>4 DEF Copies
<1>8. item[i].asked = 0 /\ item[i].scope = Calls(t)[k].scope
  BY <1>4, <1>6, <1>7 DEF Copied
<1> QED
  BY <1>2, <1>3, <1>4, <1>6, <1>8

(* A copy stays as it is: only the top call of the scope asks its items.   *)
LEMMA HeldCopy ==
  ASSUME IndInv, OneAsker, Copies, NEW t, NEW j, NEW e, NEW f, NEW g,
         Goes(t, j, e, f, g), CancelGoes(t),
         NEW u, NEW k, Held(t, u, k), NEW r, r = Calls(u)[k], r.pc = "asking"
  PROVE  Copied(r)'
<1>1. u \in Scopes /\ k \in 1..Len(Calls(u)) /\ Calls(u)'[k] = Calls(u)[k]
  BY DEF Held
<1>2. t \in Scopes
  BY DEF Goes
<1>4. Copied(r) /\ r.todo \in Seq(Items)
  BY <1>1, CallTyped DEF Copies, IndInv
<1>5. ASSUME NEW a \in 1..Len(r.todo)
      PROVE  item'[r.todo[a]].asked = 0 /\ item'[r.todo[a]].scope = r.scope
  <2>1. PICK i : i = r.todo[a]
    OBVIOUS
  <2>2. i \in Items /\ item[i].asked = 0 /\ item[i].scope = r.scope
    BY <1>4, <2>1 DEF Copied
  <2>3. ASSUME AsksFor(t, i) PROVE FALSE
    <3>1. /\ TopCall(t, Depth(t)) /\ Calls(t)[Depth(t)].pc \in Asks
          /\ Calls(t)[Depth(t)].scope = r.scope
      BY <1>2, <2>2, <2>3, AskedOfTop DEF Asks
    <3>2. Calls(u)[k].pc \in Asks /\ Calls(u)[k].scope = r.scope
      BY DEF Asks
    <3>3. PICK d : d = Depth(t)
      OBVIOUS
    <3>4. d \in 1..Len(Calls(t)) /\ Calls(t)[d].pc \in Asks /\ Calls(t)[d].scope = r.scope
      BY <3>1, <3>3 DEF TopCall
    <3>5. u = t /\ k = d
      BY <1>1, <1>2, <3>2, <3>4 DEF OneAsker
    <3> QED
      BY <3>3, <3>5 DEF Held
  <2>4. item'[i].asked = 0 /\ item'[i].scope = r.scope
    BY <2>2, <2>3, ItemsAfter
  <2> QED
    BY <2>1, <2>4
<1>6. \A a, b \in 1..Len(r.todo) : r.todo[a] = r.todo[b] => a = b
  BY <1>4 DEF Copied
<1> QED
  BY <1>5, <1>6 DEF Copied

(* The copy of a registry holds distinct items, which were not asked.      *)
LEMMA TailDistinct ==
  ASSUME NEW S, NEW l \in Seq(S), l # <<>>
  PROVE  /\ Tail(l) \in Seq(S) /\ Len(Tail(l)) = Len(l) - 1
         /\ \A a \in 1..Len(Tail(l)) : a + 1 \in 1..Len(l) /\ Tail(l)[a] = l[a + 1]
         /\ 1 \in 1..Len(l) /\ Head(l) = l[1]
OBVIOUS

(* A registry turned round has the same items, each once.                  *)
LEMMA ReverseDistinct ==
  ASSUME NEW S \in SUBSET Nat, NEW l \in Seq(S), Rising(l)
  PROVE  /\ \A a \in 1..Len(Reverse(l)) : In(Reverse(l)[a], l)
         /\ \A a, b \in 1..Len(Reverse(l)) : Reverse(l)[a] = Reverse(l)[b] => a = b
<1> DEFINE n == Len(l)
           r == Reverse(l)
<1>1. n \in Nat
  OBVIOUS
<1>2. Len(r) = n /\ \A a \in 1..n : r[a] = l[n - a + 1]
  BY DEF Reverse
<1>3. \A a \in 1..n : l[a] \in Nat
  <2>1. \A a \in 1..n : l[a] \in S
    OBVIOUS
  <2> QED
    BY <2>1
<1> HIDE DEF n, r
<1>4. \A a, b \in 1..n : l[a] = l[b] => a = b
  <2> SUFFICES ASSUME NEW a \in 1..n, NEW b \in 1..n, l[a] = l[b], a # b PROVE FALSE
    OBVIOUS
  <2>1. a < b \/ b < a
    BY <1>1
  <2>2. l[a] < l[b] \/ l[b] < l[a]
    BY <2>1 DEF Rising, n
  <2> QED
    BY <1>3, <2>2
<1>5. \A a \in 1..n : n - a + 1 \in 1..n
  BY <1>1
<1>6. \A a \in 1..n : In(r[a], l)
  BY <1>2, <1>5 DEF In, n
<1>7. ASSUME NEW a \in 1..n, NEW b \in 1..n, r[a] = r[b] PROVE a = b
  <2>1. l[n - a + 1] = l[n - b + 1]
    BY <1>2, <1>7
  <2>2. n - a + 1 = n - b + 1
    BY <1>4, <1>5, <2>1
  <2> QED
    BY <1>1, <2>2
<1> QED
  BY <1>2, <1>6, <1>7 DEF r

(* The cancel copies a registry whose items nobody asked, and takes the    *)
(* items it asks off its copy.                                             *)
LEMMA CopiesKept ==
  ASSUME IndInv, Lists, OneAsker, Asked, Copies, NEW t, NEW j, NEW e, NEW f, NEW g,
         Goes(t, j, e, f, g), CancelGoes(t)
  PROVE  Copies'
<1> SUFFICES ASSUME NEW u \in Scopes', NEW k \in 1..Len(Calls(u)'),
                    NEW r, r = Calls(u)'[k], r.pc = "asking"
             PROVE  Copied(r)'
  BY DEF Copies
<1>1. Calls(u)'[k].pc \in Asks
  BY DEF Asks
<1>2. CASE Held(t, u, k)
  <2>1. r = Calls(u)[k]
    BY <1>2 DEF Held
  <2> QED
    BY <1>2, <2>1, HeldCopy
<1>3. CASE /\ u = t /\ TopCall(t, k) /\ Calls(t)'[k].scope = Here(t)
           /\ Onwards(t, Calls(t)'[k].pc, Calls(t)'[k].todo)
  <2>1. r = Calls(t)'[k]
    BY <1>3
  <2>2. r.scope = Here(t) /\ r.pc = "asking" /\ t \in Scopes /\ k \in 1..Len(Calls(t))
        /\ Here(t) \in Scopes /\ Here(t) = Calls(t)[k].scope /\ Todo(t) = Calls(t)[k].todo
    BY <1>3, <2>1 DEF TopCall
  <2>3. SUFFICES /\ \A a \in 1..Len(r.todo) :
                      item'[r.todo[a]].asked = 0 /\ item'[r.todo[a]].scope = r.scope
                 /\ \A a, b \in 1..Len(r.todo) : r.todo[a] = r.todo[b] => a = b
    BY <2>3 DEF Copied
  <2>4. CASE At(t, "ask")
    <3>1. r.todo = Reverse(scope[Here(t)].resource)
      BY <1>3, <2>1, <2>4 DEF Onwards, At
    <3>2. PICK l : l = scope[Here(t)].resource
      OBVIOUS
    <3>3. l \in Seq(Items) /\ Rising(l) /\ Items \subseteq Nat
      <4>1. scope[Here(t)].resource \in Seq(Items)
        BY <2>2, ListsAfter
      <4>2. Len(item) \in Nat
        BY DEF IndInv, Typed
      <4> QED
        BY <2>2, <3>2, <4>1, <4>2 DEF Lists, Items
    <3>4. /\ \A a \in 1..Len(r.todo) : In(r.todo[a], l)
          /\ \A a, b \in 1..Len(r.todo) : r.todo[a] = r.todo[b] => a = b
      <4>1. r.todo = Reverse(l)
        BY <3>1, <3>2
      <4> QED
        BY <3>3, <4>1, ReverseDistinct
    <3>5. FrameAt(Here(t), {"ask"})
      BY <1>3, <2>2, <2>4 DEF FrameAt, TopCall, At
    <3>6. ASSUME NEW a \in 1..Len(r.todo)
          PROVE  item'[r.todo[a]].asked = 0 /\ item'[r.todo[a]].scope = r.scope
      <4>1. PICK b \in 1..Len(l) : l[b] = r.todo[a]
        BY <3>4 DEF In
      <4>2. l[b] \in Items /\ item[l[b]].scope = Here(t)
        BY <2>2, <3>2, <3>3 DEF Lists
      <4>3. item[l[b]].asked = 0
        BY <3>5, <4>2 DEF Asked
      <4>4. ~AsksFor(t, l[b])
        BY <2>4 DEF AsksFor, At
      <4>5. item'[l[b]].asked = item[l[b]].asked /\ item'[l[b]].scope = item[l[b]].scope
        BY <4>2, <4>4, ItemsAfter
      <4> QED
        BY <2>2, <4>1, <4>2, <4>3, <4>5
    <3> QED
      BY <3>4, <3>6
  <2>5. CASE At(t, "asking")
    <3>1. r.todo = Tail(Todo(t)) /\ Todo(t) # <<>>
      BY <1>3, <2>1, <2>2, <2>5 DEF Onwards, At
    <3>2. Calls(t)[k].pc = "asking"
      BY <1>3, <2>5 DEF TopCall, At
    <3>3. PICK l : l = Todo(t)
      OBVIOUS
    <3>4. l \in Seq(Items) /\ l # <<>> /\ r.todo = Tail(l)
      <4>1. Calls(t)[k].todo \in Seq(Items)
        BY <2>2, <3>2, CallTyped DEF IndInv
      <4> QED
        BY <2>2, <3>1, <3>3, <4>1
    <3>5. /\ \A a \in 1..Len(l) : item[l[a]].asked = 0 /\ item[l[a]].scope = Here(t)
          /\ \A a, b \in 1..Len(l) : l[a] = l[b] => a = b
      <4>1. Copied(Calls(t)[k])
        BY <2>2, <3>2 DEF Copies
      <4> QED
        BY <2>2, <3>3, <4>1 DEF Copied
    <3>6. /\ \A a \in 1..Len(r.todo) : a + 1 \in 1..Len(l) /\ r.todo[a] = l[a + 1]
          /\ Len(r.todo) \in Nat /\ 1 \in 1..Len(l) /\ Head(l) = l[1] /\ Len(l) \in Nat
      BY <3>4, TailDistinct
    <3>7. ASSUME NEW a \in 1..Len(r.todo)
          PROVE  item'[r.todo[a]].asked = 0 /\ item'[r.todo[a]].scope = r.scope
      <4>1. a + 1 \in 1..Len(l) /\ r.todo[a] = l[a + 1] /\ a + 1 # 1
        BY <3>6
      <4>2. l[a + 1] \in Items
        BY <3>4, <4>1
      <4>3. item[l[a + 1]].asked = 0 /\ item[l[a + 1]].scope = Here(t)
        BY <3>5, <4>1
      <4>4. l[a + 1] # l[1]
        BY <3>5, <3>6, <4>1
      <4>5. ~AsksFor(t, l[a + 1])
        BY <3>3, <3>6, <4>4 DEF AsksFor
      <4>6. PICK i : i = l[a + 1]
        OBVIOUS
      <4>7. item'[i].asked = item[i].asked /\ item'[i].scope = item[i].scope
        BY <4>2, <4>5, <4>6, ItemsAfter
      <4> QED
        BY <2>2, <4>1, <4>3, <4>6, <4>7
    <3>8. ASSUME NEW a \in 1..Len(r.todo), NEW b \in 1..Len(r.todo), r.todo[a] = r.todo[b]
          PROVE  a = b
      <4>1. a + 1 \in 1..Len(l) /\ b + 1 \in 1..Len(l) /\ l[a + 1] = l[b + 1]
        BY <3>6, <3>8
      <4>2. a + 1 = b + 1
        BY <3>5, <4>1
      <4> QED
        BY <3>6, <4>2
    <3> QED
      BY <3>7, <3>8
  <2> QED
    BY <1>3, <2>1, <2>2, <2>4, <2>5 DEF Onwards
<1> QED
  BY <1>1, <1>2, <1>3, AsksAfter

(* An item is asked when it is the next of the copy, never asked before,   *)
(* and its scope is cancelled, with no copy to be made of it any more.     *)
LEMMA AskedKept ==
  ASSUME IndInv, Askers, OneAsker, OneAsker', Copies, Asked,
         NEW t, NEW j, NEW e, NEW f, NEW g, Goes(t, j, e, f, g), CancelGoes(t)
  PROVE  Asked'
<1> SUFFICES ASSUME NEW i \in Items', NEW s, s = item'[i].scope
             PROVE  /\ item'[i].asked <= 1
                    /\ ~scope'[s].cancelled \/ FrameAt(s, {"ask"})' => item'[i].asked = 0
  BY DEF Asked
<1>0. t \in Scopes
  BY DEF Goes
<1>1. CASE i \notin Items
  BY <1>1, ItemsAfter
<1>2. CASE i \in Items /\ AsksFor(t, i)
  <2>1. /\ TopCall(t, Depth(t)) /\ Calls(t)[Depth(t)].pc = "asking"
        /\ Here(t) = Calls(t)[Depth(t)].scope
        /\ item[i].asked = 0 /\ item[i].scope = Here(t)
    BY <1>0, <1>2, AskedOfTop
  <2>2. item'[i].asked = 1 /\ s = Here(t)
    BY <1>2, <2>1, ItemsAfter
  <2>3. Here(t) \in Scopes /\ scope[Here(t)].cancelled
    BY <1>0, <2>1 DEF TopCall, Askers, Asks
  <2>4. scope'[Here(t)].cancelled
    BY <2>3, StillCancelled
  <2>5. ASSUME FrameAt(s, {"ask"})' PROVE FALSE
    <3>1. PICK u \in Scopes' : \E k \in 1..Len(Calls(u)') :
              Calls(u)'[k].scope = Here(t) /\ Calls(u)'[k].pc = "ask"
      BY <2>2, <2>5 DEF FrameAt
    <3>2. PICK k \in 1..Len(Calls(u)') : Calls(u)'[k].scope = Here(t) /\ Calls(u)'[k].pc = "ask"
      BY <3>1
    <3>3. CASE Held(t, u, k)
      <4>1. Calls(u)[k].pc \in Asks /\ Calls(u)[k].scope = Here(t)
            /\ u \in Scopes /\ k \in 1..Len(Calls(u)) /\ (u # t \/ k # Depth(t))
        BY <3>2, <3>3 DEF Held, Asks
      <4>2. PICK d : d = Depth(t)
        OBVIOUS
      <4>3. d \in 1..Len(Calls(t)) /\ Calls(t)[d].pc \in Asks /\ Calls(t)[d].scope = Here(t)
        BY <2>1, <4>2 DEF TopCall, Asks
      <4>4. u = t /\ k = d
        BY <1>0, <4>1, <4>3 DEF OneAsker
      <4> QED
        BY <4>1, <4>2, <4>4
    <3>4. CASE Onwards(t, Calls(u)'[k].pc, Calls(u)'[k].todo)
      <4>1. At(t, "cancel")
        BY <3>2, <3>4 DEF Onwards
      <4> QED
        BY <1>2, <4>1 DEF AsksFor, At
    <3>5. Calls(u)'[k].pc \in Asks
      BY <3>2 DEF Asks
    <3> QED
      BY <3>3, <3>4, <3>5, AsksAfter
  <2> QED
    BY <2>2, <2>4, <2>5
<1>3. CASE i \in Items /\ ~AsksFor(t, i)
  <2>1. item'[i].asked = item[i].asked /\ item'[i].scope = item[i].scope
    BY <1>3, ItemsAfter
  <2>3. s = item[i].scope
    BY <2>1
  <2>2. item[i].scope \in Scopes /\ item[i].asked <= 1
    BY <1>3, ItemTypes DEF Asked
  <2>4. ASSUME ~scope'[s].cancelled PROVE item[i].asked = 0
    <3>1. ~scope[s].cancelled
      BY <2>2, <2>3, <2>4, StillCancelled
    <3> QED
      BY <1>3, <2>3, <3>1 DEF Asked
  <2>5. ASSUME FrameAt(s, {"ask"})' PROVE item[i].asked = 0
    <3>1. PICK u \in Scopes' : \E k \in 1..Len(Calls(u)') :
              Calls(u)'[k].scope = s /\ Calls(u)'[k].pc = "ask"
      BY <2>5 DEF FrameAt
    <3>2. PICK k \in 1..Len(Calls(u)') : Calls(u)'[k].scope = s /\ Calls(u)'[k].pc = "ask"
      BY <3>1
    <3>3. CASE Held(t, u, k)
      <4>1. FrameAt(s, {"ask"})
        BY <3>2, <3>3 DEF Held, FrameAt
      <4> QED
        BY <1>3, <2>3, <4>1 DEF Asked
    <3>4. CASE u = t /\ Calls(t)'[k].scope = Here(t)
               /\ Onwards(t, Calls(t)'[k].pc, Calls(t)'[k].todo)
      <4>1. ~scope[Here(t)].cancelled /\ Here(t) = s
        BY <3>2, <3>4 DEF Onwards
      <4> QED
        BY <1>3, <2>3, <4>1 DEF Asked
    <3>5. Calls(u)'[k].pc \in Asks
      BY <3>2 DEF Asks
    <3> QED
      BY <3>3, <3>4, <3>5, AsksAfter
  <2>6. item'[i].asked <= 1
    BY <2>1, <2>2
  <2> QED
    BY <2>1, <2>4, <2>5, <2>6
<1> QED
  BY <1>1, <1>2, <1>3

(* A call that stays on the stack is there after the step.                 *)
LEMMA TurnedHere ==
  ASSUME NEW t, NEW j, NEW e, NEW f, NEW g, IndInv, Goes(t, j, e, f, g),
         NEW pc, NEW todo, Turned(t, pc, todo), NEW s, s = Here(t)
  PROVE  /\ t \in Scopes'
         /\ \E k \in 1..Len(Calls(t)') : Calls(t)'[k] = Frame(s, pc, todo)
BY ScopesAfter DEF Turned

(* So it is seen by whoever looks for calls on its scope.                  *)
LEMMA TurnedAt ==
  ASSUME NEW t, NEW j, NEW e, NEW f, NEW g, IndInv, Goes(t, j, e, f, g),
         NEW pc, NEW todo, Turned(t, pc, todo), NEW s, s = Here(t)
  PROVE  FrameAt(s, {pc})'
<1>1. t \in Scopes' /\ \E k \in 1..Len(Calls(t)') : Calls(t)'[k] = Frame(s, pc, todo)
  BY TurnedHere
<1>2. PICK k \in 1..Len(Calls(t)') : Calls(t)'[k] = Frame(s, pc, todo)
  BY <1>1
<1>3. Calls(t)'[k].scope = s /\ Calls(t)'[k].pc \in {pc}
  BY <1>2 DEF Frame
<1> QED
  BY <1>1, <1>3 DEF FrameAt

(* The close that set the flag cancels the scope in the same step.         *)
LEMMA ClosesCancelling ==
  ASSUME IndInv, NEW t, NEW j, NEW e, NEW f, NEW g, Goes(t, j, e, f, g),
         Depth(t) = j + 1, e > j, f.pc = "children", NEW s, f.scope = s
  PROVE  FrameAt(s, {"cancel"})'
<1>1. t \in Scopes /\ t \in Scopes' /\ j \in Nat /\ e \in Nat
  BY ScopesAfter
<1>2. /\ Len(Calls(t)') = e /\ e \in {j + 1, j + 2}
      /\ Calls(t)'[j + 1] = f /\ (e = j + 2 => Calls(t)'[j + 2] = g)
  BY <1>1 DEF Goes, Moves
<1>3. PICK k : k = j + 1
  OBVIOUS
<1>4. IsF(t, j, e, f, t, k)
  BY <1>2, <1>3 DEF IsF
<1>5. ~Enters(t, f)
  <2>1. f.pc \in ClosePcs /\ f.pc \notin {"cancel", "close"}
    BY DEF ClosePcs
  <2>2. f.pc \notin EntryPcs
    BY <2>1, EntryPcsApart
  <2> QED
    BY <2>1, <2>2 DEF Enters
<1>6. Proceeds(t, e, j, f, g)
  BY <1>4, <1>5, WentOn
<1>7. f.pc \notin CancelPcs /\ f.pc \notin SpawnPcs
  BY DEF CancelPcs, SpawnPcs
<1>8. ClosesOn(Top(t), e, j, f, g)
  BY <1>6, <1>7 DEF Proceeds
<1>9. e = j + 2
  BY <1>8 DEF ClosesOn
<1>10. Follows(f, g) /\ g.pc \in {"cancel", "close"}
  BY <1>9, Called
<1>11. g.pc = "cancel" /\ g.scope = s
  <2>1. g.pc \in CancelPcs /\ g.scope = s
    BY <1>10 DEF Follows
  <2>2. g.pc # "close"
    BY <2>1 DEF CancelPcs
  <2> QED
    BY <1>10, <2>1, <2>2
<1>12. j + 2 \in 1..Len(Calls(t)')
  BY <1>1, <1>2, <1>9
<1>13. PICK m \in 1..Len(Calls(t)') : Calls(t)'[m] = g
  BY <1>2, <1>9, <1>12
<1> QED
  BY <1>1, <1>11, <1>13 DEF FrameAt

(* A closed scope is cancelled, or its cancel is the next call of the      *)
(* close.                                                                  *)
LEMMA ClosedCancelsKept ==
  ASSUME IndInv, ClosedCancels, NEW t, NEW j, NEW e, NEW f, NEW g,
         Goes(t, j, e, f, g), CancelGoes(t)
  PROVE  ClosedCancels'
<1> SUFFICES ASSUME NEW s \in Scopes', scope'[s].closed
             PROVE  scope'[s].cancelled \/ FrameAt(s, {"cancel"})'
  BY DEF ClosedCancels
<1>1. s \in Scopes
  BY DEF Goes, Arrivals, Arrives
<1>2. CASE scope[s].closed /\ scope[s].cancelled
  BY <1>1, <1>2, StillCancelled
<1>3. CASE scope[s].closed /\ FrameAt(s, {"cancel"})
  <2>1. FrameAt(s, {"cancel"})' \/ (Here(t) = s /\ At(t, "cancel"))
    <3>1. PICK pcs : pcs = {"cancel"}
      OBVIOUS
    <3>2. FrameAt(s, pcs)' \/ (Here(t) = s /\ \E pc \in pcs : At(t, pc))
      BY <1>3, <3>1, FrameStays
    <3> QED
      BY <3>1, <3>2
  <2> QED
    BY <1>1, <2>1, StillCancelled
<1>4. CASE ~scope[s].closed
  <2>1. Depth(t) = j + 1 /\ e > j /\ f.scope = s /\ f.pc = "children"
    BY <1>1, <1>4 DEF Goes, FlagsGo
  <2> QED
    BY <2>1, ClosesCancelling
<1> QED
  BY <1>1, <1>2, <1>3, <1>4 DEF ClosedCancels

-----------------------------------------------------------------------------
(* Calm items below a scope were below it before, but for a new one, above *)
(* which nothing is cancelled.                                             *)
LEMMA ItemScope ==
  ASSUME IndInv, Tree, NEW t, NEW j, NEW e, NEW f, NEW g, Goes(t, j, e, f, g),
         NEW i \in Items'
  PROVE  item'[i].scope \in Scopes
<1>1. CASE i \in Items
  <2>1. item'[i].scope = item[i].scope
    BY <1>1 DEF Goes, ItemsGo
  <2> QED
    BY <1>1, <2>1, ItemTypes
<1>2. CASE i \notin Items
  <2>1. item'[i].scope = thread[t].home /\ t \in Scopes
    BY <1>2 DEF Goes, ItemsGo
  <2> QED
    BY <2>1, TreeOf
<1> QED
  BY <1>1, <1>2

(* So a scope with calm items below had them before, or its parent is not  *)
(* cancelled.                                                              *)
LEMMA CalmFrom ==
  ASSUME IndInv, Tree, IndInv', Tree', NEW t, NEW j, NEW e, NEW f, NEW g,
         Goes(t, j, e, f, g), CancelGoes(t), NEW n, CalmBelow(n)'
  PROVE  /\ n \in Scopes
         /\ n # Root => CalmBelow(n) \/ ~scope'[scope[n].parent].cancelled
<1>1. PICK i \in Items' : \E s \in Scopes' :
             item'[i].calm /\ item'[i].scope = s /\ n \in Above(s)'
  BY DEF CalmBelow
<1>2. PICK s \in Scopes' : item'[i].calm /\ item'[i].scope = s /\ n \in Above(s)'
  BY <1>1
<1>3. s \in Scopes
  BY <1>2, ItemScope
<1>4. n \in Above(s)
  <2>1. Grows
    BY DEF Goes
  <2>2. Above(s)' = Above(s)
    BY <1>3, <2>1, AboveKept
  <2> QED
    BY <1>2, <2>2
<1>5. Line(s)
  BY <1>3, Lines
<1>6. n \in Scopes /\ (n # Root => scope[n].parent \in Above(s))
  BY <1>4, <1>5 DEF Line
<1>7. CASE i \in Items
  <2>1. item[i].calm /\ item[i].scope = s
    BY <1>2, <1>7, ItemsAfter
  <2>2. CalmBelow(n)
    BY <1>3, <1>4, <1>7, <2>1 DEF CalmBelow
  <2> QED
    BY <1>6, <2>2
<1>8. CASE i \notin Items
  <2>1. \A a \in Above(item'[i].scope) : ~scope'[a].cancelled
    BY <1>2, <1>8, ItemsAfter
  <2>2. \A a \in Above(s) : ~scope'[a].cancelled
    BY <1>2, <2>1
  <2> QED
    BY <1>6, <2>2
<1> QED
  BY <1>7, <1>8

(* A parent keeps such a child: a drain of its children comes after its    *)
(* cancel, and a child inserted after that has a cancelled parent and no   *)
(* calm items.                                                             *)
LEMMA AttendedKept ==
  ASSUME IndInv, Tree, IndInv', Tree', Attended, ClosersCancel',
         NEW t, NEW j, NEW e, NEW f, NEW g, Goes(t, j, e, f, g), CancelGoes(t)
  PROVE  Attended'
<1> SUFFICES ASSUME NEW n \in Scopes', ChildOnly(n)',
                    CalmBelow(n)' \/ ~scope'[scope'[n].parent].cancelled
             PROVE  Tracked(n)'
  BY DEF Attended
<1>1. CASE n \in Scopes
  <2>1. ChildOnly(n)
    BY <1>1, ModesAfter DEF ChildOnly
  <2>2. n # Root /\ scope'[n].parent = scope[n].parent /\ scope[n].parent \in Scopes
    <3>1. scope'[n].parent = scope[n].parent
      BY <1>1 DEF Goes, Grows
    <3> QED
      BY <1>1, <2>1, <3>1, TreeOf DEF ChildOnly
  <2>3. CalmBelow(n) \/ ~scope'[scope[n].parent].cancelled
    BY <2>2, CalmFrom
  <2>4. CalmBelow(n) \/ ~scope[scope[n].parent].cancelled
    BY <2>2, <2>3, StillCancelled
  <2>5. Tracked(n)
    BY <1>1, <2>1, <2>4 DEF Attended
  <2> QED
    BY <1>1, <2>1, <2>5, TrackedKept
<1>2. CASE n \notin Scopes
  <2>1. Arrives(t, n)
    BY <1>2 DEF Goes, Arrivals
  <2>2. ~scope'[scope'[n].parent].cancelled
    BY <1>2, CalmFrom
  <2>3. Kept(n)'
    BY <2>1 DEF Arrives, Kept
  <2>4. ASSUME NEW u \in Scopes', NEW k \in 1..Len(Calls(u)'),
               Calls(u)'[k].scope = scope'[n].parent, Calls(u)'[k].pc = "closing"
        PROVE  FALSE
    <3>1. Passed(u, k)'
      BY <2>4 DEF Passed, Past
    <3>2. scope'[Calls(u)'[k].scope].cancelled
      BY <3>1 DEF ClosersCancel
    <3> QED
      BY <2>2, <2>4, <3>2
  <2>5. \A u \in Scopes' : \A k \in 1..Len(Calls(u)') : Visited(n, u, k)'
    BY <2>4 DEF Visited
  <2> QED
    BY <2>3, <2>5 DEF Tracked
<1> QED
  BY <1>1, <1>2

(* A cancel that finds its scope cancelled, or cancels it, is done for.    *)
LEMMA CancelStays ==
  ASSUME IndInv, NEW t, NEW j, NEW e, NEW f, NEW g, Goes(t, j, e, f, g), CancelGoes(t),
         NEW n \in Scopes, scope[n].cancelled \/ FrameAt(n, {"cancel"})
  PROVE  scope'[n].cancelled \/ FrameAt(n, {"cancel"})'
<1>1. CASE scope[n].cancelled
  BY <1>1, StillCancelled
<1>2. CASE FrameAt(n, {"cancel"})
  <2>1. PICK pcs : pcs = {"cancel"}
    OBVIOUS
  <2>2. FrameAt(n, pcs)' \/ (Here(t) = n /\ \E pc \in pcs : At(t, pc))
    BY <1>2, <2>1, FrameStays
  <2>3. FrameAt(n, {"cancel"})' \/ (Here(t) = n /\ At(t, "cancel"))
    BY <2>1, <2>2
  <2> QED
    BY <2>3, StillCancelled
<1> QED
  BY <1>1, <1>2

(* What is left of a copy once its first has been visited.                 *)
LEMMA InTail ==
  ASSUME NEW S, NEW l \in Seq(S), NEW x, In(x, l)
  PROVE  l # <<>> /\ (x # Head(l) => In(x, Tail(l)))
<1>1. PICK a \in 1..Len(l) : l[a] = x
  BY DEF In
<1>2. l # <<>>
  BY <1>1
<1>3. ASSUME x # Head(l) PROVE In(x, Tail(l))
  <2>1. a # 1 /\ a - 1 \in 1..Len(Tail(l)) /\ Tail(l)[a - 1] = l[a]
    BY <1>1, <1>2, <1>3
  <2> QED
    BY <1>1, <2>1 DEF In
<1> QED
  BY <1>2, <1>3

(* The cancel of the parent reaches its children: it will ask and copy     *)
(* them, has copied them, or has come to them.                             *)
LEMMA ReachingKept ==
  ASSUME IndInv, Tree, IndInv', Tree', ClosedCancels, Attended, Reaching,
         NEW t, NEW j, NEW e, NEW f, NEW g, Goes(t, j, e, f, g), CancelGoes(t), silent' = silent
  PROVE  Reaching'
<1> SUFFICES ASSUME NEW n \in Scopes', ChildOnly(n)', CalmBelow(n)',
                    NEW p, p = scope'[n].parent, scope'[p].cancelled, p \notin silent
             PROVE  \/ scope'[n].cancelled \/ FrameAt(n, {"cancel"})'
                    \/ FrameAt(p, {"ask", "asking"})'
                    \/ Descending(n, p)'
  BY DEF Reaching
<1>1. n \in Scopes
  BY CalmFrom
<1>2. ChildOnly(n) /\ n # Root
  BY <1>1, ModesAfter DEF ChildOnly
<1>3. p = scope[n].parent /\ p \in Scopes
  <2>1. scope'[n].parent = scope[n].parent
    BY <1>1 DEF Goes, Grows
  <2> QED
    BY <1>1, <2>1, TreeOf
<1>4. CalmBelow(n)
  BY <1>2, <1>3, CalmFrom
<1>5. Turns(t)
  BY DEF CancelGoes
<1>6. ASSUME NEW pc, pc \in {"ask", "asking"}, FrameAt(p, {pc})'
      PROVE  FrameAt(p, {"ask", "asking"})'
  BY <1>6 DEF FrameAt
<1>7. CASE ~scope[p].cancelled
  <2>1. At(t, "cancel") /\ Here(t) = p
    BY <1>3, <1>7, StillCancelled
  <2>2. Turned(t, "ask", <<>>)
    BY <1>5, <1>7, <2>1 DEF Turns
  <2>3. FrameAt(p, {"ask"})'
    BY <2>1, <2>2, TurnedAt
  <2> QED
    BY <1>6, <2>3
<1>8. CASE scope[n].cancelled \/ FrameAt(n, {"cancel"})
  BY <1>1, <1>8, CancelStays
<1>9. CASE FrameAt(p, {"ask", "asking"})
  <2>1. PICK pcs : pcs = {"ask", "asking"}
    OBVIOUS
  <2>2. FrameAt(p, pcs)' \/ (Here(t) = p /\ \E pc \in pcs : At(t, pc))
    BY <1>9, <2>1, FrameStays
  <2>3. \/ FrameAt(p, {"ask", "asking"})'
        \/ Here(t) = p /\ (At(t, "ask") \/ At(t, "asking"))
    BY <2>1, <2>2
  <2>4. CASE Here(t) = p /\ At(t, "ask")
    <3>1. PICK l : l = Reverse(scope[p].resource)
      OBVIOUS
    <3>2. Turned(t, "asking", l)
      BY <1>5, <2>4, <3>1 DEF Turns
    <3>3. FrameAt(p, {"asking"})'
      BY <2>4, <3>2, TurnedAt
    <3> QED
      BY <1>6, <3>3
  <2>5. CASE Here(t) = p /\ At(t, "asking") /\ Todo(t) # <<>>
    <3>1. PICK l : l = Tail(Todo(t))
      OBVIOUS
    <3>2. Turned(t, "asking", l)
      BY <1>5, <2>5, <3>1 DEF Turns
    <3>3. FrameAt(p, {"asking"})'
      BY <2>5, <3>2, TurnedAt
    <3> QED
      BY <1>6, <3>3
  <2>6. CASE Here(t) = p /\ At(t, "asking") /\ Todo(t) = <<>>
    <3>1. PICK l : l = scope[p].children
      OBVIOUS
    <3>2. Turned(t, "descend", l)
      BY <1>5, <2>6, <3>1 DEF Turns
    <3>3. (\E k \in 1..Len(Calls(t)') : Calls(t)'[k] = Frame(p, "descend", l)) /\ t \in Scopes'
      BY <2>6, <3>2, TurnedHere
    <3>4. CASE In(n, l)
      <4>1. PICK k \in 1..Len(Calls(t)') : Calls(t)'[k] = Frame(p, "descend", l)
        BY <3>3
      <4>2. Calls(t)'[k].scope = p /\ Calls(t)'[k].pc = "descend" /\ In(n, Calls(t)'[k].todo)
        BY <3>4, <4>1 DEF Frame
      <4> QED
        BY <3>3, <4>2 DEF Descending
    <3>5. CASE ~In(n, l)
      <4>1. Kept(n)
        BY <1>1, <1>2, <1>4 DEF Attended, Tracked
      <4>2. scope[n].closed
        BY <1>3, <3>1, <3>5, <4>1 DEF Kept
      <4>3. scope[n].cancelled \/ FrameAt(n, {"cancel"})
        BY <1>1, <4>2 DEF ClosedCancels
      <4> QED
        BY <1>1, <4>3, CancelStays
    <3> QED
      BY <3>4, <3>5
  <2> QED
    BY <2>3, <2>4, <2>5, <2>6
<1>10. CASE Descending(n, p)
  <2>1. PICK u \in Scopes : \E k \in 1..Len(Calls(u)) :
        Calls(u)[k].scope = p /\ Calls(u)[k].pc = "descend" /\ In(n, Calls(u)[k].todo)
    BY <1>10 DEF Descending
  <2>2. PICK k \in 1..Len(Calls(u)) :
        Calls(u)[k].scope = p /\ Calls(u)[k].pc = "descend" /\ In(n, Calls(u)[k].todo)
    BY <2>1
  <2>3. CASE u \in Scopes' /\ k \in 1..Len(Calls(u)') /\ Calls(u)'[k] = Calls(u)[k]
    <3>1. Calls(u)'[k].scope = p /\ Calls(u)'[k].pc = "descend" /\ In(n, Calls(u)'[k].todo)
      BY <2>2, <2>3
    <3> QED
      BY <2>3, <3>1 DEF Descending
  <2>4. CASE u = t /\ TopCall(t, k)
    <3>1. At(t, "descend") /\ Here(t) = p /\ In(n, Todo(t))
      BY <2>2, <2>4 DEF TopCall, At
    <3>2. PICK l : l = Todo(t)
      OBVIOUS
    <3>3. l \in Seq(Scopes) /\ In(n, l)
      <4>1. Calls(u)[k].pc # "asking"
        BY <2>2
      <4>2. Calls(u)[k].todo \in Seq(Scopes)
        BY <2>1, <2>2, <4>1, CallTyped DEF IndInv
      <4> QED
        BY <2>4, <3>1, <3>2, <4>2 DEF TopCall
    <3>4. l # <<>> /\ (n # Head(l) => In(n, Tail(l)))
      BY <3>3, InTail
    <3>5. PICK r, h : r = Tail(l) /\ h = Head(l)
      OBVIOUS
    <3>6. /\ Turned(t, "descend", r) /\ Depth(t) + 1 \in 1..Len(Calls(t)')
          /\ Calls(t)'[Depth(t) + 1] = Frame(h, "cancel", <<>>)
      BY <1>5, <3>1, <3>2, <3>4, <3>5 DEF Turns
    <3>7. (\E m \in 1..Len(Calls(t)') : Calls(t)'[m] = Frame(p, "descend", r)) /\ t \in Scopes'
      BY <3>1, <3>6, TurnedHere
    <3>8. CASE n # h
      <4>1. In(n, r)
        BY <3>4, <3>5, <3>8
      <4>2. PICK m \in 1..Len(Calls(t)') : Calls(t)'[m] = Frame(p, "descend", r)
        BY <3>7
      <4>3. Calls(t)'[m].scope = p /\ Calls(t)'[m].pc = "descend" /\ In(n, Calls(t)'[m].todo)
        BY <4>1, <4>2 DEF Frame
      <4> QED
        BY <3>7, <4>3 DEF Descending
    <3>9. CASE n = h
      <4>1. PICK m \in 1..Len(Calls(t)') : Calls(t)'[m] = Frame(h, "cancel", <<>>)
        BY <3>6
      <4>2. Calls(t)'[m].scope = n /\ Calls(t)'[m].pc \in {"cancel"}
        BY <3>9, <4>1 DEF Frame
      <4> QED
        BY <3>7, <4>2 DEF FrameAt
    <3> QED
      BY <3>8, <3>9
  <2> QED
    BY <2>2, <2>3, <2>4, CallsBefore
<1> QED
  BY <1>1, <1>2, <1>3, <1>4, <1>7, <1>8, <1>9, <1>10 DEF Reaching

(* A cancelled scope will copy its registry, or asks what is in the copy.  *)
LEMMA ReachedKept ==
  ASSUME IndInv, Tree, Listed, Reached,
         NEW t, NEW j, NEW e, NEW f, NEW g, Goes(t, j, e, f, g), CancelGoes(t), silent' = silent
  PROVE  Reached'
<1> SUFFICES ASSUME NEW i \in Items', item'[i].calm, item'[i].kind = "resource",
                    item'[i].status = "held", NEW s, s = item'[i].scope,
                    scope'[s].cancelled, s \notin silent, item'[i].asked = 0
             PROVE  FrameAt(s, {"ask"})' \/ AskingFor(i)'
  BY DEF Reached
<1>1. s \in Scopes
  BY ItemScope
<1>2. i \in Items
  <2>1. SUFFICES ASSUME i \notin Items PROVE FALSE
    OBVIOUS
  <2>2. \A a \in Above(item'[i].scope) : ~scope'[a].cancelled
    BY <2>1, ItemsAfter
  <2>3. \A a \in Above(s) : ~scope'[a].cancelled
    BY <2>2
  <2>4. Line(s)
    BY <1>1, Lines
  <2> QED
    BY <2>3, <2>4 DEF Line
<1>3. /\ item[i].calm /\ item[i].kind = "resource" /\ item[i].status = "held"
      /\ item[i].scope = s
  BY <1>2, ItemsAfter
<1>4. item[i].asked \in Nat /\ (~AsksFor(t, i) => item'[i].asked = item[i].asked)
      /\ (AsksFor(t, i) => item'[i].asked = item[i].asked + 1)
  BY <1>2, ItemTypes, ItemsAfter
<1>5. ~AsksFor(t, i)
  <2>1. item'[i].asked # item[i].asked + 1
    BY <1>4
  <2> QED
    BY <1>4, <2>1
<1>6. item[i].asked = 0
  BY <1>4, <1>5
<1>7. Turns(t)
  BY DEF CancelGoes
<1>8. ASSUME NEW l, In(i, l), Turned(t, "asking", l) PROVE AskingFor(i)'
  <2>1. PICK h : h = Here(t)
    OBVIOUS
  <2>2. (\E k \in 1..Len(Calls(t)') : Calls(t)'[k] = Frame(h, "asking", l)) /\ t \in Scopes'
    BY <1>8, <2>1, TurnedHere
  <2>3. PICK k \in 1..Len(Calls(t)') : Calls(t)'[k] = Frame(h, "asking", l)
    BY <2>2
  <2>4. Calls(t)'[k].pc = "asking" /\ In(i, Calls(t)'[k].todo)
    BY <1>8, <2>3 DEF Frame
  <2> QED
    BY <2>2, <2>4 DEF AskingFor
<1>9. CASE ~scope[s].cancelled
  <2>1. At(t, "cancel") /\ Here(t) = s
    BY <1>1, <1>9, StillCancelled
  <2>2. Turned(t, "ask", <<>>)
    BY <1>7, <1>9, <2>1 DEF Turns
  <2> QED
    BY <2>1, <2>2, TurnedAt
<1>10. CASE FrameAt(s, {"ask"})
  <2>1. PICK pcs : pcs = {"ask"}
    OBVIOUS
  <2>2. FrameAt(s, pcs)' \/ (Here(t) = s /\ \E pc \in pcs : At(t, pc))
    BY <1>10, <2>1, FrameStays
  <2>3. FrameAt(s, {"ask"})' \/ (Here(t) = s /\ At(t, "ask"))
    BY <2>1, <2>2
  <2>4. CASE Here(t) = s /\ At(t, "ask")
    <3>1. PICK l, r : l = scope[s].resource /\ r = Reverse(l)
      OBVIOUS
    <3>2. Turned(t, "asking", r)
      BY <1>7, <2>4, <3>1 DEF Turns
    <3>3. In(i, l) /\ l \in Seq(Items)
      <4>1. In(i, ListOf(i))
        BY <1>2, <1>3 DEF Listed
      <4>2. scope[s].resource \in Seq(Items)
        BY <1>1, ListsAfter
      <4> QED
        BY <1>3, <3>1, <4>1, <4>2 DEF ListOf
    <3>4. In(i, r)
      BY <3>1, <3>3, InReverse
    <3> QED
      BY <1>8, <3>2, <3>4
  <2> QED
    BY <2>3, <2>4
<1>11. CASE AskingFor(i)
  <2>1. PICK u \in Scopes : \E k \in 1..Len(Calls(u)) :
        Calls(u)[k].pc = "asking" /\ In(i, Calls(u)[k].todo)
    BY <1>11 DEF AskingFor
  <2>2. PICK k \in 1..Len(Calls(u)) : Calls(u)[k].pc = "asking" /\ In(i, Calls(u)[k].todo)
    BY <2>1
  <2>3. CASE u \in Scopes' /\ k \in 1..Len(Calls(u)') /\ Calls(u)'[k] = Calls(u)[k]
    <3>1. Calls(u)'[k].pc = "asking" /\ In(i, Calls(u)'[k].todo)
      BY <2>2, <2>3
    <3> QED
      BY <2>3, <3>1 DEF AskingFor
  <2>4. CASE u = t /\ TopCall(t, k)
    <3>1. At(t, "asking") /\ In(i, Todo(t)) /\ Todo(t) = Calls(u)[k].todo
      BY <2>2, <2>4 DEF TopCall, At
    <3>2. PICK l : l = Todo(t)
      OBVIOUS
    <3>3. l \in Seq(Items) /\ In(i, l)
      <4>1. Calls(u)[k].todo \in Seq(Items)
        BY <2>1, <2>2, CallTyped DEF IndInv
      <4> QED
        BY <3>1, <3>2, <4>1
    <3>4. l # <<>> /\ (i # Head(l) => In(i, Tail(l)))
      BY <3>3, InTail
    <3>5. PICK r : r = Tail(l)
      OBVIOUS
    <3>6. Turned(t, "asking", r)
      BY <1>7, <3>1, <3>2, <3>4, <3>5 DEF Turns
    <3>7. i # Head(l)
      BY <1>5, <3>1, <3>2, <3>4 DEF AsksFor
    <3> QED
      BY <1>8, <3>4, <3>5, <3>6, <3>7
  <2> QED
    BY <2>2, <2>3, <2>4, CallsBefore
<1> QED
  BY <1>2, <1>3, <1>6, <1>9, <1>10, <1>11 DEF Reached

(* The root scope is not cancelled, and nobody cancels it.                 *)
LEMMA CancellationInit == Init => Cancellation
<1> SUFFICES ASSUME Init PROVE Cancellation
  OBVIOUS
<1>1. /\ scope = <<NewScope(Root, Root, TRUE)>> /\ item = <<>>
      /\ thread = <<[mode |-> "body", home |-> Root, calls |-> <<>>]>>
  BY DEF Init
<1>2. /\ scope[1] = NewScope(Root, Root, TRUE) /\ Len(scope) = 1
      /\ thread[1] = [mode |-> "body", home |-> Root, calls |-> <<>>]
      /\ Len(item) = 0
  BY <1>1
<1>3. Scopes = {Root} /\ Items = {}
  BY <1>2 DEF Scopes, Items, Root
<1>4. ~scope[Root].closed
  BY <1>2 DEF NewScope, Root
<1>5. \A u \in Scopes : Calls(u) = <<>>
  BY <1>2, <1>3 DEF Root, Calls
<1>6. \A u \in Scopes : 1..Len(Calls(u)) = {}
  BY <1>5
<1>7. OneAsker /\ Askers /\ ClosersCancel /\ Copies
  BY <1>6 DEF OneAsker, Askers, ClosersCancel, Copies
<1>8. Asked /\ Reached
  BY <1>3 DEF Asked, Reached
<1>9. ClosedCancels
  BY <1>3, <1>4 DEF ClosedCancels
<1>10. Attended /\ Reaching
  BY <1>3 DEF Attended, Reaching, ChildOnly
<1> QED
  BY <1>7, <1>8, <1>9, <1>10 DEF Cancellation

(* A step of a thread keeps it.                                            *)
LEMMA CancellationKept ==
  ASSUME IndInv, Protocol, IndInv', Protocol', Cancellation, silent' = silent,
         NEW t, NEW j, NEW e, NEW f, NEW g, Goes(t, j, e, f, g), CancelGoes(t)
  PROVE  Cancellation'
<1>1. Tree /\ Chains /\ Lists /\ Listed /\ Tree'
  BY DEF Protocol
<1>2. /\ OneAsker /\ Askers /\ ClosersCancel /\ Copies /\ Asked
      /\ ClosedCancels /\ Attended /\ Reaching /\ Reached
  BY DEF Cancellation
<1>3. Askers'
  BY <1>2, AskersKept
<1>4. OneAsker'
  BY <1>2, OneAskerKept
<1>5. ClosersCancel'
  BY <1>1, <1>2, ClosersCancelKept
<1>6. Copies'
  BY <1>1, <1>2, CopiesKept
<1>7. Asked'
  BY <1>2, <1>4, AskedKept
<1>8. ClosedCancels'
  BY <1>2, ClosedCancelsKept
<1>9. Attended'
  BY <1>1, <1>2, <1>5, AttendedKept
<1>10. Reaching'
  BY <1>1, <1>2, ReachingKept
<1>11. Reached'
  BY <1>1, <1>2, ReachedKept
<1> QED
  BY <1>3, <1>4, <1>5, <1>6, <1>7, <1>8, <1>9, <1>10, <1>11 DEF Cancellation

(* So does a step of no thread, that sets at most the token of a scope: a  *)
(* cancel that stops there reaches nothing, and is not said to.            *)
Quietly(s) ==
    /\ UNCHANGED <<thread, item, stalled>> /\ Only(s, "cancelled")
    /\ silent \subseteq silent'
    /\ \A n \in Scopes :
         /\ scope[n].cancelled => scope'[n].cancelled
         /\ scope'[n].cancelled /\ n \notin silent' => scope[n].cancelled
LEMMA CancellationStays ==
  ASSUME IndInv, Protocol, IndInv', Protocol', Cancellation, NEW r, Quietly(r)
  PROVE  Cancellation'
<1>1. /\ thread' = thread /\ item' = item /\ silent \subseteq silent'
      /\ Only(r, "cancelled")
  BY DEF Quietly
<1>2. /\ Scopes' = Scopes /\ Items' = Items
      /\ \A u : Calls(u)' = Calls(u)
  BY <1>1 DEF Scopes, Items, Calls, Only
<1>3. \A n \in Scopes : /\ scope'[n].parent = scope[n].parent
                        /\ scope'[n].closed = scope[n].closed
                        /\ scope'[n].children = scope[n].children
                        /\ scope[n].cancelled => scope'[n].cancelled
                        /\ scope'[n].cancelled /\ n \notin silent' => scope[n].cancelled
  BY DEF Quietly, Only, Fields
<1>4. \A s \in Scopes : Above(s)' = Above(s)
  <2>1. Tree /\ Tree'
    BY DEF Protocol
  <2>2. Grows
    <3>1. PICK x : x = "cancelled"
      OBVIOUS
    <3>2. Only(r, x) /\ x \notin {"parent", "opener"} /\ ThreadsStay
      BY <1>1, <3>1 DEF ThreadsStay
    <3> QED
      BY <3>2, GrowsOnly
  <2> QED
    BY <2>1, <2>2, AboveKept
<1>5. \A n : CalmBelow(n)' <=> CalmBelow(n)
  BY <1>1, <1>2, <1>4 DEF CalmBelow
<1>6. \A s, pcs : FrameAt(s, pcs)' <=> FrameAt(s, pcs)
  BY <1>2 DEF FrameAt
<1>7. \A u \in Scopes : \A k \in 1..Len(Calls(u)) : Calls(u)[k].scope \in Scopes
  BY CallTyped DEF IndInv
<1>8. OneAsker' /\ Askers' /\ ClosersCancel' /\ Copies'
  <2>1. /\ OneAsker /\ Askers /\ ClosersCancel /\ Copies
    BY DEF Cancellation
  <2>2. OneAsker'
    BY <1>2, <2>1 DEF OneAsker
  <2>3. Askers'
    BY <1>2, <1>3, <1>7, <2>1 DEF Askers
  <2>4. ClosersCancel'
    <3>1. \A u, k : Passed(u, k)' => Passed(u, k)
      BY <1>2 DEF Passed
    <3> QED
      BY <1>2, <1>3, <1>7, <2>1, <3>1 DEF ClosersCancel
  <2>5. Copies'
    <3>1. \A f : Copied(f) => Copied(f)'
      BY <1>1 DEF Copied
    <3> QED
      BY <1>2, <2>1, <3>1 DEF Copies
  <2> QED
    BY <2>2, <2>3, <2>4, <2>5
<1>9. \A i \in Items : item[i].scope \in Scopes
  BY ItemTypes
<1>10. Asked' /\ ClosedCancels' /\ Reached'
  <2>1. Asked /\ ClosedCancels /\ Reached
    BY DEF Cancellation
  <2>2. Asked'
    <3> SUFFICES ASSUME NEW i \in Items
                 PROVE  /\ item[i].asked <= 1
                        /\ ~scope'[item[i].scope].cancelled \/ FrameAt(item[i].scope, {"ask"})' =>
                             item[i].asked = 0
      BY <1>1, <1>2, <1>6 DEF Asked
    <3>1. item[i].asked <= 1
      BY <2>1 DEF Asked
    <3>2. scope[item[i].scope].cancelled => scope'[item[i].scope].cancelled
      BY <1>3, <1>9
    <3>3. FrameAt(item[i].scope, {"ask"})' <=> FrameAt(item[i].scope, {"ask"})
      BY <1>1, <1>6
    <3>4. ~scope[item[i].scope].cancelled \/ FrameAt(item[i].scope, {"ask"}) => item[i].asked = 0
      BY <2>1 DEF Asked
    <3> QED
      BY <3>1, <3>2, <3>3, <3>4
  <2>3. ClosedCancels'
    BY <1>2, <1>3, <1>6, <2>1 DEF ClosedCancels
  <2>4. Reached'
    <3>1. \A i : AskingFor(i)' <=> AskingFor(i)
      BY <1>2 DEF AskingFor
    <3> SUFFICES ASSUME NEW i \in Items, item[i].calm, item[i].kind = "resource",
                        item[i].status = "held", scope'[item[i].scope].cancelled,
                        item[i].scope \notin silent', item[i].asked = 0
                 PROVE  FrameAt(item[i].scope, {"ask"})' \/ AskingFor(i)'
      BY <1>1, <1>2, <1>6 DEF Reached
    <3>2. scope[item[i].scope].cancelled /\ item[i].scope \notin silent
      BY <1>1, <1>3, <1>9
    <3>3. FrameAt(item[i].scope, {"ask"}) \/ AskingFor(i)
      BY <2>1, <3>2 DEF Reached
    <3>4. FrameAt(item[i].scope, {"ask"})' <=> FrameAt(item[i].scope, {"ask"})
      BY <1>1, <1>6
    <3> QED
      BY <3>1, <3>3, <3>4
  <2> QED
    BY <2>2, <2>3, <2>4
<1>11. Attended' /\ Reaching'
  <2>1. Attended /\ Reaching
    BY DEF Cancellation
  <2>2. \A n : ChildOnly(n)' <=> ChildOnly(n)
    BY <1>1, <1>2 DEF ChildOnly
  <2>3. \A n \in Scopes : ChildOnly(n) => scope[n].parent \in Scopes
    BY TreeOf DEF Protocol, ChildOnly
  <2>4. Attended'
    <3>1. \A n \in Scopes : ChildOnly(n) /\ Tracked(n) => Tracked(n)'
      BY <1>1, <1>2, <1>3, <2>3 DEF Tracked, Kept, Visited
    <3> SUFFICES ASSUME NEW n \in Scopes, ChildOnly(n),
                        CalmBelow(n) \/ ~scope'[scope[n].parent].cancelled
                 PROVE  Tracked(n)'
      BY <1>2, <1>3, <1>5, <2>2 DEF Attended
    <3>2. CalmBelow(n) \/ ~scope[scope[n].parent].cancelled
      BY <1>3, <2>3
    <3>3. Tracked(n)
      BY <2>1, <3>2 DEF Attended
    <3> QED
      BY <3>1, <3>3
  <2>5. Reaching'
    <3>1. \A n, p : Descending(n, p)' <=> Descending(n, p)
      BY <1>2 DEF Descending
    <3> SUFFICES ASSUME NEW n \in Scopes', ChildOnly(n)', CalmBelow(n)',
                        NEW p, p = scope'[n].parent, scope'[p].cancelled,
                        p \notin silent'
                 PROVE  \/ scope'[n].cancelled \/ FrameAt(n, {"cancel"})'
                        \/ FrameAt(p, {"ask", "asking"})'
                        \/ Descending(n, p)'
      BY DEF Reaching
    <3>2. n \in Scopes /\ ChildOnly(n) /\ CalmBelow(n) /\ p = scope[n].parent
      BY <1>2, <1>3, <1>5, <2>2
    <3>3. scope[p].cancelled /\ p \notin silent
      BY <1>1, <1>3, <2>3, <3>2
    <3>4. \/ scope[n].cancelled \/ FrameAt(n, {"cancel"})
          \/ FrameAt(p, {"ask", "asking"}) \/ Descending(n, p)
      BY <2>1, <3>2, <3>3 DEF Reaching
    <3> QED
      BY <1>3, <1>6, <3>1, <3>2, <3>4
  <2> QED
    BY <2>4, <2>5
<1> QED
  BY <1>8, <1>10, <1>11 DEF Cancellation

(* The cancellations, in every step of every program.                      *)
LEMMA CancellationKeeps ==
  IndInv /\ Protocol /\ Cancellation /\ IndInv' /\ Protocol' /\ [Next]_vars => Cancellation'
<1> SUFFICES ASSUME IndInv, Protocol, Cancellation, IndInv', Protocol', [Next]_vars
             PROVE  Cancellation'
  OBVIOUS
<1>1. CASE UNCHANGED vars
  <2>1. scope' = scope /\ UNCHANGED <<thread, item, stalled>> /\ silent' = silent
    BY <1>1 DEF vars
  <2>2. PICK r : r = Root
    OBVIOUS
  <2>3. Only(r, "cancelled")
    BY <2>1, NoneSet
  <2>4. Quietly(r)
    BY <2>1, <2>3 DEF Quietly
  <2> QED
    BY <2>4, CancellationStays
<1>2. ASSUME NEW t \in Scopes, Turn(t) PROVE Cancellation'
  <2>1. (Body(t) \/ Step(t)) /\ silent' = silent
    BY <1>2 DEF Turn
  <2>2. Went(t)
    BY <2>1, TurnGoes
  <2>3. CancelGoes(t)
    BY <2>1, TurnCancels
  <2>4. PICK j, e, f, g : Goes(t, j, e, f, g)
    BY <2>2 DEF Went
  <2> QED
    BY <2>1, <2>3, <2>4, CancellationKept
<1>3. ASSUME NEW s \in Scopes, CancelToken(s) PROVE Cancellation'
  <2>1. /\ UNCHANGED <<thread, item, stalled>> /\ Only(s, "cancelled")
        /\ scope'[s].cancelled /\ silent' = silent \cup {s}
    BY <1>3, TokenSet
  <2>2. \A n \in Scopes \ {s} : scope'[n].cancelled = scope[n].cancelled
    BY <2>1 DEF Only, Fields
  <2>3. Quietly(s)
    BY <2>1, <2>2 DEF Quietly
  <2> QED
    BY <2>3, CancellationStays
<1> QED
  BY <1>1, <1>2, <1>3 DEF Next

(* Nothing above a scope was made after it.                                *)
LEMMA AboveOlder ==
  ASSUME IndInv, Tree, NEW s \in Scopes
  PROVE  \A a \in Above(s) : a \in Nat /\ a <= s
<1> DEFINE Older(n) == \A a \in Above(n) : a \in Nat /\ a <= n
           T == {n \in Scopes : Older(n)}
<1>0. Scopes \subseteq Nat
  BY DEF Scopes
<1>1. ASSUME NEW n \in Scopes, \A m \in Scopes : m < n => m \in T
      PROVE  n \in T
  <2>1. Above(n) = Chain(n)
    BY AboveIs DEF Chained
  <2>2. CASE n = Root
    BY <1>0, <2>1, <2>2 DEF Chain
  <2>3. CASE n # Root
    <3>1. PICK p : p = scope[n].parent
      OBVIOUS
    <3>2. p \in Scopes /\ p < n
      BY <2>3, <3>1, MadeAfter
    <3>3. Older(p)
      BY <1>1, <3>2
    <3>4. Above(n) = {n} \cup Above(p)
      BY <2>1, <2>3, <3>1 DEF Chain
    <3>5. ASSUME NEW a \in Above(n) PROVE a \in Nat /\ a <= n
      <4>1. CASE a = n
        BY <1>0, <4>1
      <4>2. CASE a \in Above(p)
        <5>1. a \in Nat /\ a <= p /\ p \in Nat /\ n \in Nat
          BY <1>0, <3>2, <3>3, <4>2
        <5> QED
          BY <3>2, <5>1
      <4> QED
        BY <3>4, <4>1, <4>2
    <3> QED
      BY <3>5
  <2> QED
    BY <2>2, <2>3
<1>2. Scopes \subseteq T
  <2> HIDE DEF T
  <2> QED
    BY <1>1, ByCreation
<1> QED
  BY <1>2

(* When nobody cancels, what is below a cancelled scope and has calm items *)
(* was cancelled with it, if no token alone was on the way: from the       *)
(* cancelled scope down, parent by parent.                                 *)
LEMMA CancelledDown ==
  ASSUME IndInv, Tree, Reaching,
         \A u \in Scopes : \A k \in 1..Len(Calls(u)) : Calls(u)[k].pc \notin CancelPcs,
         NEW s \in Scopes, Childlike(s), NEW i \in Items, item[i].calm, item[i].scope = s,
         NEW a, Cancelled(a, s)
  PROVE  scope[s].cancelled /\ s \notin silent
<1>1. Line(s) /\ a \in Above(s) /\ scope[a].cancelled
  BY Lines DEF Cancelled
<1>2. ASSUME NEW n \in Scopes, n \in Above(s), a \in Above(n) PROVE n \notin silent
  <2>1. a \in Nat /\ n \in Nat /\ a <= n
    BY <1>2, AboveOlder DEF Scopes
  <2>2. n \in silent => n < a
    BY <1>2 DEF Cancelled
  <2> QED
    BY <2>1, <2>2
<1> DEFINE T == {n \in Scopes : n \in Above(s) /\ a \in Above(n) => scope[n].cancelled}
<1>3. ASSUME NEW n \in Scopes, \A m \in Scopes : m < n => m \in T,
             n \in Above(s), a \in Above(n)
      PROVE  scope[n].cancelled
  <2>1. Above(n) = Chain(n)
    BY <1>3, AboveIs DEF Chained
  <2>2. CASE n = a
    BY <1>1, <2>2
  <2>3. CASE n # a
    <3>1. n # Root /\ a \in Above(scope[n].parent)
      BY <1>3, <2>1, <2>3 DEF Chain
    <3>2. PICK p : p = scope[n].parent
      OBVIOUS
    <3>3. p \in Scopes /\ p < n /\ p \in Above(s)
      BY <1>1, <1>3, <3>1, <3>2, TreeOf DEF Line
    <3>4. scope[p].cancelled /\ p \notin silent
      BY <1>2, <1>3, <3>1, <3>2, <3>3
    <3>5. ChildOnly(n)
      BY <1>1, <1>3, <3>1 DEF Line, Childlike, ChildOnly
    <3>6. CalmBelow(n)
      BY <1>3 DEF CalmBelow
    <3>7. \/ scope[n].cancelled \/ FrameAt(n, {"cancel"})
          \/ FrameAt(p, {"ask", "asking"}) \/ Descending(n, p)
      BY <1>3, <3>2, <3>4, <3>5, <3>6 DEF Reaching
    <3>8. \A u \in Scopes : \A k \in 1..Len(Calls(u)) :
             Calls(u)[k].pc \notin {"cancel", "ask", "asking", "descend"}
      BY DEF CancelPcs
    <3>9. ~FrameAt(n, {"cancel"}) /\ ~FrameAt(p, {"ask", "asking"}) /\ ~Descending(n, p)
      BY <3>8 DEF FrameAt, Descending
    <3> QED
      BY <3>7, <3>9
  <2> QED
    BY <2>2, <2>3
<1>4. \A n \in Scopes : (\A m \in Scopes : m < n => m \in T) => n \in T
  BY <1>3
<1> HIDE DEF T
<1>5. Scopes \subseteq T
  BY <1>4, ByCreation
<1>6. s \in T /\ s \in Above(s)
  BY <1>1, <1>5 DEF Line
<1> QED
  BY <1>1, <1>2, <1>6 DEF T

(* An item is registered in a scope of bodies, not in that of a task.      *)
LEMMA ItemsInChildren ==
  ASSUME IndInv, Tree, Listed, NEW i \in Items
  PROVE  item[i].scope \in Scopes /\ Childlike(item[i].scope)
<1>1. /\ item[i].scope \in Scopes /\ item[i].by \in Scopes
  BY ItemTypes
<1>2. /\ thread[item[i].by].mode \in Ran /\ thread[item[i].by].home = item[i].scope
  BY DEF Listed
<1>3. thread[item[i].by].mode # "none"
  BY <1>2 DEF Ran
<1>4. item[i].scope = scope[item[i].by].parent
  BY <1>1, <1>2, <1>3 DEF Tree
<1> QED
  BY <1>1, <1>4 DEF Tree, Childlike

(* What the properties say of cancels follows from where they stand.       *)
LEMMA CancelSoundHere == IndInv /\ Protocol /\ Cancellation => CancelSound
<1> SUFFICES ASSUME IndInv, Protocol, Cancellation PROVE CancelSound
  OBVIOUS
<1>1. Tree /\ Listed /\ Asked /\ Reaching /\ Reached
  BY DEF Protocol, Cancellation
<1>2. AskedAtMostOnce
  BY <1>1 DEF Asked, AskedAtMostOnce
<1>3. CancelReaches
  <2> SUFFICES ASSUME \A u \in Scopes : \A k \in 1..Len(Calls(u)) :
                        Calls(u)[k].pc \notin CancelPcs,
                      NEW i \in Items, item[i].kind = "resource", item[i].status = "held",
                      item[i].calm, NEW a \in Scopes, Cancelled(a, item[i].scope)
               PROVE  item[i].asked > 0
    BY DEF CancelReaches
  <2>1. item[i].scope \in Scopes /\ Childlike(item[i].scope)
    BY <1>1, ItemsInChildren
  <2>2. scope[item[i].scope].cancelled /\ item[i].scope \notin silent
    BY <1>1, <2>1, CancelledDown
  <2>3. \A u \in Scopes : \A k \in 1..Len(Calls(u)) : Calls(u)[k].pc \notin {"ask", "asking"}
    BY DEF CancelPcs
  <2>4. ~FrameAt(item[i].scope, {"ask"}) /\ ~AskingFor(i)
    BY <2>3 DEF FrameAt, AskingFor
  <2>5. item[i].asked # 0
    BY <1>1, <2>2, <2>4 DEF Reached
  <2>6. item[i].asked \in Nat
    BY ItemTypes
  <2> QED
    BY <2>5, <2>6
<1> QED
  BY <1>2, <1>3 DEF CancelSound

(* A cancel reaches every resource that was registered before it, in its   *)
(* scope and below as far as no token alone was cancelled, and asks each   *)
(* once (scope.rs:327-354, 942-957), however many threads cancel and close *)
(* the same scopes, in every execution.                                    *)
THEOREM CancelsAreSound == Spec => []CancelSound
<1>1. Spec => [](IndInv /\ Protocol)
  BY ProtocolHolds
<1> QED
  BY <1>1, CancellationInit, CancellationKeeps, CancelSoundHere, PTL DEF Spec
=============================================================================
